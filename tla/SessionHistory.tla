--------------------------- MODULE SessionHistory ---------------------------
(***************************************************************************)
(* The two session histories of a view: the host's (history_ of            *)
(* MbWebView, behind GoBack, GoForward, GoToOffset) and the page's         *)
(* (history_items_ of MbFrameClient, behind window.history).               *)
(*                                                                         *)
(* A commit does not say why it happened.  OnDidCommitMainFrame and        *)
(* RecordHistoryCommit tell a new navigation from a traversal, a reload or *)
(* a replacement by flags that the operation left in the two objects, and  *)
(* by URLs they compare.  This module follows those flags through          *)
(* operations that commit and operations that fail.  Two flags outlive the *)
(* operation that set them when it fails: what a history.back() left makes *)
(* the next commit a traversal, what a reload left makes a navigation to   *)
(* the URL of the current entry a reload.                                  *)
(*                                                                         *)
(* A visit is a number for a document a navigation brought; an entry of    *)
(* either history carries the visit it was made for, which the code does   *)
(* not know.                                                               *)
(***************************************************************************)
EXTENDS Integers, Sequences

CONSTANTS
  MaxUrls,         \* URLs are numbers
  MaxEntries,      \* kMaxHistoryEntries (50 in the code)
  MaxVisits        \* bound on navigations

VARIABLES
  entries, index,    \* history_, history_index_ (from 1; 0 is the code's -1)
  items, cursor,     \* history_items_ and its history_index_
  inHistoryNav,      \* in_history_nav_
  historyUrl,        \* pending_history_url_, or NoUrl
  reloading,         \* pending_reload_
  replacing,         \* pending_replace_history_
  suppressed,        \* suppress_history_record_
  shown,             \* the document shown: its URL and visit
  visits,            \* visits so far
  task,              \* the task in progress
  failed,            \* history: a page's traversal failed, and no commit has
                     \*   been taken for one since
  astray             \* history: the latest commit was misplaced

histories == <<failed, astray>>
vars == <<entries, index, items, cursor, inHistoryNav, historyUrl, reloading,
          replacing, suppressed, shown, visits, task, histories>>
flags == <<inHistoryNav, historyUrl, reloading, replacing, suppressed>>
lists == <<entries, index, items, cursor>>

Urls == 1..MaxUrls
NoUrl == 0
Entry(u, v) == [url |-> u, visit |-> v]
Idle == [kind |-> "idle", entry |-> Entry(NoUrl, 0), before |-> 0]
IsIdle == task.kind = "idle"
LastOf(list, n) == SubSeq(list, Len(list) - n + 1, Len(list))
Capped(list) == IF Len(list) > MaxEntries THEN LastOf(list, MaxEntries) ELSE list
Recorded(list, at, e) == Capped(Append(SubSeq(list, 1, at), e))
IndexOfUrl(list, u, otherwise) ==
  LET places == {i \in DOMAIN list : list[i].url = u}
  IN  IF places = {} THEN otherwise
      ELSE CHOOSE i \in places : \A j \in places : i <= j

Init ==
  /\ entries = <<>> /\ index = 0
  /\ items = <<>> /\ cursor = 0
  /\ inHistoryNav = FALSE /\ historyUrl = NoUrl
  /\ reloading = FALSE /\ replacing = FALSE /\ suppressed = FALSE
  /\ shown = Entry(NoUrl, 0)
  /\ visits = 0
  /\ task = Idle
  /\ failed = FALSE /\ astray = FALSE

-----------------------------------------------------------------------------
(***************************************************************************)
(* A standard commit of document e: OnDidCommitMainFrame, then the record  *)
(* of DidCommitNavigation.                                                 *)
(***************************************************************************)
IsTraversal == inHistoryNav
IsReload(e) == reloading /\ index \in DOMAIN entries /\ entries[index].url = e.url

HostRecords(e) ==
  IF IsTraversal
  THEN /\ inHistoryNav' = FALSE
       /\ index' = IF historyUrl = NoUrl THEN index
                   ELSE IndexOfUrl(entries, historyUrl, index)
       /\ historyUrl' = NoUrl
       /\ UNCHANGED <<entries, reloading>>
  ELSE /\ reloading' = FALSE
       /\ UNCHANGED <<inHistoryNav, historyUrl>>
       /\ IF IsReload(e)
          THEN UNCHANGED <<entries, index>>
          ELSE IF replacing /\ index \in DOMAIN entries
          THEN entries' = [entries EXCEPT ![index] = e] /\ UNCHANGED index
          ELSE /\ entries' = Recorded(entries, index, e)
               /\ index' = Len(entries')

(* What can be known of a commit by the flags and the URLs: it is taken    *)
(* for something else when a flag was left, or when the URL a page goes    *)
(* back to is not that of its own entry alone.                             *)
IsKnownByUrl(e) ==
  /\ \E i \in DOMAIN entries : entries[i] = e
  /\ \A i \in DOMAIN entries : entries[i].url = e.url => entries[i].visit = e.visit
IsCurrentUrl(e) == index # 0 /\ entries[index].url = e.url
IsMisplaced(e) ==
  \/ task.kind # "page_traverse" /\ failed
  \/ task.kind = "page_traverse" /\ ~IsKnownByUrl(e)
  \/ task.kind \in {"navigate", "replace"} /\ reloading /\ IsCurrentUrl(e)

PageRecords(e) ==
  IF suppressed
  THEN UNCHANGED <<items, cursor>>
  ELSE items' = Recorded(items, cursor, e) /\ cursor' = Len(items')

DidCommit(e) ==
  /\ HostRecords(e)
  /\ PageRecords(e)
  /\ shown' = e
  /\ UNCHANGED <<replacing, suppressed>>

-----------------------------------------------------------------------------
(***************************************************************************)
(* Operations.  Each sets its flags, loads, and takes back what it does.   *)
(***************************************************************************)
(* URLs up to MaxVisits are navigated to, new ones in turn; those above    *)
(* are pushed.                                                             *)
Reached(u) == visits < MaxVisits /\ u <= visits + 1

(* LoadURL, LoadHTML, a link of the page: a document nobody has seen, at a *)
(* URL that may have been shown before.                                    *)
Navigate(u) ==
  /\ IsIdle /\ Reached(u)
  /\ visits' = visits + 1
  /\ task' = [Idle EXCEPT !.kind = "navigate", !.entry = Entry(u, visits + 1)]
  /\ UNCHANGED <<lists, flags, shown, histories>>

(* LoadHTMLEx with add_to_history = false *)
Replace(u) ==
  /\ IsIdle /\ Reached(u)
  /\ visits' = visits + 1
  /\ replacing' = TRUE
  /\ task' = [Idle EXCEPT !.kind = "replace", !.entry = Entry(u, visits + 1)]
  /\ UNCHANGED <<lists, inHistoryNav, historyUrl, reloading, suppressed, shown,
                 histories>>

(* Reload of GetURL(), which pushState changes without the host's list.    *)
Reload ==
  /\ IsIdle /\ shown.visit # 0
  /\ reloading' = TRUE
  /\ task' = [Idle EXCEPT !.kind = "reload", !.entry = shown]
  /\ UNCHANGED <<lists, inHistoryNav, historyUrl, replacing, suppressed, shown,
                 visits, histories>>

(* TraverseHistory *)
HostTraverses(t) ==
  /\ IsIdle
  /\ t \in DOMAIN entries \ {index}
  /\ inHistoryNav' = TRUE
  /\ index' = t
  /\ suppressed' = TRUE
  /\ task' = [kind |-> "traverse", entry |-> entries[t], before |-> index]
  /\ UNCHANGED <<entries, items, cursor, historyUrl, reloading, replacing, shown,
                 visits, histories>>

(* GoToHistoryTarget: an entry of the document shown, or another one.      *)
(* Reloads, replacements and pushState make the two histories differ: the  *)
(* page's gets an entry, the host's does not.                              *)
PageTraverses(t) ==
  /\ IsIdle
  /\ t \in DOMAIN items \ {cursor}
  /\ cursor' = t
  /\ IF items[t].visit = shown.visit
     THEN shown' = items[t] /\ UNCHANGED <<flags, task>>
     ELSE /\ inHistoryNav' = TRUE
          /\ historyUrl' = items[t].url
          /\ suppressed' = TRUE
          /\ task' = [Idle EXCEPT !.kind = "page_traverse", !.entry = items[t]]
          /\ UNCHANGED <<reloading, replacing, shown>>
  /\ UNCHANGED <<entries, index, items, visits, histories>>

(* history.pushState: DidFinishSameDocumentNavigation records it. *)
PushState(u) ==
  /\ IsIdle /\ shown.visit # 0
  /\ u > MaxVisits /\ u # shown.url
  /\ items' = Recorded(items, cursor, Entry(u, shown.visit))
  /\ cursor' = Len(items')
  /\ shown' = Entry(u, shown.visit)
  /\ UNCHANGED <<entries, index, flags, visits, task, histories>>

Loading == {"navigate", "replace", "reload", "traverse", "page_traverse"}
Loaded ==
  IF task.kind = "traverse" THEN [task EXCEPT !.kind = "traversed"]
  ELSE [Idle EXCEPT !.kind = "returning"]

(* The document of the task commits; a document loaded again keeps    *)
(* the visit of its entry.                                                 *)
Commits ==
  /\ task.kind \in Loading
  /\ DidCommit(task.entry)
  /\ task' = Loaded
  /\ failed' = (failed /\ ~IsTraversal)
  /\ astray' = (IsMisplaced(task.entry)
                \/ (astray /\ task.kind = "reload" /\ IsCurrentUrl(task.entry)))
  /\ UNCHANGED visits

(* The load fails, becomes a download or is superseded.  Nobody takes back *)
(* what a page's traversal has set.                                        *)
Fails ==
  /\ task.kind \in Loading \ {"replace"}
  /\ task' = Loaded
  /\ failed' = (failed \/ task.kind = "page_traverse")
  /\ UNCHANGED <<lists, flags, shown, visits, astray>>

(* As if TraverseHistory did not take its index back. *)
TraversalReturnsAhead ==
  /\ task.kind = "traversed"
  /\ suppressed' = FALSE
  /\ inHistoryNav' = FALSE
  /\ cursor' = IF inHistoryNav THEN cursor
               ELSE IndexOfUrl(items, task.entry.url, cursor)
  /\ task' = Idle
  /\ UNCHANGED <<entries, index, items, historyUrl, reloading, replacing, shown,
                 visits, histories>>

(* As if only the index were taken back, not the flag. *)
TraversalReturnsFlagged ==
  /\ task.kind = "traversed"
  /\ suppressed' = FALSE
  /\ IF inHistoryNav
     THEN index' = task.before /\ UNCHANGED cursor
     ELSE cursor' = IndexOfUrl(items, task.entry.url, cursor) /\ UNCHANGED index
  /\ task' = Idle
  /\ UNCHANGED <<entries, items, inHistoryNav, historyUrl, reloading, replacing,
                 shown, visits, histories>>

(* What the task does after its load: TraverseHistory moves the       *)
(* page's cursor to the entry of that URL, or takes its own back.          *)
TraversalReturns ==
  /\ task.kind = "traversed"
  /\ suppressed' = FALSE
  /\ inHistoryNav' = FALSE
  /\ IF inHistoryNav
     THEN index' = task.before /\ UNCHANGED cursor
     ELSE cursor' = IndexOfUrl(items, task.entry.url, cursor) /\ UNCHANGED index
  /\ task' = Idle
  /\ UNCHANGED <<entries, items, historyUrl, reloading, replacing, shown, visits,
                 histories>>

OperationReturns ==
  /\ task.kind = "returning"
  /\ replacing' = FALSE
  /\ suppressed' = FALSE
  /\ task' = Idle
  /\ UNCHANGED <<lists, inHistoryNav, historyUrl, reloading, shown, visits,
                 histories>>

Next ==
  \/ \E u \in Urls : Navigate(u) \/ Replace(u) \/ PushState(u)
  \/ \E t \in 1..MaxEntries : HostTraverses(t) \/ PageTraverses(t)
  \/ Reload \/ Commits \/ Fails \/ TraversalReturns \/ OperationReturns

Spec == Init /\ [][Next]_vars

-----------------------------------------------------------------------------
(***************************************************************************)
(* Properties                                                              *)
(***************************************************************************)

(* OnDidCommitMainFrame takes each commit for what it is, but for those of *)
(* IsMisplaced: a navigation appends an entry and drops those ahead, a     *)
(* replacement takes the place of the current one, a reload of its URL and *)
(* a traversal change none, and a traversal leaves the cursor at the entry *)
(* of its document, whatever failed before.                                *)
RecordedAsWhatItIs ==
  LET e == task.entry IN
  Commits /\ ~IsMisplaced(e) =>
    CASE task.kind = "navigate" -> entries' = Recorded(entries, index, e)
      [] task.kind = "replace"  -> /\ index' = IF index = 0 THEN 1 ELSE index
                                   /\ entries'[index'] = e
                                   /\ index > 0 => Len(entries') = Len(entries)
      [] task.kind = "reload"   -> IsCurrentUrl(e) => UNCHANGED <<entries, index>>
      [] OTHER -> /\ entries' = entries
                  /\ index' \in DOMAIN entries /\ entries[index'].visit = e.visit
CommitsAreRecordedAsWhatTheyAre == [][RecordedAsWhatItIs]_vars

(* mb_webview.cc:3168: a traversal of the host that does not commit is     *)
(* rolled back: at rest the host's cursor is at the entry of the document  *)
(* shown, whatever failed before, unless the latest commit was misplaced;  *)
(* one that is not puts right what those before it did.                    *)
CursorIsAtTheDocument ==
  IsIdle /\ index # 0 /\ ~astray => entries[index].visit = shown.visit
=============================================================================
