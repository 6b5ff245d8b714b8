----------------------------- MODULE Navigation -----------------------------
(***************************************************************************)
(* Main-frame navigation of a view (mb_webview.cc, mb_frame_client.cc).    *)
(*                                                                         *)
(* Four kinds of navigation compete for one view: documents the host hands *)
(* over or loads synchronously (LoadHTML, LoadURL), asynchronous host      *)
(* navigations whose fetch runs on the reactor (NavigateEx), and the       *)
(* page's own, which a posted task commits or fetches (BeginNavigation,    *)
(* DoCommit).  main_navigation_generation_ says which is the latest and    *)
(* pending_main_navigation_ which is still open.                           *)
(*                                                                         *)
(* Everything happens on the main thread, and the hard part is nesting.    *)
(* Every event is a callback into the host, which may start, cancel or     *)
(* stop a navigation before it returns; and a synchronous commit pumps the *)
(* message loop, so any task may run inside it.  `stack` holds the calls   *)
(* that have not returned, the innermost first; what a call does after a   *)
(* callback is an action of its own.  A generation names the navigation    *)
(* that reserved it, and also the request the reactor runs for it.         *)
(***************************************************************************)
EXTENDS Naturals, Sequences

CONSTANTS MaxNavigations,   \* bound on main_navigation_generation_
          MaxDepth          \* bound on calls nested in one another

ASSUME NavigationAssumption == MaxNavigations \in Nat /\ MaxDepth \in Nat

VARIABLES
  generation,    \* main_navigation_generation_
  pending,       \* pending_main_navigation_; gen = 0 when there is none
  loadFinished,  \* load_finished_
  fetches,       \* generations whose result the reactor still owes
  posted,        \* generations whose DoCommit task is queued
  doc,           \* the document shown, by generation, and whether it still loads
  stack,         \* calls that have not returned, innermost first
  alive,         \* the view exists (alive_token_)
  told,          \* what on_navigation_event_ heard of each navigation
  finishes       \* how often on_load_finish_ was called for each, up to 2

vars == <<generation, pending, loadFinished, fetches, posted, doc, stack,
          alive, told, finishes>>

Generations == 1..MaxNavigations
Ops == {"html", "load", "navigate", "page"}
NoNavigation == [gen |-> 0, fetch |-> FALSE, api |-> FALSE, committed |-> FALSE]
Endings == {"success", "failure", "cancelled", "superseded", "download"}

(***************************************************************************)
(* Where a nested call may be.  At a callback the host may call in; inside *)
(* CommitHtml's RunUntilIdle (pumping) the message loop runs tasks.        *)
(***************************************************************************)
Callbacks == {"superseding", "started", "fetching", "hook", "committing",
              "committed", "ended", "stopping", "asking", "traversing",
              "finishing"}
Call(at, g, op) == [at |-> at, gen |-> g, op |-> op]
Top == IF stack = <<>> THEN Call("none", 0, "html") ELSE Head(stack)
Rest == Tail(stack)
At(where) == Top.at = where

HostMayCall == /\ alive
               /\ Len(stack) < MaxDepth
               /\ stack = <<>> \/ (Top.at \in Callbacks /\ Top.op # "quiet")
TaskMayRun == Len(stack) < MaxDepth /\ (stack = <<>> \/ At("pumping"))

(* blink does not commit a document from inside the commit of another one. *)
InsideCommit ==
  \E i \in DOMAIN stack : stack[i].at \in {"committing", "committed"}

Tell(g, what) == [told EXCEPT ![g] = Append(@, what)]
Finish(g) == [finishes EXCEPT ![g] = IF @ < 2 THEN @ + 1 ELSE @]
IsCurrent(g) == generation = g
IsPending(g) == pending.gen = g /\ g # 0

-----------------------------------------------------------------------------
(***************************************************************************)
(* The steps every navigation is made of.  `below` is the stack to return  *)
(* to once the step's callbacks are over.                                  *)
(***************************************************************************)

(* BeginMainNavigation once the older navigation has been told its end. *)
Install(g, op, below) ==
  /\ pending' = [gen |-> g, fetch |-> op = "navigate", api |-> op = "navigate",
                 committed |-> FALSE]
  /\ loadFinished' = FALSE
  /\ told' = Tell(g, "started")
  /\ stack' = <<Call("started", g, op)>> \o below
  /\ UNCHANGED finishes

(* What ends the pending navigation before it commits: an outcome for both *)
(* event callbacks, after pending_main_navigation_ was cleared.            *)
EndPending(outcome, next) ==
  /\ pending' = NoNavigation
  /\ loadFinished' = TRUE
  /\ told' = Tell(pending.gen, outcome)
  /\ finishes' = Finish(pending.gen)
  /\ stack' = next

BeginMainNavigation(op, below) ==
  /\ generation < MaxNavigations
  /\ generation' = generation + 1
  /\ IF pending = NoNavigation
       THEN Install(generation + 1, op, below)
       ELSE EndPending("superseded",
                       <<Call("superseding", generation + 1, op)>> \o below)

(* With nothing pending no callback runs: the call is "quiet". *)
SupersedePendingMainNavigation(outcome, at, below) ==
  /\ generation < MaxNavigations
  /\ generation' = generation + 1
  /\ IF pending = NoNavigation
       THEN /\ stack' = <<Call(at, generation + 1, "quiet")>> \o below
            /\ UNCHANGED <<pending, loadFinished, told, finishes>>
       ELSE EndPending(outcome, <<Call(at, generation + 1, "html")>> \o below)

(* FailMainNavigation, FinishMainNavigationWithoutCommit *)
End(g, outcome, below) ==
  EndPending(outcome, <<Call("ended", g, "html")>> \o below)

(* As if the navigation were not marked committed. *)
CommitUnmarked(g, op, below) ==
  /\ pending' = [pending EXCEPT !.fetch = FALSE, !.api = FALSE]
  /\ loadFinished' = FALSE
  /\ doc' = [gen |-> g, loading |-> TRUE]
  /\ stack' = <<Call("committing", g, op)>> \o below

(* PrepareMainNavigationCommit, then CommitHtml or FinishCommit as far as  *)
(* the first callback of the commit: the frame's load-begin event.         *)
Commit(g, op, below) ==
  /\ pending' = [pending EXCEPT !.fetch = FALSE, !.api = FALSE,
                               !.committed = TRUE]
  /\ loadFinished' = FALSE
  /\ doc' = [gen |-> g, loading |-> TRUE]
  /\ stack' = <<Call("committing", g, op)>> \o below

-----------------------------------------------------------------------------
Init ==
  /\ generation = 0
  /\ pending = NoNavigation
  /\ loadFinished = FALSE
  /\ fetches = {}
  /\ posted = {}
  /\ doc = [gen |-> 0, loading |-> FALSE]
  /\ stack = <<>>
  /\ alive = TRUE
  /\ told = [g \in Generations |-> <<>>]
  /\ finishes = [g \in Generations |-> 0]

(***************************************************************************)
(* Calls of the host.                                                      *)
(***************************************************************************)

(* LoadHTML, LoadURL and PostURL, NavigateEx *)
HostNavigates(op) ==
  /\ HostMayCall
  /\ op \in {"html", "load"} => ~InsideCommit
  /\ BeginMainNavigation(op, stack)
  /\ UNCHANGED <<fetches, posted, doc, alive>>

(* CancelNavigation with the id of the pending navigation *)
CancelNavigation ==
  /\ HostMayCall
  /\ pending.fetch /\ pending.api
  /\ SupersedePendingMainNavigation("cancelled", "ended", stack)
  /\ UNCHANGED <<fetches, posted, doc, alive>>

StopLoading ==
  /\ HostMayCall
  /\ SupersedePendingMainNavigation("cancelled", "stopping", stack)
  /\ UNCHANGED <<fetches, posted, doc, alive>>

(* LoadURL of a scheme the engine does not handle *)
LoadUnhandled ==
  /\ HostMayCall
  /\ SupersedePendingMainNavigation("superseded", "ended", stack)
  /\ UNCHANGED <<fetches, posted, doc, alive>>

(* The destructor supersedes without telling anybody. *)
DestroyView ==
  /\ alive
  /\ stack = <<>>
  /\ generation < MaxNavigations
  /\ alive' = FALSE
  /\ generation' = generation + 1
  /\ pending' = NoNavigation
  /\ doc' = [gen |-> 0, loading |-> FALSE]
  /\ UNCHANGED <<loadFinished, fetches, posted, stack, told, finishes>>

-----------------------------------------------------------------------------
(***************************************************************************)
(* Returns: what a call does after the host's callback is over.            *)
(***************************************************************************)
(* As if the generation were not looked at again after the callbacks. *)
SupersedingReturnsBlindly ==
  /\ At("superseding")
  /\ Install(Top.gen, Top.op, Rest)
  /\ UNCHANGED <<generation, fetches, posted, doc, alive>>

SupersedingReturns ==
  /\ At("superseding")
  /\ IF IsCurrent(Top.gen)
       THEN Install(Top.gen, Top.op, Rest)
       ELSE stack' = Rest /\ UNCHANGED <<pending, loadFinished, told, finishes>>
  /\ UNCHANGED <<generation, fetches, posted, doc, alive>>

StartedReturns ==
  /\ At("started")
  /\ UNCHANGED <<generation, alive, told, finishes>>
  /\ \/ /\ ~IsPending(Top.gen)
        /\ stack' = Rest
        /\ UNCHANGED <<pending, loadFinished, fetches, posted, doc>>
     \/ /\ IsPending(Top.gen) /\ Top.op = "html"
        /\ Commit(Top.gen, "html", Rest)
        /\ UNCHANGED <<fetches, posted>>
     \/ /\ IsPending(Top.gen) /\ Top.op = "load"
        /\ stack' = <<Call("fetching", Top.gen, "load")>> \o Rest
        /\ UNCHANGED <<pending, loadFinished, fetches, posted, doc>>
     \/ /\ IsPending(Top.gen) /\ Top.op = "navigate"
        /\ fetches' = fetches \union {Top.gen}
        /\ stack' = Rest
        /\ UNCHANGED <<pending, loadFinished, posted, doc>>
     \/ /\ IsPending(Top.gen) /\ Top.op = "page"
        /\ posted' = posted \union {Top.gen}
        /\ stack' = Rest
        /\ UNCHANGED <<pending, loadFinished, fetches, doc>>

(* The outcomes of a fetch; only host loads are diverted to a download. *)
Delivered(g, op, below) ==
  \/ Commit(g, op, below) /\ UNCHANGED <<told, finishes>>
  \/ op # "page" /\ End(g, "download", below) /\ UNCHANGED doc

(* LoadURL and PostURL after MbFetchUrl, whose hooks the host ran *)
FetchingReturns ==
  /\ At("fetching")
  /\ IF IsPending(Top.gen)
       THEN \/ Delivered(Top.gen, "load", Rest)
            \/ End(Top.gen, "failure", Rest) /\ UNCHANGED doc
       ELSE /\ stack' = Rest
            /\ UNCHANGED <<pending, loadFinished, doc, told, finishes>>
  /\ UNCHANGED <<generation, fetches, posted, alive>>

(* As if CommitHtml followed whatever PrepareMainNavigationCommit said. *)
HookReturnsBlindly ==
  /\ At("hook")
  /\ IF IsPending(Top.gen) /\ pending.fetch
       THEN Delivered(Top.gen, Top.op, Rest)
       ELSE /\ loadFinished' = FALSE
            /\ doc' = [gen |-> Top.gen, loading |-> TRUE]
            /\ stack' = <<Call("committing", Top.gen, Top.op)>> \o Rest
            /\ UNCHANGED <<pending, told, finishes>>
  /\ UNCHANGED <<generation, fetches, posted, alive>>

(* OnNavigationComplete and OnPageNavComplete after the response hook *)
HookReturns ==
  /\ At("hook")
  /\ IF IsPending(Top.gen) /\ pending.fetch
       THEN Delivered(Top.gen, Top.op, Rest)
       ELSE /\ stack' = Rest
            /\ UNCHANGED <<pending, loadFinished, doc, told, finishes>>
  /\ UNCHANGED <<generation, fetches, posted, alive>>

(* OnDidCommitMainFrame, after the frame's load-begin event *)
CommittingReturns ==
  /\ At("committing")
  /\ told' = IF pending.committed THEN Tell(pending.gen, "committed") ELSE told
  /\ stack' = <<[Top EXCEPT !.at = "committed"]>> \o Rest
  /\ UNCHANGED <<generation, pending, loadFinished, fetches, posted, doc, alive,
                 finishes>>

(* A document of the host is pumped for; a page's commit just returns. *)
CommittedReturns ==
  /\ At("committed")
  /\ stack' = IF Top.op = "page" THEN Rest
              ELSE <<[Top EXCEPT !.at = "pumping"]>> \o Rest
  /\ UNCHANGED <<generation, pending, loadFinished, fetches, posted, doc, alive,
                 told, finishes>>

JustReturns ==
  /\ At("ended") \/ At("pumping")
  /\ stack' = Rest
  /\ UNCHANGED <<generation, pending, loadFinished, fetches, posted, doc, alive,
                 told, finishes>>

(* DeprecatedStopLoading: the document shown stops loading. *)
StoppingReturns ==
  /\ At("stopping")
  /\ stack' = Rest
  /\ doc' = IF IsCurrent(Top.gen) THEN [doc EXCEPT !.loading = FALSE] ELSE doc
  /\ UNCHANGED <<generation, pending, loadFinished, fetches, posted, alive, told,
                 finishes>>

(* BeginNavigation after OnBeginNavigation: the host allows or refuses. *)
AskingReturns ==
  /\ At("asking")
  /\ \/ /\ IsCurrent(Top.gen)
        /\ BeginMainNavigation("page", Rest)
     \/ /\ stack' = Rest
        /\ UNCHANGED <<generation, pending, loadFinished, told, finishes>>
  /\ UNCHANGED <<fetches, posted, doc, alive>>

(* GoToHistoryTarget after what it superseded heard of it: the entry is of *)
(* the same document, or its URL is loaded.                                *)
TraversingReturns ==
  /\ At("traversing")
  /\ \/ /\ IsCurrent(Top.gen)
        /\ BeginMainNavigation("load", Rest)
     \/ /\ stack' = Rest
        /\ UNCHANGED <<generation, pending, loadFinished, told, finishes>>
  /\ UNCHANGED <<fetches, posted, doc, alive>>

(* OnDidFinishLoad, after the frame's load-finish event.  The document     *)
(* that finished is the call's gen, the navigation it ends the pending one.*)
OnDidFinishLoad ==
  IF pending # NoNavigation /\ ~pending.committed
    THEN stack' = Rest /\ UNCHANGED <<pending, loadFinished, told, finishes>>
    ELSE /\ pending' = NoNavigation
         /\ loadFinished' = TRUE
         /\ told' = IF pending = NoNavigation THEN told
                    ELSE Tell(pending.gen, "success")
         /\ finishes' = Finish(Top.gen)
         /\ stack' = <<Call("ended", Top.gen, "html")>> \o Rest

FinishingReturns ==
  /\ At("finishing")
  /\ OnDidFinishLoad
  /\ UNCHANGED <<generation, fetches, posted, doc, alive>>

-----------------------------------------------------------------------------
(***************************************************************************)
(* Tasks of the message loop.                                              *)
(***************************************************************************)

(* A link, location= or a form of the page: BeginNavigation asks the host. *)
PageNavigates ==
  /\ TaskMayRun /\ alive
  /\ doc.gen # 0
  /\ stack' = <<Call("asking", generation, "page")>> \o stack
  /\ UNCHANGED <<generation, pending, loadFinished, fetches, posted, doc, alive,
                 told, finishes>>

(* history.back(), forward() or go() of the page *)
PageTraverses ==
  /\ TaskMayRun /\ alive
  /\ doc.gen # 0
  /\ SupersedePendingMainNavigation("superseded", "traversing", stack)
  /\ UNCHANGED <<fetches, posted, doc, alive>>

(* DoCommit: an empty document at once, another one after its fetch *)
DoCommit(g) ==
  /\ TaskMayRun
  /\ g \in posted
  /\ posted' = posted \ {g}
  /\ \/ /\ ~(alive /\ IsPending(g))
        /\ UNCHANGED <<pending, loadFinished, fetches, doc, stack>>
     \/ /\ alive /\ IsPending(g)
        /\ Commit(g, "page", stack)
        /\ UNCHANGED fetches
     \/ /\ alive /\ IsPending(g)
        /\ pending' = [pending EXCEPT !.fetch = TRUE]
        /\ fetches' = fetches \union {g}
        /\ UNCHANGED <<loadFinished, doc, stack>>
  /\ UNCHANGED <<generation, alive, told, finishes>>

(* OnNavigationComplete and OnPageNavComplete up to the response hook *)
FetchCompletes(g) ==
  /\ TaskMayRun
  /\ g \in fetches
  /\ fetches' = fetches \ {g}
  /\ \/ /\ ~(alive /\ IsPending(g) /\ pending.fetch)
        /\ UNCHANGED <<pending, loadFinished, stack, told, finishes>>
     \/ /\ alive /\ IsPending(g) /\ pending.fetch
        /\ \/ End(g, "failure", stack)
           \/ /\ stack' = <<Call("hook", g, IF pending.api THEN "navigate"
                                            ELSE "page")>> \o stack
              /\ UNCHANGED <<pending, loadFinished, told, finishes>>
  /\ UNCHANGED <<generation, posted, doc, alive>>

(* The document's load event: the frame's load-finish event comes first. *)
DocumentLoads ==
  /\ TaskMayRun
  /\ doc.loading
  /\ doc' = [doc EXCEPT !.loading = FALSE]
  /\ stack' = <<Call("finishing", doc.gen, "html")>> \o stack
  /\ UNCHANGED <<generation, pending, loadFinished, fetches, posted, alive, told,
                 finishes>>

-----------------------------------------------------------------------------
Returns ==
  \/ SupersedingReturns \/ StartedReturns \/ FetchingReturns \/ HookReturns
  \/ CommittingReturns \/ CommittedReturns \/ JustReturns \/ StoppingReturns
  \/ AskingReturns \/ TraversingReturns \/ FinishingReturns

Loop ==
  \/ DocumentLoads
  \/ \E g \in Generations : DoCommit(g) \/ FetchCompletes(g)

Next ==
  \/ \E op \in Ops \ {"page"} : HostNavigates(op)
  \/ CancelNavigation \/ StopLoading \/ LoadUnhandled \/ DestroyView
  \/ PageNavigates \/ PageTraverses
  \/ Returns \/ Loop

(***************************************************************************)
(* Calls return, and the loop runs what is queued in it: the fetches are   *)
(* the reactor's, which answers each, and a load event waits for           *)
(* subresources of that same loader.  The page may ask for navigations the *)
(* host refuses again and again; its tasks and these share one queue, so   *)
(* the loop is strongly fair.                                              *)
(***************************************************************************)
Spec == Init /\ [][Next]_vars /\ WF_vars(Returns) /\ SF_vars(Loop)

-----------------------------------------------------------------------------
(***************************************************************************)
(* Properties                                                              *)
(***************************************************************************)
Told(g) == {told[g][i] : i \in DOMAIN told[g]}
IsOver(g) == Told(g) \cap Endings # {}

(* webview.h:478 "one STARTED event, zero or one COMMITTED event, and      *)
(* exactly one TERMINAL event", in that order, whatever the callbacks do.  *)
EventsAreOrderly ==
  \A g \in Generations :
    LET heard == told[g] IN
    \/ heard \in {<<>>, <<"started">>, <<"started", "committed">>}
    \/ \E e \in Endings :
         heard \in {<<"started", e>>, <<"started", "committed", e>>}

(* No navigation is forgotten: one that started and heard no end is the    *)
(* pending one, it is the only one, and while it is pending the view does  *)
(* not claim to have finished.                                             *)
OpenIsPending ==
  alive => /\ \A g \in Generations : told[g] # <<>> /\ ~IsOver(g) => IsPending(g)
           /\ pending # NoNavigation =>
                /\ ~IsOver(pending.gen)
                /\ ~loadFinished

EveryNavigationIsTold == EventsAreOrderly /\ OpenIsPending

(* webview.h:466: a cancelled navigation never commits.  Neither does one  *)
(* that was superseded, failed or stopped, whatever its fetch still        *)
(* brings: a document that replaces another is the latest navigation's.    *)
OnlyTheLatestCommits ==
  [][doc'.gen # doc.gen /\ alive' =>
       doc'.gen = generation /\ ~IsOver(doc'.gen)]_vars

(* Whoever waits for the load to end goes on: in the end nothing is        *)
(* pending, and the last of the navigations left load_finished_ set.       *)
NavigationsEnd ==
  []<>(alive /\ (\E g \in Generations : told[g] # <<>>) =>
         pending = NoNavigation /\ loadFinished)

(* webview.h:440: "Exactly one finish fires per navigation, including on   *)
(* failure, cancellation, supersession, and a download-diverted load."     *)
ExactlyOneFinish == \A g \in Generations : finishes[g] <= 1

(* mb_webview.h:952: "The new document's finish consumes the committed     *)
(* generation": a navigation succeeds with the load event of its document. *)
FinishedByItsOwnDocument ==
  [][\A g \in Generations :
       "success" \in Told(g)' /\ "success" \notin Told(g) => Top.gen = g]_vars
=============================================================================
