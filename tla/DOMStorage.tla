------------------------------ MODULE DOMStorage ------------------------------
(***************************************************************************)
(* Local and session storage (frame/mb_dom_storage.cc): the stores on the  *)
(* service thread, one for a session, a kind of storage and an origin, and *)
(* the contexts whose caches are kept up to date by observers.             *)
(*                                                                         *)
(* A context has an area of its own: its calls arrive in their order, and  *)
(* the answers of its observer in theirs.  The value a context writes is   *)
(* the context itself.                                                     *)
(***************************************************************************)
EXTENDS Integers, SequencesExt

CONSTANTS
  Contexts,
  Places,     \* where a context is: [session, view, origin, top, cross_site]
  Default,    \* the session of a frame whose scope is not known
  Opaque,     \* the origin that is none
  Keys,
  None,       \* no value, no context, no observer
  MaxCalls    \* bound: calls of a context, and events for it, under way

VARIABLES
  place,      \* context -> its place
  published,  \* context -> its frame's scope is known when it binds its area
  kind,       \* context -> "ls" or "ss"
  bound,      \* context -> its area is bound
  entries,    \* key of an area -> its pairs of key and value
  observers,  \* key of an area -> the contexts it tells
  calls,      \* context -> calls under way to its area
  events,     \* context -> what its observer has been told
  cache,      \* context -> what Blink has cached, None before it is loaded
  pending     \* context -> keys of its own changes it has not been told of

frames == <<place, published, kind>>
vars == <<frames, bound, entries, observers, calls, events, cache, pending>>

(* KeyForStorageKey: an opaque origin is nobody else's; third parties are  *)
(* kept apart by the site they are embedded in.                            *)
KeyForStorageKey(c) ==
  LET p == place[c] IN
    IF p.origin = Opaque THEN <<"opaque", c>>
    ELSE IF p.cross_site THEN <<p.origin, "3p", p.top>> ELSE <<p.origin>>

(* Session storage is of one view, which has a namespace id of its own.    *)
AreaName(c) ==
  IF kind[c] = "ss" THEN <<place[c].view>> \o KeyForStorageKey(c) ELSE KeyForStorageKey(c)

(* ScopedAreaKey, of the session the frame's token is known to be of.      *)
AreaKey(c) ==
  <<IF published[c] THEN place[c].session ELSE Default, kind[c], AreaName(c)>>

AreaKeys == {AreaKey(c) : c \in Contexts}

FindEntry(s, k) == SelectInSeq(s, LAMBDA e : e[1] = k)

(* What a sequence of entries holds.                                       *)
Holds(s) ==
  [k \in Keys |-> IF FindEntry(s, k) = 0 THEN None ELSE s[FindEntry(s, k)][2]]

Init ==
  /\ place \in [Contexts -> Places]
  /\ published \in [Contexts -> BOOLEAN]
  /\ \A c \in Contexts : place[c].session = Default => published[c]
  /\ kind \in [Contexts -> {"ls", "ss"}]
  /\ bound = [c \in Contexts |-> FALSE]
  /\ entries = [k \in AreaKeys |-> <<>>]
  /\ observers = [k \in AreaKeys |-> {}]
  /\ calls = [c \in Contexts |-> <<>>]
  /\ events = [c \in Contexts |-> <<>>]
  /\ cache = [c \in Contexts |-> None]
  /\ pending = [c \in Contexts |-> <<>>]

------------------------------------------------------------------------------
(* OpenLocalStorage, BindSessionStorageArea.                               *)
OpenStorage(c) ==
  /\ ~bound[c]
  /\ bound' = [bound EXCEPT ![c] = TRUE]
  /\ UNCHANGED <<frames, entries, observers, calls, events, cache, pending>>

(* GetAll is a call that the context waits for.                            *)
GetAll(c) ==
  /\ bound[c] /\ cache[c] = None
  /\ observers' = [observers EXCEPT ![AreaKey(c)] = @ \cup {c}]
  /\ cache' = [cache EXCEPT ![c] = Holds(entries[AreaKey(c)])]
  /\ UNCHANGED <<frames, bound, entries, calls, events, pending>>

(* The context changes what it has cached, and then the store.             *)
Change(c, call, changed) ==
  /\ cache[c] # None /\ Len(calls[c]) < MaxCalls /\ Len(pending[c]) < MaxCalls
  /\ cache' = [cache EXCEPT ![c] = changed]
  /\ calls' = [calls EXCEPT ![c] = Append(@, call)]
  /\ pending' = IF kind[c] = "ls" THEN [pending EXCEPT ![c] = Append(@, call)] ELSE pending
  /\ UNCHANGED <<frames, bound, entries, observers, events>>

SetItem(c, k) == Change(c, <<"put", k>>, [cache[c] EXCEPT ![k] = c])
RemoveItem(c, k) ==
  /\ cache[c] # None /\ cache[c][k] # None
  /\ Change(c, <<"delete", k>>, [cache[c] EXCEPT ![k] = None])
ClearArea(c) == Change(c, <<"all">>, [k \in Keys |-> None])

------------------------------------------------------------------------------
(* On the service thread.                                                  *)
(* The context that registered the observer is there still.               *)
Connected(c) == cache[c] # None

(* Mutant: the one who made the change is not told of it.                  *)
TellOthers(key, event) ==
  /\ events' = [c \in Contexts |->
       IF c \in observers[key] /\ Connected(c) /\ event.by # c
       THEN Append(events[c], event) ELSE events[c]]
  /\ observers' = [observers EXCEPT ![key] = {c \in @ : Connected(c)}]

(* ForEachObserver: those that are gone are dropped.                       *)
Tell(key, event) ==
  /\ events' = [c \in Contexts |->
       IF c \in observers[key] /\ Connected(c) THEN Append(events[c], event) ELSE events[c]]
  /\ observers' = [observers EXCEPT ![key] = {c \in @ : Connected(c)}]

(* Only local storage is broadcast.                                        *)
Broadcast(c, key, event) ==
  IF kind[c] = "ls" THEN Tell(key, event) ELSE UNCHANGED <<events, observers>>

PutEntry(s, k, v) ==
  IF FindEntry(s, k) = 0 THEN Append(s, <<k, v>>)
  ELSE [s EXCEPT ![FindEntry(s, k)] = <<k, v>>]

DeleteEntry(s, k) == SelectSeq(s, LAMBDA e : e[1] # k)

Called(c, name) == calls[c] # <<>> /\ Head(calls[c])[1] = name

(* Handles the next call of c, which leaves its area with these entries.   *)
Handles(c, after, event) ==
  /\ entries' = [entries EXCEPT ![AreaKey(c)] = after]
  /\ calls' = [calls EXCEPT ![c] = Tail(@)]
  /\ Broadcast(c, AreaKey(c), event)
  /\ \A d \in Contexts : Len(events'[d]) <= MaxCalls
  /\ UNCHANGED <<frames, bound, cache, pending>>

Put(c) ==
  /\ Called(c, "put")
  /\ LET k == Head(calls[c])[2] IN
       Handles(c, PutEntry(entries[AreaKey(c)], k, c), [what |-> "changed", key |-> k, by |-> c])

Delete(c) ==
  /\ Called(c, "delete")
  /\ LET k == Head(calls[c])[2] IN
       Handles(c, DeleteEntry(entries[AreaKey(c)], k), [what |-> "deleted", key |-> k, by |-> c])

DeleteAll(c) ==
  /\ Called(c, "all")
  /\ Handles(c, <<>>, [what |-> "all", by |-> c])

(* MbClearDomStorageForSession, once its task runs: session storage is not *)
(* told.                                                                   *)
ClearForSession(s) ==
  LET cleared == {k \in AreaKeys : k[1] = s}
      told == {c \in Contexts : /\ kind[c] = "ls" /\ AreaKey(c) \in cleared
                                /\ Connected(c) /\ c \in observers[AreaKey(c)]} IN
    /\ \E k \in cleared : entries[k] # <<>>
    /\ entries' = [k \in AreaKeys |-> IF k \in cleared THEN <<>> ELSE entries[k]]
    /\ events' = [c \in Contexts |->
         IF c \in told THEN Append(events[c], [what |-> "all", by |-> None]) ELSE events[c]]
    /\ \A c \in Contexts : Len(events'[c]) <= MaxCalls
    /\ observers' = [k \in AreaKeys |->
         IF k \in cleared /\ k[2] = "ls" THEN {c \in observers[k] : Connected(c)}
         ELSE observers[k]]
    /\ UNCHANGED <<frames, bound, calls, cache, pending>>

------------------------------------------------------------------------------
(* Blink's CachedStorageArea: a change of its own has been made already; a *)
(* change of another does not undo what is still to come after it.         *)
OnItsWay(c, k) ==
  \E i \in DOMAIN pending[c] : pending[c][i] = <<"all">> \/ pending[c][i][2] = k

Applied(c, e) ==
  CASE e.what = "changed" /\ ~OnItsWay(c, e.key) -> [cache[c] EXCEPT ![e.key] = e.by]
    [] e.what = "deleted" /\ ~OnItsWay(c, e.key) -> [cache[c] EXCEPT ![e.key] = None]
    [] e.what = "all" -> [k \in Keys |-> IF OnItsWay(c, k) THEN cache[c][k] ELSE None]
    [] OTHER -> cache[c]

Observe(c) ==
  /\ events[c] # <<>>
  /\ LET e == Head(events[c]) IN
       IF e.by = c
         THEN pending' = [pending EXCEPT ![c] = Tail(@)] /\ UNCHANGED cache
         ELSE cache' = [cache EXCEPT ![c] = Applied(c, e)] /\ UNCHANGED pending
  /\ events' = [events EXCEPT ![c] = Tail(@)]
  /\ UNCHANGED <<frames, bound, entries, observers, calls>>

(* The context goes, once its calls have been handled.                     *)
Leave(c) ==
  /\ bound[c] /\ calls[c] = <<>>
  /\ bound' = [bound EXCEPT ![c] = FALSE]
  /\ cache' = [cache EXCEPT ![c] = None]
  /\ pending' = [pending EXCEPT ![c] = <<>>]
  /\ events' = [events EXCEPT ![c] = <<>>]
  /\ UNCHANGED <<frames, entries, observers, calls>>

Next ==
  \/ \E c \in Contexts :
       \/ OpenStorage(c) \/ GetAll(c) \/ ClearArea(c) \/ Observe(c) \/ Leave(c)
       \/ \E k \in Keys : SetItem(c, k) \/ RemoveItem(c, k)
       \/ Put(c) \/ Delete(c) \/ DeleteAll(c)
  \/ \E s \in {p.session : p \in Places} : ClearForSession(s)

Spec == Init /\ [][Next]_vars

------------------------------------------------------------------------------
(* When nothing is under way, what a context has cached of local storage   *)
(* is what the store holds, whoever changed it in what order: "a write in  *)
(* any instance fans out to all the others".                               *)
CachesConverge ==
  \A c \in Contexts :
    /\ kind[c] = "ls" /\ cache[c] # None
    /\ calls[c] = <<>> /\ events[c] = <<>>
    => pending[c] = <<>> /\ cache[c] = Holds(entries[AreaKey(c)])

(* Two contexts find one another's values only in the same session, which  *)
(* is the default one for a frame that is not known yet, on the same       *)
(* origin, which is not opaque, and embedded in the same site; those of    *)
(* session storage, only in the same view.                                 *)
SamePlace(c, d) ==
  /\ place[c].origin = place[d].origin /\ place[c].cross_site = place[d].cross_site
  /\ place[c].cross_site => place[c].top = place[d].top
  /\ place[c].origin = Opaque => c = d
  /\ kind[c] = "ss" => place[c].view = place[d].view
  /\ place[c].session # place[d].session => AreaKey(c)[1] = Default

AreasAreApart ==
  \A c \in Contexts : cache[c] # None =>
    \A k \in Keys : cache[c][k] # None => SamePlace(c, cache[c][k])

(* Types; what is under way is of those that are bound.                    *)
TypeOK ==
  /\ \A k \in AreaKeys : entries[k] \in Seq(Keys \X Contexts) /\ observers[k] \subseteq Contexts
  /\ cache \in [Contexts -> {None} \cup [Keys -> Contexts \cup {None}]]
  /\ \A c \in Contexts : ~bound[c] => calls[c] = <<>> /\ events[c] = <<>> /\ cache[c] = None

StorageIsSound == TypeOK /\ CachesConverge /\ AreasAreApart
=============================================================================
