------------------------------ MODULE Geolocation ------------------------------
(***************************************************************************)
(* MbGeolocation and MbPermissionService (frame/mb_frame_broker.cc).  The  *)
(* host sets and clears the position on the main thread; pages watch it,   *)
(* and observe whether they may, through services on the broker's thread.  *)
(* The next position that a watcher asks for is held back until there is   *)
(* one; each change wakes those who wait.                                  *)
(*                                                                         *)
(* Positions are counted: `version' changes there have been.               *)
(***************************************************************************)
EXTENDS Integers, FiniteSets

CONSTANTS
  Watchers,   \* pages that watch the position
  Observers,  \* pages that observe the permission
  MaxChanges  \* bound: changes the host makes

VARIABLES
  set,         \* GeoFix().set
  version,
  main,        \* where the main thread is in GeoNotifyChange
  watch,       \* where a page's question for a position is
  first_done,  \* MbGeolocation::first_done_
  held_at,     \* history: the version when the question was held
  reply, told, \* the version in the answer, and what the page knows
  runner,      \* GeoPermRunner() is known
  observers,   \* GeoPermObs(): whose remotes they are
  notices,     \* tasks of NotifyGeoPermObservers that are posted
  permission,  \* where a page is in permissions.query()
  known,       \* the status that the page has been told
  since,       \* history: the version when its observer was registered
  gone         \* pages that are gone

Pages == Watchers \cup Observers

geoVars == <<set, version, main, watch, first_done, held_at, reply, told, runner, observers,
             notices, permission, known, since, gone>>

fix == <<set, version, main>>
watching == <<watch, first_done, held_at, reply, told>>
observing == <<runner, observers, notices, permission, known, since>>

Init ==
  /\ set = FALSE /\ version = 0 /\ main = "idle"
  /\ watch = [p \in Watchers |-> "none"] /\ first_done = [p \in Watchers |-> FALSE]
  /\ held_at = [p \in Watchers |-> 0]
  /\ reply = [p \in Watchers |-> 0] /\ told = [p \in Watchers |-> 0]
  /\ runner = FALSE /\ observers = {} /\ notices = 0
  /\ permission = [p \in Observers |-> "none"] /\ known = [p \in Observers |-> FALSE]
  /\ since = [p \in Observers |-> 0]
  /\ gone = {}

------------------------------------------------------------------------------
(* The main thread: the fix, then whoever waits, then the observers.       *)
SetGeolocation(s) ==
  /\ main = "idle" /\ version < MaxChanges
  /\ set' = s /\ version' = version + 1
  /\ main' = "waiters"
  /\ UNCHANGED <<watching, observing, gone>>

WakeWaiters ==
  /\ main = "waiters" /\ main' = "observers"
  /\ watch' = [p \in Watchers |-> IF watch[p] = "held" THEN "posted" ELSE watch[p]]
  /\ UNCHANGED <<set, version, first_done, held_at, reply, told, observing, gone>>

PostToObservers ==
  /\ main = "observers" /\ main' = "idle"
  /\ notices' = notices + (IF runner THEN 1 ELSE 0)
  /\ UNCHANGED <<set, version, watching, runner, observers, permission, known, since, gone>>

------------------------------------------------------------------------------
(* The broker's thread.  A watch is granted or not by the fix that there   *)
(* is; one that was granted goes on when the fix is cleared.               *)
CreateGeolocation(p) ==
  /\ p \notin gone /\ watch[p] = "none"
  /\ watch' = [watch EXCEPT ![p] = IF set THEN "sent" ELSE "denied"]
  /\ UNCHANGED <<fix, first_done, held_at, reply, told, observing, gone>>

Reply(p) ==
  /\ watch' = [watch EXCEPT ![p] = "replied"]
  /\ reply' = [reply EXCEPT ![p] = version]

QueryNextPosition(p) ==
  /\ watch[p] = "sent"
  /\ IF ~first_done[p]
     THEN Reply(p) /\ first_done' = [first_done EXCEPT ![p] = TRUE] /\ UNCHANGED held_at
     ELSE /\ watch' = [watch EXCEPT ![p] = "held"]
          /\ held_at' = [held_at EXCEPT ![p] = version]
          /\ UNCHANGED <<reply, first_done>>
  /\ UNCHANGED <<fix, told, observing, gone>>

(* The answer that was posted, with the position that there is by now.     *)
AnswerHeld(p) ==
  /\ watch[p] = "posted" /\ Reply(p)
  /\ UNCHANGED <<fix, first_done, held_at, told, observing, gone>>

(* External: the page is told, and asks for the next position.             *)
HearPosition(p) ==
  /\ p \notin gone /\ watch[p] = "replied"
  /\ told' = [told EXCEPT ![p] = reply[p]]
  /\ watch' = [watch EXCEPT ![p] = "sent"]
  /\ UNCHANGED <<fix, first_done, held_at, reply, observing, gone>>

(* HasPermission; its answer leads the page to add an observer.            *)
HasPermission(p) ==
  /\ p \notin gone /\ permission[p] = "none"
  /\ known' = [known EXCEPT ![p] = set]
  /\ permission' = [permission EXCEPT ![p] = "asked"]
  /\ UNCHANGED <<fix, watching, runner, observers, notices, since, gone>>

AddPermissionObserver(p) ==
  /\ permission[p] = "asked"
  /\ permission' = [permission EXCEPT ![p] = "observed"]
  /\ runner' = TRUE /\ observers' = observers \cup {p}
  /\ since' = [since EXCEPT ![p] = version]
  /\ UNCHANGED <<fix, watching, notices, known, gone>>

NotifyGeoPermObservers ==
  /\ notices > 0 /\ notices' = notices - 1
  /\ known' = [p \in Observers |-> IF p \in observers \ gone THEN set ELSE known[p]]
  /\ observers' = observers \ gone
  /\ UNCHANGED <<fix, watching, runner, permission, since, gone>>

PageGoes(p) ==
  /\ p \notin gone /\ gone' = gone \cup {p}
  /\ UNCHANGED <<fix, watching, observing>>

Next ==
  \/ \E s \in BOOLEAN : SetGeolocation(s)
  \/ WakeWaiters \/ PostToObservers \/ NotifyGeoPermObservers
  \/ \E p \in Watchers :
       CreateGeolocation(p) \/ QueryNextPosition(p) \/ AnswerHeld(p) \/ HearPosition(p)
  \/ \E p \in Observers : HasPermission(p) \/ AddPermissionObserver(p)
  \/ \E p \in Pages : PageGoes(p)

------------------------------------------------------------------------------
(* No question is held back over a change: one that waits was asked after  *)
(* the last, or is about to be woken; and no answer is older than one that *)
(* the page had before.                                                    *)
WatchersWaitForAChange ==
  \A p \in Watchers :
    /\ watch[p] = "held" /\ main # "waiters" => held_at[p] = version
    /\ told[p] <= reply[p] /\ reply[p] <= version

(* Once a change has been passed on, observers that were there before it   *)
(* know of it.                                                             *)
ObserversKnow ==
  main = "idle" /\ notices = 0 =>
    \A p \in Observers \ gone :
      permission[p] = "observed" /\ since[p] < version => known[p] = set

GeolocationIsSound == WatchersWaitForAChange /\ ObserversKnow
=============================================================================
