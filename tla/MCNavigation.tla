---------------------------- MODULE MCNavigation ----------------------------
(***************************************************************************)
(* Instances of Navigation, SessionHistory, NetworkActivity and            *)
(* ImageSources for TLC: what the host does with a view, learns of it and  *)
(* lends it.  They keep different state and are explored side by side:     *)
(* `which' says whose behaviours these are.                                *)
(***************************************************************************)
EXTENDS Navigation, FiniteSets

CONSTANTS
  MaxUrls, MaxEntries, MaxVisits,                          \* of SessionHistory
  None, Views, Workers, Waits, Addresses, Loads,           \* of NetworkActivity
  IdleTime, Timeout, MaxPump, MaxStarted,
  Ids, Buffers, MaxCalls, MaxLends                         \* of ImageSources

ASSUME AccountsAssumption ==
  /\ MaxEntries \in Nat \ {0}
  /\ None \notin Addresses \cup Views \cup Buffers
  /\ None \notin [png : BOOLEAN, borrowed : Buffers \cup {None}]
  /\ None \notin [started : Nat, in_flight : Nat, retired : BOOLEAN]
  /\ Views \cap Workers = {} /\ Waits \subseteq Views
  /\ IdleTime \in Nat /\ Timeout \in Nat /\ MaxPump \in Nat
  /\ IsFiniteSet(Loads) /\ IsFiniteSet(Ids)

VARIABLES which,
  entries, index, items, cursor, inHistoryNav, historyUrl, reloading, replacing, suppressed,
  shown, visits, task, failed, astray,
  context, owner, attached, activity, load, now, wait, busy,
  sources, calls, lent, returned

historyVars == <<entries, index, items, cursor, inHistoryNav, historyUrl,
                 reloading, replacing, suppressed, shown, visits, task,
                 failed, astray>>
activityVars == <<context, owner, attached, activity, load, now, wait, busy>>
imageVars == <<sources, calls, lent, returned>>

History == INSTANCE SessionHistory

Activity == INSTANCE NetworkActivity

Images == INSTANCE ImageSources WITH Reenters <- FALSE

(* Contexts that come and go while the host does not wait, and one load;   *)
(* or a view on which the host waits, with nothing beside it.              *)
NobodyWaits == wait' = wait /\ \A l, m \in Loads : l < m => load'[m] = load[m]
HostWaits   == \A x \in (Views \cup Workers) \ Waits : context'[x] = context[x]

SumInit ==
  /\ which \in {"navigation", "history", "contexts", "wait", "images"}
  /\ Init /\ History!Init /\ Images!Init /\ Activity!Init

SumNext ==
  /\ UNCHANGED which
  /\ \/ which = "navigation" /\ Next /\ UNCHANGED <<historyVars, activityVars, imageVars>>
     \/ which = "history" /\ History!Next /\ UNCHANGED <<vars, activityVars, imageVars>>
     \/ /\ which = "contexts" /\ Activity!Next /\ NobodyWaits
        /\ UNCHANGED <<vars, historyVars, imageVars>>
     \/ /\ which = "wait" /\ Activity!Next /\ HostWaits
        /\ UNCHANGED <<vars, historyVars, imageVars>>
     \/ which = "images" /\ Images!Next /\ UNCHANGED <<vars, historyVars, activityVars>>

SumVars == <<vars, historyVars, activityVars, imageVars, which>>

SumSpec == /\ SumInit /\ [][SumNext]_SumVars
           /\ WF_vars(which = "navigation" /\ Returns)
           /\ SF_vars(which = "navigation" /\ Loop)

(* That of SessionHistory: a commit is recorded as what it is, unless what *)
(* failed or was done before leaves the host no way to know it.            *)
CommitsAreRecordedAsWhatTheyAre == [][History!RecordedAsWhatItIs]_historyVars

(* What a view tells of itself is so: at rest the cursor of the host is at *)
(* the entry of the document shown, unless the latest commit was misplaced *)
(* for what came before it; what it counts as under way is, though         *)
(* contexts share workers and addresses, and a wait for idle sees it; and  *)
(* pixels it borrowed come back once.                                      *)
AccountsAreTrue ==
  /\ History!CursorIsAtTheDocument
  /\ Activity!ActivityIsTrue
  /\ Images!ImagesAreSound
=============================================================================
