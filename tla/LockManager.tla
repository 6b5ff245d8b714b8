----------------------------- MODULE LockManager -----------------------------
(***************************************************************************)
(* navigator.locks for one storage scope (OriginLockState in               *)
(* frame/mb_lock_manager.cc): requests of any same-scope page, held locks, *)
(* the queue, and the releases and abandoned requests the host learns of   *)
(* through pipe disconnects and tasks it posts to itself.                  *)
(*                                                                         *)
(* A request and the lock it becomes are one model value.  held_ and       *)
(* queue_ are sets; the order of queue_ is that of Waiter::id, which only  *)
(* grows and is given when the waiter is pushed back.                      *)
(***************************************************************************)
EXTENDS Integers, Sequences

CONSTANTS
  Requests,     \* calls of navigator.locks.request
  Names         \* resources

VARIABLES
  name, mode,   \* request -> the resource and the mode it asks for
  page,         \* request -> "idle", "open", or "closed": the page's end is gone
  held,         \* held_
  queue,        \* queue_
  id,           \* request -> Waiter::id, 0 when not queued
  next_id,      \* next_id_
  tasks,        \* posted OnReleased and OnWaiterGone, in order
  stolen        \* history: a page has used the `steal' option

vars == <<name, mode, page, held, queue, id, next_id, tasks, stolen>>

Modes     == {"SHARED", "EXCLUSIVE"}
WaitModes == {"WAIT", "NO_WAIT", "PREEMPT"}
Tasks     == {"OnWaiterGone", "OnReleased"} \X Requests

------------------------------------------------------------------------------
(* Mutant: the mode of the lock is not looked at.                          *)
ConflictOneWay(m, n) == m = "EXCLUSIVE"

(* A request for mode m against a lock of mode n.                          *)
Conflict(m, n) == m = "EXCLUSIVE" \/ n = "EXCLUSIVE"

IsGrantable(H, n, m) ==
  \A h \in H : name[h] = n => ~Conflict(m, mode[h])

HasWaiterForName(n) == \E w \in queue : name[w] = n

(* The waiters for w's resource that came before it.                       *)
Ahead(Q, w) == {q \in Q : name[q] = name[w] /\ id[q] < id[w]}

(* Mutant: a waiter is looked at on its own, without the names an earlier  *)
(* waiter blocked.                                                         *)
GrantedJumping(H, Q) ==
  {w \in Q :
    /\ IsGrantable(H, name[w], mode[w])
    /\ \A q \in Ahead(Q, w) :
         IsGrantable(H, name[q], mode[q]) =>
           ~Conflict(mode[q], mode[w])}

(* The waiters ProcessQueue grants when H is held and Q is queued: those   *)
(* that conflict neither with a lock nor with an earlier waiter for the    *)
(* same resource, and have no earlier one that does.                       *)
GrantedBy(H, Q) ==
  {w \in Q :
    /\ IsGrantable(H, name[w], mode[w])
    /\ \A q \in Ahead(Q, w) :
         /\ IsGrantable(H, name[q], mode[q])
         /\ ~Conflict(mode[q], mode[w])}

(* The loop itself: each scan walks the queue in order, collects in        *)
(* `blocked' the names of the waiters it cannot grant, grants the first    *)
(* waiter it can and starts again.                                         *)
ScanGrants(H, Q) ==
  LET Blocked(w) == {name[q] : q \in {p \in Q :
                       id[p] < id[w] /\ ~IsGrantable(H, name[p], mode[p])}}
      Can(w) == name[w] \notin Blocked(w) /\ IsGrantable(H, name[w], mode[w])
  IN  {w \in Q : Can(w) /\ \A q \in Q : id[q] < id[w] => ~Can(q)}

LoopGrants(H, Q) ==
  LET granted[G \in SUBSET Q] ==
        LET w == ScanGrants(H \cup G, Q \ G) IN
          IF w = {} THEN G ELSE granted[G \cup w]
  IN  granted[{}]

(* H is held, Q is queued: grant whoever can be granted.                   *)
ProcessQueue(H, Q) ==
  LET G == GrantedBy(H, Q) IN
    /\ held' = H \cup G
    /\ queue' = Q \ G
    /\ id' = [r \in Requests |-> IF r \in Q \ G THEN id[r] ELSE 0]

Init ==
  /\ name = [r \in Requests |-> ""]
  /\ mode = [r \in Requests |-> "SHARED"]
  /\ page = [r \in Requests |-> "idle"]
  /\ held = {} /\ queue = {}
  /\ id = [r \in Requests |-> 0]
  /\ next_id = 1
  /\ tasks = <<>>
  /\ stolen = FALSE

------------------------------------------------------------------------------
(* RequestLock in its three outcomes; H is what is held once a PREEMPT     *)
(* request has broken the locks on its resource.                           *)
LocksLeft(n, w) ==
  IF w = "PREEMPT" THEN {h \in held : name[h] # n} ELSE held

Arrives(r, n, m) ==
  /\ page[r] = "idle"
  /\ name' = [name EXCEPT ![r] = n]
  /\ mode' = [mode EXCEPT ![r] = m]
  /\ UNCHANGED tasks

(* Mutant: grant whenever no lock conflicts, whoever waits.                *)
GrantableAtOnceUnfairly(H, n, m) == IsGrantable(H, n, m)

GrantableAtOnce(H, n, m) ==
  IsGrantable(H, n, m) /\ ~HasWaiterForName(n)

RequestGranted(r, n, m, w) ==
  LET H == LocksLeft(n, w) IN
    /\ Arrives(r, n, m)
    /\ GrantableAtOnce(H, n, m)
    /\ held' = H \cup {r}
    /\ page' = [page EXCEPT ![r] = "open"]
    /\ UNCHANGED <<queue, id, next_id>>

(* LockRequest::Failed: the page gets null and drops its end.              *)
RequestFailed(r, n, m) ==
  /\ Arrives(r, n, m)
  /\ ~GrantableAtOnce(held, n, m)
  /\ page' = [page EXCEPT ![r] = "closed"]
  /\ UNCHANGED <<held, queue, id, next_id>>

RequestQueued(r, n, m, w) ==
  LET H == LocksLeft(n, w) IN
    /\ Arrives(r, n, m)
    /\ ~GrantableAtOnce(H, n, m)
    /\ held' = H
    /\ queue' = queue \cup {r}
    /\ id' = [id EXCEPT ![r] = next_id]
    /\ next_id' = next_id + 1
    /\ page' = [page EXCEPT ![r] = "open"]

(* Blink sends `steal' with exclusive requests only.                       *)
RequestLock(r, n, m, w) ==
  /\ w = "PREEMPT" => m = "EXCLUSIVE"
  /\ stolen' = (stolen \/ w = "PREEMPT")
  /\ \/ RequestGranted(r, n, m, w)
     \/ w = "NO_WAIT" /\ RequestFailed(r, n, m)
     \/ w # "NO_WAIT" /\ RequestQueued(r, n, m, w)

------------------------------------------------------------------------------
(* The page's end of r closes: the callback settled, the request was       *)
(* aborted, or the page is gone.                                           *)
Close(r) ==
  /\ page[r] = "open"
  /\ page' = [page EXCEPT ![r] = "closed"]
  /\ UNCHANGED <<name, mode, held, queue, id, next_id, tasks, stolen>>

Posted(task) == \E i \in 1 .. Len(tasks) : tasks[i] = task

(* The disconnect handler of a queued request runs and posts OnWaiterGone. *)
WaiterDisconnected(r) ==
  /\ page[r] = "closed" /\ r \in queue
  /\ ~Posted(<<"OnWaiterGone", r>>)
  /\ tasks' = Append(tasks, <<"OnWaiterGone", r>>)
  /\ UNCHANGED <<name, mode, page, held, queue, id, next_id, stolen>>

(* The disconnect handler of a held lock runs and posts OnReleased.  A lock *)
(* broken by a steal has lost its handler.                                 *)
HandleDisconnected(r) ==
  /\ page[r] = "closed" /\ r \in held
  /\ ~Posted(<<"OnReleased", r>>)
  /\ tasks' = Append(tasks, <<"OnReleased", r>>)
  /\ UNCHANGED <<name, mode, page, held, queue, id, next_id, stolen>>

(* Mutants: the waiter is dropped but nobody else is looked at, or its id  *)
(* survives it; the lock is dropped but nobody is looked at; it stays.     *)
ForgetWaiter(r)   == queue' = queue \ {r} /\ id' = [id EXCEPT ![r] = 0] /\ UNCHANGED held
ForgetWaiterId(r) == queue' = queue \ {r} /\ UNCHANGED <<held, id>>
ForgetLock(r)     == held' = held \ {r} /\ UNCHANGED <<queue, id>>
KeepLock(r)       == ProcessQueue(held, queue)

OnWaiterGone(r) == ProcessQueue(held, queue \ {r})
OnReleased(r)   == ProcessQueue(held \ {r}, queue)

RunTask ==
  /\ tasks # <<>>
  /\ LET t == Head(tasks) IN
       \/ t[1] = "OnWaiterGone" /\ OnWaiterGone(t[2])
       \/ t[1] = "OnReleased"   /\ OnReleased(t[2])
  /\ tasks' = Tail(tasks)
  /\ UNCHANGED <<name, mode, page, next_id, stolen>>

Disconnected(r) == WaiterDisconnected(r) \/ HandleDisconnected(r)

Next ==
  \/ \E r \in Requests :
       \/ \E n \in Names, m \in Modes, w \in WaitModes : RequestLock(r, n, m, w)
       \/ Close(r)
       \/ Disconnected(r)
  \/ RunTask

Spec == Init /\ [][Next]_vars

(* The service thread delivers disconnects and runs its tasks; pages give  *)
(* every lock back, their callbacks settling sooner or later.              *)
Fairness ==
  /\ WF_vars(RunTask)
  /\ WF_vars(\E r \in Requests : Disconnected(r))
  /\ WF_vars(\E r \in held : Close(r))

FairSpec == Spec /\ Fairness

------------------------------------------------------------------------------
(* The ids order the queue, and no request is in both held_ and queue_.    *)
QueueOrder ==
  /\ held \cap queue = {}
  /\ \A r \in Requests : id[r] < next_id /\ (r \in queue <=> id[r] # 0)
  /\ \A r, q \in queue : id[r] = id[q] => r = q

(* Types, and how the queue and the ids that order it hang together.       *)
TypeOK ==
  /\ name \in [Requests -> Names \cup {""}]
  /\ mode \in [Requests -> Modes]
  /\ page \in [Requests -> {"idle", "open", "closed"}]
  /\ held \subseteq Requests
  /\ queue \subseteq Requests
  /\ id \in [Requests -> Nat]
  /\ next_id \in Nat \ {0}
  /\ tasks \in Seq(Tasks)
  /\ stolen \in BOOLEAN
  /\ QueueOrder

(* Two locks on one resource are held together only if both are shared,    *)
(* through steals, releases seen late and grants to requests that are      *)
(* already gone.                                                           *)
MutualExclusion ==
  \A a, b \in held :
    a # b /\ name[a] = name[b] => mode[a] = "SHARED"

(* "FIFO per resource": a request that a step grants leaves behind no      *)
(* request for its resource that was queued before it.                     *)
GrantsInOrder ==
  [][\A r \in held' \ held, q \in queue' \cap queue :
       name'[r] = name[q] => r \in queue /\ id[r] < id[q]]_vars

(* "Grant grantable waiters in FIFO order": the waiter that is first for   *)
(* its resource is waiting for a lock somebody holds, as long as no page   *)
(* steals.                                                                 *)
NoIdleLock ==
  ~stolen =>
    \A w \in queue :
      Ahead(queue, w) = {} => ~IsGrantable(held, name[w], mode[w])

(* Whatever is released or abandoned next, the loop of ProcessQueue grants *)
(* exactly the waiters GrantedBy names.                                    *)
LoopGrantsGrantedBy ==
  \A gone \in {{}} \cup {{r} : r \in held \cup queue} :
    LET H == held \ gone
        Q == queue \ gone
    IN  LoopGrants(H, Q) = GrantedBy(H, Q)

(* Whoever waits is granted or gives up; the queue keeps "a queued         *)
(* exclusive from being starved".                                          *)
EveryWaiterIsServed == \A r \in Requests : r \in queue ~> r \notin queue

(* As long as no page steals nobody waits for ever, and a lock granted to  *)
(* a request whose page is already gone does not stay.                     *)
LocksMoveOn ==
  []<>((stolen \/ queue = {}) /\ \A r \in held : page[r] # "closed")
=============================================================================
