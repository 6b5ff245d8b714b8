-------------------------- MODULE LockManagerProofs --------------------------
(***************************************************************************)
(* What holds of LockManager for any set of requests and resources; and of *)
(* BroadcastChannel and Geolocation in MCOrigins, for any frames, workers, *)
(* scopes and channels, and any pages that watch the position.             *)
(***************************************************************************)
EXTENDS MCOrigins, SequenceTheorems, FiniteSetTheorems, WellFoundedInduction, TLAPS

(* A request the page has not made is neither held nor queued.             *)
IdleIsOut == \A r \in Requests : page[r] = "idle" => r \notin held /\ r \notin queue

LockInv == TypeOK /\ IdleIsOut /\ MutualExclusion

(* What ProcessQueue grants is grantable together with what is held.       *)
LEMMA GrantedExclude ==
  ASSUME TypeOK, NEW H \in SUBSET Requests, NEW Q \in SUBSET queue,
         \A a, b \in H :
           a # b /\ name[a] = name[b] => mode[a] = "SHARED"
  PROVE  \A a, b \in H \cup GrantedBy(H, Q) :
           a # b /\ name[a] = name[b] => mode[a] = "SHARED"
<1> SUFFICES ASSUME NEW a \in H \cup GrantedBy(H, Q), NEW b \in H \cup GrantedBy(H, Q),
                    a # b, name[a] = name[b]
             PROVE  mode[a] = "SHARED"
  OBVIOUS
<1>0. a \in Requests /\ b \in Requests /\ mode[a] \in Modes
  BY DEF TypeOK, GrantedBy
<1>1. CASE a \in H /\ b \in H
  BY <1>1
<1>2. CASE a \in H /\ b \in GrantedBy(H, Q)
  BY <1>0, <1>2 DEF GrantedBy, IsGrantable, Conflict, Modes
<1>3. CASE a \in GrantedBy(H, Q) /\ b \in H
  BY <1>0, <1>3 DEF GrantedBy, IsGrantable, Conflict, Modes
<1>4. CASE a \in GrantedBy(H, Q) /\ b \in GrantedBy(H, Q)
  <2>1. a \in Q /\ b \in Q /\ id[a] \in Nat /\ id[b] \in Nat /\ id[a] # id[b]
    BY <1>4 DEF GrantedBy, TypeOK, QueueOrder
  <2>2. CASE id[a] < id[b]
    BY <1>0, <1>4, <2>1, <2>2 DEF GrantedBy, Ahead, Conflict, Modes
  <2>3. CASE id[b] < id[a]
    BY <1>0, <1>4, <2>1, <2>3 DEF GrantedBy, Ahead, Conflict, Modes
  <2> QED
    BY <2>1, <2>2, <2>3
<1> QED
  BY <1>1, <1>2, <1>3, <1>4

(* Each task keeps the invariant: ProcessQueue(H, Q) for some part of the  *)
(* locks and waiters.                                                      *)
LEMMA ProcessQueueStep ==
  ASSUME LockInv, NEW H \in SUBSET held, NEW Q \in SUBSET queue,
         ProcessQueue(H, Q), UNCHANGED <<name, mode, page, next_id, stolen>>,
         tasks' \in Seq(Tasks)
  PROVE  LockInv'
<1> DEFINE G == GrantedBy(H, Q)
<1>1. G \subseteq Q
  BY DEF GrantedBy
<1>2. /\ held' = H \cup G
      /\ queue' = Q \ G
      /\ id' = [r \in Requests |-> IF r \in Q \ G THEN id[r] ELSE 0]
  BY DEF ProcessQueue
<1>3. MutualExclusion'
  <2>1. TypeOK /\ H \in SUBSET Requests
    BY DEF LockInv, TypeOK
  <2>2. \A a, b \in H : a # b /\ name[a] = name[b] => mode[a] = "SHARED"
    BY DEF LockInv, MutualExclusion
  <2>3. \A a, b \in H \cup G : a # b /\ name[a] = name[b] => mode[a] = "SHARED"
    BY <2>1, <2>2, GrantedExclude, Zenon
  <2> QED
    BY <1>2, <2>3 DEF MutualExclusion
<1> HIDE DEF G
<1>4. QueueOrder'
  <2>1. QueueOrder /\ queue \subseteq Requests /\ H \subseteq held /\ Q \subseteq queue
    BY DEF LockInv, TypeOK
  <2>2. \A r \in Requests : id'[r] = IF r \in queue' THEN id[r] ELSE 0
    BY <1>2
  <2>3. held' \cap queue' = {}
    BY <1>1, <1>2, <2>1 DEF QueueOrder
  <2>4. \A r \in Requests : id'[r] < next_id' /\ (r \in queue' <=> id'[r] # 0)
    <3>1. next_id' = next_id /\ next_id \in Nat \ {0}
      BY DEF LockInv, TypeOK
    <3>2. \A r \in Requests : id[r] < next_id /\ (r \in queue <=> id[r] # 0)
      BY <2>1 DEF QueueOrder
    <3>3. queue' \subseteq queue
      BY <1>2, <2>1
    <3> QED
      BY <2>2, <3>1, <3>2, <3>3
  <2>5. \A r, q \in queue' : id'[r] = id'[q] => r = q
    BY <1>2, <2>1, <2>2 DEF QueueOrder
  <2> QED
    BY <2>3, <2>4, <2>5 DEF QueueOrder
<1>5. id' \in [Requests -> Nat]
  BY <1>2 DEF LockInv, TypeOK
<1>6. TypeOK'
  BY <1>1, <1>2, <1>4, <1>5 DEF LockInv, TypeOK
<1>7. IdleIsOut'
  BY <1>1, <1>2 DEF LockInv, IdleIsOut
<1> QED
  BY <1>3, <1>6, <1>7 DEF LockInv

LEMMA RequestStep ==
  ASSUME LockInv, NEW r \in Requests, NEW n \in Names, NEW m \in Modes,
         NEW w \in WaitModes, RequestLock(r, n, m, w)
  PROVE  LockInv'
<1>0. TypeOK /\ QueueOrder /\ IdleIsOut /\ MutualExclusion
  BY DEF LockInv, TypeOK
<1>1. /\ page[r] = "idle"
      /\ name' = [name EXCEPT ![r] = n]
      /\ mode' = [mode EXCEPT ![r] = m]
      /\ tasks' = tasks
  BY DEF RequestLock, RequestGranted, RequestFailed, RequestQueued, Arrives
<1>2. r \notin held /\ r \notin queue
  BY <1>0, <1>1 DEF IdleIsOut
<1>3. LocksLeft(n, w) \subseteq held
  BY DEF LocksLeft
<1>4. name' \in [Requests -> Names \cup {""}] /\ mode' \in [Requests -> Modes]
  BY <1>0, <1>1 DEF TypeOK
<1>5. /\ \A q \in Requests \ {r} : name'[q] = name[q] /\ mode'[q] = mode[q]
      /\ name'[r] = n /\ mode'[r] = m
  BY <1>0, <1>1 DEF TypeOK
<1>6. held \subseteq Requests /\ queue \subseteq Requests
  BY <1>0 DEF TypeOK
<1>10. stolen' \in BOOLEAN
  BY <1>0, Zenon DEF RequestLock, TypeOK
<1>7. CASE RequestGranted(r, n, m, w)
  <2>1. /\ held' = LocksLeft(n, w) \cup {r}
        /\ page' = [page EXCEPT ![r] = "open"]
        /\ queue' = queue /\ id' = id /\ next_id' = next_id
        /\ IsGrantable(LocksLeft(n, w), n, m)
    BY <1>7 DEF RequestGranted, GrantableAtOnce
  <2>2. QueueOrder'
    BY <1>0, <1>2, <1>3, <2>1 DEF QueueOrder
  <2>3. TypeOK'
    BY <1>0, <1>1, <1>3, <1>4, <2>1, <2>2, <1>10 DEF TypeOK
  <2>4. IdleIsOut'
    BY <1>0, <1>3, <2>1 DEF IdleIsOut, TypeOK
  <2>5. MutualExclusion'
    <3>1. \A h \in LocksLeft(n, w) :
            name[h] = n => mode[h] = "SHARED" /\ m = "SHARED"
      <4>1. \A h \in LocksLeft(n, w) : mode[h] \in Modes
        BY <1>0, <1>3, <1>6 DEF TypeOK
      <4> QED
        BY <2>1, <4>1 DEF IsGrantable, Conflict, Modes
    <3>2. \A h \in LocksLeft(n, w) : name'[h] = name[h] /\ mode'[h] = mode[h]
      BY <1>2, <1>3, <1>5, <1>6
    <3> QED
      BY <1>0, <1>3, <1>5, <2>1, <3>1, <3>2 DEF MutualExclusion
  <2> QED
    BY <2>3, <2>4, <2>5 DEF LockInv
<1>8. CASE RequestFailed(r, n, m)
  <2>1. /\ page' = [page EXCEPT ![r] = "closed"]
        /\ held' = held /\ queue' = queue /\ id' = id /\ next_id' = next_id
    BY <1>8 DEF RequestFailed
  <2>2. QueueOrder'
    BY <1>0, <2>1 DEF QueueOrder
  <2>3. TypeOK'
    BY <1>0, <1>1, <1>4, <2>1, <2>2, <1>10 DEF TypeOK
  <2>4. IdleIsOut'
    BY <1>0, <2>1 DEF IdleIsOut, TypeOK
  <2>5. MutualExclusion'
    BY <1>0, <1>2, <1>5, <1>6, <2>1 DEF MutualExclusion
  <2> QED
    BY <2>3, <2>4, <2>5 DEF LockInv
<1>9. CASE RequestQueued(r, n, m, w)
  <2>1. /\ held' = LocksLeft(n, w) /\ queue' = queue \cup {r}
        /\ page' = [page EXCEPT ![r] = "open"]
        /\ id' = [id EXCEPT ![r] = next_id] /\ next_id' = next_id + 1
    BY <1>9 DEF RequestQueued
  <2>2. id \in [Requests -> Nat] /\ next_id \in Nat \ {0}
    BY <1>0 DEF TypeOK
  <2>3. QueueOrder'
    <3>1. held' \cap queue' = {}
      BY <1>0, <1>2, <1>3, <2>1 DEF QueueOrder
    <3>2. \A q \in Requests : id'[q] < next_id' /\ (q \in queue' <=> id'[q] # 0)
      BY <1>0, <1>2, <2>1, <2>2 DEF QueueOrder
    <3>3. \A p, q \in queue' : id'[p] = id'[q] => p = q
      BY <1>0, <1>2, <1>6, <2>1, <2>2 DEF QueueOrder
    <3> QED
      BY <3>1, <3>2, <3>3 DEF QueueOrder
  <2>4. TypeOK'
    <3>1. id' \in [Requests -> Nat] /\ next_id' \in Nat \ {0}
      BY <2>1, <2>2
    <3> QED
      BY <1>0, <1>1, <1>3, <1>4, <2>1, <2>3, <3>1, <1>10 DEF TypeOK
  <2>5. IdleIsOut'
    BY <1>0, <1>3, <2>1 DEF IdleIsOut, TypeOK
  <2>6. MutualExclusion'
    BY <1>0, <1>2, <1>3, <1>5, <1>6, <2>1 DEF MutualExclusion
  <2> QED
    BY <2>4, <2>5, <2>6 DEF LockInv
<1> QED
  BY <1>7, <1>8, <1>9 DEF RequestLock

LEMMA LockInvStep == LockInv /\ [Next]_vars => LockInv'
<1> SUFFICES ASSUME LockInv, [Next]_vars PROVE LockInv'
  OBVIOUS
<1> USE DEF LockInv, TypeOK, QueueOrder, IdleIsOut, MutualExclusion
<1>1. CASE UNCHANGED vars
  BY <1>1 DEF vars
<1>2. ASSUME NEW r \in Requests, NEW n \in Names, NEW m \in Modes, NEW w \in WaitModes,
             RequestLock(r, n, m, w)
      PROVE  LockInv'
  BY <1>2, RequestStep
<1>3. ASSUME NEW r \in Requests, Close(r) PROVE LockInv'
  BY <1>3 DEF Close
<1>4. ASSUME NEW r \in Requests, Disconnected(r) PROVE LockInv'
  <2>1. PICK t \in Tasks : tasks' = Append(tasks, t)
    BY <1>4 DEF Disconnected, WaiterDisconnected, HandleDisconnected, Tasks
  <2>2. tasks' \in Seq(Tasks)
    BY <2>1, AppendProperties
  <2>3. UNCHANGED <<name, mode, page, held, queue, id, next_id, stolen>>
    BY <1>4 DEF Disconnected, WaiterDisconnected, HandleDisconnected
  <2> QED
    BY <2>2, <2>3
<1>5. CASE RunTask
  <2>1. /\ tasks' = Tail(tasks) /\ tasks # <<>> /\ tasks \in Seq(Tasks)
        /\ UNCHANGED <<name, mode, page, next_id, stolen>>
    BY <1>5 DEF RunTask
  <2>2. tasks' \in Seq(Tasks)
    BY <2>1, HeadTailProperties
  <2>3. \E H \in SUBSET held, Q \in SUBSET queue : ProcessQueue(H, Q)
    <3>1. PICK x : OnWaiterGone(x) \/ OnReleased(x)
      BY <1>5 DEF RunTask
    <3>2. /\ held \ {x} \in SUBSET held /\ held \in SUBSET held
          /\ queue \ {x} \in SUBSET queue /\ queue \in SUBSET queue
      OBVIOUS
    <3> HIDE DEF LockInv
    <3> QED
      BY <3>1, <3>2, Zenon DEF OnWaiterGone, OnReleased
  <2> QED
    BY <2>1, <2>2, <2>3, ProcessQueueStep
<1> QED
  BY <1>1, <1>2, <1>3, <1>4, <1>5 DEF Next

LEMMA LockInvHolds == Spec => []LockInv
<1>1. Init => LockInv
  <2> SUFFICES ASSUME Init PROVE LockInv
    OBVIOUS
  <2>1. tasks \in Seq(Tasks)
    BY EmptySeq DEF Init
  <2>2. mode \in [Requests -> Modes]
    BY DEF Init, Modes
  <2>0. held = {} /\ queue = {} /\ next_id = 1 /\ id = [r \in Requests |-> 0]
    BY Zenon DEF Init
  <2>3. QueueOrder
    <3>1. \A r \in Requests : r \notin queue
      BY <2>0, Zenon
    <3>2. next_id = 1 /\ id = [r \in Requests |-> 0]
      BY <2>0, Zenon
    <3>3. \A r \in Requests : id[r] < next_id
      <4>1. \A r \in Requests : id[r] = 0
        BY <3>2
      <4>2. 0 < 1
        OBVIOUS
      <4>3. next_id = 1
        BY <3>2, Zenon
      <4> QED
        BY <4>1, <4>2, <4>3, Zenon
    <3>4. \A r \in Requests : ~(id[r] # 0)
      BY <3>2
    <3> QED
      BY <2>0, <3>1, <3>3, <3>4, Zenon DEF QueueOrder
  <2>4. IdleIsOut /\ MutualExclusion
    BY DEF Init, IdleIsOut, MutualExclusion
  <2>5. TypeOK
    <3>1. name \in [Requests -> Names \cup {""}]
      BY DEF Init
    <3>2. page \in [Requests -> {"idle", "open", "closed"}]
      BY DEF Init
    <3>3. next_id = 1 /\ id = [r \in Requests |-> 0]
      BY <2>0, Zenon
    <3>4. next_id \in Nat \ {0} /\ id \in [Requests -> Nat]
      BY <3>3
    <3>5. stolen \in BOOLEAN
      BY Zenon DEF Init
    <3> QED
      BY <2>0, <2>1, <2>2, <2>3, <3>1, <3>2, <3>4, <3>5, Zenon DEF TypeOK
  <2> QED
    BY <2>4, <2>5 DEF LockInv
<1> QED
  BY <1>1, LockInvStep, PTL DEF Spec

(* The types and the order of the queue hold in every reachable state.     *)
THEOREM TypeCorrect == Spec => []TypeOK
<1>1. LockInv => TypeOK
  BY DEF LockInv
<1> QED
  BY <1>1, LockInvHolds, PTL

(* No two conflicting locks are ever held, steals included.                *)
THEOREM Exclusion == Spec => []MutualExclusion
<1>1. LockInv => MutualExclusion
  BY DEF LockInv
<1> QED
  BY <1>1, LockInvHolds, PTL
------------------------------------------------------------------------------
(* What ProcessQueue leaves in the queue came after whatever it grants, and *)
(* its first waiter for a resource is blocked by a lock.                   *)
LEMMA GrantedInOrder ==
  ASSUME TypeOK, NEW H \in SUBSET held, NEW Q \in SUBSET queue,
         NEW r \in GrantedBy(H, Q), NEW q \in Q \ GrantedBy(H, Q), name[r] = name[q]
  PROVE  id[r] < id[q]
<1>1. /\ r \in Q /\ q \in Q /\ r # q
      /\ r \in Requests /\ q \in Requests /\ r \in queue /\ q \in queue
  BY DEF GrantedBy, TypeOK
<1>2. id \in [Requests -> Nat] /\ mode \in [Requests -> Modes]
  BY DEF TypeOK
<1>3. id[r] # id[q]
  BY <1>1 DEF TypeOK, QueueOrder
<1>4. ASSUME id[q] < id[r] PROVE FALSE
  <2>1. q \in Ahead(Q, r)
    BY <1>1, <1>4 DEF Ahead
  <2>2. IsGrantable(H, name[q], mode[q]) /\ ~Conflict(mode[q], mode[r])
    BY <2>1 DEF GrantedBy
  <2>3. PICK p \in Ahead(Q, q) :
          ~IsGrantable(H, name[p], mode[p]) \/ Conflict(mode[p], mode[q])
    BY <1>1, <2>2 DEF GrantedBy
  <2>4. p \in Q /\ p \in Requests /\ id[p] < id[q] /\ name[p] = name[q]
    BY DEF Ahead, TypeOK
  <2>5. id[p] \in Nat /\ id[q] \in Nat /\ id[r] \in Nat
    BY <1>1, <1>2, <2>4
  <2>6. p \in Ahead(Q, r)
    BY <1>4, <2>4, <2>5 DEF Ahead
  <2>7. IsGrantable(H, name[p], mode[p]) /\ ~Conflict(mode[p], mode[r])
    BY <2>6 DEF GrantedBy
  <2> QED
    BY <2>2, <2>3, <2>7 DEF Conflict
<1>5. id[r] \in Nat /\ id[q] \in Nat
  BY <1>1, <1>2
<1> QED
  BY <1>3, <1>4, <1>5

LEMMA LeftIsBlocked ==
  ASSUME TypeOK, NEW H \in SUBSET held, NEW Q \in SUBSET queue,
         NEW w \in Q \ GrantedBy(H, Q), Ahead(Q \ GrantedBy(H, Q), w) = {}
  PROVE  ~IsGrantable(H \cup GrantedBy(H, Q), name[w], mode[w])
<1> SUFFICES ASSUME IsGrantable(H \cup GrantedBy(H, Q), name[w], mode[w])
             PROVE  FALSE
  OBVIOUS
<1>1. IsGrantable(H, name[w], mode[w])
  BY DEF IsGrantable
<1>2. PICK p \in Ahead(Q, w) :
        ~IsGrantable(H, name[p], mode[p]) \/ Conflict(mode[p], mode[w])
  BY <1>1 DEF GrantedBy
<1>3. p \in GrantedBy(H, Q) /\ name[p] = name[w]
  BY DEF Ahead
<1>4. Conflict(mode[p], mode[w])
  BY <1>2, <1>3 DEF GrantedBy
<1> QED
  BY <1>3, <1>4 DEF IsGrantable, Conflict

(* The tasks call ProcessQueue on part of the locks and the waiters.       *)
LEMMA TaskProcesses ==
  ASSUME RunTask
  PROVE  /\ \E H \in SUBSET held, Q \in SUBSET queue : ProcessQueue(H, Q)
         /\ UNCHANGED <<name, mode, stolen>>
<1>1. PICK x : OnWaiterGone(x) \/ OnReleased(x)
  BY DEF RunTask
<1>2. /\ held \ {x} \in SUBSET held /\ held \in SUBSET held
      /\ queue \ {x} \in SUBSET queue /\ queue \in SUBSET queue
  OBVIOUS
<1>3. UNCHANGED <<name, mode, stolen>>
  BY DEF RunTask
<1> QED
  BY <1>1, <1>2, <1>3, Zenon DEF OnWaiterGone, OnReleased

(* What the other steps do to locks and waiters: a request is granted      *)
(* where nobody waits, or put at the end of the queue, or neither.         *)
LEMMA ArrivalIsFair ==
  ASSUME LockInv, NEW r \in Requests, NEW n \in Names, NEW m \in Modes,
         NEW w \in WaitModes, RequestLock(r, n, m, w)
  PROVE  /\ r \notin held /\ r \notin queue
         /\ \A q \in Requests \ {r} : name'[q] = name[q] /\ mode'[q] = mode[q]
         /\ name'[r] = n /\ mode'[r] = m
         /\ held' \subseteq held \cup {r}
         /\ r \in held' => queue' = queue /\ ~HasWaiterForName(n)
         /\ ~stolen' => ~stolen /\ w # "PREEMPT"
<1>1. page[r] = "idle" /\ name' = [name EXCEPT ![r] = n] /\ mode' = [mode EXCEPT ![r] = m]
  BY DEF RequestLock, RequestGranted, RequestFailed, RequestQueued, Arrives
<1>2. r \notin held /\ r \notin queue
  BY <1>1 DEF LockInv, IdleIsOut
<1>3. /\ \A q \in Requests \ {r} : name'[q] = name[q] /\ mode'[q] = mode[q]
      /\ name'[r] = n /\ mode'[r] = m
  BY <1>1 DEF LockInv, TypeOK
<1>4. LocksLeft(n, w) \subseteq held
  BY DEF LocksLeft
<1>5. held' \subseteq held \cup {r}
  BY <1>4 DEF RequestLock, RequestGranted, RequestFailed, RequestQueued
<1>6. r \in held' => queue' = queue /\ ~HasWaiterForName(n)
  BY <1>2, <1>4 DEF RequestLock, RequestGranted, RequestFailed, RequestQueued, GrantableAtOnce
<1>7. ~stolen' => ~stolen /\ w # "PREEMPT"
  BY DEF RequestLock
<1> QED
  BY <1>2, <1>3, <1>5, <1>6, <1>7

(* Nobody is granted a lock past a request that waited longer for it.      *)
THEOREM FirstComeFirstServed == Spec => GrantsInOrder
<1> DEFINE ServedInOrder ==
      \A r \in held' \ held, q \in queue' \cap queue :
        name'[r] = name[q] => r \in queue /\ id[r] < id[q]
<1>1. ASSUME LockInv, [Next]_vars PROVE ServedInOrder
  <2>0. TypeOK /\ queue \subseteq Requests
    BY <1>1 DEF LockInv, TypeOK
  <2>1. CASE UNCHANGED vars
    BY <2>1 DEF vars
  <2>2. ASSUME NEW r \in Requests, NEW n \in Names, NEW m \in Modes, NEW w \in WaitModes,
               RequestLock(r, n, m, w)
        PROVE  ServedInOrder
    BY <1>1, <2>0, <2>2, ArrivalIsFair DEF HasWaiterForName
  <2>3. ASSUME NEW r \in Requests, Close(r) \/ Disconnected(r) PROVE ServedInOrder
    BY <2>3 DEF Close, Disconnected, WaiterDisconnected, HandleDisconnected
  <2>4. CASE RunTask
    <3>1. PICK H \in SUBSET held, Q \in SUBSET queue : ProcessQueue(H, Q)
      BY <2>4, TaskProcesses
    <3>2. /\ held' = H \cup GrantedBy(H, Q)
          /\ queue' = Q \ GrantedBy(H, Q)
          /\ GrantedBy(H, Q) \subseteq queue
          /\ name' = name
      BY <2>4, <3>1, TaskProcesses DEF ProcessQueue, GrantedBy
    <3>3. \A r \in GrantedBy(H, Q), q \in Q \ GrantedBy(H, Q) :
            name[r] = name[q] => id[r] < id[q]
      BY <2>0, GrantedInOrder
    <3> QED
      BY <3>2, <3>3
  <2> QED
    BY <1>1, <2>1, <2>2, <2>3, <2>4 DEF Next
<1>2. LockInv /\ [Next]_vars => [ServedInOrder]_vars
  BY <1>1
<1> QED
  BY <1>2, LockInvHolds, PTL DEF Spec, GrantsInOrder

(* As long as no page steals, nobody waits for a lock that is free.        *)
THEOREM NobodyWaitsForNothing == Spec => []NoIdleLock
<1>1. Init => NoIdleLock
  BY DEF Init, NoIdleLock
<1>2. ASSUME LockInv, NoIdleLock, [Next]_vars PROVE NoIdleLock'
  <2>0. /\ TypeOK /\ queue \subseteq Requests /\ held \subseteq Requests
        /\ id \in [Requests -> Nat] /\ next_id \in Nat
        /\ \A q \in queue : id[q] < next_id
    BY <1>2 DEF LockInv, TypeOK, QueueOrder
  <2>1. CASE UNCHANGED <<name, mode, held, queue, id, stolen>>
    BY <1>2, <2>1 DEF NoIdleLock, Ahead, IsGrantable
  <2>2. ASSUME NEW r \in Requests, NEW n \in Names, NEW m \in Modes, NEW w \in WaitModes,
               RequestLock(r, n, m, w)
        PROVE  NoIdleLock'
    <3> SUFFICES ASSUME ~stolen', NEW x \in queue', Ahead(queue, x)' = {}
                 PROVE  ~IsGrantable(held, name[x], mode[x])'
      BY DEF NoIdleLock
    <3>0. w # "PREEMPT" /\ ~stolen
      BY <1>2, <2>2, ArrivalIsFair
    <3>1. /\ r \notin held /\ r \notin queue
          /\ \A q \in Requests \ {r} : name'[q] = name[q] /\ mode'[q] = mode[q]
          /\ name'[r] = n /\ mode'[r] = m
      BY <1>2, <2>2, ArrivalIsFair
    <3>2. LocksLeft(n, w) = held
      BY <3>0 DEF LocksLeft
    <3>3. CASE queue' = queue /\ id' = id /\ held \subseteq held'
      <4>1. x \in queue /\ x \in Requests \ {r}
        BY <2>0, <3>1, <3>3
      <4>2. Ahead(queue, x)' = Ahead(queue, x)
        BY <2>0, <3>1, <3>3, <4>1 DEF Ahead
      <4>3. ~IsGrantable(held, name[x], mode[x])
        BY <1>2, <3>0, <4>1, <4>2 DEF NoIdleLock
      <4>4. PICK h \in held : name[h] = name[x] /\ Conflict(mode[x], mode[h])
        BY <4>3 DEF IsGrantable
      <4>5. /\ h \in held' /\ name'[h] = name[h] /\ mode'[h] = mode[h]
            /\ name'[x] = name[x] /\ mode'[x] = mode[x]
        BY <2>0, <3>1, <3>3, <4>1
      <4> QED
        BY <4>4, <4>5 DEF IsGrantable, Conflict
    <3>4. CASE RequestQueued(r, n, m, w)
      <4>1. /\ queue' = queue \cup {r} /\ held' = held
            /\ id' = [id EXCEPT ![r] = next_id]
            /\ ~GrantableAtOnce(held, n, m)
        BY <3>2, <3>4 DEF RequestQueued
      <4>2. \A q \in queue : q # r /\ name'[q] = name[q] /\ id'[q] = id[q]
                             /\ mode'[q] = mode[q]
        BY <2>0, <3>1, <4>1
      <4>3. id'[r] = next_id
        BY <2>0, <4>1
      <4>4. CASE x = r
        <5>1. ASSUME NEW q \in queue, name[q] = n PROVE FALSE
          <6>1. q \in queue' /\ name'[q] = name'[x] /\ id'[q] < id'[x]
            BY <2>0, <3>1, <4>1, <4>2, <4>3, <4>4, <5>1
          <6> QED
            BY <6>1 DEF Ahead
        <5>2. ~IsGrantable(held, n, m)
          BY <4>1, <5>1 DEF GrantableAtOnce, HasWaiterForName
        <5>3. PICK h \in held : name[h] = n /\ Conflict(m, mode[h])
          BY <5>2 DEF IsGrantable
        <5>4. h \in held' /\ name'[h] = n /\ mode'[h] = mode[h]
          BY <2>0, <3>1, <4>1, <5>3
        <5> QED
          BY <3>1, <4>4, <5>3, <5>4 DEF IsGrantable, Conflict
      <4>5. CASE x # r
        <5>1. x \in queue
          BY <4>1, <4>5
        <5>2. Ahead(queue, x) \subseteq Ahead(queue, x)'
          BY <4>1, <4>2, <5>1 DEF Ahead
        <5>3. ~IsGrantable(held, name[x], mode[x])
          BY <1>2, <3>0, <5>1, <5>2 DEF NoIdleLock
        <5>4. PICK h \in held : name[h] = name[x] /\ Conflict(mode[x], mode[h])
          BY <5>3 DEF IsGrantable
        <5>5. h \in held' /\ name'[h] = name[h] /\ mode'[h] = mode[h]
          BY <2>0, <3>1, <4>1
        <5> QED
          BY <4>2, <5>1, <5>4, <5>5 DEF IsGrantable, Conflict
      <4> QED
        BY <4>4, <4>5
    <3> QED
      BY <2>2, <3>2, <3>3, <3>4 DEF RequestLock, RequestGranted, RequestFailed
  <2>3. CASE RunTask
    <3>1. PICK H \in SUBSET held, Q \in SUBSET queue : ProcessQueue(H, Q)
      BY <2>3, TaskProcesses
    <3>2. /\ held' = H \cup GrantedBy(H, Q)
          /\ queue' = Q \ GrantedBy(H, Q)
          /\ \A q \in queue' : id'[q] = id[q]
          /\ name' = name /\ mode' = mode
      BY <2>0, <2>3, <3>1, TaskProcesses DEF ProcessQueue
    <3>3. \A x \in Q \ GrantedBy(H, Q) :
            Ahead(Q \ GrantedBy(H, Q), x) = {} =>
              ~IsGrantable(H \cup GrantedBy(H, Q), name[x], mode[x])
      BY <2>0, LeftIsBlocked
    <3>4. \A x \in queue' : Ahead(queue, x)' = Ahead(Q \ GrantedBy(H, Q), x)
      BY <3>2 DEF Ahead
    <3> QED
      BY <3>2, <3>3, <3>4 DEF NoIdleLock, IsGrantable
  <2> QED
    BY <1>2, <2>1, <2>2, <2>3
    DEF Next, vars, Close, Disconnected, WaiterDisconnected, HandleDisconnected
<1>3. LockInv /\ NoIdleLock /\ [Next]_vars => NoIdleLock'
  BY <1>2
<1> QED
  BY <1>1, <1>3, LockInvHolds, PTL DEF Spec

------------------------------------------------------------------------------
(* Among any waiters there is one that came first.                         *)
LEMMA FirstWaiter ==
  ASSUME TypeOK, NEW W \in SUBSET queue, W # {}
  PROVE  \E w \in W : \A q \in W : ~(id[q] < id[w])
<1> DEFINE T == {id[q] : q \in W}
           R == OpToRel(<, Nat)
<1>1. T \subseteq Nat /\ T # {}
  <2>1. \A q \in W : q \in Requests /\ id[q] \in Nat
    BY DEF TypeOK
  <2> QED
    BY <2>1
<1>2. \A x, y \in Nat : y < x => <<y, x>> \in R
  BY DEF OpToRel
<1>3. IsWellFoundedOn(R, Nat)
  BY NatLessThanWellFounded, Zenon
<1> HIDE DEF R
<1>4. PICK t \in T : \A y \in T : ~(<<y, t>> \in R)
  <2> HIDE DEF T
  <2> QED BY <1>1, <1>3, WFMin, Zenon
<1>5. PICK w \in W : id[w] = t
  BY <1>4
<1>6. \A q \in W : id[q] \in T /\ id[q] \in Nat /\ t \in Nat
  BY <1>1, <1>4
<1> QED
  BY <1>2, <1>4, <1>5, <1>6

(* What one scan of the loop grants is the first of what ProcessQueue      *)
(* grants in one step, and leaves the rest of it to the scans that follow. *)
THEOREM ScansGrantTheRest ==
  ASSUME TypeOK, NEW H \in SUBSET Requests, NEW Q \in SUBSET queue
  PROVE  LET w == ScanGrants(H, Q)
             G == GrantedBy(H, Q)
         IN  /\ w \subseteq G /\ (w = {} => G = {})
             /\ GrantedBy(H \cup w, Q \ w) = G \ w
<1> DEFINE w == ScanGrants(H, Q)
           G == GrantedBy(H, Q)
           Can(x) == /\ \A p \in Q : id[p] < id[x] /\ name[p] = name[x] =>
                          IsGrantable(H, name[p], mode[p])
                     /\ IsGrantable(H, name[x], mode[x])
<1>1. /\ Q \subseteq Requests /\ Q \subseteq queue /\ id \in [Requests -> Nat]
      /\ \A p, q \in Q : id[p] = id[q] => p = q
      /\ \A p \in Q : id[p] \in Nat
  BY DEF TypeOK, QueueOrder
<1>2. w = {x \in Q : Can(x) /\ \A q \in Q : id[q] < id[x] => ~Can(q)}
  BY DEF ScanGrants
<1>3. \A x \in G : x \in Q /\ Can(x) /\ \A q \in Ahead(Q, x) : ~Conflict(mode[q], mode[x])
  BY DEF GrantedBy, Ahead
<1>4. w = {} => G = {}
  <2> SUFFICES ASSUME G # {} PROVE w # {}
    OBVIOUS
  <2> DEFINE C == {x \in Q : Can(x)}
  <2>1. C # {} /\ C \in SUBSET queue
    BY <1>1, <1>3
  <2>2. PICK x \in C : \A q \in C : ~(id[q] < id[x])
    BY <2>1, FirstWaiter
  <2> QED
    BY <1>2, <2>2
<1>5. \A x \in w : x \in Q /\ Can(x) /\ Ahead(Q, x) = {}
  <2> SUFFICES ASSUME NEW x \in w, NEW q \in Ahead(Q, x) PROVE FALSE
    BY <1>2
  <2>1. x \in Q /\ Can(x) /\ ~Can(q) /\ q \in Q /\ name[q] = name[x] /\ id[q] < id[x]
    BY <1>2 DEF Ahead
  <2>2. PICK p \in Q : id[p] < id[q] /\ name[p] = name[q] /\ ~IsGrantable(H, name[p], mode[p])
    BY <2>1
  <2>3. id[p] < id[x]
    BY <1>1, <2>1, <2>2
  <2> QED
    BY <2>1, <2>2, <2>3
<1>6. w \subseteq G
  BY <1>5 DEF GrantedBy
<1>7. \A x, y \in w : x = y
  BY <1>1, <1>2
<1>8. \A g \in w, x \in G : x # g /\ name[x] = name[g] => ~Conflict(mode[x], mode[g])
  <2> SUFFICES ASSUME NEW g \in w, NEW x \in G, x # g, name[x] = name[g]
               PROVE  ~Conflict(mode[x], mode[g])
    OBVIOUS
  <2>1. x \in Q /\ Can(x) /\ g \in Q /\ \A q \in Q : id[q] < id[g] => ~Can(q)
    BY <1>2, <1>3
  <2>2. id[g] < id[x]
    BY <1>1, <2>1
  <2>3. g \in Ahead(Q, x)
    BY <2>1, <2>2 DEF Ahead
  <2> QED
    BY <1>3, <2>3 DEF Conflict
<1> DEFINE N == GrantedBy(H \cup w, Q \ w)
<1>9. G \ w \subseteq N
  <2> SUFFICES ASSUME NEW x \in G, x \notin w PROVE x \in N
    OBVIOUS
  <2>1. \A y \in G : y \notin w => IsGrantable(H \cup w, name[y], mode[y])
    BY <1>3, <1>6, <1>8 DEF IsGrantable
  <2>2. \A q \in Ahead(Q, x) : q \in G /\ ~Conflict(mode[q], mode[x])
    <3> SUFFICES ASSUME NEW q \in Ahead(Q, x) PROVE q \in G /\ ~Conflict(mode[q], mode[x])
      OBVIOUS
    <3>1. /\ x \in Q /\ q \in Q /\ name[q] = name[x] /\ id[q] < id[x]
          /\ \A p \in Ahead(Q, x) : IsGrantable(H, name[p], mode[p]) /\ ~Conflict(mode[p], mode[x])
      BY DEF Ahead, GrantedBy
    <3>2. \A p \in Ahead(Q, q) : p \in Ahead(Q, x)
      BY <1>1, <3>1 DEF Ahead
    <3> QED
      BY <3>1, <3>2 DEF GrantedBy, Conflict
  <2>3. \A q \in Ahead(Q \ w, x) : q \in Ahead(Q, x) /\ q \notin w
    BY DEF Ahead
  <2> QED
    BY <1>3, <2>1, <2>2, <2>3 DEF GrantedBy
<1>10. N \subseteq G \ w
  <2> SUFFICES ASSUME NEW x \in N PROVE x \in G
    BY DEF GrantedBy
  <2>1. /\ x \in Q /\ x \notin w /\ IsGrantable(H \cup w, name[x], mode[x])
        /\ \A q \in Ahead(Q \ w, x) : /\ IsGrantable(H \cup w, name[q], mode[q])
                                     /\ ~Conflict(mode[q], mode[x])
    BY DEF GrantedBy
  <2>2. \A y : IsGrantable(H \cup w, name[y], mode[y]) => IsGrantable(H, name[y], mode[y])
    BY DEF IsGrantable
  <2>3. \A g \in w : g \in Ahead(Q, x) => /\ IsGrantable(H, name[g], mode[g])
                                         /\ ~Conflict(mode[g], mode[x])
    BY <1>5, <2>1 DEF IsGrantable, Ahead, Conflict
  <2>4. \A q \in Ahead(Q, x) : q \in w \/ q \in Ahead(Q \ w, x)
    BY DEF Ahead
  <2> HIDE DEF w, N, Can
  <2> QED
    BY <2>1, <2>2, <2>3, <2>4 DEF GrantedBy
<1>11. N = G \ w
  BY <1>9, <1>10
<1> HIDE DEF Can
<1> QED
  BY <1>4, <1>6, <1>11

------------------------------------------------------------------------------
(* Ids are given once, so that there are no more waiters than ids.         *)
LEMMA QueueIsFinite ==
  ASSUME TypeOK
  PROVE  IsFiniteSet(queue)
<1> DEFINE f == [q \in queue |-> id[q]]
<1>0. /\ next_id \in Nat \ {0}
      /\ \A q \in queue : id[q] \in Nat /\ id[q] < next_id /\ id[q] # 0
  BY DEF TypeOK, QueueOrder
<1>1. /\ next_id \in Nat /\ next_id - 1 \in Nat
      /\ \A q \in queue : id[q] \in 1 .. next_id - 1
  <2>1. ASSUME NEW i \in Nat, NEW n \in Nat \ {0}, i < n, i # 0
        PROVE  i \in 1 .. n - 1
    BY <2>1
  <2>2. \A q \in queue : id[q] \in 1 .. next_id - 1
    BY <1>0, <2>1, Zenon
  <2>3. next_id \in Nat /\ next_id - 1 \in Nat
    BY <1>0
  <2> QED
    BY <2>2, <2>3
<1>2. f \in Injection(queue, 1 .. next_id - 1)
  <2>1. f \in [queue -> 1 .. next_id - 1]
    BY <1>1
  <2>2. \A q, r \in queue : f[q] = f[r] => q = r
    BY DEF TypeOK, QueueOrder
  <2> QED
    BY <2>1, <2>2 DEF Injection, IsInjective
<1>3. IsFiniteSet(1 .. next_id - 1)
  BY <1>1, FS_Interval
<1> QED
  BY <1>2, <1>3, FS_Injection, Zenon

(* What has been granted when the loop stands at G, and what it will have  *)
(* granted when it ends.                                                   *)
Ends(H, Q, G) == G \cup GrantedBy(H \cup G, Q \ G)

Loop(H, Q, f) ==
  [G \in SUBSET Q |-> LET w == ScanGrants(H \cup G, Q \ G) IN
                        IF w = {} THEN G ELSE f[G \cup w]]

LEMMA LoopIsLoop ==
  ASSUME NEW H, NEW Q
  PROVE  LoopGrants(H, Q) = (CHOOSE f : f = Loop(H, Q, f))[{}]
BY DEF LoopGrants, Loop

(* The equation the loop solves has one solution.                          *)
LEMMA LoopsAgree ==
  ASSUME TypeOK, NEW H \in SUBSET Requests, NEW Q \in SUBSET queue,
         NEW f, NEW g, f = Loop(H, Q, f), g = Loop(H, Q, g)
  PROVE  f = g
<1> DEFINE w(G) == ScanGrants(H \cup G, Q \ G)
           Bad == {G \in SUBSET Q : f[G] # g[G]}
           T == {Cardinality(Q \ G) : G \in Bad}
           R == OpToRel(<, Nat)
<1>1. \A G \in SUBSET Q : /\ f[G] = IF w(G) = {} THEN G ELSE f[G \cup w(G)]
                          /\ g[G] = IF w(G) = {} THEN G ELSE g[G \cup w(G)]
  BY DEF Loop
<1>2. /\ f = [G \in SUBSET Q |-> f[G]]
      /\ g = [G \in SUBSET Q |-> g[G]]
  BY DEF Loop
<1>3. IsFiniteSet(Q)
  BY QueueIsFinite, FS_Subset, Zenon
<1>4. Bad = {}
  <2> SUFFICES ASSUME Bad # {} PROVE FALSE
    OBVIOUS
  <2>1. \A G \in SUBSET Q : IsFiniteSet(Q \ G) /\ Cardinality(Q \ G) \in Nat
    <3> SUFFICES ASSUME NEW G \in SUBSET Q
                 PROVE  IsFiniteSet(Q \ G) /\ Cardinality(Q \ G) \in Nat
      OBVIOUS
    <3>1. Q \ G \in SUBSET Q
      OBVIOUS
    <3> QED
      BY <1>3, <3>1, FS_Subset, FS_CardinalityType, Zenon
  <2>2. T \subseteq Nat /\ T # {}
    BY <2>1
  <2>3. \A x, y \in Nat : y < x => <<y, x>> \in R
    BY DEF OpToRel
  <2>4. IsWellFoundedOn(R, Nat)
    BY NatLessThanWellFounded, Zenon
  <2>5. PICK t \in T : \A y \in T : ~(<<y, t>> \in R)
    <3> HIDE DEF T, R
    <3> QED BY <2>2, <2>4, WFMin, Zenon
  <2>6. PICK G \in Bad : Cardinality(Q \ G) = t
    BY <2>5
  <2>7. w(G) # {} /\ f[G \cup w(G)] # g[G \cup w(G)]
    BY <1>1, <2>6
  <2>8. w(G) \subseteq Q \ G
    BY DEF ScanGrants
  <2>9. G \cup w(G) \in Bad
    BY <2>6, <2>7, <2>8
  <2> DEFINE A == Q \ (G \cup w(G))
             B == Q \ G
  <2>10. Cardinality(A) < Cardinality(B)
    <3>1. A \in SUBSET B /\ A # B
      BY <2>7, <2>8
    <3>2. IsFiniteSet(B) /\ Cardinality(A) \in Nat /\ Cardinality(B) \in Nat
      BY <2>1, <2>6, <2>9
    <3> HIDE DEF A, B
    <3>3. Cardinality(A) <= Cardinality(B) /\ (Cardinality(A) = Cardinality(B) => A = B)
      BY <3>1, <3>2, FS_Subset, Zenon
    <3> QED
      BY <3>1, <3>2, <3>3
  <2>11. Cardinality(A) \in T /\ Cardinality(A) \in Nat /\ Cardinality(B) = t /\ t \in Nat
    BY <2>1, <2>2, <2>5, <2>6, <2>9
  <2> HIDE DEF T, R, A, B
  <2> QED
    BY <2>3, <2>5, <2>10, <2>11
<1>5. \A G \in SUBSET Q : f[G] = g[G]
  BY <1>4
<1> QED
  BY <1>2, <1>5

(* The loop of ProcessQueue, scan by scan, grants what GrantedBy says at   *)
(* once.                                                                   *)
LEMMA LoopGrantsThem ==
  ASSUME TypeOK, NEW H \in SUBSET Requests, NEW Q \in SUBSET queue
  PROVE  LoopGrants(H, Q) = GrantedBy(H, Q)
<1> DEFINE e == [G \in SUBSET Q |-> Ends(H, Q, G)]
           f == CHOOSE h : h = Loop(H, Q, h)
           w(G) == ScanGrants(H \cup G, Q \ G)
<1>1. ASSUME NEW G \in SUBSET Q
      PROVE  Ends(H, Q, G) = IF w(G) = {} THEN G ELSE e[G \cup w(G)]
  <2>1. H \cup G \in SUBSET Requests /\ Q \ G \in SUBSET queue
    BY DEF TypeOK
  <2> DEFINE F == GrantedBy(H \cup G, Q \ G)
             N == GrantedBy((H \cup G) \cup w(G), (Q \ G) \ w(G))
  <2>2. w(G) \subseteq F /\ (w(G) = {} => F = {}) /\ N = F \ w(G)
    BY <2>1, ScansGrantTheRest, Zenon
  <2>3. w(G) \subseteq Q
    BY DEF ScanGrants
  <2>4. CASE w(G) = {}
    BY <2>2, <2>4 DEF Ends
  <2>5. CASE w(G) # {}
    <3>1. /\ (H \cup G) \cup w(G) = H \cup (G \cup w(G))
          /\ (Q \ G) \ w(G) = Q \ (G \cup w(G))
          /\ G \cup w(G) \in SUBSET Q
      BY <2>3
    <3>2. e[G \cup w(G)] = (G \cup w(G)) \cup N
      BY <3>1 DEF Ends
    <3> HIDE DEF w, N
    <3> QED
      BY <2>2, <2>5, <3>2 DEF Ends
  <2> QED
    BY <2>4, <2>5
<1>2. e = Loop(H, Q, e)
  BY <1>1 DEF Loop
<1>3. f = Loop(H, Q, f)
  BY <1>2, Zenon
<1>4. f = e
  <2> HIDE DEF e, f
  <2> QED BY <1>2, <1>3, LoopsAgree, Zenon
<1>5. e[{}] = GrantedBy(H, Q)
  <2>1. H \cup {} = H /\ Q \ {} = Q
    OBVIOUS
  <2> QED
    BY <2>1 DEF Ends
<1> QED
  BY <1>4, <1>5, LoopIsLoop

(* Whatever is released or abandoned next, the loop of ProcessQueue, which *)
(* starts the scan again after each grant, grants exactly the waiters      *)
(* GrantedBy names.                                                        *)
THEOREM LoopGrantsAll == Spec => []LoopGrantsGrantedBy
<1>1. LockInv => LoopGrantsGrantedBy
  <2> SUFFICES ASSUME TypeOK, NEW freed \in {{}} \cup {{r} : r \in held \cup queue}
               PROVE  LoopGrants(held \ freed, queue \ freed)
                        = GrantedBy(held \ freed, queue \ freed)
    BY DEF LockInv, LoopGrantsGrantedBy
  <2>1. held \ freed \in SUBSET Requests /\ queue \ freed \in SUBSET queue
    BY DEF TypeOK
  <2> QED
    BY <2>1, LoopGrantsThem, Zenon
<1> QED
  BY <1>1, LockInvHolds, PTL

------------------------------------------------------------------------------
(* Channels.                                                               *)
ChannelAgents == Frames \cup Workers
AnyScope      == Scopes \cup {Unknown, Null}

ChannelRecords ==
  [of : ChannelAgents \cup {Unknown}, scope : AnyScope,
   state : {"none", "open", "closed", "posted", "gone"}]

ChannelCalls ==
  [do : {"connect", "disconnect"}, channel : Ids]
    \cup [do : {"post"}, channel : Ids, message : Nat]

Sent == [from : Ids, message : Nat]

(* One call is made before another.                                        *)
Precedes(c, d) ==
  /\ c.channel = d.channel /\ d.do = "connect" => c.do = "post"
  /\ c.channel = d.channel /\ d.do = "disconnect" => c.do # "disconnect"
  /\ c.do = "post" /\ d.do = "post" => c.message < d.message

InOrder(s) == \A m, n \in DOMAIN s : m < n => Precedes(s[m], s[n])

(* What a call says of its channel.                                        *)
CallFits(ch, reg, p, a, c) ==
  /\ ch[c.channel].of = a /\ ch[c.channel].state # "none"
  /\ c.do = "connect" => /\ ch[c.channel].state \in {"open", "closed"}
                         /\ \A n \in DOMAIN reg : reg[n] # c.channel
  /\ c.do = "disconnect" => ch[c.channel].state = "closed"
  /\ c.do = "post" => c.message <= p

Fits(a, c) == CallFits(channel, registry, posts, a, c)
FitsThen(a, c) == CallFits(channel', registry', posts', a, c)

ChannelsTyped ==
  /\ by_frame \in [ChannelAgents -> AnyScope]
  /\ creator \in [Workers -> Frames \cup {Unknown}]
  /\ channel \in [Ids -> ChannelRecords]
  /\ \A i \in Ids : channel[i].state # "none" => channel[i].of \in ChannelAgents
  /\ registry \in Seq(Ids)
  /\ told \in [ChannelAgents -> Seq(ChannelCalls)]
  /\ posts \in Nat
  /\ inbox \in [Ids -> Seq(Sent)]

RegistryInv ==
  /\ \A m, n \in DOMAIN registry : registry[m] = registry[n] => m = n
  /\ \A n \in DOMAIN registry : channel[registry[n]].state \in {"open", "closed", "posted"}

CallsInv ==
  \A a \in ChannelAgents :
    InOrder(told[a]) /\ \A n \in DOMAIN told[a] : Fits(a, told[a][n])

(* What a client was sent, and what is still under way to it.              *)
InboxInv ==
  \A j \in Ids : \A n \in DOMAIN inbox[j] :
    LET m == inbox[j][n] IN
      /\ m.from # j /\ m.message <= posts /\ channel[m.from].state # "none"
      /\ \A k \in DOMAIN inbox[j] :
           k < n /\ channel[inbox[j][k].from].of = channel[m.from].of
             => inbox[j][k].message < m.message
      /\ \A a \in ChannelAgents : \A k \in DOMAIN told[a] :
           told[a][k].do = "post" /\ channel[m.from].of = a => m.message < told[a][k].message

ChannelsInv == ChannelsTyped /\ RegistryInv /\ CallsInv /\ InboxInv

LEMMA ChannelsInit == ASSUME Channels!Init PROVE ChannelsInv
<1>1. /\ registry = <<>> /\ posts = 0
      /\ by_frame \in [ChannelAgents -> AnyScope] /\ creator \in [Workers -> Frames \cup {Unknown}]
      /\ channel \in [Ids -> ChannelRecords] /\ \A i \in Ids : channel[i].state = "none"
      /\ \A a \in ChannelAgents : told[a] = <<>>
      /\ \A j \in Ids : inbox[j] = <<>>
  BY DEF Channels!Init, Channels!NoChannel, Channels!Agents, ChannelAgents, AnyScope, ChannelRecords
<1>2. ChannelsTyped
  BY <1>1 DEF Channels!Init, Channels!Agents, ChannelAgents, ChannelsTyped
<1>3. RegistryInv /\ CallsInv /\ InboxInv
  BY <1>1 DEF RegistryInv, CallsInv, InboxInv, InOrder
<1> QED
  BY <1>2, <1>3 DEF ChannelsInv

LEMMA InboxTyped ==
  ASSUME ChannelsTyped
  PROVE  /\ \A j \in Ids : \A n \in DOMAIN inbox[j] :
              inbox[j][n] \in Sent /\ inbox[j][n].from \in Ids /\ inbox[j][n].message \in Nat
         /\ \A n \in DOMAIN registry : registry[n] \in Ids
<1>1. ASSUME NEW j \in Ids, NEW n \in DOMAIN inbox[j]
      PROVE  inbox[j][n] \in Sent /\ inbox[j][n].from \in Ids /\ inbox[j][n].message \in Nat
  <2>1. PICK s \in Seq(Sent) : s = inbox[j]
    BY DEF ChannelsTyped
  <2>2. inbox[j][n] \in Sent
    BY <2>1
  <2> QED
    BY <2>2 DEF Sent
<1>2. registry \in Seq(Ids)
  BY DEF ChannelsTyped
<1> QED
  BY <1>1, <1>2

LEMMA Listed ==
  ASSUME NEW S, IsFiniteSet(S)
  PROVE  /\ Channels!SetToSeq(S) \in Seq(S)
         /\ \A m, n \in DOMAIN Channels!SetToSeq(S) :
              Channels!SetToSeq(S)[m] = Channels!SetToSeq(S)[n] => m = n
<1>1. Channels!Cardinality(S) = Cardinality(S)
  BY DEF Channels!Cardinality, Cardinality
<1>2. PICK f \in [1 .. Cardinality(S) -> S] : \A m, n \in 1 .. Cardinality(S) : f[m] = f[n] => m = n
  <2>1. ExistsBijection(1 .. Cardinality(S), S) /\ Cardinality(S) \in Nat
    BY FS_CardinalityType
  <2>2. PICK g \in Bijection(1 .. Cardinality(S), S) : TRUE
    BY <2>1 DEF ExistsBijection
  <2> QED
    BY <2>2 DEF Bijection, Injection, IsInjective
<1>3. f \in [1 .. Channels!Cardinality(S) -> S] /\ Channels!IsInjective(f)
  BY <1>1, <1>2 DEF Channels!IsInjective
<1>4. /\ Channels!SetToSeq(S) \in [1 .. Channels!Cardinality(S) -> S]
      /\ Channels!IsInjective(Channels!SetToSeq(S))
  BY <1>3 DEF Channels!SetToSeq
<1>5. Cardinality(S) \in Nat
  BY FS_CardinalityType
<1> QED
  BY <1>1, <1>4, <1>5 DEF Channels!IsInjective

(* Calls are added after those under way.                                  *)
LEMMA AddedInOrder ==
  ASSUME NEW s \in Seq(ChannelCalls), NEW t \in Seq(ChannelCalls), InOrder(s), InOrder(t),
         \A m \in DOMAIN s, n \in DOMAIN t : Precedes(s[m], t[n])
  PROVE  /\ InOrder(s \o t)
         /\ \A n \in DOMAIN (s \o t) :
              (\E k \in DOMAIN s : (s \o t)[n] = s[k]) \/ (\E k \in DOMAIN t : (s \o t)[n] = t[k])
<1>1. /\ DOMAIN (s \o t) = 1 .. Len(s) + Len(t) /\ DOMAIN s = 1 .. Len(s) /\ DOMAIN t = 1 .. Len(t)
      /\ Len(s) \in Nat /\ Len(t) \in Nat
  OBVIOUS
<1>2. \A n \in DOMAIN (s \o t) :
        (s \o t)[n] = IF n <= Len(s) THEN s[n] ELSE t[n - Len(s)]
  OBVIOUS
<1>3. \A n \in DOMAIN (s \o t) : n \in DOMAIN s \/ n - Len(s) \in DOMAIN t
  BY <1>1
<1>4. ASSUME NEW m \in DOMAIN (s \o t), NEW n \in DOMAIN (s \o t), m < n
      PROVE  Precedes((s \o t)[m], (s \o t)[n])
  <2>1. CASE n <= Len(s)
    BY <1>1, <1>2, <1>4, <2>1 DEF InOrder
  <2>2. CASE m <= Len(s) /\ n > Len(s)
    BY <1>1, <1>2, <1>3, <2>2
  <2>3. CASE m > Len(s)
    <3>1. m - Len(s) \in DOMAIN t /\ n - Len(s) \in DOMAIN t /\ m - Len(s) < n - Len(s)
      BY <1>1, <1>4, <2>3
    <3>2. (s \o t)[m] = t[m - Len(s)] /\ (s \o t)[n] = t[n - Len(s)]
      BY <1>1, <1>2, <1>4, <2>3
    <3> QED
      BY <3>1, <3>2 DEF InOrder
  <2> QED
    BY <1>1, <2>1, <2>2, <2>3
<1>5. \A n \in DOMAIN (s \o t) :
        (\E k \in DOMAIN s : (s \o t)[n] = s[k]) \/ (\E k \in DOMAIN t : (s \o t)[n] = t[k])
  BY <1>1, <1>2, <1>3
<1> QED
  BY <1>4, <1>5 DEF InOrder

(* A call is added, or the first is taken.                                 *)
Added(a, c) ==
  /\ told' \in [ChannelAgents -> Seq(ChannelCalls)]
  /\ \A b \in ChannelAgents : InOrder(told'[b])
  /\ \A b \in ChannelAgents : \A k \in DOMAIN told'[b] :
       \/ k \in DOMAIN told[b] /\ told'[b][k] = told[b][k]
       \/ b = a /\ told'[b][k] = c

Taken(a) ==
  /\ told' \in [ChannelAgents -> Seq(ChannelCalls)]
  /\ \A b \in ChannelAgents : InOrder(told'[b])
  /\ \A b \in ChannelAgents : \A k \in DOMAIN told'[b] :
       b # a => k \in DOMAIN told[b] /\ told'[b][k] = told[b][k]
  /\ \A k \in DOMAIN told'[a] :
       k + 1 \in DOMAIN told[a] /\ 1 < k + 1 /\ told'[a][k] = told[a][k + 1]
  /\ 1 \in DOMAIN told[a] /\ Head(told[a]) = told[a][1]

LEMMA CallAdded ==
  ASSUME ChannelsInv, NEW a \in ChannelAgents, NEW c \in ChannelCalls,
         told' = [told EXCEPT ![a] = Append(told[a], c)],
         \A n \in DOMAIN told[a] : Precedes(told[a][n], c)
  PROVE  Added(a, c)
<1>1. told \in [ChannelAgents -> Seq(ChannelCalls)] /\ \A b \in ChannelAgents : InOrder(told[b])
  BY DEF ChannelsInv, ChannelsTyped, CallsInv
<1>2. told' \in [ChannelAgents -> Seq(ChannelCalls)]
  BY <1>1
<1> SUFFICES ASSUME NEW b \in ChannelAgents
             PROVE  /\ InOrder(told'[b])
                    /\ \A k \in DOMAIN told'[b] :
                         \/ k \in DOMAIN told[b] /\ told'[b][k] = told[b][k]
                         \/ b = a /\ told'[b][k] = c
  BY <1>2 DEF Added
<1>3. CASE b # a
  BY <1>1, <1>3
<1>4. CASE b = a
  <2> DEFINE s == told[a]
             t == Append(s, c)
  <2>1. told'[b] = t /\ s \in Seq(ChannelCalls) /\ InOrder(s)
    BY <1>1, <1>4
  <2>2. /\ DOMAIN s = 1 .. Len(s) /\ Len(s) \in Nat /\ DOMAIN t = 1 .. Len(s) + 1
        /\ \A k \in DOMAIN t : (k \in DOMAIN s /\ t[k] = s[k]) \/ (k = Len(s) + 1 /\ t[k] = c)
    BY <2>1
  <2>3. ASSUME NEW m \in DOMAIN t, NEW n \in DOMAIN t, m < n PROVE Precedes(t[m], t[n])
    <3>1. m \in DOMAIN s /\ t[m] = s[m]
      BY <2>2, <2>3
    <3>2. CASE n \in DOMAIN s /\ t[n] = s[n]
      BY <2>1, <2>3, <3>1, <3>2 DEF InOrder
    <3>3. CASE n = Len(s) + 1 /\ t[n] = c
      BY <3>1, <3>3
    <3> QED
      BY <2>2, <3>2, <3>3
  <2>4. InOrder(t)
    BY <2>3 DEF InOrder
  <2> QED
    BY <1>4, <2>1, <2>2, <2>4
<1> QED
  BY <1>3, <1>4

LEMMA CallTaken ==
  ASSUME ChannelsInv, NEW a \in ChannelAgents, told[a] # <<>>,
         told' = [told EXCEPT ![a] = Tail(told[a])]
  PROVE  Taken(a)
<1>1. told \in [ChannelAgents -> Seq(ChannelCalls)] /\ \A b \in ChannelAgents : InOrder(told[b])
  BY DEF ChannelsInv, ChannelsTyped, CallsInv
<1>2. told' \in [ChannelAgents -> Seq(ChannelCalls)]
  BY <1>1
<1>3. \A b \in ChannelAgents : b # a => told'[b] = told[b]
  BY <1>1
<1>4. PICK s \in Seq(ChannelCalls) : s = told[a] /\ InOrder(s) /\ s # <<>>
  BY <1>1
<1>5. told'[a] = Tail(s)
  BY <1>1, <1>4
<1>6. /\ \A k \in DOMAIN Tail(s) :
           k \in Nat /\ k + 1 \in DOMAIN s /\ 1 < k + 1 /\ Tail(s)[k] = s[k + 1]
      /\ 1 \in DOMAIN s /\ Head(s) = s[1]
  BY <1>4
<1>7. InOrder(Tail(s))
  <2> SUFFICES ASSUME NEW m \in DOMAIN Tail(s), NEW n \in DOMAIN Tail(s), m < n
               PROVE  Precedes(Tail(s)[m], Tail(s)[n])
    BY DEF InOrder
  <2>1. m + 1 \in DOMAIN s /\ n + 1 \in DOMAIN s /\ m + 1 < n + 1
    BY <1>6
  <2> QED
    BY <1>4, <1>6, <2>1 DEF InOrder
<1> QED
  BY <1>1, <1>2, <1>3, <1>4, <1>5, <1>6, <1>7 DEF Taken

(* The channels closed are closed, and their agent says so last.           *)
LEMMA ChannelsClose ==
  ASSUME ChannelsInv, NEW a \in ChannelAgents, NEW closed \in SUBSET Ids,
         \A i \in closed : channel[i].of = a /\ channel[i].state = "open",
         Channels!Closes(a, closed), UNCHANGED <<registry, posts, inbox>>,
         by_frame' \in [ChannelAgents -> AnyScope], creator' \in [Workers -> Frames \cup {Unknown}]
  PROVE  ChannelsInv'
<1> DEFINE says == {[do |-> "disconnect", channel |-> i] : i \in closed}
           new == Channels!SetToSeq(says)
<1>0. /\ channel \in [Ids -> ChannelRecords] /\ told \in [ChannelAgents -> Seq(ChannelCalls)]
      /\ told[a] \in Seq(ChannelCalls)
  BY DEF ChannelsInv, ChannelsTyped
<1>1. /\ channel' = [i \in Ids |-> IF i \in closed THEN [channel[i] EXCEPT !.state = "closed"]
                                   ELSE channel[i]]
      /\ told' = [told EXCEPT ![a] = told[a] \o new]
  BY <1>0 DEF Channels!Closes
<1>2. IsFiniteSet(says)
  <2>1. IsFiniteSet(closed)
    BY FS_Subset, ChannelsAssumption
  <2> DEFINE f == [i \in closed |-> [do |-> "disconnect", channel |-> i]]
  <2>2. f \in Surjection(closed, says)
    BY DEF Surjection
  <2> QED
    BY <2>1, <2>2, FS_Surjection
<1>3. /\ new \in Seq(says) /\ says \subseteq ChannelCalls
      /\ \A m, n \in DOMAIN new : new[m] = new[n] => m = n
  <2> HIDE DEF says
  <2>1. /\ Channels!SetToSeq(says) \in Seq(says)
        /\ \A m, n \in DOMAIN Channels!SetToSeq(says) :
             Channels!SetToSeq(says)[m] = Channels!SetToSeq(says)[n] => m = n
    BY <1>2, Listed
  <2>2. says \subseteq ChannelCalls
    BY DEF says, ChannelCalls
  <2> QED
    BY <2>1, <2>2
<1> HIDE DEF new
<1>4. /\ new \in Seq(ChannelCalls)
      /\ \A n \in DOMAIN new : /\ new[n].do = "disconnect" /\ new[n].channel \in closed
                               /\ new[n] = [do |-> "disconnect", channel |-> new[n].channel]
  <2>1. \A n \in DOMAIN new : new[n] \in says
    BY <1>3
  <2> QED
    BY <1>3, <2>1
<1>5. InOrder(new)
  BY <1>3, <1>4 DEF InOrder, Precedes
<1>6. \A n \in DOMAIN told[a] : Fits(a, told[a][n]) /\ told[a][n] \in ChannelCalls
  BY <1>0 DEF ChannelsInv, CallsInv
<1>7. \A m \in DOMAIN told[a], n \in DOMAIN new : Precedes(told[a][m], new[n])
  BY <1>4, <1>6 DEF Precedes, Fits, CallFits
<1>8. /\ InOrder(told[a] \o new)
      /\ \A n \in DOMAIN (told[a] \o new) :
           (\E k \in DOMAIN told[a] : (told[a] \o new)[n] = told[a][k])
             \/ (\E k \in DOMAIN new : (told[a] \o new)[n] = new[k])
  BY <1>0, <1>4, <1>5, <1>7, AddedInOrder DEF ChannelsInv, CallsInv
<1>9. /\ channel' \in [Ids -> ChannelRecords]
      /\ \A i \in Ids : channel'[i].of = channel[i].of /\ (i \notin closed => channel'[i] = channel[i])
      /\ \A i \in closed : channel[i].state = "open" /\ channel'[i].state = "closed"
                            /\ channel[i].of = a
  BY <1>0, <1>1 DEF ChannelRecords
<1>10. told' \in [ChannelAgents -> Seq(ChannelCalls)]
  BY <1>0, <1>1, <1>4
<1>11. ChannelsTyped'
  BY <1>9, <1>10 DEF ChannelsInv, ChannelsTyped
<1>12. RegistryInv'
  BY <1>9 DEF ChannelsInv, RegistryInv, ChannelsTyped
<1>13. \A b \in ChannelAgents, c \in ChannelCalls : Fits(b, c) => FitsThen(b, c)
  BY <1>9 DEF Fits, FitsThen, CallFits, ChannelCalls
<1>14. \A n \in DOMAIN new : FitsThen(a, new[n])
  BY <1>4, <1>9 DEF FitsThen, CallFits
<1>15. CallsInv'
  <2> SUFFICES ASSUME NEW b \in ChannelAgents
               PROVE  InOrder(told'[b]) /\ \A n \in DOMAIN told'[b] : FitsThen(b, told'[b][n])
    BY DEF CallsInv, Fits, FitsThen
  <2>1. CASE b = a
    <3>1. told'[b] = told[a] \o new
      BY <1>0, <1>1, <2>1
    <3>2. \A n \in DOMAIN told[a] : FitsThen(a, told[a][n])
      BY <1>6, <1>13
    <3> QED
      BY <1>8, <1>14, <2>1, <3>1, <3>2
  <2>2. CASE b # a
    <3>1. told'[b] = told[b] /\ told[b] \in Seq(ChannelCalls)
      BY <1>0, <1>1, <2>2
    <3>2. \A n \in DOMAIN told[b] : told[b][n] \in ChannelCalls /\ Fits(b, told[b][n])
      BY <3>1 DEF ChannelsInv, CallsInv
    <3> QED
      BY <1>13, <3>1, <3>2 DEF ChannelsInv, CallsInv
  <2> QED
    BY <2>1, <2>2
<1>16. \A b \in ChannelAgents : \A k \in DOMAIN told'[b] :
         told'[b][k].do = "post" => \E n \in DOMAIN told[b] : told[b][n] = told'[b][k]
  <2> SUFFICES ASSUME NEW b \in ChannelAgents, NEW k \in DOMAIN told'[b], told'[b][k].do = "post"
               PROVE  \E n \in DOMAIN told[b] : told[b][n] = told'[b][k]
    OBVIOUS
  <2>1. CASE b = a
    <3>1. told'[b] = told[a] \o new
      BY <1>0, <1>1, <2>1
    <3> QED
      BY <1>4, <1>8, <2>1, <3>1
  <2>2. CASE b # a
    BY <1>0, <1>1, <2>2
  <2> QED
    BY <2>1, <2>2
<1>17. InboxInv'
  <2>1. \A j \in Ids : \A n \in DOMAIN inbox[j] : inbox[j][n].from \in Ids
    BY InboxTyped DEF ChannelsInv
  <2> QED
    BY <1>9, <1>16, <2>1 DEF ChannelsInv, InboxInv
<1> QED
  BY <1>11, <1>12, <1>15, <1>17 DEF ChannelsInv

(* A step that leaves the inboxes alone, and posts only what is new.       *)
Underway(b, c) == \E n \in DOMAIN told[b] : told[b][n] = c

LEMMA InboxKept ==
  ASSUME ChannelsInv, UNCHANGED inbox, posts' \in Nat, posts <= posts',
         \A i \in Ids : channel[i].state # "none" =>
           channel'[i].of = channel[i].of /\ channel'[i].state # "none",
         \A b \in ChannelAgents : \A k \in DOMAIN told'[b] :
           told'[b][k] \in ChannelCalls /\ (told'[b][k].do = "post" =>
             posts < told'[b][k].message \/ Underway(b, told'[b][k]))
  PROVE  InboxInv'
<1> SUFFICES ASSUME NEW j \in Ids, NEW n \in DOMAIN inbox[j]
             PROVE  LET m == inbox[j][n] IN
               /\ m.from # j /\ m.message <= posts' /\ channel'[m.from].state # "none"
               /\ \A k \in DOMAIN inbox[j] :
                    k < n /\ channel'[inbox[j][k].from].of = channel'[m.from].of
                      => inbox[j][k].message < m.message
               /\ \A a \in ChannelAgents : \A k \in DOMAIN told'[a] :
                    told'[a][k].do = "post" /\ channel'[m.from].of = a
                      => m.message < told'[a][k].message
  BY DEF InboxInv
<1> DEFINE m == inbox[j][n]
<1>1. /\ \A k \in DOMAIN inbox[j] :
           /\ inbox[j][k] \in Sent /\ inbox[j][k].from \in Ids /\ inbox[j][k].message \in Nat
           /\ channel[inbox[j][k].from].state # "none"
      /\ m.from # j /\ m.message <= posts /\ posts \in Nat
      /\ \A k \in DOMAIN inbox[j] :
           k < n /\ channel[inbox[j][k].from].of = channel[m.from].of
             => inbox[j][k].message < m.message
  <2>1. posts \in Nat
    BY DEF ChannelsInv, ChannelsTyped
  <2> QED
    BY <2>1, InboxTyped DEF ChannelsInv, InboxInv
<1>2. \A b \in ChannelAgents, c \in ChannelCalls :
        Underway(b, c) /\ c.do = "post" /\ channel[m.from].of = b => m.message < c.message
  BY DEF ChannelsInv, InboxInv, Underway
<1>3. ASSUME NEW a \in ChannelAgents, NEW k \in DOMAIN told'[a], told'[a][k].do = "post",
             channel'[m.from].of = a
      PROVE  m.message < told'[a][k].message
  <2>1. PICK c \in ChannelCalls : c = told'[a][k] /\ c.do = "post"
    BY <1>3
  <2>2. c.message \in Nat
    BY <2>1 DEF ChannelCalls
  <2>3. CASE posts < c.message
    BY <1>1, <2>1, <2>2, <2>3
  <2>4. CASE Underway(a, c)
    BY <1>1, <1>2, <1>3, <2>1, <2>4
  <2> QED
    BY <1>3, <2>1, <2>3, <2>4
<1> HIDE DEF m
<1> QED
  BY <1>1, <1>3 DEF m

LEMMA ChannelsNew ==
  ASSUME ChannelsInv, NEW a \in ChannelAgents, NEW i \in Ids, Channels!NewChannel(a, i)
  PROVE  ChannelsInv'
<1>0. PICK c \in ChannelCalls : c = [do |-> "connect", channel |-> i]
  BY DEF ChannelCalls
<1>1. /\ channel \in [Ids -> ChannelRecords] /\ by_frame[a] \in AnyScope
      /\ told \in [ChannelAgents -> Seq(ChannelCalls)]
  BY DEF ChannelsInv, ChannelsTyped, ChannelCalls
<1>2. /\ channel[i].state = "none"
      /\ channel' = [channel EXCEPT ![i] = [of |-> a, scope |-> by_frame[a], state |-> "open"]]
      /\ told' = [told EXCEPT ![a] = Append(told[a], c)]
      /\ UNCHANGED <<by_frame, creator, registry, posts, inbox>>
  BY <1>0, <1>1 DEF Channels!NewChannel, Channels!NoChannel
<1>3. /\ channel' \in [Ids -> ChannelRecords]
      /\ \A j \in Ids : j # i => channel'[j] = channel[j]
      /\ channel'[i].of = a /\ channel'[i].state = "open"
  BY <1>1, <1>2 DEF ChannelRecords
<1>4. \A b \in ChannelAgents : \A n \in DOMAIN told[b] :
        told[b][n] \in ChannelCalls /\ Fits(b, told[b][n]) /\ told[b][n].channel # i
  BY <1>1, <1>2 DEF ChannelsInv, CallsInv, Fits, CallFits
<1>5. \A n \in DOMAIN told[a] : Precedes(told[a][n], c)
  BY <1>0, <1>4 DEF Precedes
<1>6. Added(a, c)
  BY <1>1, <1>2, <1>5, CallAdded
<1>7. \A n \in DOMAIN registry : registry[n] \in Ids /\ registry[n] # i
  BY <1>2, InboxTyped DEF ChannelsInv, RegistryInv
<1>8. ChannelsTyped' /\ RegistryInv'
  BY <1>2, <1>3, <1>6, <1>7 DEF ChannelsInv, ChannelsTyped, RegistryInv, Added
<1>9. \A b \in ChannelAgents, x \in ChannelCalls : Fits(b, x) /\ x.channel # i => FitsThen(b, x)
  BY <1>2, <1>3 DEF Fits, FitsThen, CallFits, ChannelCalls
<1>10. FitsThen(a, c)
  BY <1>0, <1>2, <1>3, <1>7 DEF FitsThen, CallFits
<1>11. CallsInv'
  <2>1. \A b \in ChannelAgents : \A k \in DOMAIN told'[b] : FitsThen(b, told'[b][k])
    BY <1>4, <1>6, <1>9, <1>10 DEF Added
  <2> QED
    BY <1>6, <2>1 DEF CallsInv, Fits, FitsThen, Added
<1>12. InboxInv'
  <2>1. posts \in Nat
    BY DEF ChannelsInv, ChannelsTyped
  <2>2. ASSUME NEW b \in ChannelAgents, NEW k \in DOMAIN told'[b]
        PROVE  told'[b][k] \in ChannelCalls /\ (told'[b][k].do = "post" =>
                 posts < told'[b][k].message \/ Underway(b, told'[b][k]))
    BY <1>0, <1>4, <1>6 DEF Underway, Added
  <2> QED
    BY <1>2, <1>3, <2>1, <2>2, InboxKept
<1> QED
  BY <1>8, <1>11, <1>12 DEF ChannelsInv

LEMMA ChannelsPost ==
  ASSUME ChannelsInv, NEW i \in Ids, Channels!Post(i)
  PROVE  ChannelsInv'
<1>1. /\ channel[i].state = "open" /\ channel[i].of \in ChannelAgents /\ posts \in Nat
      /\ told \in [ChannelAgents -> Seq(ChannelCalls)]
  BY DEF Channels!Post, ChannelsInv, ChannelsTyped
<1>2. PICK a \in ChannelAgents : a = channel[i].of
  BY <1>1
<1>3. PICK p \in Nat : p = posts + 1
  BY <1>1
<1>5. PICK c \in ChannelCalls : c = [do |-> "post", channel |-> i, message |-> p]
  BY DEF ChannelCalls
<1>4. /\ posts' = p /\ posts < p /\ posts <= p
      /\ told' = [told EXCEPT ![a] = Append(told[a], c)]
      /\ UNCHANGED <<by_frame, creator, channel, registry, inbox>>
  BY <1>1, <1>2, <1>3, <1>5 DEF Channels!Post
<1>6. \A b \in ChannelAgents : \A n \in DOMAIN told[b] :
        told[b][n] \in ChannelCalls /\ Fits(b, told[b][n])
  BY <1>1 DEF ChannelsInv, CallsInv
<1>7. \A n \in DOMAIN told[a] : Precedes(told[a][n], c)
  <2> SUFFICES ASSUME NEW n \in DOMAIN told[a] PROVE Precedes(told[a][n], c)
    OBVIOUS
  <2>1. PICK d \in ChannelCalls : d = told[a][n] /\ Fits(a, d)
    BY <1>6
  <2>2. d.do = "post" => d.message \in Nat /\ d.message <= posts
    BY <2>1 DEF Fits, CallFits, ChannelCalls
  <2> QED
    BY <1>1, <1>4, <1>5, <2>1, <2>2 DEF Precedes
<1>8. Added(a, c)
  BY <1>4, <1>5, <1>7, CallAdded
<1>9. ChannelsTyped' /\ RegistryInv'
  BY <1>4, <1>8 DEF ChannelsInv, ChannelsTyped, RegistryInv, Added
<1>10. \A b \in ChannelAgents, x \in ChannelCalls : Fits(b, x) => FitsThen(b, x)
  <2> SUFFICES ASSUME NEW b \in ChannelAgents, NEW x \in ChannelCalls, Fits(b, x) PROVE FitsThen(b, x)
    OBVIOUS
  <2>1. x.do = "post" => x.message \in Nat /\ x.message <= p
    BY <1>1, <1>4 DEF Fits, CallFits, ChannelCalls
  <2> QED
    BY <1>4, <2>1 DEF Fits, FitsThen, CallFits
<1>11. FitsThen(a, c)
  BY <1>1, <1>2, <1>4, <1>5 DEF FitsThen, CallFits
<1>12. CallsInv'
  <2>1. \A b \in ChannelAgents : \A k \in DOMAIN told'[b] : FitsThen(b, told'[b][k])
    BY <1>6, <1>8, <1>10, <1>11 DEF Added
  <2> QED
    BY <1>8, <2>1 DEF CallsInv, Fits, FitsThen, Added
<1>13. InboxInv'
  <2>1. ASSUME NEW b \in ChannelAgents, NEW k \in DOMAIN told'[b]
        PROVE  told'[b][k] \in ChannelCalls /\ (told'[b][k].do = "post" =>
                 posts < told'[b][k].message \/ Underway(b, told'[b][k]))
    BY <1>4, <1>5, <1>6, <1>8 DEF Underway, Added
  <2> QED
    BY <1>4, <2>1, InboxKept
<1> QED
  BY <1>9, <1>12, <1>13 DEF ChannelsInv

(* Frames and workers come and go.                                         *)
LEMMA ChannelsPages ==
  ASSUME ChannelsInv,
         \/ \E i \in Ids : Channels!CloseChannel(i)
         \/ \E f \in Frames : Channels!DestroyFrame(f) \/ \E s \in Scopes : Channels!Commit(f, s)
         \/ \E w \in Workers : Channels!DestroyWorker(w)
  PROVE  ChannelsInv'
<1>1. /\ by_frame \in [ChannelAgents -> AnyScope]
      /\ creator \in [Workers -> Frames \cup {Unknown}]
      /\ \A i \in Ids : channel[i].state = "open" => channel[i].of \in ChannelAgents
  BY DEF ChannelsInv, ChannelsTyped
<1>2. \A a : /\ Channels!Open(a) \in SUBSET Ids
             /\ \A i \in Channels!Open(a) : channel[i].of = a /\ channel[i].state = "open"
  BY DEF Channels!Open
<1>3. ASSUME NEW i \in Ids, Channels!CloseChannel(i) PROVE ChannelsInv'
  <2>1. /\ channel[i].state = "open" /\ channel[i].of \in ChannelAgents
        /\ Channels!Closes(channel[i].of, {i})
        /\ UNCHANGED <<by_frame, creator, registry, posts, inbox>>
    BY <1>1, <1>3 DEF Channels!CloseChannel
  <2>2. /\ {i} \in SUBSET Ids
        /\ \A j \in {i} : channel[j].of = channel[i].of /\ channel[j].state = "open"
    BY <2>1
  <2> QED
    BY <1>1, <2>1, <2>2, ChannelsClose
<1>4. ASSUME NEW f \in Frames, Channels!DestroyFrame(f) PROVE ChannelsInv'
  <2>1. /\ f \in ChannelAgents /\ Channels!Closes(f, Channels!Open(f))
        /\ by_frame' \in [ChannelAgents -> AnyScope]
        /\ UNCHANGED <<creator, registry, posts, inbox>>
    BY <1>1, <1>4 DEF Channels!DestroyFrame, ChannelAgents, AnyScope
  <2> QED
    BY <1>1, <1>2, <2>1, ChannelsClose
<1>5. ASSUME NEW f \in Frames, NEW s \in Scopes, Channels!Commit(f, s) PROVE ChannelsInv'
  <2>1. /\ f \in ChannelAgents /\ Channels!Closes(f, Channels!Open(f))
        /\ by_frame' \in [ChannelAgents -> AnyScope]
        /\ UNCHANGED <<creator, registry, posts, inbox>>
    BY <1>1, <1>5 DEF Channels!Commit, ChannelAgents, AnyScope
  <2> QED
    BY <1>1, <1>2, <2>1, ChannelsClose
<1>6. ASSUME NEW w \in Workers, Channels!DestroyWorker(w) PROVE ChannelsInv'
  <2>1. /\ w \in ChannelAgents /\ Channels!Closes(w, Channels!Open(w))
        /\ by_frame' \in [ChannelAgents -> AnyScope]
        /\ creator' \in [Workers -> Frames \cup {Unknown}]
        /\ UNCHANGED <<registry, posts, inbox>>
    BY <1>1, <1>6 DEF Channels!DestroyWorker, ChannelAgents, AnyScope
  <2> QED
    BY <1>1, <1>2, <2>1, ChannelsClose
<1> QED
  BY <1>3, <1>4, <1>5, <1>6

LEMMA ChannelsWorker ==
  ASSUME ChannelsInv, NEW w \in Workers, NEW f \in Frames, Channels!CreateWorkerHost(w, f)
  PROVE  ChannelsInv'
<1>1. UNCHANGED <<channel, registry, told, posts, inbox>>
  BY DEF Channels!CreateWorkerHost
<1>2. ChannelsTyped'
  <2>1. /\ by_frame \in [ChannelAgents -> AnyScope]
        /\ creator \in [Workers -> Frames \cup {Unknown}]
        /\ by_frame[f] \in Scopes /\ w \in ChannelAgents
    BY DEF ChannelsInv, ChannelsTyped, ChannelAgents, AnyScope, Channels!CreateWorkerHost,
           Channels!Concrete
  <2>2. Channels!WorkerScope(by_frame[f]) \in Scopes
    BY <2>1, ChannelsAssumption DEF Channels!WorkerScope
  <2>3. by_frame' \in [ChannelAgents -> AnyScope] /\ creator' \in [Workers -> Frames \cup {Unknown}]
    BY <2>1, <2>2 DEF Channels!CreateWorkerHost, AnyScope
  <2> QED
    BY <1>1, <2>3 DEF ChannelsInv, ChannelsTyped
<1> QED
  BY <1>1, <1>2 DEF ChannelsInv, RegistryInv, CallsInv, Fits, CallFits, InboxInv

LEMMA ChannelsConnect ==
  ASSUME ChannelsInv, NEW a \in ChannelAgents, Channels!ConnectToChannel(a)
  PROVE  ChannelsInv'
<1>1. /\ told[a] # <<>> /\ Head(told[a]).do = "connect"
      /\ told \in [ChannelAgents -> Seq(ChannelCalls)]
      /\ told' = [told EXCEPT ![a] = Tail(told[a])]
      /\ registry' = Append(registry, Head(told[a]).channel) /\ registry \in Seq(Ids)
      /\ UNCHANGED <<by_frame, creator, channel, posts, inbox>>
  BY DEF Channels!ConnectToChannel, Channels!Takes, ChannelsInv, ChannelsTyped
<1>2. Taken(a)
  BY <1>1, CallTaken
<1>3. \A b \in ChannelAgents : /\ InOrder(told[b])
                              /\ \A n \in DOMAIN told[b] :
                                   told[b][n] \in ChannelCalls /\ Fits(b, told[b][n])
  BY <1>1 DEF ChannelsInv, CallsInv
<1>4. PICK c \in ChannelCalls : c = told[a][1] /\ Fits(a, c) /\ c.do = "connect"
  BY <1>1, <1>2, <1>3 DEF Taken
<1>5. PICK i \in Ids : i = c.channel
  BY <1>4 DEF ChannelCalls
<1>6. /\ registry' = Append(registry, i) /\ channel[i].of = a
      /\ channel[i].state \in {"open", "closed"} /\ \A n \in DOMAIN registry : registry[n] # i
  BY <1>1, <1>2, <1>4, <1>5 DEF Fits, CallFits, Taken
<1>7. /\ registry' \in Seq(Ids)
      /\ \A n \in DOMAIN registry' :
           \/ n \in DOMAIN registry /\ registry'[n] = registry[n]
           \/ n = Len(registry) + 1 /\ registry'[n] = i
  BY <1>1, <1>6
<1>8. ChannelsTyped'
  BY <1>1, <1>2, <1>7 DEF ChannelsInv, ChannelsTyped, Taken
<1>9. RegistryInv'
  BY <1>1, <1>6, <1>7 DEF ChannelsInv, RegistryInv
<1>10. \A b \in ChannelAgents, x \in ChannelCalls :
         Fits(b, x) /\ (x.channel = i => x.do # "connect") => FitsThen(b, x)
  BY <1>1, <1>7 DEF Fits, FitsThen, CallFits
<1>11. ASSUME NEW b \in ChannelAgents, NEW k \in DOMAIN told'[b] PROVE FitsThen(b, told'[b][k])
  <2>1. CASE b = a
    <3>1. PICK x \in ChannelCalls : x = told[a][k + 1] /\ Fits(a, x)
      BY <1>2, <1>3, <2>1 DEF Taken
    <3>2. Precedes(c, x)
      BY <1>2, <1>3, <1>4, <2>1, <3>1 DEF InOrder, Taken
    <3>3. x.channel = i => x.do # "connect"
      BY <1>4, <1>5, <3>2 DEF Precedes
    <3> QED
      BY <1>2, <1>10, <2>1, <3>1, <3>3 DEF Taken
  <2>2. CASE b # a
    <3>1. PICK x \in ChannelCalls : x = told[b][k] /\ Fits(b, x)
      BY <1>2, <1>3, <2>2 DEF Taken
    <3>2. x.channel # i
      BY <1>6, <2>2, <3>1 DEF Fits, CallFits
    <3> QED
      BY <1>2, <1>10, <2>2, <3>1, <3>2 DEF Taken
  <2> QED
    BY <2>1, <2>2
<1>12. CallsInv'
  BY <1>2, <1>11 DEF CallsInv, Fits, FitsThen, Taken
<1>13. InboxInv'
  <2>1. ASSUME NEW b \in ChannelAgents, NEW k \in DOMAIN told'[b]
        PROVE  told'[b][k] \in ChannelCalls /\ (told'[b][k].do = "post" =>
                 posts < told'[b][k].message \/ Underway(b, told'[b][k]))
    BY <1>2, <1>3 DEF Underway, Taken
  <2>2. posts \in Nat
    BY DEF ChannelsInv, ChannelsTyped
  <2> QED
    BY <1>1, <2>1, <2>2, InboxKept
<1> QED
  BY <1>8, <1>9, <1>12, <1>13 DEF ChannelsInv

LEMMA ChannelsMessage ==
  ASSUME ChannelsInv, NEW a \in ChannelAgents, Channels!OnMessage(a)
  PROVE  ChannelsInv'
<1>1. /\ told[a] # <<>> /\ Head(told[a]).do = "post"
      /\ told \in [ChannelAgents -> Seq(ChannelCalls)]
      /\ told' = [told EXCEPT ![a] = Tail(told[a])]
      /\ UNCHANGED <<by_frame, creator, channel, registry, posts>>
  BY DEF Channels!OnMessage, Channels!Takes, ChannelsInv, ChannelsTyped
<1>2. Taken(a)
  BY <1>1, CallTaken
<1>3. \A b \in ChannelAgents :
        /\ InOrder(told[b])
        /\ \A n \in DOMAIN told[b] : told[b][n] \in ChannelCalls /\ Fits(b, told[b][n])
  BY <1>1 DEF ChannelsInv, CallsInv
<1>4. PICK c \in ChannelCalls : c = told[a][1] /\ c = Head(told[a]) /\ Fits(a, c) /\ c.do = "post"
  BY <1>1, <1>2, <1>3 DEF Taken
<1>5. PICK e \in Sent : e = [from |-> c.channel, message |-> c.message]
  BY <1>4 DEF ChannelCalls, Sent
<1>6. /\ e.from \in Ids /\ e.message \in Nat /\ e.message <= posts /\ posts \in Nat
      /\ channel[e.from].of = a /\ channel[e.from].state # "none"
      /\ c.message = e.message
  BY <1>4, <1>5 DEF Sent, Fits, CallFits, ChannelsInv, ChannelsTyped
<1> DEFINE gets(j) == j \in Channels!Receivers(c.channel) /\ channel[j].state = "open"
<1>7. /\ inbox' = [j \in Ids |-> IF gets(j) THEN Append(inbox[j], e) ELSE inbox[j]]
      /\ \A j : gets(j) => j # e.from
  BY <1>4, <1>5 DEF Channels!OnMessage, Channels!Receivers
<1> HIDE DEF gets
<1>8. \A b \in ChannelAgents, x \in ChannelCalls : Fits(b, x) => FitsThen(b, x)
  BY <1>1 DEF Fits, FitsThen
<1>9. ChannelsTyped'
  <2>1. inbox' \in [Ids -> Seq(Sent)]
    BY <1>5, <1>7 DEF ChannelsInv, ChannelsTyped
  <2> QED
    BY <1>1, <1>2, <2>1 DEF ChannelsInv, ChannelsTyped, Taken
<1>10. RegistryInv'
  BY <1>1 DEF ChannelsInv, RegistryInv
(* What is still under way was so before, and the first was before it.     *)
<1>11. \A b \in ChannelAgents : \A k \in DOMAIN told'[b] :
         \E x \in ChannelCalls :
           /\ x = told'[b][k] /\ Fits(b, x) /\ Underway(b, x) /\ (b = a => Precedes(c, x))
  <2> SUFFICES ASSUME NEW b \in ChannelAgents, NEW k \in DOMAIN told'[b]
               PROVE  \E x \in ChannelCalls :
                        /\ x = told'[b][k] /\ Fits(b, x) /\ Underway(b, x)
                        /\ (b = a => Precedes(c, x))
    OBVIOUS
  <2>1. CASE b = a
    <3>1. PICK x \in ChannelCalls : x = told[a][k + 1] /\ Fits(a, x) /\ k + 1 \in DOMAIN told[a]
      BY <1>2, <1>3, <2>1 DEF Taken
    <3>2. Precedes(c, x)
      BY <1>2, <1>3, <1>4, <2>1, <3>1 DEF InOrder, Taken
    <3> QED
      BY <1>2, <2>1, <3>1, <3>2 DEF Taken, Underway
  <2>2. CASE b # a
    BY <1>2, <1>3, <2>2 DEF Taken, Underway
  <2> QED
    BY <2>1, <2>2
<1>12. CallsInv'
  <2>1. \A b \in ChannelAgents : \A k \in DOMAIN told'[b] : FitsThen(b, told'[b][k])
    BY <1>8, <1>11
  <2> QED
    BY <1>2, <2>1 DEF CallsInv, Fits, FitsThen, Taken
<1>13. ASSUME NEW j \in Ids, NEW n \in DOMAIN inbox'[j]
       PROVE  LET m == inbox'[j][n] IN
                /\ m.from # j /\ m.message <= posts /\ channel[m.from].state # "none"
                /\ \A k \in DOMAIN inbox'[j] :
                     k < n /\ channel[inbox'[j][k].from].of = channel[m.from].of
                       => inbox'[j][k].message < m.message
                /\ \A b \in ChannelAgents : \A k \in DOMAIN told'[b] :
                     told'[b][k].do = "post" /\ channel[m.from].of = b
                       => m.message < told'[b][k].message
  <2>1. PICK s \in Seq(Sent) : s = inbox[j]
    BY DEF ChannelsInv, ChannelsTyped
  <2>2. /\ \A k \in DOMAIN s : k \in Nat /\ s[k].from \in Ids /\ s[k].message \in Nat
        /\ \A k \in DOMAIN s : s[k].from # j /\ s[k].message <= posts
                               /\ channel[s[k].from].state # "none"
        /\ \A k, l \in DOMAIN s : k < l /\ channel[s[k].from].of = channel[s[l].from].of
                                  => s[k].message < s[l].message
    <3>1. \A k \in DOMAIN s : k \in Nat /\ s[k].from \in Ids /\ s[k].message \in Nat
      BY <2>1, InboxTyped DEF ChannelsInv
    <3> QED
      BY <2>1, <3>1 DEF ChannelsInv, InboxInv
  (* Whatever was sent is older than what is under way from its page.      *)
  <2>3. ASSUME NEW k \in DOMAIN s, NEW b \in ChannelAgents, NEW x \in ChannelCalls,
               Underway(b, x), x.do = "post", channel[s[k].from].of = b
        PROVE  s[k].message < x.message
    BY <2>1, <2>3 DEF ChannelsInv, InboxInv, Underway
  <2>4. ASSUME NEW k \in DOMAIN s, channel[s[k].from].of = a PROVE s[k].message < e.message
    <3>1. Underway(a, c)
      BY <1>2, <1>4 DEF Taken, Underway
    <3> QED
      BY <1>4, <1>6, <2>3, <2>4, <3>1
  <2>5. ASSUME NEW b \in ChannelAgents, NEW k \in DOMAIN told'[b], told'[b][k].do = "post", b = a
        PROVE  e.message < told'[b][k].message
    BY <1>4, <1>6, <1>11, <2>5 DEF Precedes
  <2>6. CASE gets(j)
    <3>1. /\ inbox'[j] = Append(s, e) /\ e \in Sent /\ Len(s) \in Nat
          /\ DOMAIN inbox'[j] = 1 .. Len(s) + 1 /\ DOMAIN s = 1 .. Len(s)
          /\ \A k \in DOMAIN s : inbox'[j][k] = s[k]
          /\ inbox'[j][Len(s) + 1] = e
      BY <1>7, <2>1, <2>6
    <3>2. CASE n \in DOMAIN s
      <4>1. \A k \in DOMAIN inbox'[j] : k < n => k \in DOMAIN s
        BY <3>1, <3>2
      <4>2. \A b \in ChannelAgents : \A k \in DOMAIN told'[b] :
              told'[b][k].do = "post" /\ channel[s[n].from].of = b => s[n].message < told'[b][k].message
        BY <1>11, <2>3, <3>2
      <4> QED
        BY <2>2, <3>1, <3>2, <4>1, <4>2
    <3>3. CASE n = Len(s) + 1
      <4>1. \A k \in DOMAIN inbox'[j] : k < n => k \in DOMAIN s
        BY <3>1, <3>3
      <4>2. e.from # j
        BY <1>7, <2>6
      <4>3. \A k \in DOMAIN s : channel[s[k].from].of = a => s[k].message < e.message
        BY <2>4
      <4>4. inbox'[j][n] = e
        BY <3>1, <3>3
      <4> QED
        BY <1>6, <2>5, <3>1, <4>1, <4>2, <4>3, <4>4
    <3> QED
      BY <3>1, <3>2, <3>3
  <2>7. CASE ~gets(j)
    <3>1. inbox'[j] = s
      BY <1>7, <2>1, <2>7
    <3>2. \A b \in ChannelAgents : \A k \in DOMAIN told'[b] :
            told'[b][k].do = "post" /\ channel[s[n].from].of = b => s[n].message < told'[b][k].message
      BY <1>11, <2>3, <3>1
    <3> QED
      BY <2>2, <3>1, <3>2
  <2> QED
    BY <2>6, <2>7
<1>14. InboxInv'
  BY <1>1, <1>13 DEF InboxInv
<1> QED
  BY <1>9, <1>10, <1>12, <1>14 DEF ChannelsInv

LEMMA ChannelsDisconnect ==
  ASSUME ChannelsInv, NEW a \in ChannelAgents, Channels!OnDisconnect(a)
  PROVE  ChannelsInv'
<1>1. /\ told[a] # <<>> /\ Head(told[a]).do = "disconnect"
      /\ told \in [ChannelAgents -> Seq(ChannelCalls)] /\ channel \in [Ids -> ChannelRecords]
      /\ told' = [told EXCEPT ![a] = Tail(told[a])]
      /\ channel' = [channel EXCEPT ![Head(told[a]).channel].state = "posted"]
      /\ UNCHANGED <<by_frame, creator, registry, posts, inbox>>
  BY DEF Channels!OnDisconnect, Channels!Takes, ChannelsInv, ChannelsTyped
<1>2. Taken(a)
  BY <1>1, CallTaken
<1>3. \A b \in ChannelAgents :
        /\ InOrder(told[b])
        /\ \A n \in DOMAIN told[b] : told[b][n] \in ChannelCalls /\ Fits(b, told[b][n])
  BY <1>1 DEF ChannelsInv, CallsInv
<1>4. PICK c \in ChannelCalls :
        c = told[a][1] /\ c = Head(told[a]) /\ Fits(a, c) /\ c.do = "disconnect"
  BY <1>1, <1>2, <1>3 DEF Taken
<1>5. PICK i \in Ids : i = c.channel
  BY <1>4 DEF ChannelCalls
<1>6. channel[i].of = a /\ channel[i].state = "closed"
  BY <1>4, <1>5 DEF Fits, CallFits
<1>7. /\ channel' \in [Ids -> ChannelRecords]
      /\ \A j \in Ids : channel'[j].of = channel[j].of /\ (j # i => channel'[j] = channel[j])
      /\ channel'[i].state = "posted"
  BY <1>1, <1>4, <1>5 DEF ChannelRecords
<1>8. ChannelsTyped'
  BY <1>1, <1>2, <1>6, <1>7 DEF ChannelsInv, ChannelsTyped, Taken
<1>9. RegistryInv'
  BY <1>1, <1>7, InboxTyped DEF ChannelsInv, RegistryInv
<1>10. \A b \in ChannelAgents, x \in ChannelCalls :
         Fits(b, x) /\ (x.channel = i => x.do = "post") => FitsThen(b, x)
  BY <1>1, <1>6, <1>7 DEF Fits, FitsThen, CallFits, ChannelCalls
<1>11. ASSUME NEW b \in ChannelAgents, NEW k \in DOMAIN told'[b] PROVE FitsThen(b, told'[b][k])
  <2>1. CASE b = a
    <3>1. PICK x \in ChannelCalls : x = told[a][k + 1] /\ Fits(a, x)
      BY <1>2, <1>3, <2>1 DEF Taken
    <3>2. Precedes(c, x)
      BY <1>2, <1>3, <1>4, <2>1, <3>1 DEF InOrder, Taken
    <3>3. x.channel = i => x.do = "post"
      BY <1>4, <1>5, <3>1, <3>2 DEF Precedes, ChannelCalls
    <3> QED
      BY <1>2, <1>10, <2>1, <3>1, <3>3 DEF Taken
  <2>2. CASE b # a
    <3>1. PICK x \in ChannelCalls : x = told[b][k] /\ Fits(b, x)
      BY <1>2, <1>3, <2>2 DEF Taken
    <3>2. x.channel # i
      BY <1>6, <2>2, <3>1 DEF Fits, CallFits
    <3> QED
      BY <1>2, <1>10, <2>2, <3>1, <3>2 DEF Taken
  <2> QED
    BY <2>1, <2>2
<1>12. CallsInv'
  BY <1>2, <1>11 DEF CallsInv, Fits, FitsThen, Taken
<1>13. InboxInv'
  <2>1. ASSUME NEW b \in ChannelAgents, NEW k \in DOMAIN told'[b]
        PROVE  told'[b][k] \in ChannelCalls /\ (told'[b][k].do = "post" =>
                 posts < told'[b][k].message \/ Underway(b, told'[b][k]))
    BY <1>2, <1>3 DEF Underway, Taken
  <2>2. posts \in Nat
    BY DEF ChannelsInv, ChannelsTyped
  <2> QED
    BY <1>1, <1>7, <2>1, <2>2, InboxKept
<1> QED
  BY <1>8, <1>9, <1>12, <1>13 DEF ChannelsInv

(* t is s without its n-th element.                                        *)
Removed(s, n, t) ==
  \A k \in DOMAIN t :
    LET l == IF k < n THEN k ELSE k + 1 IN
      l \in DOMAIN s /\ l # n /\ t[k] = s[l] /\ k \in Nat

LEMMA RemovedAt ==
  ASSUME NEW s \in Seq(Ids), NEW n \in DOMAIN s
  PROVE  Channels!RemoveAt(s, n) \in Seq(Ids) /\ Removed(s, n, Channels!RemoveAt(s, n))
<1> DEFINE u == SubSeq(s, 1, n - 1)
           v == SubSeq(s, n + 1, Len(s))
<1>1. n \in 1 .. Len(s) /\ Len(s) \in Nat /\ DOMAIN s = 1 .. Len(s)
  OBVIOUS
<1>2. /\ u \in Seq(Ids) /\ Len(u) = n - 1
      /\ \A k \in 1 .. n - 1 : k \in 1 .. (n - 1) - 1 + 1 /\ u[k] = s[k]
  <2>1. 1 \in Int /\ n - 1 \in Int /\ \A k \in 1 .. n - 1 : s[k] \in Ids
    BY <1>1
  <2>2. /\ u \in Seq(Ids) /\ Len(u) = IF 1 <= n - 1 THEN (n - 1) - 1 + 1 ELSE 0
        /\ \A k \in 1 .. (n - 1) - 1 + 1 : u[k] = s[1 + k - 1]
    BY <2>1, SubSeqProperties
  <2> QED
    BY <1>1, <2>2
<1>3. /\ v \in Seq(Ids) /\ Len(v) = Len(s) - n
      /\ \A k \in 1 .. Len(s) - n : v[k] = s[k + n]
  <2>1. n + 1 \in Int /\ Len(s) \in Int /\ \A k \in n + 1 .. Len(s) : s[k] \in Ids
    BY <1>1
  <2>2. /\ v \in Seq(Ids) /\ Len(v) = IF n + 1 <= Len(s) THEN Len(s) - (n + 1) + 1 ELSE 0
        /\ \A k \in 1 .. Len(s) - (n + 1) + 1 : v[k] = s[n + 1 + k - 1]
    BY <2>1, SubSeqProperties
  <2> QED
    BY <1>1, <2>2
<1> HIDE DEF u, v
<1>4. /\ u \o v \in Seq(Ids) /\ DOMAIN (u \o v) = 1 .. Len(s) - 1
      /\ \A k \in 1 .. Len(s) - 1 :
           (u \o v)[k] = (IF k <= n - 1 THEN u[k] ELSE v[k - (n - 1)])
  <2>1. /\ u \o v \in Seq(Ids) /\ Len(u \o v) = Len(u) + Len(v)
        /\ \A k \in 1 .. Len(u) + Len(v) : (u \o v)[k] = IF k <= Len(u) THEN u[k] ELSE v[k - Len(u)]
    BY <1>2, <1>3, ConcatProperties
  <2>2. Len(u) + Len(v) = Len(s) - 1
    BY <1>1, <1>2, <1>3
  <2>3. DOMAIN (u \o v) = 1 .. Len(u \o v)
    BY <2>1
  <2> QED
    BY <1>2, <2>1, <2>2, <2>3
<1>5. \A k \in 1 .. Len(s) - 1 : (u \o v)[k] = s[IF k < n THEN k ELSE k + 1]
  <2> SUFFICES ASSUME NEW k \in 1 .. Len(s) - 1
               PROVE  (u \o v)[k] = s[IF k < n THEN k ELSE k + 1]
    OBVIOUS
  <2>1. CASE k < n
    <3>1. k \in 1 .. n - 1 /\ k <= n - 1
      BY <1>1, <2>1
    <3> QED
      BY <1>2, <1>4, <2>1, <3>1
  <2>2. CASE ~(k < n)
    <3>1. k - (n - 1) \in 1 .. Len(s) - n /\ (k - (n - 1)) + n = k + 1 /\ ~(k <= n - 1)
      BY <1>1, <2>2
    <3>2. (u \o v)[k] = v[k - (n - 1)]
      BY <1>4, <3>1
    <3> QED
      BY <1>3, <2>2, <3>1, <3>2
  <2> QED
    BY <2>1, <2>2
<1>6. Channels!RemoveAt(s, n) = u \o v
  BY DEF Channels!RemoveAt, u, v
<1>7. Removed(s, n, u \o v)
  <2> SUFFICES ASSUME NEW k \in 1 .. Len(s) - 1
               PROVE  LET l == IF k < n THEN k ELSE k + 1 IN
                        l \in DOMAIN s /\ l # n /\ (u \o v)[k] = s[l] /\ k \in Nat
    BY <1>4 DEF Removed
  <2>1. k \in Nat
    BY <1>1
  <2>2. k < n => k \in 1 .. Len(s) /\ k # n
    BY <1>1
  <2>3. ~(k < n) => k + 1 \in 1 .. Len(s) /\ k + 1 # n
    BY <1>1
  <2> QED
    BY <1>1, <1>5, <2>1, <2>2, <2>3
<1> QED
  BY <1>4, <1>6, <1>7

LEMMA ChannelsDestroy ==
  ASSUME ChannelsInv, NEW i \in Ids, Channels!Destroy(i)
  PROVE  ChannelsInv'
<1>1. PICK n \in DOMAIN registry : registry[n] = i /\ registry' = Channels!RemoveAt(registry, n)
  BY DEF Channels!Destroy
<1>2. /\ channel \in [Ids -> ChannelRecords] /\ registry \in Seq(Ids) /\ channel[i].state = "posted"
      /\ channel' = [channel EXCEPT ![i].state = "gone"]
      /\ UNCHANGED <<by_frame, creator, told, posts, inbox>>
  BY DEF Channels!Destroy, ChannelsInv, ChannelsTyped
<1>3. /\ channel' \in [Ids -> ChannelRecords]
      /\ \A j \in Ids : channel'[j].of = channel[j].of /\ (j # i => channel'[j] = channel[j])
      /\ channel'[i].state = "gone"
  BY <1>2 DEF ChannelRecords
<1>4. registry' \in Seq(Ids) /\ Removed(registry, n, registry')
  BY <1>1, <1>2, RemovedAt
<1>5. ChannelsTyped'
  BY <1>2, <1>3, <1>4 DEF ChannelsInv, ChannelsTyped
<1>6. RegistryInv'
  BY <1>1, <1>2, <1>3, <1>4, InboxTyped DEF ChannelsInv, RegistryInv, Removed
<1>7. \A b \in ChannelAgents, x \in ChannelCalls : Fits(b, x) => FitsThen(b, x)
  <2>1. \A r : (\E k \in DOMAIN registry' : registry'[k] = r) => \E k \in DOMAIN registry : registry[k] = r
    BY <1>4 DEF Removed
  <2> SUFFICES ASSUME NEW b \in ChannelAgents, NEW x \in ChannelCalls, Fits(b, x) PROVE FitsThen(b, x)
    OBVIOUS
  <2>2. /\ x.channel \in Ids /\ channel'[x.channel].of = b /\ channel'[x.channel].state # "none"
        /\ x.do = "post" => x.message <= posts'
    BY <1>2, <1>3 DEF Fits, CallFits, ChannelCalls
  <2>3. x.do \in {"connect", "disconnect"} => x.channel # i
    BY <1>2 DEF Fits, CallFits
  <2>4. x.do = "connect" => \A k \in DOMAIN registry' : registry'[k] # x.channel
    BY <2>1 DEF Fits, CallFits
  <2> QED
    BY <1>3, <2>2, <2>3, <2>4 DEF Fits, FitsThen, CallFits
<1>8. \A b \in ChannelAgents : \A k \in DOMAIN told[b] :
        told[b][k] \in ChannelCalls /\ Fits(b, told[b][k]) /\ InOrder(told[b])
  BY DEF ChannelsInv, ChannelsTyped, CallsInv
<1>9. CallsInv'
  BY <1>2, <1>7, <1>8 DEF ChannelsInv, CallsInv, Fits, FitsThen
<1>10. InboxInv'
  <2>1. ASSUME NEW b \in ChannelAgents, NEW k \in DOMAIN told'[b]
        PROVE  told'[b][k] \in ChannelCalls /\ (told'[b][k].do = "post" =>
                 posts < told'[b][k].message \/ Underway(b, told'[b][k]))
    BY <1>2, <1>8 DEF Underway
  <2>2. posts \in Nat
    BY DEF ChannelsInv, ChannelsTyped
  <2> QED
    BY <1>2, <1>3, <2>1, <2>2, InboxKept
<1> QED
  BY <1>5, <1>6, <1>9, <1>10 DEF ChannelsInv

LEMMA ChannelsNext ==
  ASSUME ChannelsInv, Channels!Next PROVE ChannelsInv'
BY ChannelsNew, ChannelsPost, ChannelsPages, ChannelsWorker, ChannelsConnect, ChannelsMessage,
   ChannelsDisconnect, ChannelsDestroy
   DEF Channels!Next, Channels!Agents, ChannelAgents

LEMMA ChannelsStutter ==
  ASSUME ChannelsInv, UNCHANGED bcVars PROVE ChannelsInv'
BY DEF bcVars, ChannelsInv, ChannelsTyped, RegistryInv, CallsInv, Fits, CallFits, InboxInv

LEMMA ChannelsOrderly == ASSUME ChannelsInv PROVE Channels!ChannelsAreOrderly
<1>1. Channels!TypeOK
  BY DEF ChannelsInv, ChannelsTyped, RegistryInv, Channels!TypeOK, Channels!IsInjective,
         Channels!Agents, ChannelAgents, AnyScope
<1>2. Channels!MessagesKeepTheirOrder
  BY DEF ChannelsInv, InboxInv, Channels!MessagesKeepTheirOrder
<1> QED
  BY <1>1, <1>2 DEF Channels!ChannelsAreOrderly

LEMMA ChannelsWithhold ==
  ASSUME ChannelsInv, Channels!Next PROVE Channels!WithheldAcrossScopes
<1>1. ASSUME NEW a \in ChannelAgents, Channels!OnMessage(a) PROVE Channels!WithheldAcrossScopes
  <2> DEFINE m == Head(told[a])
             e == [from |-> m.channel, message |-> m.message]
  <2> SUFFICES ASSUME NEW j \in Ids, inbox'[j] # inbox[j]
               PROVE  LET i == Channels!Last(inbox'[j]).from IN
                        \/ Channels!Moved(i) \/ Channels!Moved(j)
                        \/ ~Channels!Concrete(channel[i].scope)
                        \/ ~Channels!Concrete(channel[j].scope)
                        \/ channel[i].scope = channel[j].scope
    BY DEF Channels!WithheldAcrossScopes
  <2>1. inbox'[j] = Append(inbox[j], e) /\ j \in Channels!Receivers(m.channel)
    BY <1>1 DEF Channels!OnMessage, ChannelsInv, ChannelsTyped
  <2>2. PICK s \in Seq(Sent) : s = inbox[j]
    BY DEF ChannelsInv, ChannelsTyped
  <2>3. Channels!Last(inbox'[j]).from = m.channel
    <3>1. Len(Append(s, e)) = Len(s) + 1 /\ Append(s, e)[Len(s) + 1] = e
      BY <2>2
    <3> QED
      BY <2>1, <2>2, <3>1 DEF Channels!Last
  <2> QED
    BY <2>1, <2>3 DEF Channels!Receivers, Channels!Scope, Channels!Moved
<1>2. ASSUME UNCHANGED inbox PROVE Channels!WithheldAcrossScopes
  BY <1>2 DEF Channels!WithheldAcrossScopes
<1>3. (\E a \in ChannelAgents : Channels!OnMessage(a)) \/ UNCHANGED inbox
  BY DEF Channels!Next, Channels!Post, Channels!CloseChannel, Channels!Destroy, Channels!NewChannel,
         Channels!DestroyFrame, Channels!Commit, Channels!CreateWorkerHost, Channels!DestroyWorker,
         Channels!ConnectToChannel, Channels!OnDisconnect, Channels!Agents, ChannelAgents
<1> QED
  BY <1>1, <1>2, <1>3

------------------------------------------------------------------------------
(* The position.                                                           *)
GeoPages == Watchers \cup Observers

PositionTyped ==
  /\ set \in BOOLEAN /\ version \in Nat /\ main \in {"idle", "waiters", "observers"}
  /\ watch \in [Watchers -> {"none", "denied", "sent", "held", "posted", "replied"}]
  /\ held_at \in [Watchers -> Nat] /\ reply \in [Watchers -> Nat] /\ seen \in [Watchers -> Nat]
  /\ runner \in BOOLEAN /\ permission_observers \subseteq Observers /\ notices \in Nat
  /\ permission \in [Observers -> {"none", "asked", "observed"}]
  /\ known \in [Observers -> BOOLEAN] /\ since \in [Observers -> Nat]

(* Who is told of changes; and that whoever does not know of one will be.  *)
ObserversInv ==
  /\ \A p \in Observers \ gone : permission[p] = "observed" => p \in permission_observers /\ runner
  /\ \A p \in Observers \ gone :
       permission[p] = "observed" /\ since[p] < version /\ known[p] # set
         => main # "idle" \/ notices > 0

PositionInv == PositionTyped /\ Position!WatchersWaitForAChange /\ ObserversInv

LEMMA PositionInit == ASSUME Position!Init PROVE PositionInv
<1>1. PositionTyped
  BY DEF Position!Init, PositionTyped
<1>2. \A p \in Watchers : watch[p] = "none" /\ seen[p] = 0 /\ reply[p] = 0 /\ version = 0
  BY DEF Position!Init
<1>3. \A p \in Observers : permission[p] = "none"
  BY DEF Position!Init
<1> QED
  BY <1>1, <1>2, <1>3 DEF PositionInv, Position!WatchersWaitForAChange, ObserversInv

LEMMA PositionNext == ASSUME PositionInv, Position!Next PROVE PositionInv'
<1> USE DEF PositionInv
<1>1. ASSUME NEW s \in BOOLEAN, Position!SetGeolocation(s) PROVE PositionInv'
  <2>1. PICK v \in Nat : v = version + 1 /\ version < v
    BY DEF PositionTyped
  <2>2. /\ main = "idle" /\ set' = s /\ version' = v /\ main' = "waiters"
        /\ UNCHANGED <<watch, held_at, reply, seen, runner, permission_observers, notices,
                       permission, known, since, gone>>
    BY <1>1, <2>1 DEF Position!SetGeolocation, Position!watching, Position!observing
  <2>3. Position!WatchersWaitForAChange'
    BY <2>1, <2>2 DEF PositionTyped, Position!WatchersWaitForAChange
  <2> QED
    BY <2>1, <2>2, <2>3 DEF PositionTyped, ObserversInv
<1>2. ASSUME Position!WakeWaiters PROVE PositionInv'
  <2>1. /\ main = "waiters" /\ main' = "observers"
        /\ watch' = [p \in Watchers |-> IF watch[p] = "held" THEN "posted" ELSE watch[p]]
        /\ UNCHANGED <<set, version, held_at, reply, seen, runner, permission_observers, notices,
                       permission, known, since, gone>>
    BY <1>2 DEF Position!WakeWaiters, Position!observing
  <2> QED
    BY <2>1 DEF PositionTyped, Position!WatchersWaitForAChange, ObserversInv
<1>3. ASSUME Position!PostToObservers PROVE PositionInv'
  <2>1. PICK n \in Nat : n = (IF runner THEN notices + 1 ELSE notices) /\ (runner => n > 0)
    BY DEF PositionTyped
  <2>2. /\ main = "observers" /\ main' = "idle" /\ notices' = n
        /\ UNCHANGED <<set, version, watch, held_at, reply, seen, runner, permission_observers,
                       permission, known, since, gone>>
    BY <1>3, <2>1 DEF Position!PostToObservers, Position!watching, PositionTyped
  <2> QED
    BY <2>1, <2>2 DEF PositionTyped, Position!WatchersWaitForAChange, ObserversInv
<1>4. ASSUME Position!NotifyGeoPermObservers PROVE PositionInv'
  <2>1. PICK n \in Nat : n = notices - 1
    BY <1>4 DEF Position!NotifyGeoPermObservers, PositionTyped
  <2>2. /\ notices' = n /\ permission_observers' = permission_observers \ gone
        /\ known' = [p \in Observers |->
             IF p \in permission_observers \ gone THEN set ELSE known[p]]
        /\ UNCHANGED <<set, version, main, watch, held_at, reply, seen, runner, permission, since,
                       gone>>
    BY <1>4, <2>1 DEF Position!NotifyGeoPermObservers, Position!fix, Position!watching
  <2> QED
    BY <2>2 DEF PositionTyped, Position!WatchersWaitForAChange, ObserversInv
<1>5. ASSUME NEW p \in Watchers,
             \/ Position!CreateGeolocation(p) \/ Position!QueryNextPosition(p)
             \/ Position!AnswerHeld(p) \/ Position!HearPosition(p)
      PROVE  PositionInv'
  <2>1. UNCHANGED <<set, version, main, runner, permission_observers, notices, permission, known,
                    since, gone>>
    BY <1>5 DEF Position!CreateGeolocation, Position!QueryNextPosition, Position!AnswerHeld,
                Position!HearPosition, Position!fix, Position!observing
  <2>2. /\ watch' \in [Watchers -> {"none", "denied", "sent", "held", "posted", "replied"}]
        /\ held_at' \in [Watchers -> Nat] /\ reply' \in [Watchers -> Nat]
        /\ seen' \in [Watchers -> Nat]
        /\ \A q \in Watchers : q # p =>
             /\ watch'[q] = watch[q] /\ held_at'[q] = held_at[q]
             /\ reply'[q] = reply[q] /\ seen'[q] = seen[q]
        /\ watch'[p] = "held" => held_at'[p] = version
        /\ seen'[p] <= reply'[p] /\ reply'[p] <= version
    <3>1. CASE Position!CreateGeolocation(p)
      BY <3>1 DEF Position!CreateGeolocation, PositionTyped, Position!WatchersWaitForAChange
    <3>2. CASE Position!QueryNextPosition(p)
      BY <3>2 DEF Position!QueryNextPosition, Position!Reply, PositionTyped,
                  Position!WatchersWaitForAChange
    <3>3. CASE Position!AnswerHeld(p)
      BY <3>3 DEF Position!AnswerHeld, Position!Reply, PositionTyped,
                  Position!WatchersWaitForAChange
    <3>4. CASE Position!HearPosition(p)
      BY <3>4 DEF Position!HearPosition, PositionTyped, Position!WatchersWaitForAChange
    <3> QED
      BY <1>5, <3>1, <3>2, <3>3, <3>4
  <2> QED
    BY <2>1, <2>2 DEF PositionTyped, Position!WatchersWaitForAChange, ObserversInv
<1>6. ASSUME NEW p \in Observers, Position!HasPermission(p) \/ Position!AddPermissionObserver(p)
      PROVE  PositionInv'
  <2>1. UNCHANGED <<set, version, main, watch, held_at, reply, seen, notices, gone>>
    BY <1>6 DEF Position!HasPermission, Position!AddPermissionObserver, Position!fix,
                Position!watching
  <2>2. CASE Position!HasPermission(p)
    BY <2>1, <2>2 DEF Position!HasPermission, PositionTyped, Position!WatchersWaitForAChange,
                      ObserversInv
  <2>3. CASE Position!AddPermissionObserver(p)
    BY <2>1, <2>3 DEF Position!AddPermissionObserver, PositionTyped,
                      Position!WatchersWaitForAChange, ObserversInv
  <2> QED
    BY <1>6, <2>2, <2>3
<1>7. ASSUME NEW p \in GeoPages, Position!PageGoes(p) PROVE PositionInv'
  BY <1>7 DEF Position!PageGoes, Position!fix, Position!watching, Position!observing,
              PositionTyped, Position!WatchersWaitForAChange, ObserversInv
<1> QED
  BY <1>1, <1>2, <1>3, <1>4, <1>5, <1>6, <1>7 DEF Position!Next, Position!Pages, GeoPages

LEMMA PositionStutter == ASSUME PositionInv, UNCHANGED geoVars PROVE PositionInv'
BY DEF geoVars, PositionInv, PositionTyped, Position!WatchersWaitForAChange, ObserversInv

LEMMA PositionSound == ASSUME PositionInv PROVE Position!GeolocationIsSound
BY DEF PositionInv, PositionTyped, ObserversInv, Position!GeolocationIsSound, Position!ObserversKnow

------------------------------------------------------------------------------
(* What the pages of an origin share.                                      *)
ChannelsSafe == ChannelsInv /\ PositionInv

LEMMA SharedInit == SumInit => ChannelsSafe
BY ChannelsInit, PositionInit DEF SumInit, ChannelsSafe

LEMMA SharedStep == ChannelsSafe /\ [SumNext]_SumVars => ChannelsSafe'
<1> SUFFICES ASSUME ChannelsSafe, [SumNext]_SumVars PROVE ChannelsSafe'
  OBVIOUS
<1>1. /\ Channels!Next \/ UNCHANGED bcVars
      /\ Position!Next \/ UNCHANGED geoVars
  BY DEF SumNext, SumVars, Rest
<1> QED
  BY <1>1, ChannelsNext, ChannelsStutter, PositionNext, PositionStutter DEF ChannelsSafe

(* Whatever channels pages open, close and post on: a channel is sent what *)
(* an agent posted once and in order, nothing that was posted on itself,   *)
(* and the registry has every channel once.  However the position changes: *)
(* no watcher sleeps through a change, and who observed the permission     *)
(* before it changed knows once the change was passed on.                  *)
THEOREM PagesHearInOrder ==
  SumSpec => [](Channels!ChannelsAreOrderly /\ Position!GeolocationIsSound)
<1>1. ChannelsSafe => Channels!ChannelsAreOrderly /\ Position!GeolocationIsSound
  BY ChannelsOrderly, PositionSound DEF ChannelsSafe
<1> QED
  BY <1>1, SharedInit, SharedStep, PTL DEF SumSpec

(* No message passes between two scopes that are known and differ, unless  *)
(* one of the two frames has moved on since it opened its channel.         *)
THEOREM MessagesAreWithheld == SumSpec => MessagesStayInTheirScope
<1>1. ChannelsSafe /\ [SumNext]_SumVars => [Channels!WithheldAcrossScopes]_bcVars
  <2> SUFFICES ASSUME ChannelsSafe, [SumNext]_SumVars PROVE [Channels!WithheldAcrossScopes]_bcVars
    OBVIOUS
  <2>1. Channels!Next \/ UNCHANGED bcVars
    BY DEF SumNext, SumVars, Rest
  <2> QED
    BY <2>1, ChannelsWithhold DEF ChannelsSafe
<1> QED
  BY <1>1, SharedInit, SharedStep, PTL DEF SumSpec, MessagesStayInTheirScope
=============================================================================
