--------------------------- MODULE URLLoaderProofs ---------------------------
(***************************************************************************)
(* What holds of URLLoader for any views, instances of the shared worker   *)
(* and loads.                                                              *)
(***************************************************************************)
EXTENDS MCURLLoader, FiniteSetTheorems, TLAPS

------------------------------------------------------------------------------
(* A load by itself.                                                       *)
LoadRecord ==
  [pc : {"none", "queued", "asking", "hooking", "fetching", "writing", "streaming", "told",
         "orphaned", "deleted"},
   kind : {"page", "worker", "script", "nav"}, context : Contexts \cup {NoContext},
   keys : SUBSET Contexts, hop : Nat, call : {"none", "posted", "done", "refused"},
   heard : {"nothing", "response", "failed", "finished"},
   posted : Nat, buffer : Nat, written : Nat, read : Nat, ended : BOOLEAN, broken : BOOLEAN]

Over(r) == r.heard \in {"failed", "finished"}
Busy(r) == r.pc \notin {"none", "orphaned", "deleted"}

(* Who has been told the end does nothing but go; a stream that ended has  *)
(* nothing on its way, and when it was told nothing in its buffer; the     *)
(* pipe holds no more than it can.                                         *)
LoadOK(r) ==
  /\ r \in LoadRecord
  /\ Over(r) => r.pc \in {"told", "deleted"}
  /\ r.ended => r.posted = 0 /\ r.pc \in {"streaming", "told"}
  /\ r.ended /\ r.heard = "finished" => r.buffer = 0
  /\ r.read <= r.written /\ r.written <= r.read + Pipe

LoadsOK == load \in [Loads -> LoadRecord] /\ \A l \in Loads : LoadOK(load[l])

(* The loads that count for a key, and their number.                       *)
Counted(k) == {l \in Loads : Busy(load[l]) /\ k \in load[l].keys}

CountsOK == in_flight = [k \in Contexts |-> Cardinality(Counted(k))]

(* Instances that are not live have no clients.                            *)
InstancesOK ==
  /\ inst \in [Instances -> [state : {"none", "live", "terminating", "gone"},
                             clients : [LoaderViews -> Nat]]]
  /\ registry \in Instances \cup {NoContext}
  /\ \A i \in Instances : inst[i].state # "live" => \A v \in LoaderViews : inst[i].clients[v] = 0
  /\ RegistryServes

LoaderInv == LoadsOK /\ CountsOK /\ InstancesOK

LEMMA CountedIsRunning ==
  \A k : Counted(k) = {l \in Loads : Running(l) /\ k \in load[l].keys}
  BY DEF Counted, Busy, Running

LEMMA CountsAreFinite ==
  \A k : IsFiniteSet(Counted(k)) /\ Cardinality(Counted(k)) \in Nat
  BY LoadsAssumption, FS_Subset, FS_CardinalityType DEF Counted

LEMMA LoaderInvSuffices == LoaderInv => LoadsAreSafe
<1> SUFFICES ASSUME LoaderInv PROVE LoadsAreSafe
  OBVIOUS
<1>1. InFlightIsExact
  BY CountedIsRunning DEF LoaderInv, CountsOK, InFlightIsExact
<1>2. StreamsAreWhole
  BY DEF LoaderInv, LoadsOK, LoadOK, StreamsAreWhole
<1> QED
  BY <1>1, <1>2 DEF LoaderInv, InstancesOK, LoadsAreSafe

LEMMA LoaderStarts == LoadingInit => LoaderInv
<1> SUFFICES ASSUME LoadingInit PROVE LoaderInv
  OBVIOUS
<1>1. LoadOK(NewLoad)
  BY DEF LoadOK, LoadRecord, NewLoad, Over, Pipe
<1>2. LoadsOK
  BY <1>1 DEF LoadingInit, LoadsOK, LoadOK
<1>3. CountsOK
  <2>1. \A k : Counted(k) = {}
    BY DEF LoadingInit, Counted, Busy, NewLoad
  <2> QED
    BY <2>1, FS_EmptySet DEF LoadingInit, CountsOK
<1>4. InstancesOK
  BY LoadsAssumption DEF LoadingInit, InstancesOK, NewInstance, RegistryServes
<1> QED
  BY <1>2, <1>3, <1>4 DEF LoaderInv

------------------------------------------------------------------------------
(* A step of one load: it is counted for what it was counted for, or it    *)
(* begins, or it ends; and what was over stays over.                       *)
Counts(r, k) == IF Busy(r) /\ k \in r.keys THEN 1 ELSE 0

StaysOver(r, s) ==
  /\ r.pc = "deleted" => s.pc = "deleted" /\ s.heard = r.heard
  /\ Over(r) => s.heard = r.heard

Moves(l, r) ==
  /\ LoadOK(r) /\ load' = [load EXCEPT ![l] = r]
  /\ StaysOver(load[l], r)
  /\ in_flight' = [k \in Contexts |-> in_flight[k] + Counts(r, k) - Counts(load[l], k)]

LEMMA MovesKeep ==
  ASSUME LoaderInv, NEW l \in Loads, NEW r, Moves(l, r), UNCHANGED <<inst, registry>>
  PROVE  LoaderInv'
<1> USE DEF LoaderInv
<1>1. /\ LoadOK(r) /\ load' = [load EXCEPT ![l] = r]
      /\ in_flight' = [k \in Contexts |-> in_flight[k] + Counts(r, k) - Counts(load[l], k)]
  BY DEF Moves
<1>2. \A m \in Loads : load'[m] = IF m = l THEN r ELSE load[m]
  BY <1>1 DEF LoadsOK
<1>3. LoadsOK'
  BY <1>1, <1>2 DEF LoadsOK, LoadOK
<1>4. \A k \in Contexts : in_flight'[k] = Cardinality(Counted(k)')
  <2> TAKE k \in Contexts
  <2>1. in_flight[k] = Cardinality(Counted(k)) /\ in_flight[k] \in Nat
    BY CountsAreFinite DEF CountsOK
  <2>2. IsFiniteSet(Counted(k))
    BY CountsAreFinite
  <2>3. in_flight'[k] = in_flight[k] + Counts(r, k) - Counts(load[l], k)
    BY <1>1
  <2>4. CASE Counts(load[l], k) = 1 /\ Counts(r, k) = 1
    <3>1. Counted(k)' = Counted(k)
      BY <1>2, <2>4 DEF Counted, Counts
    <3> QED
      BY <2>1, <2>3, <2>4, <3>1
  <2>5. CASE Counts(load[l], k) = 0 /\ Counts(r, k) = 0
    <3>1. Counted(k)' = Counted(k)
      BY <1>2, <2>5 DEF Counted, Counts
    <3> QED
      BY <2>1, <2>3, <2>5, <3>1
  <2>6. CASE Counts(load[l], k) = 0 /\ Counts(r, k) = 1
    <3>1. Counted(k)' = Counted(k) \cup {l} /\ l \notin Counted(k)
      BY <1>2, <2>6 DEF Counted, Counts
    <3>2. Cardinality(Counted(k) \cup {l}) = Cardinality(Counted(k)) + 1
      BY <2>2, <3>1, FS_AddElement
    <3> QED
      BY <2>1, <2>3, <2>6, <3>1, <3>2
  <2>7. CASE Counts(load[l], k) = 1 /\ Counts(r, k) = 0
    <3>1. Counted(k)' = Counted(k) \ {l} /\ l \in Counted(k)
      BY <1>2, <2>7 DEF Counted, Counts
    <3>2. Cardinality(Counted(k) \ {l}) = Cardinality(Counted(k)) - 1
      BY <2>2, <3>1, FS_RemoveElement
    <3> QED
      BY <2>1, <2>3, <2>7, <3>1, <3>2
  <2> QED
    BY <2>4, <2>5, <2>6, <2>7 DEF Counts
<1>5. CountsOK'
  BY <1>1, <1>4 DEF CountsOK
<1>6. InstancesOK'
  BY DEF InstancesOK, RegistryServes, Clients
<1> QED
  BY <1>3, <1>5, <1>6

(* The load goes on.                                                       *)
LEMMA GoesOn ==
  ASSUME LoaderInv, NEW l \in Loads, NEW r, LoadOK(r), Busy(load[l]), Busy(r),
         r.keys = load[l].keys, Over(load[l]) => r.heard = load[l].heard,
         load' = [load EXCEPT ![l] = r], UNCHANGED in_flight
  PROVE  Moves(l, r)
<1>1. \A k \in Contexts : in_flight[k] \in Nat /\ Counts(r, k) = Counts(load[l], k)
                          /\ Counts(r, k) \in Nat
  BY CountsAreFinite DEF LoaderInv, CountsOK, Counts
<1>2. in_flight = [k \in Contexts |-> in_flight[k]]
  BY DEF LoaderInv, CountsOK
<1>3. \A k \in Contexts : in_flight[k] + Counts(r, k) - Counts(load[l], k) = in_flight[k]
  BY <1>1
<1>4. StaysOver(load[l], r)
  BY DEF Busy, StaysOver
<1> QED
  BY <1>2, <1>3, <1>4 DEF Moves

(* The load ends, and gives back what it was counted for.                  *)
LEMMA Ends ==
  ASSUME LoaderInv, NEW l \in Loads, Busy(load[l]), NEW pc \in {"orphaned", "deleted"},
         pc = "deleted" \/ ~Over(load[l]),
         NEW r, r = [Deleted(l) EXCEPT !.pc = pc],
         load' = [load EXCEPT ![l] = r], MbNetRequestFinished(load[l].keys)
  PROVE  Moves(l, r)
<1>1. LoadOK(r) /\ ~Busy(r) /\ r.heard = load[l].heard
  <2>1. load[l].heard \in {"nothing", "response", "failed", "finished"}
    BY DEF LoaderInv, LoadsOK, LoadOK, LoadRecord
  <2>2. NewLoad \in LoadRecord /\ ~NewLoad.ended
        /\ NewLoad.read = 0 /\ NewLoad.written = 0
    BY DEF NewLoad, LoadRecord
  <2>3. /\ Deleted(l) \in LoadRecord /\ Deleted(l).heard = load[l].heard /\ ~Deleted(l).ended
        /\ Deleted(l).read = 0 /\ Deleted(l).written = 0
    BY <2>1, <2>2 DEF Deleted, LoadRecord
  <2>4. /\ r \in LoadRecord /\ r.pc = pc /\ r.heard = load[l].heard /\ ~r.ended
        /\ r.read = 0 /\ r.written = 0
    BY <2>3 DEF LoadRecord
  <2> QED
    BY <2>4 DEF LoadOK, Over, Busy, Pipe
<1>2. \A k \in Contexts :
        (IF k \in load[l].keys /\ in_flight[k] > 0 THEN in_flight[k] - 1 ELSE in_flight[k])
          = in_flight[k] + Counts(r, k) - Counts(load[l], k)
  <2> TAKE k \in Contexts
  <2>1. in_flight[k] = Cardinality(Counted(k)) /\ in_flight[k] \in Nat /\ IsFiniteSet(Counted(k))
    BY CountsAreFinite DEF LoaderInv, CountsOK
  <2>2. Counts(r, k) = 0
    BY <1>1 DEF Counts
  <2>3. CASE k \in load[l].keys
    <3>1. l \in Counted(k)
      BY <2>3 DEF Counted
    <3>2. in_flight[k] # 0
      BY <2>1, <3>1, FS_EmptySet
    <3>3. Counts(load[l], k) = 1
      BY <2>3 DEF Counts
    <3> QED
      BY <2>1, <2>2, <2>3, <3>2, <3>3
  <2>4. CASE k \notin load[l].keys
    <3>1. Counts(load[l], k) = 0
      BY <2>4 DEF Counts
    <3> QED
      BY <2>1, <2>2, <2>4, <3>1
  <2> QED
    BY <2>3, <2>4
<1>3. in_flight' = [k \in Contexts |->
        IF k \in load[l].keys /\ in_flight[k] > 0 THEN in_flight[k] - 1 ELSE in_flight[k]]
  BY DEF MbNetRequestFinished
<1>4. StaysOver(load[l], r)
  BY <1>1 DEF Busy, StaysOver
<1> QED
  BY <1>1, <1>2, <1>3, <1>4 DEF Moves

(* A load begins, and is counted for its keys.                             *)
LEMMA Begins ==
  ASSUME LoaderInv, NEW l \in Loads, NEW r, LoadOK(r), load[l].pc = "none", Busy(r),
         load' = [load EXCEPT ![l] = r], MbNetRequestStarted(r.keys)
  PROVE  Moves(l, r)
<1>1. \A k \in Contexts : in_flight[k] \in Nat /\ Counts(load[l], k) = 0
  BY CountsAreFinite DEF LoaderInv, CountsOK, Counts, Busy
<1>2. \A k \in Contexts : in_flight[k] + (IF k \in r.keys THEN 1 ELSE 0)
                            = in_flight[k] + Counts(r, k) - Counts(load[l], k)
  BY <1>1 DEF Counts
<1>3. StaysOver(load[l], r)
  BY DEF LoaderInv, LoadsOK, LoadOK, StaysOver
<1> QED
  BY <1>2, <1>3 DEF Moves, MbNetRequestStarted

------------------------------------------------------------------------------
(* What the actions of a load do to it.                                    *)
Step(l) == \E r : Moves(l, r)

(* It is on its way to an answer.                                          *)
Midway(l) == load[l].pc \in {"queued", "asking", "hooking", "fetching", "writing"}

LEMMA MidwayIsOpen ==
  ASSUME LoaderInv, NEW l \in Loads, Midway(l)
  PROVE  Busy(load[l]) /\ ~Over(load[l]) /\ ~load[l].ended /\ load[l] \in LoadRecord
         /\ load[l].read <= load[l].written /\ load[l].written <= load[l].read + Pipe
  BY DEF LoaderInv, LoadsOK, LoadOK, Midway, Busy, LoadRecord

LEMMA SetSteps ==
  ASSUME LoaderInv, NEW l \in Loads, Midway(l), UNCHANGED in_flight,
         NEW pc \in {"writing", "streaming", "told"}, NEW heard \in {"response", "failed", "finished"},
         heard # "response" => pc = "told", Set(l, pc, heard)
  PROVE  Step(l)
<1> DEFINE r == [load[l] EXCEPT !.pc = pc, !.heard = heard, !.call = "none"]
<1>1. load' = [load EXCEPT ![l] = r]
  BY DEF Set, LoaderInv, LoadsOK
<1>2. /\ r \in LoadRecord /\ r.pc = pc /\ r.heard = heard /\ r.keys = load[l].keys
      /\ r.ended = load[l].ended /\ r.read = load[l].read /\ r.written = load[l].written
  BY MidwayIsOpen DEF LoadRecord
<1> HIDE DEF r
<1>3. LoadOK(r) /\ Busy(r)
  BY <1>2, MidwayIsOpen DEF LoadOK, Over, Busy
<1> QED
  BY <1>1, <1>2, <1>3, MidwayIsOpen, GoesOn DEF Step

LEMMA AsksSteps ==
  ASSUME LoaderInv, NEW l \in Loads, Midway(l), UNCHANGED in_flight, NEW hop \in Nat,
         \/ load' = [load EXCEPT ![l].pc = "hooking", ![l].call = "posted"]
         \/ load' = [load EXCEPT ![l].pc = "asking", ![l].call = "posted", ![l].hop = hop]
         \/ load' = [load EXCEPT ![l].pc = "fetching", ![l].hop = hop, ![l].call = "none"]
  PROVE  Step(l)
<1>0. load[l] \in LoadRecord
  BY MidwayIsOpen
<1>1. PICK r \in {[load[l] EXCEPT !.pc = "hooking", !.call = "posted"],
                  [load[l] EXCEPT !.pc = "asking", !.call = "posted", !.hop = hop],
                  [load[l] EXCEPT !.pc = "fetching", !.hop = hop, !.call = "none"]} :
        load' = [load EXCEPT ![l] = r]
  BY DEF LoaderInv, LoadsOK
<1>2. /\ r \in LoadRecord /\ r.pc \in {"hooking", "asking", "fetching"}
      /\ r.heard = load[l].heard /\ r.keys = load[l].keys
      /\ r.ended = load[l].ended /\ r.read = load[l].read /\ r.written = load[l].written
  <2>1. CASE r = [load[l] EXCEPT !.pc = "hooking", !.call = "posted"]
    BY <1>0, <2>1 DEF LoadRecord
  <2>2. CASE r = [load[l] EXCEPT !.pc = "asking", !.call = "posted", !.hop = hop]
    BY <1>0, <2>2 DEF LoadRecord
  <2>3. CASE r = [load[l] EXCEPT !.pc = "fetching", !.hop = hop, !.call = "none"]
    BY <1>0, <2>3 DEF LoadRecord
  <2> QED
    BY <1>1, <2>1, <2>2, <2>3
<1>3. LoadOK(r) /\ Busy(r)
  BY <1>2, MidwayIsOpen DEF LoadOK, Over, Busy
<1> QED
  BY <1>1, <1>2, <1>3, MidwayIsOpen, GoesOn DEF Step

LEMMA DestroySteps ==
  ASSUME LoaderInv, NEW l \in Loads, Busy(load[l]), Destroy(l)
  PROVE  Step(l)
<1>1. Deleted(l) = [Deleted(l) EXCEPT !.pc = "deleted"]
  BY DEF Deleted, NewLoad
<1>2. PICK pc \in {"orphaned", "deleted"} : pc = "deleted"
  OBVIOUS
<1> QED
  BY <1>1, <1>2, Ends DEF Destroy, Step

(* In a callback of the host; the handler goes on.                         *)
LEMMA CallbackSteps ==
  ASSUME LoaderInv, NEW l \in Loads, Midway(l), DeletedInCallback(l)
  PROVE  Step(l)
<1>1. PICK pc \in {"orphaned", "deleted"} : pc = "orphaned"
  OBVIOUS
<1> QED
  BY <1>1, Ends, MidwayIsOpen DEF DeletedInCallback, Step

LEMMA OrphanSteps ==
  ASSUME LoaderInv, NEW l \in Loads, DeliverGoesOn(l)
  PROVE  Step(l)
<1>1. PICK heard \in {"nothing", "response", "failed"} :
        load' = [load EXCEPT ![l].pc = "deleted", ![l].heard = heard]
  BY DEF DeliverGoesOn
<1> DEFINE r == [load[l] EXCEPT !.pc = "deleted", !.heard = heard]
<1>2. load' = [load EXCEPT ![l] = r]
  BY <1>1 DEF LoaderInv, LoadsOK
<1>3. /\ load[l] \in LoadRecord /\ load[l].pc = "orphaned" /\ ~Over(load[l]) /\ ~load[l].ended
      /\ load[l].read <= load[l].written /\ load[l].written <= load[l].read + Pipe
  BY DEF DeliverGoesOn, LoaderInv, LoadsOK, LoadOK
<1>4. /\ r \in LoadRecord /\ r.pc = "deleted" /\ ~r.ended
      /\ r.read = load[l].read /\ r.written = load[l].written
  BY <1>3 DEF LoadRecord
<1> HIDE DEF r
<1>5. LoadOK(r) /\ ~Busy(r)
  BY <1>3, <1>4 DEF LoadOK, Busy
<1>6. \A k \in Contexts : /\ in_flight[k] \in Nat
                          /\ Counts(r, k) = 0 /\ Counts(load[l], k) = 0
  BY <1>3, <1>5, CountsAreFinite DEF LoaderInv, CountsOK, Counts, Busy
<1>7. in_flight = [k \in Contexts |-> in_flight[k]] /\ UNCHANGED in_flight
  BY DEF LoaderInv, CountsOK, DeliverGoesOn
<1>8. \A k \in Contexts : in_flight[k] + Counts(r, k) - Counts(load[l], k) = in_flight[k]
  BY <1>6
<1>9. StaysOver(load[l], r)
  BY <1>3 DEF StaysOver
<1> QED
  BY <1>2, <1>5, <1>7, <1>8, <1>9 DEF Moves, Step

LEMMA ResponseSteps ==
  ASSUME LoaderInv, NEW l \in Loads, Midway(l), NEW next \in {"writing", "streaming"},
         DidReceiveResponse(l, next) \/ DeliverResponse(l)
  PROVE  Step(l)
<1>1. CASE Destroy(l)
  BY <1>1, DestroySteps, MidwayIsOpen
<1>2. CASE \E pc \in {"writing", "streaming"} : Set(l, pc, "response") /\ UNCHANGED in_flight
  BY <1>2, SetSteps
<1>3. CASE load' = [load EXCEPT ![l].pc = "hooking", ![l].call = "posted"] /\ UNCHANGED in_flight
  <2>1. 0 \in Nat
    OBVIOUS
  <2> QED
    BY <1>3, <2>1, AsksSteps
<1> QED
  BY <1>1, <1>2, <1>3 DEF DidReceiveResponse, DeliverResponse

LEMMA PolicySteps ==
  ASSUME LoaderInv, NEW l \in Loads, Midway(l), NEW hop \in Nat,
         (\E d \in Decisions : Proceed(l, hop, d)) \/ EvaluateRequestPolicy(l, hop)
  PROVE  Step(l)
<1>1. CASE \E d \in Decisions : Proceed(l, hop, d)
  <2>1. CASE DidFail(l) /\ UNCHANGED in_flight
    BY <2>1, SetSteps DEF DidFail
  <2>2. CASE DeliverResponse(l) \/ DidReceiveResponse(l, "streaming")
    BY <2>2, ResponseSteps
  <2>3. CASE load' = [load EXCEPT ![l].pc = "fetching", ![l].hop = hop, ![l].call = "none"]
             /\ UNCHANGED in_flight
    BY <2>3, AsksSteps
  <2> QED
    BY <1>1, <2>1, <2>2, <2>3 DEF Proceed
<1>2. CASE load' = [load EXCEPT ![l].pc = "asking", ![l].call = "posted", ![l].hop = hop]
           /\ UNCHANGED in_flight
  BY <1>2, AsksSteps
<1> QED
  BY <1>1, <1>2 DEF EvaluateRequestPolicy

(* What a stream does.                                                     *)
LEMMA DrainedIsOK ==
  ASSUME NEW s \in LoadRecord, s.pc = "streaming", ~Over(s),
         s.ended => s.posted = 0, s.read <= s.written, s.written <= s.read + Pipe
  PROVE  /\ LoadOK(Drained(s)) /\ Busy(Drained(s)) /\ Drained(s).keys = s.keys
<1> DEFINE room == Pipe - (s.written - s.read)
           n == IF s.broken THEN 0 ELSE IF s.buffer < room THEN s.buffer ELSE room
           t == [s EXCEPT !.written = @ + n, !.buffer = @ - n]
           u == [t EXCEPT !.pc = "told", !.heard = "finished"]
<1>1. s.written \in Nat /\ s.read \in Nat /\ s.buffer \in Nat /\ s.posted \in Nat
      /\ s.ended \in BOOLEAN /\ s.broken \in BOOLEAN
  BY DEF LoadRecord
<1>2. n \in Nat /\ n <= s.buffer /\ n <= room
  BY <1>1 DEF Pipe
<1> HIDE DEF n
<1>3. /\ t \in LoadRecord /\ t.pc = s.pc /\ t.heard = s.heard /\ t.keys = s.keys
      /\ t.ended = s.ended /\ t.posted = s.posted /\ t.read = s.read
      /\ t.written = s.written + n /\ t.buffer = s.buffer - n
  <2>1. s.written + n \in Nat /\ s.buffer - n \in Nat
    BY <1>1, <1>2
  <2> QED
    BY <2>1 DEF LoadRecord
<1>4. t.read <= t.written /\ t.written <= t.read + Pipe
  BY <1>1, <1>2, <1>3 DEF Pipe
<1> HIDE DEF t
<1>5. /\ u \in LoadRecord /\ u.pc = "told" /\ u.heard = "finished" /\ u.keys = t.keys
      /\ u.ended = t.ended /\ u.posted = t.posted /\ u.read = t.read
      /\ u.written = t.written /\ u.buffer = t.buffer
  BY <1>3 DEF LoadRecord
<1>6. Drained(s) = IF t.ended /\ t.buffer = 0 THEN u ELSE t
  BY DEF Drained, n, t
<1> HIDE DEF u
<1>7. LoadOK(t) /\ Busy(t)
  BY <1>3, <1>4 DEF LoadOK, Over, Busy
<1>8. t.ended /\ t.buffer = 0 => LoadOK(u) /\ Busy(u)
  BY <1>3, <1>4, <1>5 DEF LoadOK, Over, Busy
<1> QED
  BY <1>3, <1>5, <1>6, <1>7, <1>8

LEMMA StreamSteps ==
  ASSUME LoaderInv, NEW l \in Loads,
         SseChunk(l) \/ OnSseChunk(l) \/ OnSseDone(l) \/ DrainSse(l) \/ ReaderGoes(l)
  PROVE  Step(l)
<1> DEFINE s == load[l]
<1>1. /\ s \in LoadRecord /\ s.pc = "streaming" /\ Busy(s) /\ ~Over(s) /\ LoadOK(s)
      /\ s.ended => s.posted = 0
      /\ s.read <= s.written /\ s.written <= s.read + Pipe /\ UNCHANGED in_flight
      /\ s.posted \in Nat /\ s.buffer \in Nat /\ s.read \in Nat /\ s.written \in Nat
  BY DEF LoaderInv, LoadsOK, LoadOK, SseChunk, OnSseChunk, OnSseDone, DrainSse, ReaderGoes,
         Busy, LoadRecord
<1>2. CASE SseChunk(l)
  <2> DEFINE r == [s EXCEPT !.posted = @ + 1]
  <2>1. load' = [load EXCEPT ![l] = r] /\ ~s.ended
    BY <1>2 DEF SseChunk, LoaderInv, LoadsOK
  <2>2. r \in LoadRecord /\ LoadOK(r) /\ Busy(r) /\ r.keys = s.keys
    BY <1>1, <2>1 DEF LoadRecord, LoadOK, Over, Busy
  <2> QED
    BY <1>1, <2>1, <2>2, GoesOn DEF Step
<1>3. CASE ReaderGoes(l)
  <2> DEFINE r == [s EXCEPT !.broken = TRUE]
  <2>1. load' = [load EXCEPT ![l] = r]
    BY <1>3 DEF ReaderGoes, LoaderInv, LoadsOK
  <2>2. r \in LoadRecord /\ LoadOK(r) /\ Busy(r) /\ r.keys = s.keys
    BY <1>1, <2>1 DEF LoadRecord, LoadOK, Over, Busy
  <2> QED
    BY <1>1, <2>1, <2>2, GoesOn DEF Step
<1>4. ASSUME NEW d \in LoadRecord, load' = [load EXCEPT ![l] = Drained(d)],
             d.pc = "streaming", ~Over(d), d.keys = s.keys,
             d.ended => d.posted = 0, d.read <= d.written, d.written <= d.read + Pipe
      PROVE  Step(l)
  BY <1>1, <1>4, DrainedIsOK, GoesOn DEF Step
<1>5. CASE OnSseChunk(l)
  <2> DEFINE d == [s EXCEPT !.posted = @ - 1, !.buffer = @ + 1]
  <2>1. load' = [load EXCEPT ![l] = Drained(d)] /\ s.posted > 0
    BY <1>5 DEF OnSseChunk, LoaderInv, LoadsOK
  <2>2. /\ d \in LoadRecord /\ d.pc = "streaming" /\ ~Over(d) /\ d.keys = s.keys
        /\ d.ended => d.posted = 0
        /\ d.read <= d.written /\ d.written <= d.read + Pipe
    <3>1. s.posted - 1 \in Nat /\ s.buffer + 1 \in Nat /\ ~s.ended
      BY <1>1, <2>1
    <3> QED
      BY <1>1, <3>1 DEF LoadRecord, Over
  <2> QED
    BY <1>4, <2>1, <2>2
<1>6. CASE OnSseDone(l)
  <2> DEFINE d == [s EXCEPT !.ended = TRUE]
  <2>1. load' = [load EXCEPT ![l] = Drained(d)] /\ s.posted = 0
    BY <1>6 DEF OnSseDone, LoaderInv, LoadsOK
  <2>2. /\ d \in LoadRecord /\ d.pc = "streaming" /\ ~Over(d) /\ d.keys = s.keys
        /\ d.ended => d.posted = 0
        /\ d.read <= d.written /\ d.written <= d.read + Pipe
    BY <1>1, <2>1 DEF LoadRecord, Over
  <2> QED
    BY <1>4, <2>1, <2>2
<1>7. CASE DrainSse(l)
  <2> DEFINE d == [s EXCEPT !.read = @ + 1]
  <2>1. load' = [load EXCEPT ![l] = Drained(d)] /\ s.read < s.written
    BY <1>7 DEF DrainSse, LoaderInv, LoadsOK
  <2>2. /\ d \in LoadRecord /\ d.pc = "streaming" /\ ~Over(d) /\ d.keys = s.keys
        /\ d.ended => d.posted = 0
        /\ d.read <= d.written /\ d.written <= d.read + Pipe
    BY <1>1, <2>1 DEF LoadRecord, Over, Pipe
  <2> QED
    BY <1>4, <2>1, <2>2
<1> QED
  BY <1>2, <1>3, <1>5, <1>6, <1>7

(* A load that was made.                                                   *)
LEMMA FreshLoad ==
  /\ NewLoad \in LoadRecord /\ NewLoad.heard = "nothing" /\ NewLoad.ended = FALSE
  /\ NewLoad.read = 0 /\ NewLoad.written = 0
  BY DEF NewLoad, LoadRecord

(* What begins a load.                                                     *)
LEMMA StartSteps ==
  ASSUME LoaderInv, NEW l \in Loads,
         \/ \E c \in Contexts, kind \in {"page", "worker"} : LoadAsynchronously(l, c, kind)
         \/ \E c \in Contexts : FetchWorkerScript(l, c)
         \/ \E v \in LoaderViews : MbStartNavigation(l, v)
  PROVE  Step(l)
<1>1. \A c \in Contexts : ActivityContexts(c) \in SUBSET Contexts
  BY DEF ActivityContexts, Clients, Contexts
<1>2. PICK r : /\ load[l].pc = "none" /\ LoadOK(r) /\ Busy(r)
               /\ load' = [load EXCEPT ![l] = r] /\ MbNetRequestStarted(r.keys)
  <2>1. ASSUME NEW c \in Contexts, NEW kind \in {"page", "worker"}, LoadAsynchronously(l, c, kind)
        PROVE  \E r : /\ load[l].pc = "none" /\ LoadOK(r) /\ Busy(r)
                      /\ load' = [load EXCEPT ![l] = r] /\ MbNetRequestStarted(r.keys)
    <3> DEFINE r == [NewLoad EXCEPT !.pc = "queued", !.kind = kind, !.context = c,
                                    !.keys = ActivityContexts(c)]
    <3>1. LoadOK(r) /\ Busy(r) /\ r.keys = ActivityContexts(c)
      <4>1. /\ r \in LoadRecord /\ r.pc \in {"queued", "asking"} /\ r.heard = "nothing"
            /\ r.keys = ActivityContexts(c) /\ ~r.ended /\ r.read = 0 /\ r.written = 0
        BY <1>1, FreshLoad DEF LoadRecord
      <4> QED
        BY <4>1 DEF LoadOK, Over, Busy, Pipe
    <3> QED
      BY <2>1, <3>1 DEF LoadAsynchronously
  <2>2. ASSUME NEW c \in Contexts, FetchWorkerScript(l, c)
        PROVE  \E r : /\ load[l].pc = "none" /\ LoadOK(r) /\ Busy(r)
                      /\ load' = [load EXCEPT ![l] = r] /\ MbNetRequestStarted(r.keys)
    <3> DEFINE r == [NewLoad EXCEPT !.pc = "asking", !.call = "posted", !.kind = "script",
                                    !.context = c, !.keys = ActivityContexts(c)]
    <3>1. LoadOK(r) /\ Busy(r) /\ r.keys = ActivityContexts(c)
      <4>1. /\ r \in LoadRecord /\ r.pc \in {"queued", "asking"} /\ r.heard = "nothing"
            /\ r.keys = ActivityContexts(c) /\ ~r.ended /\ r.read = 0 /\ r.written = 0
        BY <1>1, FreshLoad DEF LoadRecord
      <4> QED
        BY <4>1 DEF LoadOK, Over, Busy, Pipe
    <3> QED
      BY <2>2, <3>1 DEF FetchWorkerScript
  <2>3. ASSUME NEW v \in LoaderViews, MbStartNavigation(l, v)
        PROVE  \E r : /\ load[l].pc = "none" /\ LoadOK(r) /\ Busy(r)
                      /\ load' = [load EXCEPT ![l] = r] /\ MbNetRequestStarted(r.keys)
    <3> DEFINE r == [NewLoad EXCEPT !.pc = "fetching", !.kind = "nav", !.context = v, !.keys = {v}]
    <3>1. LoadOK(r) /\ Busy(r) /\ r.keys = {v}
      <4>1. /\ r \in LoadRecord /\ r.pc = "fetching" /\ r.heard = "nothing"
            /\ r.keys = {v} /\ ~r.ended /\ r.read = 0 /\ r.written = 0
        BY FreshLoad DEF LoadRecord, Contexts
      <4> QED
        BY <4>1 DEF LoadOK, Over, Busy, Pipe
    <3> QED
      BY <2>3, <3>1 DEF MbStartNavigation
  <2> QED
    BY <2>1, <2>2, <2>3
<1> QED
  BY <1>2, Begins DEF Step

LEMMA WorkSteps ==
  ASSUME LoaderInv, NEW l \in Loads, Work(l) \/ Cancel(l)
  PROVE  Step(l)
<1>0. load[l] \in LoadRecord /\ load[l].hop \in Nat /\ load[l].hop + 1 \in Nat
  BY DEF LoaderInv, LoadsOK, LoadRecord
<1>1. CASE Deliver(l) \/ DeliverGoesOn(l)
  BY <1>1, PolicySteps, CallbackSteps, OrphanSteps DEF Deliver, Midway
<1>2. CASE OnHopComplete(l)
  <2>1. Midway(l)
    BY <1>2 DEF OnHopComplete, Midway
  <2>2. CASE DeliverResponse(l)
    BY <2>1, <2>2, ResponseSteps
  <2>3. CASE DidFail(l) /\ UNCHANGED in_flight
    BY <2>1, <2>3, SetSteps DEF DidFail
  <2>4. CASE Destroy(l)
    BY <2>1, <2>4, DestroySteps, MidwayIsOpen
  <2>5. CASE EvaluateRequestPolicy(l, load[l].hop + 1)
    <3>1. PICK hop \in Nat : hop = load[l].hop + 1
      BY <1>0
    <3> QED
      BY <2>1, <2>5, <3>1, PolicySteps
  <2> QED
    BY <1>2, <2>2, <2>3, <2>4, <2>5 DEF OnHopComplete
<1>3. CASE OnBodyWritten(l)
  BY <1>3, SetSteps DEF OnBodyWritten, Midway
<1>4. CASE ServeCall(l)
  <2>1. PICK answer \in {"done", "refused"} : load' = [load EXCEPT ![l].call = answer]
    BY <1>4 DEF ServeCall
  <2> DEFINE r == [load[l] EXCEPT !.call = answer]
  <2>2. load' = [load EXCEPT ![l] = r] /\ Midway(l) /\ UNCHANGED in_flight
    BY <1>4, <2>1 DEF LoaderInv, LoadsOK, ServeCall, Waiting, Midway
  <2>3. /\ r \in LoadRecord /\ r.pc = load[l].pc /\ r.heard = load[l].heard
        /\ r.keys = load[l].keys /\ r.ended = load[l].ended
        /\ r.read = load[l].read /\ r.written = load[l].written
    BY <1>0 DEF LoadRecord
  <2> HIDE DEF r
  <2>4. LoadOK(r) /\ Busy(r)
    BY <2>2, <2>3, MidwayIsOpen DEF LoadOK, Over, Busy
  <2> QED
    BY <2>2, <2>3, <2>4, MidwayIsOpen, GoesOn DEF Step
<1>5. CASE Resume(l)
  <2>1. Midway(l)
    BY <1>5 DEF Resume, Waiting, Midway
  <2>2. CASE \E d \in Decisions : Proceed(l, load[l].hop, d)
    <3>1. PICK hop \in Nat : hop = load[l].hop
      BY <1>0
    <3> QED
      BY <2>1, <2>2, <3>1, PolicySteps
  <2>3. CASE Destroy(l)
    BY <2>1, <2>3, DestroySteps, MidwayIsOpen
  <2>4. CASE DidReceiveResponse(l, "writing")
    BY <2>1, <2>4, ResponseSteps
  <2> QED
    BY <1>5, <2>2, <2>3, <2>4 DEF Resume, EndOfCall, Decisions
<1>6. CASE NavFinish(l)
  BY <1>6, DestroySteps DEF NavFinish, Busy
<1>7. CASE OnSseChunk(l) \/ OnSseDone(l) \/ DrainSse(l)
  BY <1>7, StreamSteps
<1>8. CASE Cancel(l)
  BY <1>8, DestroySteps DEF Cancel, Busy
<1> QED
  BY <1>1, <1>2, <1>3, <1>4, <1>5, <1>6, <1>7, <1>8 DEF Work

------------------------------------------------------------------------------
(* The loads of a thread that ends are over, and give back their keys.     *)
AllStayOver == \A l \in Loads : StaysOver(load[l], load'[l])

LEMMA EndLoadsKeeps ==
  ASSUME LoaderInv, NEW mine \in SUBSET Loads, \A l \in mine : Busy(load[l]), EndLoads(mine)
  PROVE  LoadsOK' /\ CountsOK' /\ AllStayOver
<1> USE DEF LoaderInv
<1>1. \A l \in Loads : load'[l] = IF l \in mine THEN Deleted(l) ELSE load[l]
  BY DEF EndLoads
<1>2. \A l \in Loads : /\ LoadOK(Deleted(l)) /\ ~Busy(Deleted(l)) /\ Deleted(l).heard = load[l].heard
                       /\ Deleted(l).pc = "deleted" /\ load[l] \in LoadRecord
  <2> TAKE l \in Loads
  <2>1. load[l] \in LoadRecord
    BY DEF LoadsOK
  <2>2. /\ Deleted(l) \in LoadRecord /\ Deleted(l).pc = "deleted"
        /\ Deleted(l).heard = load[l].heard /\ ~Deleted(l).ended
        /\ Deleted(l).read = 0 /\ Deleted(l).written = 0
    BY <2>1, FreshLoad DEF Deleted, LoadRecord
  <2> QED
    BY <2>1, <2>2 DEF LoadOK, Over, Busy, Pipe
<1>3. LoadsOK'
  <2>1. \A l \in Loads : LoadOK(load'[l]) /\ load'[l] \in LoadRecord
    BY <1>1, <1>2 DEF LoadsOK, LoadOK
  <2>2. load' = [l \in Loads |-> load'[l]]
    BY DEF EndLoads
  <2> QED
    BY <2>1, <2>2 DEF LoadsOK
<1>4. AllStayOver
  BY <1>1, <1>2 DEF AllStayOver, StaysOver, Busy
<1>5. \A k \in Contexts : in_flight'[k] = Cardinality(Counted(k)')
  <2> TAKE k \in Contexts
  <2> DEFINE M == {l \in mine : k \in load[l].keys}
  <2>1. M \subseteq Counted(k)
    BY DEF Counted
  <2>2. Counted(k)' = Counted(k) \ M
    BY <1>1, <1>2 DEF Counted
  <2>3. IsFiniteSet(Counted(k)) /\ in_flight[k] = Cardinality(Counted(k))
    BY CountsAreFinite DEF CountsOK
  <2>4. in_flight'[k] = in_flight[k] - Cardinality(M)
    BY DEF EndLoads
  <2>5. Cardinality(Counted(k) \ M) = Cardinality(Counted(k)) - Cardinality(Counted(k) \cap M)
    BY <2>3, FS_Difference
  <2>6. Counted(k) \cap M = M
    BY <2>1
  <2> HIDE DEF M
  <2> QED
    BY <2>2, <2>3, <2>4, <2>5, <2>6
<1>6. CountsOK'
  BY <1>5 DEF CountsOK, EndLoads
<1> QED
  BY <1>3, <1>4, <1>6

(* Loads stay as they are.                                                 *)
LEMMA LoadsStay ==
  ASSUME LoaderInv, UNCHANGED <<load, in_flight>>
  PROVE  LoadsOK' /\ CountsOK' /\ AllStayOver
  BY DEF LoaderInv, LoadsOK, CountsOK, Counted, AllStayOver, StaysOver

LEMMA InstancesStay ==
  ASSUME LoaderInv, UNCHANGED <<inst, registry>>
  PROVE  InstancesOK'
  BY DEF LoaderInv, InstancesOK, RegistryServes, Clients

(* A new SharedWorker() attaches to the instance that is registered, which *)
(* is live; or it makes the only live one.                                 *)
LEMMA ConnectKeeps ==
  ASSUME LoaderInv, NEW v \in LoaderViews, Connect(v)
  PROVE  InstancesOK'
<1> USE DEF LoaderInv
<1>1. CASE /\ registry # NoContext /\ UNCHANGED registry
           /\ inst' = [inst EXCEPT ![registry].clients[v] = @ + 1]
  <2>1. registry \in Instances /\ inst[registry].state = "live"
    BY <1>1 DEF InstancesOK, RegistryServes
  <2>2. /\ inst' \in [Instances -> [state : {"none", "live", "terminating", "gone"},
                                    clients : [LoaderViews -> Nat]]]
        /\ \A i \in Instances : inst'[i].state = inst[i].state
        /\ \A i \in Instances, u \in LoaderViews : inst'[i].clients[u] =
             IF i = registry /\ u = v THEN inst[i].clients[u] + 1 ELSE inst[i].clients[u]
    BY <1>1, <2>1 DEF InstancesOK
  <2>3. inst'[registry].clients[v] > 0
    <3>1. inst[registry].clients[v] \in Nat
      BY <2>1 DEF InstancesOK
    <3> QED
      BY <2>1, <2>2, <3>1
  <2> QED
    BY <1>1, <2>1, <2>2, <2>3 DEF InstancesOK, RegistryServes, Clients
<1>2. ASSUME NEW i \in Instances, inst[i].state = "none", registry = NoContext, registry' = i,
             inst' = [inst EXCEPT ![i] = [NewInstance EXCEPT !.state = "live", !.clients[v] = 1]]
      PROVE  InstancesOK'
  <2> DEFINE new == [NewInstance EXCEPT !.state = "live", !.clients[v] = 1]
  <2>1. /\ new.state = "live" /\ new.clients \in [LoaderViews -> Nat] /\ new.clients[v] = 1
        /\ new \in [state : {"none", "live", "terminating", "gone"}, clients : [LoaderViews -> Nat]]
    BY DEF NewInstance
  <2> HIDE DEF new
  <2>2. \A j \in Instances : inst'[j] = IF j = i THEN new ELSE inst[j]
    BY <1>2 DEF new, InstancesOK
  <2>3. \A j \in Instances : inst[j].state # "live"
    BY <1>2 DEF InstancesOK, RegistryServes
  <2>4. inst' \in [Instances -> [state : {"none", "live", "terminating", "gone"},
                                 clients : [LoaderViews -> Nat]]]
    BY <1>2, <2>1 DEF new, InstancesOK
  <2>5. i # NoContext
    BY LoadsAssumption
  <2>6. {j \in Instances : inst'[j].state = "live"} = {i}
    BY <2>1, <2>2, <2>3
  <2>7. inst'[i].clients[v] > 0
    BY <2>1, <2>2
  <2> QED
    BY <1>2, <2>1, <2>2, <2>4, <2>5, <2>6, <2>7 DEF InstancesOK, RegistryServes, Clients
<1> QED
  BY <1>1, <1>2 DEF Connect

LEMMA OnClientGoneKeeps ==
  ASSUME LoaderInv, NEW i \in Instances, NEW v \in LoaderViews, OnClientGone(i, v)
  PROVE  InstancesOK'
<1> USE DEF LoaderInv
<1> DEFINE left == Left(i, v)
           last == \A u \in LoaderViews : left.clients[u] = 0
<1>1. inst[i].clients[v] > 0 /\ inst[i].clients[v] \in Nat /\ inst[i].state = "live"
      /\ registry = i /\ i # NoContext
  BY LoadsAssumption DEF OnClientGone, InstancesOK, RegistryServes
<1>2. /\ left.state = "live" /\ left.clients \in [LoaderViews -> Nat]
      /\ left \in [state : {"none", "live", "terminating", "gone"}, clients : [LoaderViews -> Nat]]
  <2>1. inst[i].clients[v] - 1 \in Nat
    BY <1>1
  <2> QED
    BY <1>1, <2>1 DEF Left, InstancesOK
<1> HIDE DEF left
<1>3. /\ inst' = [inst EXCEPT ![i] = IF last THEN [left EXCEPT !.state = "terminating"] ELSE left]
      /\ registry' = IF last THEN NoContext ELSE registry
  BY <1>1 DEF OnClientGone, left
<1>4. CASE last
  <2> DEFINE r == [left EXCEPT !.state = "terminating"]
  <2>1. /\ r \in [state : {"none", "live", "terminating", "gone"}, clients : [LoaderViews -> Nat]]
        /\ r.state = "terminating" /\ r.clients = left.clients
    BY <1>2
  <2> HIDE DEF r
  <2>2. inst' = [inst EXCEPT ![i] = r] /\ registry' = NoContext
    BY <1>3, <1>4 DEF r
  <2>3. \A j \in Instances : inst'[j] = IF j = i THEN r ELSE inst[j]
    BY <2>2 DEF InstancesOK
  <2>4. inst' \in [Instances -> [state : {"none", "live", "terminating", "gone"},
                                 clients : [LoaderViews -> Nat]]]
    BY <2>1, <2>2 DEF InstancesOK
  <2>5. \A j \in Instances : inst'[j].state # "live"
    BY <1>1, <2>1, <2>3 DEF InstancesOK, RegistryServes
  <2>6. \A j \in Instances : inst'[j].state # "live" => \A u \in LoaderViews : inst'[j].clients[u] = 0
    BY <1>1, <1>4, <2>1, <2>3 DEF InstancesOK
  <2> QED
    BY <2>2, <2>4, <2>5, <2>6 DEF InstancesOK, RegistryServes
<1>5. CASE ~last
  <2>2. inst' = [inst EXCEPT ![i] = left] /\ registry' = registry
    BY <1>3, <1>5
  <2>3. \A j \in Instances : inst'[j] = IF j = i THEN left ELSE inst[j]
    BY <2>2 DEF InstancesOK
  <2>4. inst' \in [Instances -> [state : {"none", "live", "terminating", "gone"},
                                 clients : [LoaderViews -> Nat]]]
    BY <1>2, <2>2 DEF InstancesOK
  <2>5. \A j \in Instances : inst'[j].state = inst[j].state
    BY <1>1, <1>2, <2>3
  <2>6. \E u \in LoaderViews : left.clients[u] > 0
    BY <1>2, <1>5
  <2> QED
    BY <1>1, <2>2, <2>3, <2>4, <2>5, <2>6, <1>2 DEF InstancesOK, RegistryServes, Clients
<1> QED
  BY <1>4, <1>5

LEMMA ContextDestroyedKeeps ==
  ASSUME LoaderInv, NEW i \in Instances, WorkerContextDestroyed(i)
  PROVE  InstancesOK'
<1> USE DEF LoaderInv
<1> DEFINE r == [NewInstance EXCEPT !.state = "gone"]
<1>1. /\ r \in [state : {"none", "live", "terminating", "gone"}, clients : [LoaderViews -> Nat]]
      /\ r.state = "gone" /\ \A u \in LoaderViews : r.clients[u] = 0
  BY DEF NewInstance
<1>2. inst' = [inst EXCEPT ![i] = r] /\ inst[i].state = "terminating"
      /\ registry' = IF registry = i THEN NoContext ELSE registry
  BY DEF WorkerContextDestroyed
<1> HIDE DEF r
<1>3. registry # i
  BY <1>2, LoadsAssumption DEF InstancesOK, RegistryServes
<1>4. \A j \in Instances : inst'[j] = IF j = i THEN r ELSE inst[j]
  BY <1>2 DEF InstancesOK
<1>5. inst' \in [Instances -> [state : {"none", "live", "terminating", "gone"},
                               clients : [LoaderViews -> Nat]]]
  BY <1>1, <1>2 DEF InstancesOK
<1>6. \A j \in Instances : inst'[j].state = "live" <=> inst[j].state = "live"
  BY <1>1, <1>2, <1>4
<1>7. registry' = registry
  BY <1>2, <1>3
<1>8. \A j \in Instances :
        inst'[j].state # "live" => \A v \in LoaderViews : inst'[j].clients[v] = 0
  BY <1>1, <1>4, <1>6 DEF InstancesOK
<1>9. {j \in Instances : inst'[j].state = "live"} = {registry} \ {NoContext}
  BY <1>6 DEF InstancesOK, RegistryServes
<1>10. registry # NoContext => {v \in LoaderViews : inst'[registry].clients[v] > 0} # {}
  <2>1. registry # NoContext => registry \in Instances /\ Clients(registry) # {}
    BY DEF InstancesOK, RegistryServes
  <2> QED
    BY <1>3, <1>4, <2>1 DEF Clients
<1> QED
  BY <1>5, <1>7, <1>8, <1>9, <1>10 DEF InstancesOK, RegistryServes, Clients

------------------------------------------------------------------------------
(* Every step keeps the invariant, and what is over stays over.            *)
LEMMA LoaderSteps ==
  ASSUME LoaderInv, [LoadingNext]_loadingVars
  PROVE  LoaderInv' /\ AllStayOver
<1>1. CASE \E l \in Loads : Step(l) /\ UNCHANGED <<inst, registry>>
  <2>0. PICK l \in Loads : Step(l) /\ UNCHANGED <<inst, registry>>
    BY <1>1
  <2>1. PICK r : Moves(l, r) /\ UNCHANGED <<inst, registry>>
    BY <2>0 DEF Step
  <2>2. AllStayOver
    BY <2>1 DEF Moves, LoaderInv, LoadsOK, AllStayOver, StaysOver
  <2> QED
    BY <2>1, <2>2, MovesKeep
<1>2. CASE \E l \in Loads :
             \/ \E c \in Contexts, kind \in {"page", "worker"} : LoadAsynchronously(l, c, kind)
             \/ \E c \in Contexts : FetchWorkerScript(l, c)
             \/ \E v \in LoaderViews : MbStartNavigation(l, v)
  <2>1. UNCHANGED <<inst, registry>>
    BY <1>2 DEF LoadAsynchronously, FetchWorkerScript, MbStartNavigation
  <2> QED
    BY <1>1, <1>2, <2>1, StartSteps
<1>3. CASE \E l \in Loads : Work(l) \/ Cancel(l)
  <2>1. UNCHANGED <<inst, registry>>
    BY <1>3 DEF Work, Cancel, Deliver, DeliverGoesOn, OnHopComplete, OnBodyWritten, ServeCall, Resume,
                NavFinish, OnSseChunk, OnSseDone, DrainSse
  <2> QED
    BY <1>1, <1>3, <2>1, WorkSteps
<1>4. CASE \E l \in Loads : SseChunk(l) \/ ReaderGoes(l)
  <2>1. UNCHANGED <<inst, registry>>
    BY <1>4 DEF SseChunk, ReaderGoes
  <2> QED
    BY <1>1, <1>4, <2>1, StreamSteps
<1>5. CASE \E v \in LoaderViews : Connect(v)
  BY <1>5, ConnectKeeps, LoadsStay DEF Connect, LoaderInv
<1>6. CASE \E v \in LoaderViews, i \in Instances : OnClientGone(i, v)
  BY <1>6, OnClientGoneKeeps, LoadsStay DEF OnClientGone, LoaderInv
<1>7. CASE \E v \in LoaderViews : Open(v) \/ Invalidate(v)
  BY <1>7, InstancesStay, LoadsStay DEF Open, Invalidate, LoaderInv
<1>8. CASE Shutdown
  BY <1>8, InstancesStay, LoadsStay DEF Shutdown, LoaderInv
<1>9. CASE \E v \in LoaderViews : Close(v)
  <2>1. PICK v \in LoaderViews : Close(v)
    BY <1>9
  <2>2. PICK mine \in SUBSET Loads : (\A l \in mine : Busy(load[l])) /\ EndLoads(mine)
    BY <2>1 DEF Close, Running, Busy
  <2>3. InstancesOK'
    BY <2>1, InstancesStay DEF Close
  <2> QED
    BY <2>2, <2>3, EndLoadsKeeps DEF LoaderInv
<1>10. CASE \E i \in Instances : WorkerContextDestroyed(i)
  <2>1. PICK i \in Instances : WorkerContextDestroyed(i)
    BY <1>10
  <2>2. PICK mine \in SUBSET Loads : (\A l \in mine : Busy(load[l])) /\ EndLoads(mine)
    BY <2>1 DEF WorkerContextDestroyed, Running, Busy
  <2> QED
    BY <2>1, <2>2, EndLoadsKeeps, ContextDestroyedKeeps DEF LoaderInv
<1>11. CASE UNCHANGED loadingVars
  BY <1>11, InstancesStay, LoadsStay DEF loadingVars, LoaderInv
<1> QED
  BY <1>2, <1>3, <1>4, <1>5, <1>6, <1>7, <1>8, <1>9, <1>10, <1>11 DEF LoadingNext

(* The counters of the network activity are exact, a new SharedWorker()    *)
(* finds the instance that serves, and a stream that is reported finished  *)
(* was given to its page whole: for any views, instances and loads.        *)
THEOREM LoadsSafe == LoadingFairly => []LoadsAreSafe
<1>1. LoaderInv /\ [LoadingNext]_loadingVars => LoaderInv'
  BY LoaderSteps
<1> QED
  BY <1>1, LoaderStarts, LoaderInvSuffices, PTL DEF LoadingFairly, LoadingSpec

(* A load that was deleted does nothing more, once a handler that found it *)
(* deleted in its callback of the host has returned; and one that told its *)
(* client its end tells nothing else.                                      *)
THEOREM LoadsStayOver == LoadingFairly => OverIsOver
<1>1. LoaderInv /\ [LoadingNext]_loadingVars => LoaderInv'
  BY LoaderSteps
<1>2. LoaderInv /\ [LoadingNext]_loadingVars =>
        [\A l \in Loads :
           /\ load[l].pc = "deleted" => load'[l].pc = "deleted" /\ UNCHANGED load[l].heard
           /\ load[l].heard \in {"failed", "finished"} => UNCHANGED load[l].heard]_loadingVars
  BY LoaderSteps DEF AllStayOver, StaysOver, Over
<1> QED
  BY <1>1, <1>2, LoaderStarts, PTL DEF LoadingFairly, LoadingSpec, OverIsOver
==============================================================================
