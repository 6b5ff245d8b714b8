---------------------------- MODULE StoredProofs ----------------------------
(***************************************************************************)
(* What holds of IDBTransactions for any number of connections, ids,       *)
(* stores, keys and values, and of SessionProfile for any directories,     *)
(* identities and handles.                                                 *)
(***************************************************************************)
EXTENDS MCStored, TLAPS

------------------------------------------------------------------------------
(* The parts of the state each group of variables contributes.             *)
BackendOK ==
  /\ data \in [Stores -> Content]
  /\ txn_snapshots \in [Txns -> [Stores -> Content \cup {NotCaptured}]]
  /\ metadata \in Metadata
  /\ pre_upgrade_metadata \in Metadata
  /\ version_change_txn \in Txns \cup {NoTxn}

PageOK ==
  /\ connection \in [Conns -> {"none", "upgrading", "open", "refused"}]
  /\ seen \in [Conns -> SUBSET Stores]
  /\ phase \in [Txns -> Lives]
  /\ kind \in [Txns -> {"upgrade", "readwrite"}]
  /\ scope \in [Txns -> SUBSET Stores]

HistoryOK ==
  upgradeBase \in [Conns -> Metadata]

(* TypeOK in three parts, so that a step needs to look at one at a time.   *)
LEMMA TypeOKParts == TypeOK <=> BackendOK /\ PageOK /\ HistoryOK
  BY DEF TypeOK, BackendOK, PageOK, HistoryOK

(* A new transaction leaves phases, kinds and scopes well typed.           *)
LEMMA StartTxnType ==
  ASSUME PageOK, NEW x \in Txns, NEW what \in {"upgrade", "readwrite"},
         NEW stores \in SUBSET Stores, StartTxn(x, what, stores)
  PROVE  /\ phase' \in [Txns -> Lives]
         /\ kind' \in [Txns -> {"upgrade", "readwrite"}]
         /\ scope' \in [Txns -> SUBSET Stores]
  BY DEF PageOK, StartTxn, Lives

(* So does ending some, and the schema bases of their connections are reset. *)
LEMMA EndTxnsType ==
  ASSUME PageOK, HistoryOK, NEW X \in SUBSET Txns, NEW life \in Lives,
         EndTxns(X, life)
  PROVE  /\ phase' \in [Txns -> Lives]
         /\ kind' \in [Txns -> {"upgrade", "readwrite"}]
         /\ scope' \in [Txns -> SUBSET Stores]
         /\ upgradeBase' \in [Conns -> Metadata]
<1>1. NewDatabase \in Metadata
  BY ConstantsAssumption DEF NewDatabase, Metadata
<1> QED
  BY <1>1 DEF PageOK, HistoryOK, EndTxns, Lives

(* A write of any kind replaces the content of one store by content.       *)
LEMMA WriteRecordsType ==
  ASSUME BackendOK, HistoryOK, NEW x \in Txns, NEW s \in Stores,
         NEW ks \in SUBSET Keys, NEW f \in Content, WriteRecords(x, s, ks, f)
  PROVE  /\ data' \in [Stores -> Content]
         /\ txn_snapshots' \in [Txns -> [Stores -> Content \cup {NotCaptured}]]
<1> USE DEF BackendOK, HistoryOK, WriteRecords, EnsureSnapshot
<1>1. data' \in [Stores -> Content]
  BY DEF Content
<1>2. txn_snapshots' \in [Txns -> [Stores -> Content \cup {NotCaptured}]]
  OBVIOUS
<1> QED BY <1>1, <1>2

(* The version an open resolves to is a version.                           *)
LEMMA EffectiveVersionType ==
  ASSUME BackendOK, NEW v \in 0 .. MaxVersion
  PROVE  EffectiveVersion(v) \in Nat
BY ConstantsAssumption DEF BackendOK, Metadata, EffectiveVersion

(* TypeOK holds in every reachable state: no handler leaves the backend, a *)
(* snapshot or a connection in a state the others do not expect.           *)
THEOREM TypeCorrect == Spec => []TypeOK
<1>1. Init => TypeOK
  <2> SUFFICES ASSUME Init PROVE TypeOK
    OBVIOUS
  <2>1. NewDatabase \in Metadata
    BY ConstantsAssumption DEF NewDatabase, Metadata
  <2>2. metadata \in Metadata
    <3>1. \A v \in 1 .. MaxVersion : v \in Nat
      BY ConstantsAssumption
    <3>2. StoredDatabases \subseteq Metadata
      BY <3>1 DEF StoredDatabases, Metadata
    <3> QED
      BY <2>1, <3>2 DEF Init
  <2> QED
    BY <2>1, <2>2 DEF Init, TypeOK, NoSnapshot, Lives
<1>2. TypeOK /\ [Next]_vars => TypeOK'
  <2> SUFFICES ASSUME TypeOK, [Next]_vars PROVE TypeOK'
    OBVIOUS
  <2> USE TypeOKParts DEF BackendOK, PageOK, HistoryOK
  <2>0. BackendOK /\ PageOK /\ HistoryOK
    OBVIOUS
  <2>1. CASE UNCHANGED vars
    BY <2>1 DEF vars, backend, page, TypeOK
  <2>2. ASSUME NEW c \in Conns, Connect(c) PROVE TypeOK'
    <3>1. PICK v \in 0 .. MaxVersion : \/ OpenRejected(c, v)
                                      \/ OpenCurrent(c, v)
                                      \/ \E i \in TxnIds : OpenUpgrade(c, v, i)
      BY <2>2 DEF Connect
    <3>2. CASE OpenRejected(c, v)
      BY <3>2 DEF OpenRejected, TypeOK, backend
    <3>3. CASE OpenCurrent(c, v)
      BY <3>3 DEF OpenCurrent, TypeOK, backend, Metadata
    <3>4. ASSUME NEW i \in TxnIds, OpenUpgrade(c, v, i) PROVE TypeOK'
      <4>1. <<c, i>> \in Txns
        BY DEF Txns
      <4>2. metadata' \in Metadata
        BY <3>4, EffectiveVersionType DEF OpenUpgrade, Metadata
      <4> QED
        BY <3>4, <4>1, <4>2, StartTxnType DEF OpenUpgrade, TypeOK
    <3> QED
      BY <3>1, <3>2, <3>3, <3>4
  <2>3. ASSUME NEW c \in Conns, Disconnect(c) PROVE TypeOK'
    <3>1. PICK X \in SUBSET Txns : \E life \in Lives : EndTxns(X, life)
      <4>1. CASE ProcessWideIds
        <5>1. {x \in Txns : x[1] = c /\ Active(x)} \in SUBSET Txns /\ "ended" \in Lives
          BY DEF Lives
        <5> QED BY <2>3, <4>1, <5>1 DEF Disconnect
      <4>2. CASE ~ProcessWideIds
        <5>1. {x \in Txns : x[1] = c} \in SUBSET Txns /\ "unused" \in Lives
          BY DEF Lives
        <5> QED BY <2>3, <4>2, <5>1 DEF Disconnect
      <4> QED BY <4>1, <4>2
    <3> QED
      BY <2>3, <3>1, EndTxnsType DEF Disconnect, UpgradeAfterDestroying, TypeOK
  <2>4. ASSUME NEW c \in Conns, NEW i \in TxnIds, NEW stores \in SUBSET Stores,
               CreateTransaction(c, i, stores)
        PROVE  TypeOK'
    <3>1. <<c, i>> \in Txns
      BY DEF Txns
    <3> QED
      BY <2>4, <3>1, StartTxnType DEF CreateTransaction, TypeOK, backend
  <2>5. ASSUME NEW x \in Txns, Write(x) PROVE TypeOK'
    <3>1. PICK s \in Stores :
            \/ \E k \in Keys, v \in Vals : Put(x, s, k, v)
            \/ \E k \in Keys : AddRejected(x, s, k)
            \/ \E ks \in (SUBSET Keys) \ {{}} : DeleteRange(x, s, ks)
      BY <2>5 DEF Write
    <3>2. ASSUME NEW k \in Keys, NEW v \in Vals, Put(x, s, k, v) PROVE TypeOK'
      <4>1. [j \in Keys |-> v] \in Content
        BY DEF Content
      <4> QED
        BY <3>2, <4>1, WriteRecordsType DEF Put, TypeOK, page
    <3>3. ASSUME NEW k \in Keys, AddRejected(x, s, k) PROVE TypeOK'
      BY <3>3 DEF AddRejected, EnsureSnapshot, TypeOK, page
    <3>4. ASSUME NEW ks \in SUBSET Keys, DeleteRange(x, s, ks) PROVE TypeOK'
      <4>1. NoRecords \in Content
        BY DEF Content, NoRecords
      <4> QED
        BY <3>4, <4>1, WriteRecordsType DEF DeleteRange, TypeOK, page
    <3> QED
      BY <3>1, <3>2, <3>3, <3>4
  <2>6. ASSUME NEW x \in Txns, Upgrade(x) PROVE TypeOK'
    <3>1. CASE CreateObjectStore(x)
      <4>0. metadata.maxId + 1 \in Stores /\ metadata.maxId + 1 \in 0 .. MaxStores
        BY <3>1, ConstantsAssumption DEF CreateObjectStore, Metadata, Stores
      <4>1. metadata' \in Metadata
        <5> DEFINE s == metadata.maxId + 1
        <5>1. metadata' = [metadata EXCEPT !.stores = @ \cup {s}, !.maxId = s]
          BY <3>1 DEF CreateObjectStore
        <5>2. s \in Stores /\ s \in 0 .. MaxStores
          BY <4>0
        <5> HIDE DEF s
        <5> QED
          BY <5>1, <5>2 DEF Metadata
      <4> QED
        BY <3>1, <4>1 DEF CreateObjectStore, TypeOK, page
    <3>2. ASSUME NEW s \in Stores, DeleteObjectStore(x, s) PROVE TypeOK'
      <4>1. NoRecords \in Content
        BY DEF Content, NoRecords
      <4>2. metadata' \in Metadata
        BY <3>2 DEF DeleteObjectStore, Metadata
      <4> QED
        BY <3>2, <4>1, <4>2, WriteRecordsType DEF DeleteObjectStore, TypeOK, page
    <3> QED
      BY <2>6, <3>1, <3>2 DEF Upgrade
  <2>7. ASSUME NEW x \in Txns, Commit(x) PROVE TypeOK'
    <3>1. {x} \in SUBSET Txns /\ "ended" \in Lives /\ x[1] \in Conns
      BY DEF Lives, Txns
    <3>2. NoSnapshot \in [Stores -> Content \cup {NotCaptured}]
      BY DEF NoSnapshot
    <3>3. seen' \in [Conns -> SUBSET Stores]
      BY <2>7, <3>1 DEF Commit, Metadata
    <3> QED
      BY <2>7, <3>1, <3>2, <3>3, EndTxnsType DEF Commit, TypeOK
  <2>8. ASSUME NEW x \in Txns, Abort(x) PROVE TypeOK'
    <3>1. {x} \in SUBSET Txns /\ "ended" \in Lives /\ x[1] \in Conns
      BY DEF Lives, Txns
    <3>2. NoSnapshot \in [Stores -> Content \cup {NotCaptured}]
      BY DEF NoSnapshot
    <3>3. RolledBack(x) \in [Stores -> Content]
      BY DEF RolledBack, Captured
    <3>4. connection' \in [Conns -> {"none", "upgrading", "open", "refused"}]
      BY <2>8, <3>1 DEF Abort
    <3> QED
      BY <2>8, <3>1, <3>2, <3>3, <3>4, EndTxnsType DEF Abort, TypeOK
  <2> QED
    BY <2>1, <2>2, <2>3, <2>4, <2>5, <2>6, <2>7, <2>8 DEF Next
<1> QED
  BY <1>1, <1>2, PTL DEF Spec
------------------------------------------------------------------------------
(* TrackedUpgradeIsLive survives the end of the transactions in X when the *)
(* tracked one, if it stays tracked, is not among them.                    *)
LEMMA TrackedSurvivesEnd ==
  ASSUME PageOK, TrackedUpgradeIsLive, NEW X \in SUBSET Txns, NEW life,
         version_change_txn \in Txns \cup {NoTxn}, EndTxns(X, life),
         version_change_txn' \in {NoTxn, version_change_txn},
         version_change_txn' # NoTxn => version_change_txn \notin X
  PROVE  TrackedUpgradeIsLive'
BY DEF PageOK, TrackedUpgradeIsLive, Active, EndTxns

(* A write leaves the life of every transaction alone.                     *)
LEMMA WriteIsBackendOnly ==
  ASSUME NEW x \in Txns, Write(x)
  PROVE  UNCHANGED <<metadata, pre_upgrade_metadata, version_change_txn, page,
                     upgradeBase>>
<1>1. PICK s \in Stores :
        \/ \E k \in Keys, v \in Vals : Put(x, s, k, v)
        \/ \E k \in Keys : AddRejected(x, s, k)
        \/ \E ks \in (SUBSET Keys) \ {{}} : DeleteRange(x, s, ks)
  BY DEF Write
<1> QED
  BY <1>1 DEF Put, AddRejected, DeleteRange

(* version_change_txn never dangles, whatever order opens, aborts, commits *)
(* and disconnects of any connections come in.                             *)
THEOREM TrackedUpgradeLive == Spec => []TrackedUpgradeIsLive
<1>1. Init => TrackedUpgradeIsLive
  BY DEF Init, TrackedUpgradeIsLive
<1>2. TypeOK /\ TrackedUpgradeIsLive /\ [Next]_vars => TrackedUpgradeIsLive'
  <2> SUFFICES ASSUME TypeOK, TrackedUpgradeIsLive, [Next]_vars
               PROVE  TrackedUpgradeIsLive'
    OBVIOUS
  <2>0. PageOK /\ version_change_txn \in Txns \cup {NoTxn}
    BY TypeOKParts DEF BackendOK
  <2> USE DEF TrackedUpgradeIsLive, Active
  <2>1. CASE UNCHANGED vars
    BY <2>1 DEF vars, backend, page
  <2>2. ASSUME NEW c \in Conns, Connect(c) PROVE TrackedUpgradeIsLive'
    <3>1. PICK v \in 0 .. MaxVersion :
            \/ OpenRejected(c, v)
            \/ OpenCurrent(c, v)
            \/ \E i \in TxnIds : OpenUpgrade(c, v, i)
      BY <2>2 DEF Connect
    <3>2. CASE OpenRejected(c, v) \/ OpenCurrent(c, v)
      BY <3>2 DEF OpenRejected, OpenCurrent, backend
    <3>3. ASSUME NEW i \in TxnIds, OpenUpgrade(c, v, i)
          PROVE  TrackedUpgradeIsLive'
      BY <2>0, <3>3 DEF OpenUpgrade, StartTxn, PageOK, Txns
    <3> QED
      BY <3>1, <3>2, <3>3
  <2>3. ASSUME NEW c \in Conns, Disconnect(c) PROVE TrackedUpgradeIsLive'
    <3>1. PICK X \in SUBSET Txns :
            (\A x \in X : x[1] = c) /\ \E life : EndTxns(X, life)
      <4>1. CASE ProcessWideIds
        <5>1. {x \in Txns : x[1] = c /\ Active(x)} \in SUBSET Txns
          OBVIOUS
        <5> QED BY <2>3, <4>1, <5>1 DEF Disconnect
      <4>2. CASE ~ProcessWideIds
        <5>1. {x \in Txns : x[1] = c} \in SUBSET Txns
          OBVIOUS
        <5> QED BY <2>3, <4>2, <5>1 DEF Disconnect
      <4> QED BY <4>1, <4>2
    <3> QED
      BY <2>0, <2>3, <3>1, TrackedSurvivesEnd DEF Disconnect, UpgradeAfterDestroying
  <2>4. ASSUME NEW c \in Conns, NEW i \in TxnIds, NEW stores \in SUBSET Stores,
               CreateTransaction(c, i, stores)
        PROVE  TrackedUpgradeIsLive'
    <3>1. <<c, i>> \in Txns /\ phase[<<c, i>>] = "unused"
      BY <2>4 DEF CreateTransaction, Unused, Txns
    <3> QED
      BY <2>0, <2>4, <3>1 DEF CreateTransaction, StartTxn, PageOK, backend
  <2>5. ASSUME NEW x \in Txns, Write(x) PROVE TrackedUpgradeIsLive'
    BY <2>5, WriteIsBackendOnly DEF page
  <2>6. ASSUME NEW x \in Txns, Upgrade(x) PROVE TrackedUpgradeIsLive'
    BY <2>6 DEF Upgrade, CreateObjectStore, DeleteObjectStore, page
  <2>7. ASSUME NEW x \in Txns, Commit(x) PROVE TrackedUpgradeIsLive'
    BY <2>0, <2>7, TrackedSurvivesEnd DEF Commit
  <2>8. ASSUME NEW x \in Txns, Abort(x) PROVE TrackedUpgradeIsLive'
    <3>1. version_change_txn = x => IsTrackedUpgrade(x)
      BY ConstantsAssumption DEF IsTrackedUpgrade
    <3> QED
      BY <2>0, <2>8, <3>1, TrackedSurvivesEnd DEF Abort
  <2> QED
    BY <2>1, <2>2, <2>3, <2>4, <2>5, <2>6, <2>7, <2>8 DEF Next
<1> QED
  BY <1>1, <1>2, TypeCorrect, PTL DEF Spec
------------------------------------------------------------------------------
(* Why snapshots are disjoint when pages keep to the prescribed            *)
(* scheduling: what IndexedDB serialises is scopes, an upgrade's scope is  *)
(* everything, a snapshot is taken inside the scope, and an id Blink hands *)
(* out has no snapshot left over from an earlier transaction.              *)
ScopesApart ==
  \A x, y \in Txns :
    x # y /\ Active(x) /\ Active(y) => scope[x] \cap scope[y] = {}

UpgradeOwnsAll ==
  \A x \in Txns : Active(x) /\ kind[x] = "upgrade" => scope[x] = Stores

CapturedInScope ==
  \A x \in Txns : Active(x) => Captured(x) \subseteq scope[x]

UnusedIsClean ==
  \A x \in Txns : phase[x] = "unused" => Captured(x) = {}

SnapshotInv == ScopesApart /\ UpgradeOwnsAll /\ CapturedInScope /\ UnusedIsClean

LEMMA SnapshotInvSuffices == SnapshotInv => SnapshotsAreDisjoint
BY DEF SnapshotInv, ScopesApart, CapturedInScope, SnapshotsAreDisjoint

(* Starting a transaction the page may start keeps the invariant: its id   *)
(* is clean and its scope meets no other.                                  *)
LEMMA StartKeepsSnapshotInv ==
  ASSUME SerializedTxns, PageOK, SnapshotInv,
         NEW x \in Txns, NEW what \in {"upgrade", "readwrite"},
         NEW stores \in SUBSET Stores, phase[x] = "unused",
         what = "upgrade" => stores = Stores,
         MayStart(stores), StartTxn(x, what, stores), UNCHANGED txn_snapshots
  PROVE  SnapshotInv'
<1> USE DEF PageOK, SnapshotInv, StartTxn, Active, Captured
<1>1. ScopesApart'
  BY DEF ScopesApart, MayStart
<1>2. UpgradeOwnsAll'
  BY DEF UpgradeOwnsAll
<1>3. CapturedInScope'
  BY DEF CapturedInScope, UnusedIsClean
<1>4. UnusedIsClean'
  BY DEF UnusedIsClean
<1> QED
  BY <1>1, <1>2, <1>3, <1>4

(* So does ending transactions for good, whatever becomes of their own     *)
(* snapshots.                                                              *)
LEMMA EndKeepsSnapshotInv ==
  ASSUME PageOK, SnapshotInv, NEW X \in SUBSET Txns, EndTxns(X, "ended"),
         \A y \in Txns \ X : txn_snapshots'[y] = txn_snapshots[y]
  PROVE  SnapshotInv'
<1> USE DEF PageOK, SnapshotInv, EndTxns, Active, Captured
<1>1. ScopesApart'
  BY DEF ScopesApart
<1>2. UpgradeOwnsAll'
  BY DEF UpgradeOwnsAll
<1>3. CapturedInScope'
  BY DEF CapturedInScope
<1>4. UnusedIsClean'
  BY DEF UnusedIsClean
<1> QED
  BY <1>1, <1>2, <1>3, <1>4

(* And so does arming a snapshot inside the scope of a running transaction.*)
LEMMA ArmKeepsSnapshotInv ==
  ASSUME BackendOK, PageOK, SnapshotInv, NEW x \in Txns, NEW s \in Stores,
         Active(x), s \in scope[x], EnsureSnapshot(x, s), UNCHANGED page
  PROVE  SnapshotInv'
<1> USE DEF BackendOK, PageOK, SnapshotInv, EnsureSnapshot, page, Active, Captured
<1>1. ScopesApart'
  BY DEF ScopesApart
<1>2. UpgradeOwnsAll'
  BY DEF UpgradeOwnsAll
<1>3. CapturedInScope'
  BY DEF CapturedInScope
<1>4. UnusedIsClean'
  BY DEF UnusedIsClean
<1> QED
  BY <1>1, <1>2, <1>3, <1>4

(* Every write arms the snapshot of a store in its transaction's scope and *)
(* leaves the pages alone.                                                 *)
LEMMA WriteArms ==
  ASSUME NEW x \in Txns, Write(x)
  PROVE  \E s \in Stores : Active(x) /\ s \in scope[x] /\ EnsureSnapshot(x, s)
<1>1. PICK s \in Stores :
        \/ \E k \in Keys, v \in Vals : Put(x, s, k, v)
        \/ \E k \in Keys : AddRejected(x, s, k)
        \/ \E ks \in (SUBSET Keys) \ {{}} : DeleteRange(x, s, ks)
  BY DEF Write
<1> QED
  BY <1>1 DEF Put, AddRejected, DeleteRange, MayWrite, WriteRecords

LEMMA SnapshotInvStep ==
  ASSUME ProcessWideIds, SerializedTxns, TypeOK, SnapshotInv, [Next]_vars
  PROVE  SnapshotInv'
<1>0. BackendOK /\ PageOK
  BY TypeOKParts
<1>1. CASE UNCHANGED vars
  BY <1>1 DEF vars, backend, page, SnapshotInv, ScopesApart, UpgradeOwnsAll,
              CapturedInScope, UnusedIsClean, Active, Captured
<1>2. ASSUME NEW c \in Conns, Connect(c) PROVE SnapshotInv'
  <2>1. PICK v \in 0 .. MaxVersion :
          \/ OpenRejected(c, v)
          \/ OpenCurrent(c, v)
          \/ \E i \in TxnIds : OpenUpgrade(c, v, i)
    BY <1>2 DEF Connect
  <2>2. CASE OpenRejected(c, v) \/ OpenCurrent(c, v)
    BY <2>2 DEF OpenRejected, OpenCurrent, backend, SnapshotInv, ScopesApart,
                UpgradeOwnsAll, CapturedInScope, UnusedIsClean, Active, Captured
  <2>3. ASSUME NEW i \in TxnIds, OpenUpgrade(c, v, i) PROVE SnapshotInv'
    <3>1. <<c, i>> \in Txns /\ phase[<<c, i>>] = "unused"
      BY <2>3 DEF OpenUpgrade, Unused, Txns
    <3> QED
      BY <1>0, <2>3, <3>1, StartKeepsSnapshotInv DEF OpenUpgrade
  <2> QED
    BY <2>1, <2>2, <2>3
<1>3. ASSUME NEW c \in Conns, Disconnect(c) PROVE SnapshotInv'
  <2> DEFINE X == {x \in Txns : x[1] = c /\ Active(x)}
  <2>1. EndTxns(X, "ended") /\ X \in SUBSET Txns
    BY <1>3 DEF Disconnect
  <2>2. UNCHANGED txn_snapshots
    BY <1>3 DEF Disconnect
  <2> HIDE DEF X
  <2> QED
    BY <1>0, <2>1, <2>2, EndKeepsSnapshotInv
<1>4. ASSUME NEW c \in Conns, NEW i \in TxnIds, NEW stores \in SUBSET Stores,
             CreateTransaction(c, i, stores)
      PROVE  SnapshotInv'
  <2>1. <<c, i>> \in Txns /\ phase[<<c, i>>] = "unused"
    BY <1>4 DEF CreateTransaction, Unused, Txns
  <2> QED
    BY <1>0, <1>4, <2>1, StartKeepsSnapshotInv DEF CreateTransaction, backend
<1>5. ASSUME NEW x \in Txns, Write(x) PROVE SnapshotInv'
  <2>1. PICK s \in Stores : Active(x) /\ s \in scope[x] /\ EnsureSnapshot(x, s)
    BY <1>5, WriteArms
  <2>2. UNCHANGED page
    BY <1>5, WriteIsBackendOnly
  <2> QED
    BY <1>0, <2>1, <2>2, ArmKeepsSnapshotInv
<1>6. ASSUME NEW x \in Txns, CreateObjectStore(x) PROVE SnapshotInv'
  BY <1>6 DEF CreateObjectStore, page, SnapshotInv, ScopesApart, UpgradeOwnsAll,
              CapturedInScope, UnusedIsClean, Active, Captured
<1>7. ASSUME NEW x \in Txns, NEW s \in Stores, DeleteObjectStore(x, s)
      PROVE  SnapshotInv'
  <2>1. Active(x) /\ s \in scope[x] /\ EnsureSnapshot(x, s) /\ UNCHANGED page
    BY <1>7 DEF DeleteObjectStore, WriteRecords, SnapshotInv, UpgradeOwnsAll
  <2> QED
    BY <1>0, <2>1, ArmKeepsSnapshotInv
<1>8. ASSUME NEW x \in Txns, Commit(x) \/ Abort(x) PROVE SnapshotInv'
  <2>1. /\ EndTxns({x}, "ended")
        /\ \A y \in Txns \ {x} : txn_snapshots'[y] = txn_snapshots[y]
    BY <1>0, <1>8 DEF Commit, Abort, BackendOK
  <2> QED
    BY <1>0, <2>1, EndKeepsSnapshotInv
<1> QED
  BY <1>1, <1>2, <1>3, <1>4, <1>5, <1>6, <1>7, <1>8 DEF Next, Upgrade

(* When pages serialise overlapping scopes and ids are never reused, no    *)
(* store is ever in the rollback snapshots of two running transactions, so *)
(* an abort cannot take back anybody else's write.                         *)
THEOREM SnapshotsDisjoint ==
  ASSUME ProcessWideIds, SerializedTxns
  PROVE  Spec => []SnapshotsAreDisjoint
<1>1. Init => SnapshotInv
  BY DEF Init, NoSnapshot, SnapshotInv, ScopesApart, UpgradeOwnsAll,
         CapturedInScope, UnusedIsClean, Active, Captured
<1>2. TypeOK /\ SnapshotInv /\ [Next]_vars => SnapshotInv'
  BY SnapshotInvStep
<1>3. SnapshotInv => SnapshotsAreDisjoint
  BY SnapshotInvSuffices
<1> QED
  BY <1>1, <1>2, <1>3, TypeCorrect, PTL DEF Spec
------------------------------------------------------------------------------
(* The refinement.  Under SnapshotsAreDisjoint the holder of a store is    *)
(* the one running transaction that captured it.                           *)
LEMMA HolderIs ==
  ASSUME SnapshotsAreDisjoint, NEW s \in Stores
  PROVE  /\ \A x \in Txns : Active(x) /\ s \in Captured(x) => Holder(s) = x
         /\ Holder(s) # NoTxn =>
              /\ Holder(s) \in Txns
              /\ Active(Holder(s))
              /\ s \in Captured(Holder(s))
         /\ Holder(s) \in Txns \cup {NoTxn}
<1>1. CASE \E x \in Txns : Active(x) /\ s \in Captured(x)
  <2>1. PICK x \in Txns : Active(x) /\ s \in Captured(x)
    BY <1>1
  <2>2. /\ Holder(s) \in Txns
        /\ Active(Holder(s))
        /\ s \in Captured(Holder(s))
    BY <2>1, Zenon DEF Holder
  <2> QED
    BY <2>2 DEF SnapshotsAreDisjoint
<1>2. CASE ~\E x \in Txns : Active(x) /\ s \in Captured(x)
  BY <1>2 DEF Holder
<1> QED
  BY <1>1, <1>2

(* The same in the next state.                                             *)
LEMMA HolderIsNext == ASSUME SnapshotsAreDisjoint', NEW s \in Stores
  PROVE  /\ \A x \in Txns : Active(x)' /\ s \in Captured(x)' => Holder(s)' = x
         /\ Holder(s)' # NoTxn =>
              /\ Holder(s)' \in Txns
              /\ phase'[Holder(s)'] = "active"
              /\ txn_snapshots'[Holder(s)'][s] # NotCaptured
         /\ Holder(s)' \in Txns \cup {NoTxn}
<1>1. CASE \E x \in Txns : Active(x)' /\ s \in Captured(x)'
  <2>1. PICK x \in Txns : Active(x)' /\ s \in Captured(x)'
    BY <1>1
  <2>2. /\ Holder(s)' \in Txns
        /\ phase'[Holder(s)'] = "active"
        /\ s \in {t \in Stores : txn_snapshots'[Holder(s)'][t] # NotCaptured}
    BY <2>1, Zenon DEF Holder, Active, Captured
  <2> QED
    BY <2>2 DEF SnapshotsAreDisjoint, Active, Captured
<1>2. CASE ~\E x \in Txns : Active(x)' /\ s \in Captured(x)'
  BY <1>2 DEF Holder
<1> QED
  BY <1>1, <1>2

(* The holders of a state whose running transactions are those of the      *)
(* previous one, up to transactions that captured nothing: nobody notices. *)
LEMMA RefinesStutter ==
  ASSUME SnapshotsAreDisjoint, SnapshotsAreDisjoint', UNCHANGED <<data, txn_snapshots>>,
         \A x \in Txns : Captured(x) # {} => (Active(x)' <=> Active(x))
  PROVE  UNCHANGED Atomic!vars
<1>1. \A s \in Stores : Holder(s)' = Holder(s)
  <2> SUFFICES ASSUME NEW s \in Stores PROVE Holder(s)' = Holder(s)
    OBVIOUS
  <2>1. \A x \in Txns : (Active(x)' /\ s \in Captured(x)') <=> (Active(x) /\ s \in Captured(x))
    BY DEF Captured
  <2> QED
    BY <2>1, HolderIs, HolderIsNext DEF Active, Captured
<1>2. committedData' = committedData
  BY <1>1 DEF committedData
<1> QED
  BY <1>1, <1>2 DEF Atomic!vars

(* Transactions that end and keep their writes are a Keep.                 *)
LEMMA RefinesKeep ==
  ASSUME PageOK, SnapshotsAreDisjoint, SnapshotsAreDisjoint', NEW X \in SUBSET Txns,
         EndTxns(X, "ended"), UNCHANGED data,
         \A y \in Txns \ X : txn_snapshots'[y] = txn_snapshots[y]
  PROVE  Atomic!Next
<1>1. \A s \in Stores : Holder(s)' = IF Holder(s) \in X THEN NoTxn ELSE Holder(s)
  <2> SUFFICES ASSUME NEW s \in Stores
               PROVE  Holder(s)' = IF Holder(s) \in X THEN NoTxn ELSE Holder(s)
    OBVIOUS
  <2>1. \A x \in Txns : Active(x)' <=> (Active(x) /\ x \notin X)
    BY DEF EndTxns, Active, PageOK
  <2>2. \A x \in Txns : (Active(x)' /\ s \in Captured(x)')
                      <=> (Active(x) /\ x \notin X /\ s \in Captured(x))
    BY <2>1 DEF Captured
  <2> QED
    BY <2>1, <2>2, HolderIs, HolderIsNext, ConstantsAssumption DEF Active, Captured
<1>2. \A s \in Stores : committedData'[s] =
        IF Holder(s) \in X THEN data[s] ELSE committedData[s]
  <2> SUFFICES ASSUME NEW s \in Stores
               PROVE  committedData'[s] =
                        IF Holder(s) \in X THEN data[s] ELSE committedData[s]
    OBVIOUS
  <2>1. CASE Holder(s) \in X
    BY <1>1, <2>1 DEF committedData
  <2>2. CASE Holder(s) \notin X
    BY <1>1, <2>2, HolderIs DEF committedData
  <2> QED
    BY <2>1, <2>2
<1>3. Atomic!Keep(X)
  BY <1>1, <1>2 DEF Atomic!Keep, committedData
<1> QED
  BY <1>3 DEF Atomic!Next

(* A transaction that ends and restores its snapshots is an Undo.          *)
LEMMA RefinesUndo ==
  ASSUME BackendOK, PageOK, SnapshotsAreDisjoint, SnapshotsAreDisjoint', NEW x \in Txns,
         Active(x), EndTxns({x}, "ended"), data' = RolledBack(x),
         txn_snapshots' = [txn_snapshots EXCEPT ![x] = NoSnapshot]
  PROVE  Atomic!Next
<1>1. \A s \in Stores : Holder(s)' = IF Holder(s) = x THEN NoTxn ELSE Holder(s)
  <2> SUFFICES ASSUME NEW s \in Stores
               PROVE  Holder(s)' = IF Holder(s) = x THEN NoTxn ELSE Holder(s)
    OBVIOUS
  <2>1. \A y \in Txns : Active(y)' <=> (Active(y) /\ y # x)
    BY DEF EndTxns, Active, PageOK
  <2>2. \A y \in Txns : (Active(y)' /\ s \in Captured(y)')
                      <=> (Active(y) /\ y # x /\ s \in Captured(y))
    BY <2>1 DEF Captured, BackendOK
  <2> QED
    BY <2>1, <2>2, HolderIs, HolderIsNext, ConstantsAssumption DEF Active, Captured
<1>2. \A s \in Stores : s \in Captured(x) <=> Holder(s) = x
  BY HolderIs, ConstantsAssumption
<1>3. \A s \in Stores : data'[s] = IF Holder(s) = x THEN committedData[s] ELSE data[s]
  BY <1>2, ConstantsAssumption DEF RolledBack, committedData
<1>4. \A s \in Stores : committedData'[s] = committedData[s]
  <2> SUFFICES ASSUME NEW s \in Stores PROVE committedData'[s] = committedData[s]
    OBVIOUS
  <2>1. CASE Holder(s) = x
    BY <1>1, <1>3, <2>1 DEF committedData
  <2>2. CASE Holder(s) # x
    BY <1>1, <1>3, <2>2, HolderIs DEF committedData, BackendOK
  <2> QED
    BY <2>1, <2>2
<1>5. Atomic!Undo(x)
  BY <1>1, <1>3, <1>4 DEF Atomic!Undo, committedData, RolledBack
<1> QED
  BY <1>5 DEF Atomic!Next

(* A request that arms the snapshot of s and then replaces its content is  *)
(* a Write.                                                                *)
LEMMA RefinesWrite ==
  ASSUME BackendOK, PageOK, SnapshotInv, SnapshotsAreDisjoint, SnapshotsAreDisjoint',
         NEW x \in Txns, NEW s \in Stores, Active(x), s \in scope[x],
         EnsureSnapshot(x, s), UNCHANGED page, data' \in [Stores -> Content],
         \A t \in Stores \ {s} : data'[t] = data[t]
  PROVE  Atomic!Next
<1>1. Holder(s) \in {NoTxn, x}
  BY HolderIs DEF SnapshotInv, ScopesApart, CapturedInScope
<1>2. \A y \in Txns, t \in Stores :
        txn_snapshots'[y][t] =
          IF y = x /\ t = s /\ txn_snapshots[x][s] = NotCaptured
            THEN data[s] ELSE txn_snapshots[y][t]
  BY DEF EnsureSnapshot, BackendOK
<1>3. data[s] # NotCaptured
  BY ConstantsAssumption DEF BackendOK
<1>4. \A y \in Txns : Active(y)' <=> Active(y)
  BY DEF page, Active
<1>5. Holder(s)' = x
  BY <1>2, <1>3, <1>4, HolderIsNext DEF Captured
<1>6. \A t \in Stores \ {s} : Holder(t)' = Holder(t)
  <2> SUFFICES ASSUME NEW t \in Stores \ {s} PROVE Holder(t)' = Holder(t)
    OBVIOUS
  <2>1. \A y \in Txns : (Active(y)' /\ t \in Captured(y)') <=> (Active(y) /\ t \in Captured(y))
    BY <1>2, <1>4 DEF Captured
  <2> QED
    BY <2>1, HolderIs, HolderIsNext DEF Active, Captured
<1>7. committedData'[s] = committedData[s]
  <2>1. CASE Holder(s) = x
    BY <1>2, <1>5, <2>1, HolderIs, ConstantsAssumption DEF committedData, Captured
  <2>2. CASE Holder(s) = NoTxn
    <3>1. txn_snapshots[x][s] = NotCaptured
      BY <2>2, HolderIs, ConstantsAssumption DEF Captured
    <3> QED
      BY <1>2, <1>5, <2>2, <3>1, ConstantsAssumption DEF committedData
  <2> QED
    BY <1>1, <2>1, <2>2
<1>8. \A t \in Stores \ {s} : committedData'[t] = committedData[t]
  BY <1>2, <1>6, HolderIs DEF committedData
<1>9. Atomic!Write(x, s)
  BY <1>1, <1>5, <1>6, <1>7, <1>8 DEF Atomic!Write, committedData, BackendOK
<1> QED
  BY <1>9 DEF Atomic!Next

LEMMA RefinesStep ==
  ASSUME ProcessWideIds, SerializedTxns, TypeOK, TypeOK', SnapshotInv, SnapshotInv',
         [Next]_vars
  PROVE  [Atomic!Next]_(Atomic!vars)
<1>0. /\ BackendOK /\ PageOK /\ data' \in [Stores -> Content]
      /\ SnapshotsAreDisjoint /\ SnapshotsAreDisjoint'
  BY TypeOKParts, SnapshotInvSuffices
     DEF TypeOK, SnapshotInv, SnapshotsAreDisjoint, ScopesApart, CapturedInScope
<1>1. CASE UNCHANGED vars
  BY <1>0, <1>1, RefinesStutter DEF vars, backend, page, Active
<1>2. ASSUME NEW c \in Conns, Connect(c) PROVE UNCHANGED Atomic!vars
  <2>1. PICK v \in 0 .. MaxVersion :
          \/ OpenRejected(c, v)
          \/ OpenCurrent(c, v)
          \/ \E i \in TxnIds : OpenUpgrade(c, v, i)
    BY <1>2 DEF Connect
  <2>2. CASE OpenRejected(c, v) \/ OpenCurrent(c, v)
    BY <1>0, <2>2, RefinesStutter DEF OpenRejected, OpenCurrent, backend, Active
  <2>3. ASSUME NEW i \in TxnIds, OpenUpgrade(c, v, i) PROVE UNCHANGED Atomic!vars
    <3>1. <<c, i>> \in Txns /\ Captured(<<c, i>>) = {}
      BY <2>3 DEF OpenUpgrade, Unused, Txns, SnapshotInv, UnusedIsClean
    <3> QED
      BY <1>0, <2>3, <3>1, RefinesStutter DEF OpenUpgrade, StartTxn, PageOK, Active
  <2> QED
    BY <2>1, <2>2, <2>3
<1>3. ASSUME NEW c \in Conns, Disconnect(c) PROVE Atomic!Next
  <2> DEFINE X == {x \in Txns : x[1] = c /\ Active(x)}
  <2>1. EndTxns(X, "ended") /\ X \in SUBSET Txns
    BY <1>3 DEF Disconnect
  <2>2. UNCHANGED <<data, txn_snapshots>>
    BY <1>3 DEF Disconnect
  <2> HIDE DEF X
  <2> QED
    BY <1>0, <2>1, <2>2, RefinesKeep
<1>4. ASSUME NEW c \in Conns, NEW i \in TxnIds, NEW stores \in SUBSET Stores,
             CreateTransaction(c, i, stores)
      PROVE  UNCHANGED Atomic!vars
  <2>1. <<c, i>> \in Txns /\ Captured(<<c, i>>) = {}
    BY <1>4 DEF CreateTransaction, Unused, Txns, SnapshotInv, UnusedIsClean
  <2> QED
    BY <1>0, <1>4, <2>1, RefinesStutter
       DEF CreateTransaction, StartTxn, PageOK, Active, backend
<1>5. ASSUME NEW x \in Txns, Write(x) PROVE Atomic!Next
  <2>1. PICK s \in Stores :
          \/ \E k \in Keys, v \in Vals : Put(x, s, k, v)
          \/ \E k \in Keys : AddRejected(x, s, k)
          \/ \E ks \in (SUBSET Keys) \ {{}} : DeleteRange(x, s, ks)
    BY <1>5 DEF Write
  <2>2. /\ Active(x) /\ s \in scope[x] /\ EnsureSnapshot(x, s)
        /\ \A t \in Stores \ {s} : data'[t] = data[t]
    BY <1>0, <2>1 DEF Put, AddRejected, DeleteRange, MayWrite, WriteRecords, BackendOK
  <2>3. UNCHANGED page
    BY <1>5, WriteIsBackendOnly
  <2> QED
    BY <1>0, <2>2, <2>3, RefinesWrite
<1>6. ASSUME NEW x \in Txns, CreateObjectStore(x) PROVE UNCHANGED Atomic!vars
  BY <1>0, <1>6, RefinesStutter DEF CreateObjectStore, page, Active
<1>7. ASSUME NEW x \in Txns, NEW s \in Stores, DeleteObjectStore(x, s)
      PROVE  Atomic!Next
  <2>1. /\ Active(x) /\ s \in scope[x] /\ EnsureSnapshot(x, s) /\ UNCHANGED page
        /\ \A t \in Stores \ {s} : data'[t] = data[t]
    BY <1>0, <1>7 DEF DeleteObjectStore, WriteRecords, SnapshotInv, UpgradeOwnsAll, BackendOK
  <2> QED
    BY <1>0, <2>1, RefinesWrite
<1>8. ASSUME NEW x \in Txns, Commit(x) PROVE Atomic!Next
  <2>1. /\ EndTxns({x}, "ended") /\ UNCHANGED data
        /\ \A y \in Txns \ {x} : txn_snapshots'[y] = txn_snapshots[y]
    BY <1>0, <1>8 DEF Commit, BackendOK
  <2> QED
    BY <1>0, <2>1, RefinesKeep
<1>9. ASSUME NEW x \in Txns, Abort(x) PROVE Atomic!Next
  BY <1>0, <1>9, RefinesUndo DEF Abort
<1> QED
  BY <1>1, <1>2, <1>3, <1>4, <1>5, <1>6, <1>7, <1>8, <1>9 DEF Next, Upgrade

(* Under the same scheduling the backend implements AtomicStores: every    *)
(* handler is one of its steps or changes nothing a page can tell.         *)
THEOREM Refinement ==
  ASSUME ProcessWideIds, SerializedTxns
  PROVE  Spec => ImplementsAtomicStores
<1>1. Init => SnapshotInv
  BY DEF Init, NoSnapshot, SnapshotInv, ScopesApart, UpgradeOwnsAll,
         CapturedInScope, UnusedIsClean, Active, Captured
<1>2. TypeOK /\ SnapshotInv /\ [Next]_vars => SnapshotInv'
  BY SnapshotInvStep
<1>3. Init => Atomic!Init
  BY DEF Init, Atomic!Init, committedData, Holder, Active
<1>4. TypeOK /\ TypeOK' /\ SnapshotInv /\ SnapshotInv' /\ [Next]_vars
        => [Atomic!Next]_(Atomic!vars)
  BY RefinesStep
<1> QED
  BY <1>1, <1>2, <1>3, <1>4, TypeCorrect, PTL DEF Spec, ImplementsAtomicStores, Atomic!Spec
------------------------------------------------------------------------------
(* The schema.  While an upgrade runs, nothing else does, and the copy the *)
(* backend keeps is the schema this upgrade began on.                      *)
UpgradeAlone ==
  \A x, y \in Txns : Active(x) /\ Active(y) /\ kind[x] = "upgrade" => x = y

ScopesNotEmpty ==
  \A x \in Txns : Active(x) => scope[x] # {}

UpgradesRun ==
  \A x \in Txns : kind[x] = "upgrade" => Active(x)

UpgradeTracked ==
  \A x \in Txns : Active(x) /\ kind[x] = "upgrade" =>
    /\ version_change_txn = x
    /\ pre_upgrade_metadata = upgradeBase[x[1]]

SchemaInv ==
  UpgradeAlone /\ UpgradeOwnsAll /\ ScopesNotEmpty /\ UpgradesRun /\ UpgradeTracked

(* Steps that start and end nothing keep it.                               *)
LEMMA QuietKeepsSchemaInv ==
  ASSUME SchemaInv,
         UNCHANGED <<phase, kind, scope, upgradeBase, version_change_txn,
                     pre_upgrade_metadata>>
  PROVE  SchemaInv'
BY DEF SchemaInv, UpgradeAlone, UpgradeOwnsAll, ScopesNotEmpty, UpgradesRun,
       UpgradeTracked, Active

(* So do steps that end the transactions in X and leave the copy, and the  *)
(* pointer to an upgrade that goes on, alone.                              *)
LEMMA EndKeepsSchemaInv ==
  ASSUME TypeOK, SchemaInv, NEW X \in SUBSET Txns, NEW life \in {"unused", "ended"},
         EndTxns(X, life), UNCHANGED pre_upgrade_metadata,
         \A y \in Txns \ X : Active(y) /\ kind[y] = "upgrade" =>
                               UNCHANGED version_change_txn
  PROVE  SchemaInv'
<1>0. PageOK /\ HistoryOK
  BY TypeOKParts
<1>1. \A x \in Txns :
        /\ Active(x)' => Active(x) /\ x \notin X /\ scope'[x] = scope[x]
        /\ kind'[x] = "upgrade" => kind[x] = "upgrade" /\ x \notin X
        /\ x \notin X => phase'[x] = phase[x]
  BY <1>0 DEF EndTxns, Active, PageOK
<1>2. UpgradeAlone' /\ UpgradeOwnsAll' /\ ScopesNotEmpty' /\ UpgradesRun'
  BY <1>1 DEF SchemaInv, UpgradeAlone, UpgradeOwnsAll, ScopesNotEmpty,
              UpgradesRun, Active
<1>3. ASSUME NEW x \in Txns, Active(x)', kind'[x] = "upgrade"
      PROVE  version_change_txn' = x /\ pre_upgrade_metadata' = upgradeBase'[x[1]]
  <2>1. /\ Active(x) /\ x \notin X /\ kind[x] = "upgrade"
        /\ version_change_txn = x
        /\ pre_upgrade_metadata = upgradeBase[x[1]]
    BY <1>1, <1>3 DEF SchemaInv, UpgradeTracked
  <2>2. x[1] \in Conns
    BY DEF Txns
  <2>3. \A y \in X : kind[y] # "upgrade"
    BY <2>1 DEF SchemaInv, UpgradeAlone, UpgradesRun
  <2>4. upgradeBase'[x[1]] = upgradeBase[x[1]]
    BY <2>2, <2>3 DEF EndTxns
  <2> QED
    BY <2>1, <2>4
<1> QED
  BY <1>2, <1>3 DEF SchemaInv, UpgradeTracked, Active

(* And so does starting a transaction the page may start.                  *)
LEMMA StartKeepsSchemaInv ==
  ASSUME SerializedTxns, TypeOK, SchemaInv,
         NEW x \in Txns, NEW what \in {"upgrade", "readwrite"},
         NEW stores \in SUBSET Stores, stores # {}, MayStart(stores),
         StartTxn(x, what, stores),
         what = "upgrade" =>
           /\ stores = Stores
           /\ version_change_txn' = x
           /\ pre_upgrade_metadata' = upgradeBase'[x[1]],
         what = "readwrite" =>
           UNCHANGED <<version_change_txn, pre_upgrade_metadata, upgradeBase>>
  PROVE  SchemaInv'
<1>0. PageOK
  BY TypeOKParts
<1> USE DEF PageOK, SchemaInv, StartTxn, Active
<1>1. \A y \in Txns : Active(y) => kind[y] # "upgrade"
  BY <1>0 DEF MayStart, UpgradeOwnsAll
<1>2. what = "upgrade" => \A y \in Txns : ~Active(y)
  BY <1>0 DEF MayStart, ScopesNotEmpty
<1>3. UpgradeAlone'
  BY <1>0, <1>1, <1>2 DEF UpgradeAlone
<1>4. UpgradeOwnsAll' /\ ScopesNotEmpty'
  BY <1>0 DEF UpgradeOwnsAll, ScopesNotEmpty
<1>5. UpgradesRun'
  BY <1>0 DEF UpgradesRun
<1>6. UpgradeTracked'
  BY <1>0, <1>1, <1>2 DEF UpgradeTracked, UpgradesRun
<1> QED
  BY <1>3, <1>4, <1>5, <1>6

LEMMA SchemaInvStep ==
  ASSUME SerializedTxns, TypeOK, SchemaInv, [Next]_vars
  PROVE  SchemaInv'
<1>1. CASE UNCHANGED vars
  BY <1>1, QuietKeepsSchemaInv DEF vars, backend, page
<1>2. ASSUME NEW c \in Conns, Connect(c) PROVE SchemaInv'
  <2>1. PICK v \in 0 .. MaxVersion :
          \/ OpenRejected(c, v)
          \/ OpenCurrent(c, v)
          \/ \E i \in TxnIds : OpenUpgrade(c, v, i)
    BY <1>2 DEF Connect
  <2>2. CASE OpenRejected(c, v) \/ OpenCurrent(c, v)
    BY <2>2, QuietKeepsSchemaInv DEF OpenRejected, OpenCurrent, backend
  <2>3. ASSUME NEW i \in TxnIds, OpenUpgrade(c, v, i) PROVE SchemaInv'
    <3>1. <<c, i>> \in Txns /\ <<c, i>>[1] = c
      BY DEF Txns
    <3>2. Stores # {}
      BY ConstantsAssumption DEF Stores
    <3>3. pre_upgrade_metadata' = upgradeBase'[c]
      BY <2>3, TypeOKParts DEF OpenUpgrade, HistoryOK
    <3>4. /\ MayStart(Stores)
          /\ StartTxn(<<c, i>>, "upgrade", Stores)
          /\ version_change_txn' = <<c, i>>
      BY <2>3 DEF OpenUpgrade
    <3> QED
      BY <3>1, <3>2, <3>3, <3>4, StartKeepsSchemaInv
  <2> QED
    BY <2>1, <2>2, <2>3
<1>3. ASSUME NEW c \in Conns, Disconnect(c) PROVE SchemaInv'
  <2>1. PICK X \in SUBSET Txns :
          /\ {x \in Txns : x[1] = c /\ Active(x)} \subseteq X
          /\ \E life \in {"unused", "ended"} : EndTxns(X, life)
    <3>1. CASE ProcessWideIds
      BY <1>3, <3>1 DEF Disconnect
    <3>2. CASE ~ProcessWideIds
      BY <1>3, <3>2 DEF Disconnect
    <3> QED
      BY <3>1, <3>2
  <2>2. ASSUME NEW y \in Txns \ X, Active(y), kind[y] = "upgrade"
        PROVE  UNCHANGED version_change_txn
    <3>1. version_change_txn = y /\ y[1] # c
      BY <2>1, <2>2 DEF SchemaInv, UpgradeTracked
    <3> QED
      BY <1>3, <3>1 DEF Disconnect, UpgradeAfterDestroying
  <2>3. UNCHANGED pre_upgrade_metadata
    BY <1>3 DEF Disconnect
  <2> QED
    BY <2>1, <2>2, <2>3, EndKeepsSchemaInv
<1>4. ASSUME NEW c \in Conns, NEW i \in TxnIds, NEW stores \in (SUBSET Stores) \ {{}},
             CreateTransaction(c, i, stores)
      PROVE  SchemaInv'
  <2>1. <<c, i>> \in Txns
    BY DEF Txns
  <2> QED
    BY <1>4, <2>1, StartKeepsSchemaInv DEF CreateTransaction, backend
<1>5. ASSUME NEW x \in Txns, Write(x) PROVE SchemaInv'
  BY <1>5, WriteIsBackendOnly, QuietKeepsSchemaInv DEF page
<1>6. ASSUME NEW x \in Txns, Upgrade(x) PROVE SchemaInv'
  BY <1>6, QuietKeepsSchemaInv
  DEF Upgrade, CreateObjectStore, DeleteObjectStore, page
<1>7. ASSUME NEW x \in Txns, Commit(x) \/ Abort(x) PROVE SchemaInv'
  <2>1. Active(x) /\ EndTxns({x}, "ended") /\ UNCHANGED pre_upgrade_metadata
    BY <1>7 DEF Commit, Abort
  <2>2. \A y \in Txns \ {x} : ~(Active(y) /\ kind[y] = "upgrade")
    BY <2>1 DEF SchemaInv, UpgradeAlone
  <2> QED
    BY <2>1, <2>2, EndKeepsSchemaInv
<1> QED
  BY <1>1, <1>2, <1>3, <1>4, <1>5, <1>6, <1>7 DEF Next

(* When pages keep overlapping transactions apart, an aborted upgrade      *)
(* leaves the schema it began on, whatever ids and addresses are reused.   *)
THEOREM SchemaRestored ==
  ASSUME SerializedTxns
  PROVE  Spec => AbortedUpgradeRestoresSchema
<1>1. Init => SchemaInv
  BY DEF Init, SchemaInv, UpgradeAlone, UpgradeOwnsAll, ScopesNotEmpty,
         UpgradesRun, UpgradeTracked, Active
<1>2. TypeOK /\ SchemaInv /\ [Next]_vars => SchemaInv'
  BY SchemaInvStep
<1>3. ASSUME TypeOK, SchemaInv, [Next]_vars, NEW c \in Conns,
             connection[c] = "upgrading", connection'[c] = "refused"
      PROVE  metadata' = upgradeBase[c]
  <2>0. PageOK
    BY <1>3, TypeOKParts
  <2>1. PICK x \in Txns : Abort(x) /\ x[1] = c /\ kind[x] = "upgrade"
    <3> USE <1>3, <2>0 DEF PageOK
    <3>1. ~UNCHANGED connection
      OBVIOUS
    <3>2. ASSUME NEW d \in Conns, Connect(d) PROVE FALSE
      BY <3>2 DEF Connect, OpenRejected, OpenCurrent, OpenUpgrade
    <3>3. ASSUME NEW d \in Conns, Disconnect(d) PROVE FALSE
      BY <3>3 DEF Disconnect
    <3>4. ASSUME NEW x \in Txns, Commit(x) PROVE FALSE
      BY <3>4 DEF Commit, Txns
    <3>5. ASSUME NEW x \in Txns, Write(x) PROVE FALSE
      BY <3>1, <3>5, WriteIsBackendOnly DEF page
    <3>6. PICK x \in Txns : Abort(x)
      BY <3>1, <3>2, <3>3, <3>4, <3>5
      DEF Next, vars, page, CreateTransaction, Upgrade, CreateObjectStore,
          DeleteObjectStore
    <3>7. x[1] \in Conns
      BY DEF Txns
    <3> QED
      BY <3>6, <3>7 DEF Abort
  <2>2. /\ version_change_txn = x
        /\ pre_upgrade_metadata = upgradeBase[c]
    BY <1>3, <2>1 DEF Abort, SchemaInv, UpgradeTracked
  <2>3. IsTrackedUpgrade(x)
    BY <2>2, ConstantsAssumption DEF IsTrackedUpgrade
  <2> QED
    BY <2>1, <2>2, <2>3 DEF Abort
<1>4. TypeOK /\ SchemaInv /\ [Next]_vars =>
        [\A c \in Conns :
           connection[c] = "upgrading" /\ connection'[c] = "refused" =>
             metadata' = upgradeBase[c]]_vars
  BY <1>3
<1> QED
  BY <1>1, <1>2, <1>4, TypeCorrect, PTL DEF Spec, AbortedUpgradeRestoresSchema

------------------------------------------------------------------------------
(* SessionProfile.                                                         *)

USE ProfilesAssumption

(* One token is bound to one directory, by whatever says so: a marker,     *)
(* wherever it was copied, and the handles that are open.                  *)
TokensAreBound ==
  /\ \A d, e \in Dirs :
       /\ Profiles!IsMarker(marker[d]) /\ Profiles!IsMarker(marker[e])
       /\ marker[d].token = marker[e].token
       /\ marker[d].dir # None /\ marker[e].dir # None
       => marker[d].dir = marker[e].dir
  /\ \A d \in Dirs, h \in Handles :
       /\ Profiles!IsMarker(marker[d]) /\ session[h] # None
       /\ marker[d].token = session[h].id /\ marker[d].dir # None
       => marker[d].dir = session[h].dir

(* A profile that nobody has open is new; one that is open was restored.   *)
OpenIsRestored ==
  \A t \in Tokens :
    IF profiles[t].handles = {} THEN profiles[t] = Profiles!NewProfile ELSE profiles[t].restored

(* The snapshot in a directory came from outside, and is nowhere else.     *)
OnlyCopy(d) == file[d] \in originals[d] \ backups[d]

(* It is not taken for the profile's own ...                               *)
OutsidersAreForeign ==
  \A d \in Dirs : OnlyCopy(d) => ~Profiles!Own(d, d)

(* ... and whoever could write over it may not, or has to keep it first.   *)
OutsidersAreKept ==
  \A h \in Handles :
    /\ session[h] # None /\ Profiles!HasIdentity(h) /\ OnlyCopy(session[h].dir)
    => LET p == profiles[session[h].id] IN ~p.safe \/ (p.needs_backup /\ ~p.backup_complete)

ProfilesInv ==
  /\ Profiles!ProfilesAreSafe
  /\ TokensAreBound /\ OpenIsRestored /\ OutsidersAreForeign /\ OutsidersAreKept

------------------------------------------------------------------------------
(* What a flush may leave.                                                 *)

(* A marker is neither absent nor damaged; a snapshot neither.             *)
LEMMA WhatIsThere ==
  /\ \A m \in {None, Torn} \cup Profiles!Markers : Profiles!IsMarker(m) <=> m \in Profiles!Markers
  /\ \A f \in {None, Torn} \cup Profiles!Snapshots :
       Profiles!IsSnapshot(f) <=> f \in Profiles!Snapshots
  BY DEF Profiles!IsMarker, Profiles!IsSnapshot

(* What a flush leaves has the types of a file, backups and a profile, and *)
(* the profile knows its handles and was restored as before.               *)
LEMMA OutcomeTypes ==
  ASSUME Profiles!TypeOK, NEW h \in Handles, session[h] # None,
         NEW o \in Profiles!FlushOutcomes(h)
  PROVE  /\ o.file \in {None, Torn} \cup Profiles!Snapshots
         /\ o.kept \in SUBSET ({Torn} \cup Profiles!Snapshots)
         /\ o.profile \in Profiles!ProfileState
         /\ o.profile.handles = profiles[session[h].id].handles
         /\ o.profile.restored = profiles[session[h].id].restored
<1> DEFINE d == session[h].dir
           t == session[h].id
           p == profiles[t]
<1>1. d \in Dirs /\ t \in Tokens /\ p \in Profiles!ProfileState
  BY DEF Profiles!TypeOK
<1>2. file[d] \in {None, Torn} \cup Profiles!Snapshots
  BY <1>1 DEF Profiles!TypeOK
<1>3. CASE o = [file |-> file[d], kept |-> {}, profile |-> p]
  BY <1>1, <1>2, <1>3
<1>4. CASE /\ ~Profiles!NothingToKeep(p, file[d])
           /\ o \in {[file |-> f, kept |-> Profiles!Kept(p, file[d]),
                      profile |-> [p EXCEPT !.backup_complete = p.needs_backup]] :
                        f \in {Torn, file[d]}}
  <2>1. Profiles!Kept(p, file[d]) \in SUBSET ({Torn} \cup Profiles!Snapshots)
    BY <1>2, <1>4 DEF Profiles!Kept, Profiles!NothingToKeep
  <2> QED
    BY <1>1, <1>2, <1>4, <2>1 DEF Profiles!ProfileState
<1>5. CASE /\ ~Profiles!NothingToKeep(p, file[d])
           /\ o = [file |-> [scope |-> t, content |-> store[t]],
                   kept |-> Profiles!Kept(p, file[d]),
                   profile |-> [p EXCEPT !.needs_backup = FALSE, !.backup_complete = FALSE]]
  <2>1. Profiles!Kept(p, file[d]) \in SUBSET ({Torn} \cup Profiles!Snapshots)
    BY <1>2, <1>5 DEF Profiles!Kept, Profiles!NothingToKeep
  <2>2. [scope |-> t, content |-> store[t]] \in Profiles!Snapshots
    BY <1>1 DEF Profiles!TypeOK, Profiles!Snapshots
  <2> QED
    BY <1>1, <1>5, <2>1, <2>2 DEF Profiles!ProfileState
<1> QED
  BY <1>3, <1>4, <1>5 DEF Profiles!FlushOutcomes

(* A flush that is not refused finds its identity, may write, and keeps    *)
(* what has to be kept.                                                    *)
LEMMA OutcomeAllowed ==
  ASSUME Profiles!TypeOK, NEW h \in Handles, session[h] # None,
         NEW o \in Profiles!FlushOutcomes(h)
  PROVE  LET d == session[h].dir
             p == profiles[session[h].id]
         IN  \/ o = [file |-> file[d], kept |-> {}, profile |-> p]
             \/ /\ Profiles!HasIdentity(h) /\ p.safe
                /\ o.kept = Profiles!Kept(p, file[d])
                /\ Profiles!IsSnapshot(o.file) /\ o.file # file[d] =>
                     o.file.scope = session[h].id
  BY WhatIsThere DEF Profiles!FlushOutcomes, Profiles!MayWrite, Profiles!TypeOK, Profiles!IsSnapshot

(* After a flush no original is lost, and one that is the only copy was    *)
(* left as it was.                                                         *)
LEMMA FlushKeepsOriginals ==
  ASSUME ProfilesInv, NEW h \in Handles, session[h] # None,
         NEW o \in Profiles!FlushOutcomes(h), Profiles!FlushOutcome(h, o),
         UNCHANGED <<marker, originals>>
  PROVE  /\ Profiles!OriginalsSurvive' /\ OutsidersAreForeign'
         /\ \A d \in Dirs : OnlyCopy(d)' =>
              /\ OnlyCopy(d)
              /\ d = session[h].dir => o.profile = profiles[session[h].id]
<1> DEFINE d == session[h].dir
           p == profiles[session[h].id]
<1>1. d \in Dirs /\ p \in Profiles!ProfileState
  BY DEF ProfilesInv, Profiles!ProfilesAreSafe, Profiles!TypeOK
<1>2. /\ \A e \in Dirs \ {d} : file'[e] = file[e] /\ backups'[e] = backups[e]
      /\ file'[d] = o.file /\ backups'[d] = backups[d] \cup o.kept
  BY <1>1 DEF ProfilesInv, Profiles!ProfilesAreSafe, Profiles!TypeOK, Profiles!FlushOutcome
<1>3. originals[d] \subseteq backups[d] \cup {file[d]}
  BY <1>1 DEF ProfilesInv, Profiles!ProfilesAreSafe, Profiles!OriginalsSurvive
<1>4. \/ o = [file |-> file[d], kept |-> {}, profile |-> p]
      \/ originals[d] \subseteq backups[d] \cup o.kept
  <2>1. CASE Profiles!HasIdentity(h) /\ p.safe /\ o.kept = Profiles!Kept(p, file[d])
    <3>1. OnlyCopy(d) => p.needs_backup /\ ~p.backup_complete
      BY <2>1 DEF ProfilesInv, OutsidersAreKept
    <3> QED
      BY <1>3, <2>1, <3>1 DEF OnlyCopy, Profiles!Kept
  <2> QED
    BY <2>1, OutcomeAllowed DEF ProfilesInv, Profiles!ProfilesAreSafe
<1>5. \A e \in Dirs : OnlyCopy(e)' =>
        /\ OnlyCopy(e) /\ file'[e] = file[e]
        /\ e = d => o.profile = p
  BY <1>1, <1>2, <1>4 DEF OnlyCopy
<1>6. Profiles!OriginalsSurvive'
  BY <1>1, <1>2, <1>3, <1>4 DEF ProfilesInv, Profiles!ProfilesAreSafe, Profiles!OriginalsSurvive
<1>7. OutsidersAreForeign'
  BY <1>5 DEF ProfilesInv, OutsidersAreForeign, Profiles!Own, Profiles!BoundHere,
              Profiles!IsMarker, Profiles!IsSnapshot
<1> QED
  BY <1>5, <1>6, <1>7

------------------------------------------------------------------------------
(* Initially nothing is bound or open, and what there is came from outside. *)
LEMMA ProfilesInvInit == Profiles!Init => ProfilesInv
<1> SUFFICES ASSUME Profiles!Init PROVE ProfilesInv
  OBVIOUS
<1> USE DEF Profiles!Init, Profiles!NoProcess
<1>0. PICK d \in Dirs, t \in Tokens :
        \E m \in {None, Torn, [token |-> t, dir |-> None]},
           f \in {None, Torn} \cup [scope : {Legacy, t}, content : Contents] :
          /\ marker = [e \in Dirs |-> IF e = d THEN m ELSE None]
          /\ file = [e \in Dirs |-> IF e = d THEN f ELSE None]
  OBVIOUS
<1>1. PICK m \in {None, Torn, [token |-> t, dir |-> None]},
           f \in {None, Torn} \cup [scope : {Legacy, t}, content : Contents] :
        /\ marker = [e \in Dirs |-> IF e = d THEN m ELSE None]
        /\ file = [e \in Dirs |-> IF e = d THEN f ELSE None]
  BY <1>0
<1>2. m \in {None, Torn} \cup Profiles!Markers /\ f \in {None, Torn} \cup Profiles!Snapshots
  BY DEF Profiles!Markers, Profiles!Snapshots
<1>3. \A e \in Dirs : originals[e] = {file[e]} \ {None} /\ originals[e] \subseteq {Torn} \cup Profiles!Snapshots
  BY <1>1, <1>2
<1>4. Profiles!NewProfile \in Profiles!ProfileState
  BY DEF Profiles!NewProfile, Profiles!ProfileState
<1>5. Profiles!TypeOK
  <2>1. /\ marker \in [Dirs -> {None, Torn} \cup Profiles!Markers]
        /\ file \in [Dirs -> {None, Torn} \cup Profiles!Snapshots]
    BY <1>1, <1>2
  <2>2. /\ backups \in [Dirs -> SUBSET ({Torn} \cup Profiles!Snapshots)]
        /\ originals \in [Dirs -> SUBSET ({Torn} \cup Profiles!Snapshots)]
    BY <1>3
  <2>3. /\ store \in [Tokens -> Contents] /\ profiles \in [Tokens -> Profiles!ProfileState]
        /\ session \in [Handles -> {None} \cup [dir : Dirs, id : Tokens]]
        /\ refs \in [Handles -> SUBSET Views] /\ detached \in [Handles -> BOOLEAN]
    BY <1>4
  <2>4. \A s \in Tokens :
          profiles[s].handles = {h \in Handles : session[h] # None /\ session[h].id = s}
    BY DEF Profiles!NewProfile
  <2> QED
    BY <2>1, <2>2, <2>3, <2>4 DEF Profiles!TypeOK
<1>6. Profiles!OriginalsSurvive /\ Profiles!OneDirectoryPerIdentity
  BY <1>3 DEF Profiles!OriginalsSurvive, Profiles!OneDirectoryPerIdentity
<1>7. \A e \in Dirs : marker[e] \in {None, Torn} \/ marker[e].dir = None
  BY <1>1
<1>8. TokensAreBound /\ OutsidersAreForeign
  BY <1>7 DEF TokensAreBound, OutsidersAreForeign, Profiles!Own, Profiles!BoundHere, Profiles!IsMarker
<1>9. OpenIsRestored /\ OutsidersAreKept
  BY DEF OpenIsRestored, OutsidersAreKept, Profiles!NewProfile
<1> QED
  BY <1>5, <1>6, <1>8, <1>9 DEF ProfilesInv, Profiles!ProfilesAreSafe

(* A handle is opened: on the identity that is bound to its directory, or  *)
(* on one that is found nowhere else.                                      *)
LEMMA CreateKeeps ==
  ASSUME ProfilesInv, NEW h \in Handles, NEW d \in Dirs, NEW t \in Tokens,
         Profiles!Create(h, d, t)
  PROVE  ProfilesInv'
<1> USE DEF ProfilesInv, Profiles!ProfilesAreSafe
<1> DEFINE q == Profiles!RestoredProfile(t, d)
<1>1. /\ session[h] = None
      /\ session' = [session EXCEPT ![h] = [dir |-> d, id |-> t]]
      /\ profiles' = [profiles EXCEPT ![t] = [q EXCEPT !.handles = @ \cup {h}]]
      /\ UNCHANGED <<file, backups, refs, originals>>
  BY DEF Profiles!Create
<1>2. /\ profiles[t] \in Profiles!ProfileState
      /\ file[d] \in {None, Torn} \cup Profiles!Snapshots
      /\ file[d] \in Profiles!Snapshots => file[d].content \in Contents
      /\ marker[d] \in {None, Torn} \cup Profiles!Markers
  BY DEF Profiles!TypeOK, Profiles!Snapshots
<1>3. \/ /\ Profiles!BoundHere(marker[d], d) /\ t = marker[d].token /\ UNCHANGED marker
      \/ /\ ~Profiles!BoundHere(marker[d], d) /\ Profiles!Fresh(t)
         /\ marker' = [marker EXCEPT ![d] = [token |-> t, dir |-> d]]
  BY DEF Profiles!Create, Profiles!IdentityFor
<1>4. /\ q \in Profiles!ProfileState /\ q.restored /\ q.handles = profiles[t].handles
  BY <1>2 DEF Profiles!RestoredProfile, Profiles!ProfileState, Profiles!IsSnapshot
<1>5. [q EXCEPT !.handles = @ \cup {h}] \in Profiles!ProfileState
  BY <1>4 DEF Profiles!ProfileState
<1>6. /\ marker' \in [Dirs -> {None, Torn} \cup Profiles!Markers]
      /\ Profiles!BoundHere(marker'[d], d) /\ marker'[d].token = t
      /\ \A e \in Dirs \ {d} : marker'[e] = marker[e]
  <2>1. [token |-> t, dir |-> d] \in Profiles!Markers
    BY DEF Profiles!Markers
  <2> QED
    BY <1>3, <2>1 DEF Profiles!TypeOK, Profiles!BoundHere, Profiles!IsMarker
<1>7. Profiles!TypeOK'
  <2>1. store' \in [Tokens -> Contents]
    <3>1. Profiles!IsSnapshot(file[d]) => file[d].content \in Contents
      BY <1>2 DEF Profiles!IsSnapshot
    <3> QED
      BY <3>1 DEF Profiles!Create, Profiles!TypeOK
  <2>2. session' \in [Handles -> {None} \cup [dir : Dirs, id : Tokens]]
    BY <1>1 DEF Profiles!TypeOK
  <2>3. profiles' \in [Tokens -> Profiles!ProfileState]
    BY <1>1, <1>5 DEF Profiles!TypeOK
  <2>4. detached' \in [Handles -> BOOLEAN]
    BY DEF Profiles!Create, Profiles!TypeOK
  <2>5. \A s \in Tokens :
          profiles'[s].handles = {g \in Handles : session'[g] # None /\ session'[g].id = s}
    <3> TAKE s \in Tokens
    <3>1. profiles[s].handles = {g \in Handles : session[g] # None /\ session[g].id = s}
      BY DEF Profiles!TypeOK
    <3>2. profiles'[s].handles = IF s = t THEN profiles[s].handles \cup {h} ELSE profiles[s].handles
      BY <1>1, <1>4 DEF Profiles!TypeOK, Profiles!ProfileState
    <3>3. \A g \in Handles : session'[g] = IF g = h THEN [dir |-> d, id |-> t] ELSE session[g]
      BY <1>1 DEF Profiles!TypeOK
    <3>4. [dir |-> d, id |-> t] # None
      OBVIOUS
    <3> QED
      BY <1>1, <3>1, <3>2, <3>3, <3>4
  <2>6. \A g \in Handles : refs'[g] # {} => session'[g] # None
    BY <1>1 DEF Profiles!TypeOK
  <2> QED
    BY <1>1, <1>6, <2>1, <2>2, <2>3, <2>4, <2>5, <2>6 DEF Profiles!TypeOK
<1>8. /\ \A g \in Handles \ {h} : session'[g] = session[g]
      /\ session'[h] = [dir |-> d, id |-> t] /\ session'[h] # None
  BY <1>1 DEF Profiles!TypeOK
<1>9. Profiles!OriginalsSurvive'
  BY <1>1 DEF Profiles!OriginalsSurvive
<1>10. \A g \in Handles : session[g] # None /\ session[g].id = t =>
         Profiles!BoundHere(marker[d], d) /\ session[g].dir = d /\ UNCHANGED marker
  <2> SUFFICES ASSUME NEW g \in Handles, session[g] # None, session[g].id = t
               PROVE  Profiles!BoundHere(marker[d], d) /\ session[g].dir = d /\ UNCHANGED marker
    OBVIOUS
  <2>1. g \in profiles[t].handles
    BY DEF Profiles!TypeOK
  <2>2. ~Profiles!Fresh(t)
    BY <2>1 DEF Profiles!Fresh, Profiles!NewProfile
  <2> QED
    BY <1>3, <2>2 DEF TokensAreBound, Profiles!BoundHere
<1>11. Profiles!OneDirectoryPerIdentity'
  BY <1>8, <1>10 DEF Profiles!OneDirectoryPerIdentity
<1>12. TokensAreBound'
  <2>1. CASE UNCHANGED marker
    BY <1>3, <1>8, <2>1 DEF TokensAreBound, Profiles!BoundHere, Profiles!Fresh
  <2>2. CASE /\ Profiles!Fresh(t)
             /\ marker' = [marker EXCEPT ![d] = [token |-> t, dir |-> d]]
    <3>1. \A e \in Dirs \ {d} : Profiles!IsMarker(marker'[e]) => marker'[e].token # t
      BY <1>6, <2>2 DEF Profiles!Fresh
    <3>2. \A g \in Handles \ {h} : session'[g] # None => session'[g].id # t
      <4>1. profiles[t].handles = {}
        BY <2>2 DEF Profiles!Fresh, Profiles!NewProfile
      <4> QED
        BY <1>8, <4>1 DEF Profiles!TypeOK
    <3>3. marker'[d].token = t /\ marker'[d].dir = d
      BY <1>6 DEF Profiles!BoundHere
    <3> QED
      BY <1>6, <1>8, <3>1, <3>2, <3>3 DEF TokensAreBound
  <2> QED
    BY <1>3, <2>1, <2>2
<1>13. OpenIsRestored'
  BY <1>1, <1>4 DEF OpenIsRestored, Profiles!TypeOK, Profiles!ProfileState
<1>14. OutsidersAreForeign'
  <2>1. \A e \in Dirs : OnlyCopy(e)' <=> OnlyCopy(e)
    BY <1>1 DEF OnlyCopy
  <2>2. Profiles!Fresh(t) => ~Profiles!Own(d, d)'
    BY <1>1, <1>6 DEF Profiles!Fresh, Profiles!Own
  <2>3. \A e \in Dirs : e # d \/ UNCHANGED marker => (Profiles!Own(e, e)' <=> Profiles!Own(e, e))
    BY <1>1, <1>6 DEF Profiles!Own, Profiles!BoundHere, Profiles!IsMarker, Profiles!IsSnapshot
  <2> QED
    BY <1>3, <2>1, <2>2, <2>3 DEF OutsidersAreForeign
<1>15. OutsidersAreKept'
  <2> SUFFICES ASSUME NEW g \in Handles, session'[g] # None, Profiles!HasIdentity(g)',
                      OnlyCopy(session[g].dir)'
               PROVE  LET p == profiles'[session'[g].id]
                      IN  ~p.safe \/ (p.needs_backup /\ ~p.backup_complete)
    BY DEF OutsidersAreKept
  <2>1. CASE session'[g].id = t
    <3>1. session'[g].dir = d /\ OnlyCopy(d)
      BY <1>1, <1>8, <1>10, <2>1 DEF OnlyCopy
    <3>2. /\ profiles'[t].safe = q.safe /\ profiles'[t].needs_backup = q.needs_backup
          /\ profiles'[t].backup_complete = q.backup_complete
      BY <1>1, <1>4 DEF Profiles!TypeOK, Profiles!ProfileState
    <3>3. CASE profiles[t].restored
      <4>1. PICK k \in Handles : session[k] # None /\ session[k].id = t
        <5>1. profiles[t].handles # {}
          BY <3>3 DEF OpenIsRestored, Profiles!NewProfile
        <5> QED
          BY <5>1 DEF Profiles!TypeOK
      <4>2. Profiles!HasIdentity(k) /\ session[k].dir = d
        BY <1>6, <1>10, <4>1 DEF Profiles!HasIdentity
      <4>3. q.safe = profiles[t].safe /\ q.needs_backup = profiles[t].needs_backup
            /\ q.backup_complete = profiles[t].backup_complete
        BY <1>2, <3>3 DEF Profiles!RestoredProfile, Profiles!Restores, Profiles!ProfileState
      <4> QED
        BY <2>1, <3>1, <3>2, <4>1, <4>2, <4>3 DEF OutsidersAreKept
    <3>4. CASE ~profiles[t].restored
      <4>1. profiles[t] = Profiles!NewProfile
        BY <3>4 DEF OpenIsRestored
      <4>2. file[d] # None
        <5>1. None \notin originals[d]
          BY DEF Profiles!TypeOK
        <5> QED
          BY <3>1, <5>1 DEF OnlyCopy
      <4>3. /\ q.safe = Profiles!IsSnapshot(file[d])
            /\ q.needs_backup = (Profiles!IsSnapshot(file[d]) /\ file[d].scope # t)
            /\ ~q.backup_complete
        BY <3>4, <4>1, <4>2 DEF Profiles!RestoredProfile, Profiles!Restores, Profiles!NewProfile
      <4>4. Profiles!IsSnapshot(file[d]) => file[d].scope # t
        BY <1>1, <1>6, <1>14, <3>1 DEF OutsidersAreForeign, Profiles!Own, OnlyCopy
      <4> QED
        BY <2>1, <3>2, <4>3, <4>4
    <3> QED
      BY <3>3, <3>4
  <2>2. CASE session'[g].id # t
    <3>1. g # h /\ session'[g] = session[g] /\ session[g].id \in Tokens /\ session[g].dir \in Dirs
      BY <1>8, <2>2 DEF Profiles!TypeOK
    <3>2. session[g].dir # d
      BY <1>6, <2>2, <3>1 DEF Profiles!HasIdentity
    <3>3. Profiles!HasIdentity(g) /\ OnlyCopy(session[g].dir)
      BY <1>1, <1>6, <3>1, <3>2 DEF Profiles!HasIdentity, Profiles!BoundHere, Profiles!IsMarker, OnlyCopy
    <3>4. profiles'[session[g].id] = profiles[session[g].id]
      BY <1>1, <2>2, <3>1 DEF Profiles!TypeOK
    <3> QED
      BY <3>1, <3>3, <3>4 DEF OutsidersAreKept
  <2> QED
    BY <2>1, <2>2
<1> QED
  BY <1>7, <1>9, <1>11, <1>12, <1>13, <1>14, <1>15

(* What pages write is no file, and no profile's state.                    *)
LEMMA WriteKeeps ==
  ASSUME ProfilesInv, NEW h \in Handles, NEW v \in Contents, Profiles!Write(h, v)
  PROVE  ProfilesInv'
<1> USE DEF ProfilesInv, Profiles!ProfilesAreSafe, Profiles!Write, Profiles!disk
<1>1. Profiles!TypeOK'
  BY DEF Profiles!TypeOK
<1>2. /\ Profiles!OriginalsSurvive' /\ Profiles!OneDirectoryPerIdentity' /\ TokensAreBound'
      /\ OpenIsRestored'
  BY DEF Profiles!OriginalsSurvive, Profiles!OneDirectoryPerIdentity, TokensAreBound, OpenIsRestored
<1>3. OutsidersAreForeign' /\ OutsidersAreKept'
  BY DEF OutsidersAreForeign, OutsidersAreKept, OnlyCopy, Profiles!Own, Profiles!HasIdentity,
         Profiles!BoundHere, Profiles!IsMarker, Profiles!IsSnapshot
<1> QED
  BY <1>1, <1>2, <1>3

(* A cleared profile has nothing to lose: not in its directory, which is   *)
(* the only one it is open on.                                             *)
LEMMA ClearStorageKeeps ==
  ASSUME ProfilesInv, NEW h \in Handles, Profiles!ClearStorage(h)
  PROVE  ProfilesInv'
<1> USE DEF ProfilesInv, Profiles!ProfilesAreSafe
<1> DEFINE t == session[h].id
           d == session[h].dir
           cleared == [profiles[t] EXCEPT !.safe = TRUE, !.needs_backup = FALSE,
                                          !.backup_complete = FALSE]
<1>1. /\ session[h] # None /\ t \in Tokens /\ d \in Dirs
      /\ store' = [store EXCEPT ![t] = Blank]
      /\ profiles' = [profiles EXCEPT ![t] = cleared]
      /\ originals' = [originals EXCEPT ![d] = {}]
      /\ UNCHANGED <<marker, file, backups, session, refs, detached>>
  BY DEF Profiles!ClearStorage, Profiles!disk, Profiles!TypeOK
<1>2. /\ cleared \in Profiles!ProfileState /\ cleared.handles = profiles[t].handles
      /\ cleared.restored = profiles[t].restored
  <2>1. profiles[t] \in Profiles!ProfileState
    BY <1>1 DEF Profiles!TypeOK
  <2> QED
    BY <2>1 DEF Profiles!ProfileState
<1>3. Profiles!TypeOK'
  <2>1. /\ store' \in [Tokens -> Contents] /\ profiles' \in [Tokens -> Profiles!ProfileState]
        /\ originals' \in [Dirs -> SUBSET ({Torn} \cup Profiles!Snapshots)]
    BY <1>1, <1>2 DEF Profiles!TypeOK
  <2>2. \A s \in Tokens : profiles'[s].handles = profiles[s].handles
    BY <1>1, <1>2 DEF Profiles!TypeOK
  <2> QED
    BY <1>1, <2>1, <2>2 DEF Profiles!TypeOK
<1>4. Profiles!OriginalsSurvive' /\ Profiles!OneDirectoryPerIdentity' /\ TokensAreBound'
  BY <1>1 DEF Profiles!OriginalsSurvive, Profiles!OneDirectoryPerIdentity, TokensAreBound,
              Profiles!TypeOK
<1>5. OpenIsRestored'
  <2>1. profiles[t].handles # {}
    BY <1>1 DEF Profiles!TypeOK
  <2> QED
    BY <1>1, <1>2, <2>1 DEF OpenIsRestored, Profiles!TypeOK
<1>6. \A e \in Dirs : OnlyCopy(e)' => OnlyCopy(e) /\ e # d
  BY <1>1 DEF OnlyCopy, Profiles!TypeOK
<1>7. OutsidersAreForeign'
  BY <1>1, <1>6 DEF OutsidersAreForeign, Profiles!Own, Profiles!BoundHere, Profiles!IsMarker,
                    Profiles!IsSnapshot
<1>8. OutsidersAreKept'
  <2> SUFFICES ASSUME NEW g \in Handles, session[g] # None, Profiles!HasIdentity(g)',
                      OnlyCopy(session[g].dir)'
               PROVE  LET p == profiles'[session[g].id]
                      IN  ~p.safe \/ (p.needs_backup /\ ~p.backup_complete)
    BY <1>1 DEF OutsidersAreKept
  <2>1. session[g].dir \in Dirs /\ session[g].id \in Tokens
    BY DEF Profiles!TypeOK
  <2>2. session[g].id # t
    BY <1>1, <1>6, <2>1 DEF Profiles!OneDirectoryPerIdentity, OnlyCopy
  <2>3. Profiles!HasIdentity(g)
    BY <1>1 DEF Profiles!HasIdentity, Profiles!BoundHere, Profiles!IsMarker
  <2>4. profiles'[session[g].id] = profiles[session[g].id]
    BY <1>1, <2>1, <2>2 DEF Profiles!TypeOK
  <2>5. OnlyCopy(session[g].dir)
    BY <1>1, <1>6, <2>1 DEF OnlyCopy
  <2> QED
    BY <2>3, <2>4, <2>5 DEF OutsidersAreKept
<1> QED
  BY <1>3, <1>4, <1>5, <1>7, <1>8

------------------------------------------------------------------------------
(* A flush leaves the handles as they are; what it keeps, and what it has  *)
(* to keep yet, is told by FlushKeepsOriginals.                            *)
LEMMA FlushToDiskKeeps ==
  ASSUME ProfilesInv, NEW h \in Handles, Profiles!FlushToDisk(h)
  PROVE  ProfilesInv'
<1> USE DEF ProfilesInv, Profiles!ProfilesAreSafe
<1> DEFINE t == session[h].id
           d == session[h].dir
<1>1. PICK o \in Profiles!FlushOutcomes(h) :
        /\ Profiles!FlushOutcome(h, o)
        /\ profiles' = [profiles EXCEPT ![t] = o.profile]
  BY DEF Profiles!FlushToDisk
<1>2. /\ session[h] # None /\ t \in Tokens /\ d \in Dirs
      /\ UNCHANGED <<marker, store, session, refs, detached, originals>>
  BY DEF Profiles!FlushToDisk, Profiles!TypeOK
<1>3. /\ o.file \in {None, Torn} \cup Profiles!Snapshots
      /\ o.kept \in SUBSET ({Torn} \cup Profiles!Snapshots)
      /\ o.profile \in Profiles!ProfileState
      /\ o.profile.handles = profiles[t].handles /\ o.profile.restored = profiles[t].restored
  BY <1>2, OutcomeTypes
<1>4. /\ Profiles!OriginalsSurvive' /\ OutsidersAreForeign'
      /\ \A e \in Dirs : OnlyCopy(e)' =>
           OnlyCopy(e) /\ (e = d => o.profile = profiles[t])
  BY <1>1, <1>2, FlushKeepsOriginals
<1>5. Profiles!TypeOK'
  <2>1. /\ file' \in [Dirs -> {None, Torn} \cup Profiles!Snapshots]
        /\ backups' \in [Dirs -> SUBSET ({Torn} \cup Profiles!Snapshots)]
        /\ profiles' \in [Tokens -> Profiles!ProfileState]
    BY <1>1, <1>2, <1>3 DEF Profiles!FlushOutcome, Profiles!TypeOK
  <2>2. \A s \in Tokens : profiles'[s].handles = profiles[s].handles
    BY <1>1, <1>2, <1>3 DEF Profiles!TypeOK
  <2> QED
    BY <1>2, <2>1, <2>2 DEF Profiles!TypeOK
<1>6. Profiles!OneDirectoryPerIdentity' /\ TokensAreBound'
  BY <1>2 DEF Profiles!OneDirectoryPerIdentity, TokensAreBound, Profiles!IsMarker
<1>7. OpenIsRestored'
  <2>1. profiles[t].handles # {}
    BY <1>2 DEF Profiles!TypeOK
  <2> QED
    BY <1>1, <1>3, <2>1 DEF OpenIsRestored, Profiles!TypeOK
<1>8. OutsidersAreKept'
  <2> SUFFICES ASSUME NEW g \in Handles, session[g] # None, Profiles!HasIdentity(g)',
                      OnlyCopy(session[g].dir)'
               PROVE  LET p == profiles'[session[g].id]
                      IN  ~p.safe \/ (p.needs_backup /\ ~p.backup_complete)
    BY <1>2 DEF OutsidersAreKept, OnlyCopy
  <2>1. session[g].dir \in Dirs /\ session[g].id \in Tokens
    BY DEF Profiles!TypeOK
  <2>2. OnlyCopy(session[g].dir) /\ (session[g].dir = d => o.profile = profiles[t])
    BY <1>2, <1>4, <2>1 DEF OnlyCopy
  <2>3. Profiles!HasIdentity(g)
    BY <1>2 DEF Profiles!HasIdentity, Profiles!BoundHere, Profiles!IsMarker
  <2>4. profiles'[session[g].id] = profiles[session[g].id]
    BY <1>1, <1>2, <2>1, <2>2 DEF Profiles!TypeOK, Profiles!OneDirectoryPerIdentity
  <2> QED
    BY <2>2, <2>3, <2>4 DEF OutsidersAreKept
<1> QED
  BY <1>4, <1>5, <1>6, <1>7, <1>8

(* The last flush of a handle; the profile goes with the last of them.     *)
LEMMA MaybeDeleteKeeps ==
  ASSUME ProfilesInv, NEW h \in Handles, session[h] # None, Profiles!MaybeDelete(h),
         refs' \in [Handles -> SUBSET Views], detached' \in [Handles -> BOOLEAN],
         \A g \in Handles : refs'[g] # {} => session[g] # None,
         UNCHANGED <<marker, store, originals>>
  PROVE  ProfilesInv'
<1> USE DEF ProfilesInv, Profiles!ProfilesAreSafe
<1> DEFINE t == session[h].id
           d == session[h].dir
<1>1. t \in Tokens /\ d \in Dirs /\ h \in profiles[t].handles
  BY DEF Profiles!TypeOK
<1>2. CASE ~Profiles!Deletable(h)
  <2>1. UNCHANGED <<file, backups, profiles, session>>
    BY <1>2 DEF Profiles!MaybeDelete
  <2>2. Profiles!TypeOK'
    BY <2>1 DEF Profiles!TypeOK
  <2>3. /\ Profiles!OriginalsSurvive' /\ Profiles!OneDirectoryPerIdentity' /\ TokensAreBound'
        /\ OpenIsRestored'
    BY <2>1 DEF Profiles!OriginalsSurvive, Profiles!OneDirectoryPerIdentity, TokensAreBound,
                OpenIsRestored
  <2>4. OutsidersAreForeign' /\ OutsidersAreKept'
    BY <2>1 DEF OutsidersAreForeign, OutsidersAreKept, OnlyCopy, Profiles!Own,
                Profiles!HasIdentity, Profiles!BoundHere, Profiles!IsMarker, Profiles!IsSnapshot
  <2> QED
    BY <2>2, <2>3, <2>4
<1>3. CASE Profiles!Deletable(h)
  <2>1. PICK o \in Profiles!FlushOutcomes(h) :
          /\ Profiles!FlushOutcome(h, o)
          /\ profiles' = [profiles EXCEPT
               ![t] = IF o.profile.handles = {h} THEN Profiles!NewProfile
                      ELSE [o.profile EXCEPT !.handles = @ \ {h}]]
          /\ session' = [session EXCEPT ![h] = None]
    BY <1>3 DEF Profiles!MaybeDelete
  <2>2. /\ o.file \in {None, Torn} \cup Profiles!Snapshots
        /\ o.kept \in SUBSET ({Torn} \cup Profiles!Snapshots)
        /\ o.profile \in Profiles!ProfileState
        /\ o.profile.handles = profiles[t].handles /\ o.profile.restored = profiles[t].restored
    BY OutcomeTypes
  <2>3. /\ Profiles!OriginalsSurvive' /\ OutsidersAreForeign'
        /\ \A e \in Dirs : OnlyCopy(e)' =>
             OnlyCopy(e) /\ (e = d => o.profile = profiles[t])
    BY <2>1, FlushKeepsOriginals
  <2>4. /\ session' \in [Handles -> {None} \cup [dir : Dirs, id : Tokens]]
        /\ session'[h] = None /\ \A g \in Handles \ {h} : session'[g] = session[g]
    BY <2>1 DEF Profiles!TypeOK
  <2>5. /\ \A s \in Tokens \ {t} : profiles'[s] = profiles[s]
        /\ profiles'[t].handles = profiles[t].handles \ {h}
        /\ profiles'[t] \in Profiles!ProfileState
        /\ profiles'[t].handles # {} =>
             /\ profiles'[t].restored = profiles[t].restored
             /\ profiles'[t].safe = o.profile.safe
             /\ profiles'[t].needs_backup = o.profile.needs_backup
             /\ profiles'[t].backup_complete = o.profile.backup_complete
        /\ profiles'[t].handles = {} => profiles'[t] = Profiles!NewProfile
    <3>1. CASE o.profile.handles = {h}
      BY <1>1, <2>1, <2>2, <3>1 DEF Profiles!TypeOK, Profiles!ProfileState, Profiles!NewProfile
    <3>2. CASE o.profile.handles # {h}
      <4>1. /\ [o.profile EXCEPT !.handles = @ \ {h}] \in Profiles!ProfileState
            /\ o.profile.handles \ {h} # {}
        BY <1>1, <2>2, <3>2 DEF Profiles!ProfileState
      <4> QED
        BY <1>1, <2>1, <2>2, <3>2, <4>1 DEF Profiles!TypeOK, Profiles!ProfileState
    <3> QED
      BY <3>1, <3>2
  <2>6. Profiles!TypeOK'
    <3>1. /\ file' \in [Dirs -> {None, Torn} \cup Profiles!Snapshots]
          /\ backups' \in [Dirs -> SUBSET ({Torn} \cup Profiles!Snapshots)]
      BY <1>1, <2>1, <2>2 DEF Profiles!FlushOutcome, Profiles!TypeOK
    <3>2. profiles' \in [Tokens -> Profiles!ProfileState]
      BY <2>1, <2>5 DEF Profiles!TypeOK
    <3>3. \A s \in Tokens :
            profiles'[s].handles = {g \in Handles : session'[g] # None /\ session'[g].id = s}
      <4> TAKE s \in Tokens
      <4>1. profiles[s].handles = {g \in Handles : session[g] # None /\ session[g].id = s}
        BY DEF Profiles!TypeOK
      <4>2. CASE s = t
        BY <2>4, <2>5, <4>1, <4>2
      <4>3. CASE s # t
        <5>1. profiles'[s] = profiles[s] /\ h \notin profiles[s].handles
          BY <2>5, <4>1, <4>3
        <5> QED
          BY <2>4, <4>1, <4>3, <5>1
      <4> QED
        BY <4>2, <4>3
    <3>4. \A g \in Handles : refs'[g] # {} => session'[g] # None
      BY <1>3, <2>4 DEF Profiles!Deletable
    <3> QED
      BY <2>4, <3>1, <3>2, <3>3, <3>4 DEF Profiles!TypeOK
  <2>7. Profiles!OneDirectoryPerIdentity' /\ TokensAreBound'
    BY <2>4 DEF Profiles!OneDirectoryPerIdentity, TokensAreBound, Profiles!IsMarker
  <2>8. OpenIsRestored'
    <3>1. profiles[t].restored
      BY <1>1 DEF OpenIsRestored
    <3> QED
      BY <2>5, <3>1 DEF OpenIsRestored, Profiles!NewProfile
  <2>9. OutsidersAreKept'
    <3> SUFFICES ASSUME NEW g \in Handles, session'[g] # None, Profiles!HasIdentity(g)',
                        OnlyCopy(session[g].dir)'
                 PROVE  LET p == profiles'[session'[g].id]
                        IN  ~p.safe \/ (p.needs_backup /\ ~p.backup_complete)
      BY DEF OutsidersAreKept, OnlyCopy
    <3>1. /\ g # h /\ session'[g] = session[g] /\ session[g] # None
          /\ session[g].dir \in Dirs /\ session[g].id \in Tokens
      BY <2>4 DEF Profiles!TypeOK
    <3>2. OnlyCopy(session[g].dir) /\ (session[g].dir = d => o.profile = profiles[t])
      BY <2>3, <3>1 DEF OnlyCopy
    <3>3. Profiles!HasIdentity(g)
      BY <3>1 DEF Profiles!HasIdentity, Profiles!BoundHere, Profiles!IsMarker
    <3>4. CASE session[g].id = t
      <4>1. o.profile = profiles[t]
        BY <3>1, <3>2, <3>4 DEF Profiles!OneDirectoryPerIdentity
      <4>2. profiles'[t].handles # {}
        BY <2>6, <3>1, <3>4 DEF Profiles!TypeOK
      <4> QED
        BY <2>5, <3>1, <3>2, <3>3, <3>4, <4>1, <4>2 DEF OutsidersAreKept
    <3>5. CASE session[g].id # t
      BY <2>5, <3>1, <3>2, <3>3, <3>5 DEF OutsidersAreKept
    <3> QED
      BY <3>4, <3>5
  <2> QED
    BY <2>3, <2>6, <2>7, <2>8, <2>9
<1> QED
  BY <1>2, <1>3

------------------------------------------------------------------------------
(* A view is bound to a handle that its owner still has.                   *)
LEMMA AddRefKeeps ==
  ASSUME ProfilesInv, NEW h \in Handles, NEW v \in Views, Profiles!AddRef(h, v)
  PROVE  ProfilesInv'
<1> USE DEF ProfilesInv, Profiles!ProfilesAreSafe, Profiles!AddRef, Profiles!disk
<1>1. Profiles!TypeOK'
  BY DEF Profiles!TypeOK
<1>2. /\ Profiles!OriginalsSurvive' /\ Profiles!OneDirectoryPerIdentity' /\ TokensAreBound'
      /\ OpenIsRestored'
  BY DEF Profiles!OriginalsSurvive, Profiles!OneDirectoryPerIdentity, TokensAreBound, OpenIsRestored
<1>3. OutsidersAreForeign' /\ OutsidersAreKept'
  BY DEF OutsidersAreForeign, OutsidersAreKept, OnlyCopy, Profiles!Own, Profiles!HasIdentity,
         Profiles!BoundHere, Profiles!IsMarker, Profiles!IsSnapshot
<1> QED
  BY <1>1, <1>2, <1>3

(* A directory that is copied or renamed brings what it has; its snapshot  *)
(* is an outsider where the marker does not say otherwise, and nobody has  *)
(* the new directory open.                                                 *)
LEMMA ArrivalKeeps ==
  ASSUME ProfilesInv, NEW d \in Dirs, NEW e \in Dirs,
         Profiles!Copy(d, e) \/ Profiles!Rename(d, e)
  PROVE  ProfilesInv'
<1> USE DEF ProfilesInv, Profiles!ProfilesAreSafe
<1>1. /\ d # e /\ \A h \in Handles : session[h] # None => session[h].dir # e
      /\ UNCHANGED <<store, profiles, session, refs, detached>>
  BY DEF Profiles!Copy, Profiles!Rename, Profiles!Arrives
<1>2. /\ marker'[e] = marker[d] /\ file'[e] = file[d] /\ backups'[e] = backups[d]
      /\ originals'[e] = Profiles!Brought(d, e)
      /\ \A x \in Dirs \ {d, e} :
           /\ marker'[x] = marker[x] /\ file'[x] = file[x] /\ backups'[x] = backups[x]
           /\ originals'[x] = originals[x]
      /\ \/ /\ marker'[d] = marker[d] /\ file'[d] = file[d] /\ backups'[d] = backups[d]
            /\ originals'[d] = originals[d]
         \/ marker'[d] = None /\ originals'[d] = {}
  BY <1>1 DEF Profiles!Copy, Profiles!Rename, Profiles!TypeOK
<1>3. Profiles!TypeOK'
  <2>1. Profiles!Brought(d, e) \in SUBSET ({Torn} \cup Profiles!Snapshots)
    BY DEF Profiles!Brought, Profiles!TypeOK
  <2>2. /\ marker' \in [Dirs -> {None, Torn} \cup Profiles!Markers]
        /\ file' \in [Dirs -> {None, Torn} \cup Profiles!Snapshots]
        /\ backups' \in [Dirs -> SUBSET ({Torn} \cup Profiles!Snapshots)]
        /\ originals' \in [Dirs -> SUBSET ({Torn} \cup Profiles!Snapshots)]
    <3>1. CASE Profiles!Copy(d, e)
      BY <2>1, <3>1 DEF Profiles!Copy, Profiles!TypeOK
    <3>2. CASE Profiles!Rename(d, e)
      BY <2>1, <3>2 DEF Profiles!Rename, Profiles!TypeOK
    <3> QED
      BY <3>1, <3>2
  <2> QED
    BY <1>1, <2>2 DEF Profiles!TypeOK
<1>4. Profiles!OriginalsSurvive'
  <2>1. Profiles!Brought(d, e) \subseteq backups[d] \cup {file[d]}
    BY DEF Profiles!Brought, Profiles!OriginalsSurvive
  <2> QED
    BY <1>2, <2>1 DEF Profiles!OriginalsSurvive
<1>5. Profiles!OneDirectoryPerIdentity' /\ OpenIsRestored'
  BY <1>1 DEF Profiles!OneDirectoryPerIdentity, OpenIsRestored
<1>6. TokensAreBound'
  <2>1. \A x \in Dirs : Profiles!IsMarker(marker'[x]) => \E y \in Dirs : marker'[x] = marker[y]
    BY <1>2 DEF Profiles!IsMarker
  <2> QED
    BY <1>1, <2>1 DEF TokensAreBound
<1>7. OutsidersAreForeign'
  <2>1. ASSUME OnlyCopy(e)' PROVE ~Profiles!Own(e, e)'
    <3>1. ~Profiles!Own(d, e)
      BY <1>2, <2>1 DEF OnlyCopy, Profiles!Brought
    <3> QED
      BY <1>2, <3>1 DEF Profiles!Own
  <2>2. \A x \in Dirs \ {e} : OnlyCopy(x)' =>
          OnlyCopy(x) /\ marker'[x] = marker[x] /\ file'[x] = file[x]
    BY <1>2 DEF OnlyCopy
  <2> QED
    BY <2>1, <2>2 DEF OutsidersAreForeign, Profiles!Own
<1>8. OutsidersAreKept'
  <2> SUFFICES ASSUME NEW g \in Handles, session[g] # None, Profiles!HasIdentity(g)',
                      OnlyCopy(session[g].dir)'
               PROVE  LET p == profiles[session[g].id]
                      IN  ~p.safe \/ (p.needs_backup /\ ~p.backup_complete)
    BY <1>1 DEF OutsidersAreKept, OnlyCopy
  <2>1. session[g].dir \in Dirs \ {e}
    BY <1>1 DEF Profiles!TypeOK
  <2>2. /\ marker'[session[g].dir] = marker[session[g].dir]
        /\ OnlyCopy(session[g].dir)
    BY <1>1, <1>2, <2>1 DEF OnlyCopy
  <2> QED
    BY <1>1, <2>2 DEF OutsidersAreKept, Profiles!HasIdentity
<1> QED
  BY <1>3, <1>4, <1>5, <1>6, <1>7, <1>8

(* Nobody has anything open after a crash, and the disk is as it was.      *)
LEMMA CrashKeeps ==
  ASSUME ProfilesInv, Profiles!Crash
  PROVE  ProfilesInv'
<1> USE DEF ProfilesInv, Profiles!ProfilesAreSafe, Profiles!Crash, Profiles!disk
<1>1. Profiles!NewProfile \in Profiles!ProfileState
  BY DEF Profiles!NewProfile, Profiles!ProfileState
<1>2. Profiles!TypeOK'
  <2>1. \A s \in Tokens :
          profiles'[s].handles = {h \in Handles : session'[h] # None /\ session'[h].id = s}
    BY DEF Profiles!NewProfile
  <2> QED
    BY <1>1, <2>1 DEF Profiles!TypeOK
<1>3. /\ Profiles!OriginalsSurvive' /\ Profiles!OneDirectoryPerIdentity' /\ TokensAreBound'
      /\ OpenIsRestored'
  BY DEF Profiles!OriginalsSurvive, Profiles!OneDirectoryPerIdentity, TokensAreBound,
         OpenIsRestored, Profiles!IsMarker, Profiles!NewProfile
<1>4. OutsidersAreForeign' /\ OutsidersAreKept'
  BY DEF OutsidersAreForeign, OutsidersAreKept, OnlyCopy, Profiles!Own,
         Profiles!BoundHere, Profiles!IsMarker, Profiles!IsSnapshot
<1> QED
  BY <1>2, <1>3, <1>4

(* Every step of a profile keeps the invariant.                            *)
LEMMA ProfilesInvNext == ProfilesInv /\ Profiles!Next => ProfilesInv'
<1> SUFFICES ASSUME ProfilesInv, Profiles!Next PROVE ProfilesInv'
  OBVIOUS
<1>1. ASSUME NEW h \in Handles, NEW d \in Dirs, NEW t \in Tokens, Profiles!Create(h, d, t)
      PROVE  ProfilesInv'
  BY <1>1, CreateKeeps
<1>2. ASSUME NEW h \in Handles, NEW v \in Contents, Profiles!Write(h, v) PROVE ProfilesInv'
  BY <1>2, WriteKeeps
<1>3. ASSUME NEW h \in Handles, Profiles!ClearStorage(h) PROVE ProfilesInv'
  BY <1>3, ClearStorageKeeps
<1>4. ASSUME NEW h \in Handles, Profiles!FlushToDisk(h) PROVE ProfilesInv'
  BY <1>4, FlushToDiskKeeps
<1>5. ASSUME NEW h \in Handles, Profiles!Detach(h) PROVE ProfilesInv'
  <2>1. /\ session[h] # None /\ detached' \in [Handles -> BOOLEAN]
        /\ refs' \in [Handles -> SUBSET Views]
        /\ \A g \in Handles : refs'[g] # {} => session[g] # None
    BY <1>5 DEF Profiles!Detach, ProfilesInv, Profiles!ProfilesAreSafe, Profiles!TypeOK
  <2> QED
    BY <1>5, <2>1, MaybeDeleteKeeps DEF Profiles!Detach
<1>6. ASSUME NEW h \in Handles, NEW v \in Views, Profiles!AddRef(h, v) PROVE ProfilesInv'
  BY <1>6, AddRefKeeps
<1>7. ASSUME NEW h \in Handles, NEW v \in Views, Profiles!Release(h, v) PROVE ProfilesInv'
  <2>1. /\ session[h] # None /\ detached' \in [Handles -> BOOLEAN]
        /\ refs' \in [Handles -> SUBSET Views]
        /\ \A g \in Handles : refs'[g] # {} => session[g] # None
    BY <1>7 DEF Profiles!Release, ProfilesInv, Profiles!ProfilesAreSafe, Profiles!TypeOK
  <2> QED
    BY <1>7, <2>1, MaybeDeleteKeeps DEF Profiles!Release
<1>8. ASSUME NEW d \in Dirs, NEW e \in Dirs, Profiles!Copy(d, e) \/ Profiles!Rename(d, e)
      PROVE  ProfilesInv'
  BY <1>8, ArrivalKeeps
<1>9. CASE Profiles!Crash
  BY <1>9, CrashKeeps
<1> QED
  BY <1>1, <1>2, <1>3, <1>4, <1>5, <1>6, <1>7, <1>8, <1>9 DEF Profiles!Next

(* Steps of the other module, and of neither, leave the profiles alone.    *)
LEMMA ProfilesInvSame == ProfilesInv /\ UNCHANGED profileVars => ProfilesInv'
<1> SUFFICES ASSUME ProfilesInv, UNCHANGED profileVars PROVE ProfilesInv'
  OBVIOUS
<1> USE DEF ProfilesInv, Profiles!ProfilesAreSafe, profileVars
<1>1. Profiles!TypeOK'
  BY DEF Profiles!TypeOK
<1>2. /\ Profiles!OriginalsSurvive' /\ Profiles!OneDirectoryPerIdentity' /\ TokensAreBound'
      /\ OpenIsRestored'
  BY DEF Profiles!OriginalsSurvive, Profiles!OneDirectoryPerIdentity, TokensAreBound, OpenIsRestored
<1>3. OutsidersAreForeign' /\ OutsidersAreKept'
  BY DEF OutsidersAreForeign, OutsidersAreKept, OnlyCopy, Profiles!Own, Profiles!HasIdentity,
         Profiles!BoundHere, Profiles!IsMarker, Profiles!IsSnapshot
<1> QED
  BY <1>1, <1>2, <1>3

LEMMA SumKeepsProfilesInv == SumSpec => []ProfilesInv
<1>1. SumInit => ProfilesInv
  BY ProfilesInvInit DEF SumInit
<1>2. ProfilesInv /\ [SumNext]_<<vars, profileVars, which>> => ProfilesInv'
  BY ProfilesInvNext, ProfilesInvSame DEF SumNext
<1> QED
  BY <1>1, <1>2, PTL DEF SumSpec

(* However often a profile is opened, flushed with success or half way,    *)
(* crashed, copied and renamed: a snapshot that came from outside is still *)
(* in its directory until the profile is cleared, and handles of one       *)
(* identity are open on one directory.                                     *)
THEOREM ProfilesSafe == SumSpec => []ProfilesAreSafe
  BY SumKeepsProfilesInv, PTL DEF ProfilesInv, ProfilesAreSafe

(* What is written into a directory is saved under the identity that is    *)
(* found there.                                                            *)
LEMMA SavesUnderIdentity ==
  ASSUME ProfilesInv, Profiles!Next
  PROVE  Profiles!SavedUnderItsIdentity
<1> USE DEF ProfilesInv, Profiles!ProfilesAreSafe
<1> SUFFICES ASSUME NEW d \in Dirs, marker[d] # None, file'[d] # file[d],
                    Profiles!IsSnapshot(file'[d])
             PROVE  Profiles!BoundHere(marker[d], d) /\ file'[d].scope = marker[d].token
  BY DEF Profiles!SavedUnderItsIdentity
<1>1. ASSUME NEW h \in Handles, session[h] # None,
             NEW o \in Profiles!FlushOutcomes(h), Profiles!FlushOutcome(h, o)
      PROVE  Profiles!BoundHere(marker[d], d) /\ file'[d].scope = marker[d].token
  <2>1. d = session[h].dir /\ file'[d] = o.file
    BY <1>1 DEF Profiles!FlushOutcome, Profiles!TypeOK
  <2> QED
    BY <1>1, <2>1, OutcomeAllowed DEF Profiles!HasIdentity
<1>2. ASSUME NEW h \in Handles, session[h] # None, Profiles!MaybeDelete(h)
      PROVE  Profiles!BoundHere(marker[d], d) /\ file'[d].scope = marker[d].token
  BY <1>1, <1>2 DEF Profiles!MaybeDelete
<1>3. ASSUME NEW a \in Dirs, NEW e \in Dirs, Profiles!Copy(a, e) \/ Profiles!Rename(a, e)
      PROVE  FALSE
  BY <1>3 DEF Profiles!Copy, Profiles!Rename, Profiles!Arrives, Profiles!TypeOK, Profiles!IsSnapshot
<1>4. ASSUME NEW h \in Handles, Profiles!FlushToDisk(h)
      PROVE  Profiles!BoundHere(marker[d], d) /\ file'[d].scope = marker[d].token
  BY <1>1, <1>4 DEF Profiles!FlushToDisk
<1>5. ASSUME NEW h \in Handles, NEW v \in Views, Profiles!Release(h, v)
      PROVE  Profiles!BoundHere(marker[d], d) /\ file'[d].scope = marker[d].token
  <2>1. session[h] # None
    BY <1>5 DEF Profiles!Release, Profiles!TypeOK
  <2> QED
    BY <1>2, <1>5, <2>1 DEF Profiles!Release
<1>6. ASSUME NEW h \in Handles, Profiles!Detach(h)
      PROVE  Profiles!BoundHere(marker[d], d) /\ file'[d].scope = marker[d].token
  BY <1>2, <1>6 DEF Profiles!Detach
<1>7. ASSUME \/ \E h \in Handles :
                  \/ \E e \in Dirs, t \in Tokens : Profiles!Create(h, e, t)
                  \/ \E v \in Contents : Profiles!Write(h, v)
                  \/ Profiles!ClearStorage(h)
                  \/ \E v \in Views : Profiles!AddRef(h, v)
             \/ Profiles!Crash
      PROVE  FALSE
  BY <1>7 DEF Profiles!Create, Profiles!Write, Profiles!ClearStorage, Profiles!AddRef,
              Profiles!Crash, Profiles!disk
<1> QED
  BY <1>3, <1>4, <1>5, <1>6, <1>7 DEF Profiles!Next

(* Memory and disk meet under one identity, and only when they should: a   *)
(* profile that is open already is not loaded again.                       *)
THEOREM ProfilesKept == SumSpec => ProfilesKeepTheirOwn
<1>1. ASSUME ProfilesInv, [SumNext]_<<vars, profileVars, which>>
      PROVE  [Profiles!SavedUnderItsIdentity /\ Profiles!OpenProfileIsNotReloaded]_profileVars
  <2>1. CASE Profiles!Next
    <3>1. ASSUME NEW h \in Handles, NEW d \in Dirs, NEW t \in Tokens,
                 Profiles!Create(h, d, t), profiles[t].handles # {}
          PROVE  UNCHANGED store
      BY <1>1, <3>1 DEF ProfilesInv, OpenIsRestored, Profiles!Create, Profiles!Restores
    <3> QED
      BY <1>1, <2>1, <3>1, SavesUnderIdentity DEF Profiles!OpenProfileIsNotReloaded
  <2>2. CASE UNCHANGED profileVars
    BY <2>2
  <2> QED
    BY <1>1, <2>1, <2>2 DEF SumNext
<1> QED
  BY <1>1, SumKeepsProfilesInv, PTL DEF SumSpec, ProfilesKeepTheirOwn
==============================================================================
