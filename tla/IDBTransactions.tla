--------------------------- MODULE IDBTransactions ---------------------------
(***************************************************************************)
(* Transactions on one in-memory IndexedDB database (MbIDBBackend in       *)
(* frame/mb_indexeddb.cc): open with or without a version upgrade, writes  *)
(* with lazy per-store rollback snapshots, commit, abort and connections   *)
(* that disappear.                                                         *)
(*                                                                         *)
(* Every handler runs to completion on the service thread, so each is one  *)
(* action.  A store's records, its indexes and its key generator are       *)
(* captured and restored together by the code; here they are one content.  *)
(* A store without an entry in `data' and one with an empty map answer     *)
(* every request alike and are both the empty content.                     *)
(***************************************************************************)
EXTENDS Integers

CONSTANTS
  Conns,          \* addresses an MbIDBDatabase may be allocated at
  TxnIds,         \* transaction ids Blink may hand out
  MaxStores,      \* object store ids are 1 .. MaxStores
  MaxVersion,     \* versions a page asks for are 1 .. MaxVersion
  Keys, Vals,
  NoVal,          \* "no record under this key"
  NotCaptured,    \* "this transaction has no snapshot of this store"
  NoTxn,          \* a null version_change_txn
  (* What the pages do; the backend itself forbids none of it.             *)
  ProcessWideIds, \* TRUE: an id is used once; FALSE: once per connection
  SerializedTxns, \* TRUE: no two running transactions share a store
  DropsActive     \* TRUE: a connection may vanish with transactions running

Stores   == 1 .. MaxStores
Txns     == Conns \X TxnIds
Content  == [Keys -> Vals \cup {NoVal}]
Metadata == [version : Nat, stores : SUBSET Stores, maxId : 0 .. MaxStores]

ASSUME ConstantsAssumption ==
  /\ MaxStores \in Nat \ {0}
  /\ MaxVersion \in Nat \ {0}
  /\ NoVal \notin Vals
  /\ NotCaptured \notin Content
  /\ NoTxn \notin Txns
  /\ {ProcessWideIds, SerializedTxns, DropsActive} \subseteq BOOLEAN

VARIABLES
  data,                  \* store -> records
  txn_snapshots,         \* transaction -> store -> content before its writes
  metadata,              \* current version and object stores
  pre_upgrade_metadata,  \* copy taken when an upgrade starts
  version_change_txn,    \* the upgrade the backend tracks, or NoTxn
  connection,            \* address -> state of the connection living there
  seen,                  \* connection -> stores its OpenSuccess listed
  phase,                 \* transaction -> where it is in its life
  kind,                  \* transaction -> "upgrade" or "readwrite"
  scope,                 \* transaction -> stores it was opened on
  upgradeBase            \* history: connection -> schema its upgrade began on

backend == <<data, txn_snapshots, metadata, pre_upgrade_metadata,
             version_change_txn>>
page    == <<connection, seen, phase, kind, scope>>
vars    == <<backend, page, upgradeBase>>

------------------------------------------------------------------------------
NoRecords   == [k \in Keys |-> NoVal]
NoSnapshot  == [s \in Stores |-> NotCaptured]
NewDatabase == [version |-> 0, stores |-> {}, maxId |-> 0]

(* What a snapshot file may say of a database that had been opened.        *)
StoredDatabases ==
  {m \in [version : 1 .. MaxVersion, stores : SUBSET Stores, maxId : 0 .. MaxStores] :
     m.stores \subseteq 1 .. m.maxId}

Active(x)   == phase[x] = "active"
Captured(x) == {s \in Stores : txn_snapshots[x][s] # NotCaptured}

(* An id Blink may give to the next transaction of connection c.           *)
Unused(c, i) ==
  /\ phase[<<c, i>>] = "unused"
  /\ ProcessWideIds => \A d \in Conns : phase[<<d, i>>] = "unused"

(* The scheduling IndexedDB prescribes.  Neither CreateTransaction nor     *)
(* Open looks at scopes, so it is a condition on the pages.                *)
MayStart(stores) ==
  SerializedTxns => \A y \in Txns : Active(y) => scope[y] \cap stores = {}

(* Mutants: capture every store, as one snapshot of the whole backend did; *)
(* capture again at each write.                                            *)
EnsureWholeSnapshot(x, s) ==
  txn_snapshots' = [txn_snapshots EXCEPT ![x] = IF @ = NoSnapshot THEN data ELSE @]
EnsureLatestSnapshot(x, s) ==
  txn_snapshots' = [txn_snapshots EXCEPT ![x][s] = data[s]]

EnsureSnapshot(x, s) ==
  txn_snapshots' =
    [txn_snapshots EXCEPT ![x][s] = IF @ = NotCaptured THEN data[s] ELSE @]

(* Mutant: restore without looking at which stores were captured.          *)
RolledBackUnchecked(x) == [s \in Stores |-> txn_snapshots[x][s]]

(* What RollbackSnapshot leaves in each store.                             *)
RolledBack(x) ==
  [s \in Stores |->
     IF s \in Captured(x) THEN txn_snapshots[x][s] ELSE data[s]]

StartTxn(x, what, stores) ==
  /\ phase' = [phase EXCEPT ![x] = "active"]
  /\ kind'  = [kind  EXCEPT ![x] = what]
  /\ scope' = [scope EXCEPT ![x] = stores]

(* The transactions in X are over; their ids become `life'.                *)
EndTxns(X, life) ==
  /\ phase' = [x \in Txns |-> IF x \in X THEN life ELSE phase[x]]
  /\ kind'  = [x \in Txns |-> IF x \in X THEN "readwrite" ELSE kind[x]]
  /\ scope' = [x \in Txns |-> IF x \in X THEN {} ELSE scope[x]]
  /\ upgradeBase' = [c \in Conns |->
       IF \E x \in X : x[1] = c /\ kind[x] = "upgrade"
         THEN NewDatabase ELSE upgradeBase[c]]

------------------------------------------------------------------------------
Init ==
  /\ metadata \in {NewDatabase} \cup StoredDatabases
  /\ data \in [Stores -> Content]
  /\ \A s \in Stores \ metadata.stores : data[s] = NoRecords
  /\ txn_snapshots = [x \in Txns |-> NoSnapshot]
  /\ pre_upgrade_metadata = NewDatabase
  /\ version_change_txn = NoTxn
  /\ connection = [c \in Conns |-> "none"]
  /\ seen = [c \in Conns |-> {}]
  /\ phase = [x \in Txns |-> "unused"]
  /\ kind  = [x \in Txns |-> "readwrite"]
  /\ scope = [x \in Txns |-> {}]
  /\ upgradeBase = [c \in Conns |-> NewDatabase]

(* The version open(name, v) resolves to; v = 0 is open(name).             *)
EffectiveVersion(v) ==
  IF v # 0 THEN v
  ELSE IF metadata.version = 0 THEN 1 ELSE metadata.version

(* Open, version below the current one: VersionError.  The MbIDBDatabase   *)
(* has been built and lives until its dropped remote disconnects.          *)
OpenRejected(c, v) ==
  /\ connection[c] = "none"
  /\ v # 0 /\ v < metadata.version
  /\ connection' = [connection EXCEPT ![c] = "refused"]
  /\ UNCHANGED <<backend, seen, phase, kind, scope, upgradeBase>>

(* Open at the current version: OpenSuccess at once.                       *)
OpenCurrent(c, v) ==
  /\ connection[c] = "none"
  /\ EffectiveVersion(v) = metadata.version
  /\ connection' = [connection EXCEPT ![c] = "open"]
  /\ seen' = [seen EXCEPT ![c] = metadata.stores]
  /\ UNCHANGED <<backend, phase, kind, scope, upgradeBase>>

(* Open at a higher version: save the schema, bump the version, track the  *)
(* version-change transaction, send upgradeneeded.                         *)
OpenUpgrade(c, v, i) ==
  /\ connection[c] = "none"
  /\ EffectiveVersion(v) > metadata.version
  /\ Unused(c, i)
  /\ MayStart(Stores)
  /\ pre_upgrade_metadata' = metadata
  /\ metadata' = [metadata EXCEPT !.version = EffectiveVersion(v)]
  /\ version_change_txn' = <<c, i>>
  /\ connection' = [connection EXCEPT ![c] = "upgrading"]
  /\ StartTxn(<<c, i>>, "upgrade", Stores)
  /\ upgradeBase' = [upgradeBase EXCEPT ![c] = metadata]
  /\ UNCHANGED <<data, txn_snapshots, seen>>

(* CreateTransaction.  Blink passes ids of stores the connection was told  *)
(* of; another connection may have deleted them since.                     *)
CreateTransaction(c, i, stores) ==
  /\ connection[c] = "open"
  /\ Unused(c, i)
  /\ stores \subseteq seen[c]
  /\ MayStart(stores)
  /\ StartTxn(<<c, i>>, "readwrite", stores)
  /\ UNCHANGED <<backend, connection, seen, upgradeBase>>

------------------------------------------------------------------------------
CreateObjectStore(x) ==
  /\ Active(x) /\ kind[x] = "upgrade"
  /\ metadata.maxId < MaxStores
  /\ LET s == metadata.maxId + 1 IN
       metadata' = [metadata EXCEPT !.stores = @ \cup {s}, !.maxId = s]
  /\ UNCHANGED <<data, txn_snapshots, pre_upgrade_metadata,
                 version_change_txn, page, upgradeBase>>

(* Whatever the request, the write arms the snapshot of the store first    *)
(* and replaces the keys in ks by what f says.                             *)
WriteRecords(x, s, ks, f) ==
  /\ EnsureSnapshot(x, s)
  /\ data' = [data EXCEPT ![s] = [k \in Keys |-> IF k \in ks THEN f[k] ELSE @[k]]]

DeleteObjectStore(x, s) ==
  /\ Active(x) /\ kind[x] = "upgrade"
  /\ s \in metadata.stores
  /\ WriteRecords(x, s, Keys, NoRecords)
  /\ metadata' = [metadata EXCEPT !.stores = @ \ {s}]
  /\ UNCHANGED <<pre_upgrade_metadata, version_change_txn, page, upgradeBase>>

MayWrite(x, s) ==
  /\ Active(x)
  /\ s \in scope[x]
  /\ kind[x] = "upgrade" => s \in metadata.stores

(* Put in AddOrUpdate mode, and add() of a key that is not there.          *)
Put(x, s, k, v) ==
  /\ MayWrite(x, s)
  /\ WriteRecords(x, s, {k}, [j \in Keys |-> v])
  /\ UNCHANGED <<metadata, pre_upgrade_metadata, version_change_txn, page,
                 upgradeBase>>

(* add() of a key that is there: ConstraintError, after EnsureSnapshot.    *)
AddRejected(x, s, k) ==
  /\ MayWrite(x, s)
  /\ data[s][k] # NoVal
  /\ EnsureSnapshot(x, s)
  /\ UNCHANGED <<data, metadata, pre_upgrade_metadata, version_change_txn,
                 page, upgradeBase>>

(* delete(range); Clear is the range of all keys.                          *)
DeleteRange(x, s, ks) ==
  /\ MayWrite(x, s)
  /\ WriteRecords(x, s, ks, NoRecords)
  /\ UNCHANGED <<metadata, pre_upgrade_metadata, version_change_txn, page,
                 upgradeBase>>

------------------------------------------------------------------------------
(* Commit: DiscardSnapshot, forget the upgrade, Complete and OpenSuccess.  *)
Commit(x) ==
  /\ Active(x)
  /\ txn_snapshots' = [txn_snapshots EXCEPT ![x] = NoSnapshot]
  /\ version_change_txn' =
       IF version_change_txn = x THEN NoTxn ELSE version_change_txn
  /\ EndTxns({x}, "ended")
  /\ connection' = [connection EXCEPT ![x[1]] = "open"]
  /\ seen' = [seen EXCEPT ![x[1]] =
                IF kind[x] = "upgrade" THEN metadata.stores ELSE @]
  /\ UNCHANGED <<data, metadata, pre_upgrade_metadata>>

(* Mutant: the comparison inverted.                                        *)
IsOtherUpgrade(x) ==
  version_change_txn # NoTxn /\ version_change_txn[2] # x[2]

(* The backend recognises the upgrade being aborted by its id alone.       *)
IsTrackedUpgrade(x) ==
  version_change_txn # NoTxn /\ version_change_txn[2] = x[2]

(* Abort: RollbackSnapshot and, for the upgrade, the saved schema.  Blink  *)
(* closes the connection of an aborted upgrade.                            *)
Abort(x) ==
  /\ Active(x)
  /\ data' = RolledBack(x)
  /\ txn_snapshots' = [txn_snapshots EXCEPT ![x] = NoSnapshot]
  /\ IF IsTrackedUpgrade(x)
       THEN /\ metadata' = pre_upgrade_metadata
            /\ version_change_txn' = NoTxn
       ELSE UNCHANGED <<metadata, version_change_txn>>
  /\ EndTxns({x}, "ended")
  /\ connection' = [connection EXCEPT
       ![x[1]] = IF kind[x] = "upgrade" THEN "refused" ELSE @]
  /\ UNCHANGED <<pre_upgrade_metadata, seen>>

(* Mutant: no destructor.                                                  *)
UpgradeLeftDangling(c) == version_change_txn

(* The destructor of a transaction withdraws the backend's pointer to it.  *)
UpgradeAfterDestroying(c) ==
  IF version_change_txn # NoTxn /\ version_change_txn[1] = c
    THEN NoTxn ELSE version_change_txn

(* The pipes of connection c disconnect (page gone, handle closed): the    *)
(* database and its transactions are destroyed.  Nothing is rolled back    *)
(* and the snapshots stay behind, under an address that may be reused.     *)
Disconnect(c) ==
  /\ connection[c] # "none"
  /\ DropsActive \/ \A i \in TxnIds : ~Active(<<c, i>>)
  /\ connection' = [connection EXCEPT ![c] = "none"]
  /\ seen' = [seen EXCEPT ![c] = {}]
  /\ version_change_txn' = UpgradeAfterDestroying(c)
  /\ IF ProcessWideIds
       THEN EndTxns({x \in Txns : x[1] = c /\ Active(x)}, "ended")
       ELSE EndTxns({x \in Txns : x[1] = c}, "unused")
  /\ UNCHANGED <<data, txn_snapshots, metadata, pre_upgrade_metadata>>

------------------------------------------------------------------------------
Write(x) ==
  \E s \in Stores :
    \/ \E k \in Keys, v \in Vals : Put(x, s, k, v)
    \/ \E k \in Keys : AddRejected(x, s, k)
    \/ \E ks \in (SUBSET Keys) \ {{}} : DeleteRange(x, s, ks)

Upgrade(x) == CreateObjectStore(x) \/ \E s \in Stores : DeleteObjectStore(x, s)

Connect(c) ==
  \E v \in 0 .. MaxVersion :
    \/ OpenRejected(c, v)
    \/ OpenCurrent(c, v)
    \/ \E i \in TxnIds : OpenUpgrade(c, v, i)

Next ==
  \/ \E c \in Conns : Connect(c) \/ Disconnect(c)
  \/ \E c \in Conns, i \in TxnIds, stores \in (SUBSET Stores) \ {{}} :
       CreateTransaction(c, i, stores)
  \/ \E x \in Txns : Write(x) \/ Upgrade(x) \/ Commit(x) \/ Abort(x)

Spec == Init /\ [][Next]_vars

------------------------------------------------------------------------------
Lives == {"unused", "active", "ended"}

(* Types of the backend, of what the pages hold and of the history.        *)
TypeOK ==
  /\ data \in [Stores -> Content]
  /\ txn_snapshots \in [Txns -> [Stores -> Content \cup {NotCaptured}]]
  /\ metadata \in Metadata
  /\ pre_upgrade_metadata \in Metadata
  /\ version_change_txn \in Txns \cup {NoTxn}
  /\ connection \in [Conns -> {"none", "upgrading", "open", "refused"}]
  /\ seen \in [Conns -> SUBSET Stores]
  /\ phase \in [Txns -> Lives]
  /\ kind \in [Txns -> {"upgrade", "readwrite"}]
  /\ scope \in [Txns -> SUBSET Stores]
  /\ upgradeBase \in [Conns -> Metadata]

(* The upgrade the backend points at is a transaction object that exists:  *)
(* commit, abort and destruction all clear the pointer in time, however    *)
(* upgrades, aborts and disconnects of several connections interleave.     *)
TrackedUpgradeIsLive ==
  version_change_txn # NoTxn =>
    /\ Active(version_change_txn)
    /\ kind[version_change_txn] = "upgrade"

(* A running transaction's snapshots cover only stores it was opened on,   *)
(* and no store is covered by two of them.                                 *)
SnapshotsAreDisjoint ==
  \A x \in Txns : Active(x) =>
    /\ Captured(x) \subseteq scope[x]
    /\ \A y \in Txns \ {x} : Active(y) => Captured(x) \cap Captured(y) = {}

(* The comment in Abort: after an aborted upgrade "a later reopen sees the *)
(* OLD schema, not the half-built one", the schema this upgrade began on.  *)
AbortedUpgradeRestoresSchema ==
  [][\A c \in Conns :
       connection[c] = "upgrading" /\ connection'[c] = "refused" =>
         metadata' = upgradeBase[c]]_vars

(* The transaction whose snapshot holds the committed content of s.        *)
Holder(s) ==
  IF \E x \in Txns : Active(x) /\ s \in Captured(x)
    THEN CHOOSE x \in Txns : Active(x) /\ s \in Captured(x)
    ELSE NoTxn

committedData ==
  [s \in Stores |->
     IF Holder(s) = NoTxn THEN data[s] ELSE txn_snapshots[Holder(s)][s]]

Atomic == INSTANCE AtomicStores
  WITH visible <- data, committed <- committedData,
       owner <- [s \in Stores |-> Holder(s)]

(* When pages keep to the prescribed scheduling, the lazy per-store        *)
(* snapshots implement atomic transactions: a dropped transaction ends     *)
(* like a committed one, an aborted one leaves no trace.                   *)
ImplementsAtomicStores == Atomic!Spec
=============================================================================
