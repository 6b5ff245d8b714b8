---------------------------- MODULE IDBObjectStore ----------------------------
(***************************************************************************)
(* One object store of an MbIDBBackend (frame/mb_indexeddb.cc): records,   *)
(* secondary indexes and key generator, under transactions that run one at *)
(* a time, any of which may abort.                                         *)
(*                                                                         *)
(* A value is what its indexes see of it: index -> index keys, computed by *)
(* Blink and sent along with the value.  Blink also fills a new index: its *)
(* cursor reads the records one by one and each comes back as a            *)
(* SetIndexKeys, while the page may go on writing.                         *)
(***************************************************************************)
EXTENDS Integers

CONSTANTS
  PKeys,          \* primary keys, numbers
  IKeys,          \* index keys
  MaxIndexes,     \* index ids are 1 .. MaxIndexes
  UniqueIndexes,  \* those created with {unique: true}
  Vals,           \* values: [Indexes -> SUBSET IKeys]
  NoVal, NoEntry, NoKey, NotCaptured, Nothing,
  MaxExact        \* 2^53: beyond it not every integer is a double

Indexes == 1 .. MaxIndexes
Records == [PKeys -> Vals \cup {NoVal}]
Entries == [Indexes -> [IKeys -> {NoEntry} \cup SUBSET PKeys]]
Content == [records : Records, index_data : Entries, key_generator : Nat]

ASSUME ConstantsAssumption ==
  /\ PKeys \subseteq Nat \ {0}
  /\ MaxIndexes \in Nat
  /\ UniqueIndexes \subseteq Indexes
  /\ Vals \subseteq [Indexes -> SUBSET IKeys]
  /\ NoVal \notin Vals /\ NoKey \notin PKeys
  /\ \A ks \in SUBSET PKeys : ks # NoEntry
  /\ NotCaptured \notin Content
  /\ Nothing \notin PKeys \X Vals
  /\ MaxExact \in {4 * i : i \in 1 .. MaxExact}

VARIABLES
  auto_increment, \* whether the store was created with a key generator
  careful,        \* what the pages do, TRUE: while an index is being filled
                  \*   they neither write nor vanish, and unique indexes are
                  \*   created over unique data
  records,        \* data[store]
  index_data,     \* index -> index key -> primary keys; a set that became
                  \*   empty is still an entry
  key_generator,  \* next number, 0 before the first use
  indexes,        \* metadata: indexes that exist
  max_index_id,   \* metadata
  txn,            \* "none", "readwrite" or "upgrade"
  snapshot,       \* this store in the transaction's rollback snapshot
  pre_upgrade,    \* <<indexes, max_index_id>> in pre_upgrade_metadata
  toRead,         \* index -> records Blink's cursor has yet to read
  readOne,        \* index -> the record it read, until SetIndexKeys
  base            \* history: content and indexes when the transaction began

content == <<records, index_data, key_generator>>
filling == <<toRead, readOne>>
given   == <<auto_increment, careful>>
vars == <<given, content, indexes, max_index_id, txn, snapshot, pre_upgrade, filling,
          base>>

------------------------------------------------------------------------------
PKsOf(ix, i, e) == IF ix[i][e] = NoEntry THEN {} ELSE ix[i][e]
Entry(i, e)     == PKsOf(index_data, i, e)
Filled(i)       == toRead[i] = {} /\ readOne[i] = Nothing
Quiet           == careful => \A i \in Indexes : Filled(i)

NoIndexData == [i \in Indexes |-> [e \in IKeys |-> NoEntry]]
Now == <<[records |-> records, index_data |-> index_data,
          key_generator |-> key_generator], indexes>>

(* Mutant: the old entries stay.                                           *)
RemoveNothing(ix, ks) == ix

RemoveFromIndexes(ix, ks) ==
  [i \in Indexes |-> [e \in IKeys |->
     IF ix[i][e] = NoEntry THEN NoEntry ELSE ix[i][e] \ ks]]

AddToIndexes(ix, k, v, I) ==
  [i \in Indexes |-> [e \in IKeys |->
     IF i \in I /\ e \in v[i] THEN PKsOf(ix, i, e) \cup {k} ELSE ix[i][e]]]

EnsureSnapshot == snapshot' = IF snapshot = NotCaptured THEN Now[1] ELSE snapshot

(* The number a double holds for n: above 2^53 only every other integer.   *)
ToDouble(n) ==
  IF n <= MaxExact \/ n % 2 = 0 THEN n
  ELSE IF (n + 1) % 4 = 0 THEN n + 1 ELSE n - 1

NextNumber == IF key_generator < 1 THEN 1 ELSE key_generator

(* The key a Put uses, and the generator after it, stored or rejected.     *)
UsedKey(req) == IF req = NoKey THEN ToDouble(NextNumber) ELSE req

(* Mutant: an explicit key does not move the generator.                    *)
GeneratorUnmoved(req) ==
  IF auto_increment /\ req = NoKey THEN NextNumber + 1 ELSE key_generator

GeneratorAfter(req) ==
  IF ~auto_increment THEN key_generator
  ELSE IF req = NoKey THEN NextNumber + 1
  ELSE LET candidate == 1 + (IF req < MaxExact THEN req ELSE MaxExact) IN
         IF candidate > key_generator THEN candidate ELSE key_generator

(* Mutant: unique indexes are like the others.                             *)
NeverConflicts(k, v) == FALSE

(* "size() > 1 || !count(ekey)" for an index key that has an entry.        *)
UniqueConflict(k, v) ==
  \E i \in indexes \cap UniqueIndexes : \E e \in v[i] :
    index_data[i][e] # NoEntry /\ index_data[i][e] # {k}

KeyExists(k) == records[k] # NoVal

Init ==
  /\ auto_increment \in BOOLEAN
  /\ careful \in BOOLEAN
  /\ records = [k \in PKeys |-> NoVal]
  /\ index_data = NoIndexData
  /\ key_generator = 0
  /\ indexes = {} /\ max_index_id = 0
  /\ txn = "none"
  /\ snapshot = NotCaptured
  /\ pre_upgrade = <<{}, 0>>
  /\ toRead = [i \in Indexes |-> {}]
  /\ readOne = [i \in Indexes |-> Nothing]
  /\ base = Now

------------------------------------------------------------------------------
Begin(what) ==
  /\ txn = "none"
  /\ txn' = what
  /\ pre_upgrade' = IF what = "upgrade" THEN <<indexes, max_index_id>> ELSE pre_upgrade
  /\ base' = Now
  /\ UNCHANGED <<content, indexes, max_index_id, snapshot, filling>>

Writing == txn # "none" /\ Quiet

(* Put: arm the snapshot, move the generator, then check before storing.   *)
PutAttempt(req) ==
  /\ Writing
  /\ UsedKey(req) \in PKeys
  /\ req = NoKey => auto_increment
  /\ EnsureSnapshot
  /\ key_generator' = GeneratorAfter(req)
  /\ UNCHANGED <<indexes, max_index_id, txn, pre_upgrade, filling, base>>

PutStored(req, v, addOnly) ==
  LET k == UsedKey(req) IN
    /\ PutAttempt(req)
    /\ ~(addOnly /\ KeyExists(k)) /\ ~UniqueConflict(k, v)
    /\ records' = [records EXCEPT ![k] = v]
    /\ index_data' = AddToIndexes(RemoveFromIndexes(index_data, {k}), k, v, indexes)

(* add() of a key that is there.                                           *)
AddRejected(req) ==
  /\ PutAttempt(req)
  /\ KeyExists(UsedKey(req))
  /\ UNCHANGED <<records, index_data>>

UniqueRejected(req, v) ==
  /\ PutAttempt(req)
  /\ UniqueConflict(UsedKey(req), v)
  /\ UNCHANGED <<records, index_data>>

(* No key and no generator: DataError, with the snapshot armed.            *)
PutWithoutKey ==
  /\ Writing /\ ~auto_increment
  /\ EnsureSnapshot
  /\ UNCHANGED <<content, indexes, max_index_id, txn, pre_upgrade, filling, base>>

Put ==
  \/ \E req \in PKeys \cup {NoKey} :
       \/ \E v \in Vals :
            (\E addOnly \in BOOLEAN : PutStored(req, v, addOnly)) \/ UniqueRejected(req, v)
       \/ AddRejected(req)
  \/ PutWithoutKey

Erase(ks, ix) ==
  /\ Writing
  /\ EnsureSnapshot
  /\ records' = [k \in PKeys |-> IF k \in ks THEN NoVal ELSE records[k]]
  /\ index_data' = ix
  /\ UNCHANGED <<key_generator, indexes, max_index_id, txn, pre_upgrade, filling, base>>

(* delete() of a bounded range.                                            *)
DeleteRange(ks) == Erase(ks, RemoveFromIndexes(index_data, ks))

(* clear(), and delete() of an unbounded range.                            *)
Clear == Erase(PKeys, NoIndexData)

------------------------------------------------------------------------------
(* Metadata only; Blink's cursor then starts on the records of the store.  *)
Fits(i) ==
  \A k, l \in PKeys :
    k # l /\ KeyExists(k) /\ KeyExists(l) => records[k][i] \cap records[l][i] = {}

CreateIndex ==
  LET i == max_index_id + 1 IN
    /\ txn = "upgrade" /\ i \in Indexes
    /\ careful /\ i \in UniqueIndexes => Fits(i)
    /\ indexes' = indexes \cup {i}
    /\ max_index_id' = i
    /\ toRead' = [toRead EXCEPT ![i] = {k \in PKeys : KeyExists(k)}]
    /\ UNCHANGED <<content, txn, snapshot, pre_upgrade, readOne, base>>

(* External: the cursor skips a record deleted meanwhile.                  *)
CursorReads(i, k) ==
  /\ readOne[i] = Nothing
  /\ k \in toRead[i] /\ \A l \in toRead[i] : k <= l
  /\ toRead' = [toRead EXCEPT ![i] = @ \ {k}]
  /\ readOne' = [readOne EXCEPT ![i] = IF KeyExists(k) THEN <<k, records[k]>> ELSE @]
  /\ UNCHANGED <<content, indexes, max_index_id, txn, snapshot, pre_upgrade, base>>

(* Mutant: the snapshot is not armed.                                      *)
SetIndexKeysUnarmed(i) ==
  /\ readOne[i] # Nothing
  /\ index_data' = AddToIndexes(index_data, readOne[i][1], readOne[i][2], {i})
  /\ readOne' = [readOne EXCEPT ![i] = Nothing]
  /\ UNCHANGED <<records, key_generator, indexes, max_index_id, txn, snapshot,
                 pre_upgrade, toRead, base>>

SetIndexKeys(i) ==
  /\ readOne[i] # Nothing
  /\ EnsureSnapshot
  /\ index_data' = AddToIndexes(index_data, readOne[i][1], readOne[i][2], {i})
  /\ readOne' = [readOne EXCEPT ![i] = Nothing]
  /\ UNCHANGED <<records, key_generator, indexes, max_index_id, txn, pre_upgrade,
                 toRead, base>>

(* Mutant: the snapshot is not armed.                                      *)
DeleteIndexUnarmed(i) ==
  /\ txn = "upgrade" /\ Quiet /\ i \in indexes
  /\ indexes' = indexes \ {i}
  /\ index_data' = [index_data EXCEPT ![i] = NoIndexData[i]]
  /\ UNCHANGED <<records, key_generator, max_index_id, txn, snapshot, pre_upgrade,
                 filling, base>>

DeleteIndex(i) ==
  /\ txn = "upgrade" /\ Quiet /\ i \in indexes
  /\ EnsureSnapshot
  /\ indexes' = indexes \ {i}
  /\ index_data' = [index_data EXCEPT ![i] = NoIndexData[i]]
  /\ UNCHANGED <<records, key_generator, max_index_id, txn, pre_upgrade, filling, base>>

------------------------------------------------------------------------------
(* Mutant: the snapshot is not discarded.                                  *)
EndsUndiscarded ==
  /\ txn # "none"
  /\ txn' = "none"
  /\ toRead' = [i \in Indexes |-> {}]
  /\ readOne' = [i \in Indexes |-> Nothing]
  /\ UNCHANGED <<snapshot, pre_upgrade>>

(* The snapshot goes; that of a connection which vanished stays under a    *)
(* key (connection, id) no later transaction has, see IDBTransactions.     *)
Ends ==
  /\ txn # "none"
  /\ txn' = "none"
  /\ snapshot' = NotCaptured
  /\ toRead' = [i \in Indexes |-> {}]
  /\ readOne' = [i \in Indexes |-> Nothing]
  /\ UNCHANGED pre_upgrade

(* Blink commits once nothing is pending.                                  *)
Commit ==
  /\ Ends
  /\ \A i \in Indexes : Filled(i)
  /\ base' = Now
  /\ UNCHANGED <<content, indexes, max_index_id>>

RolledBack == IF snapshot = NotCaptured THEN Now[1] ELSE snapshot

Abort ==
  /\ Ends
  /\ records' = RolledBack.records
  /\ index_data' = RolledBack.index_data
  /\ key_generator' = RolledBack.key_generator
  /\ IF txn = "upgrade"
       THEN indexes' = pre_upgrade[1] /\ max_index_id' = pre_upgrade[2]
       ELSE UNCHANGED <<indexes, max_index_id>>
  /\ UNCHANGED base

(* The connection vanishes: whatever was done so far stays.                *)
Disconnect ==
  /\ Ends /\ Quiet
  /\ base' = Now
  /\ UNCHANGED <<content, indexes, max_index_id>>

Step ==
  \/ \E what \in {"readwrite", "upgrade"} : Begin(what)
  \/ Put
  \/ \E ks \in (SUBSET PKeys) \ {{}} : DeleteRange(ks)
  \/ Writing /\ Clear
  \/ CreateIndex
  \/ \E i \in Indexes :
       (\E k \in PKeys : CursorReads(i, k)) \/ SetIndexKeys(i) \/ DeleteIndex(i)
  \/ Commit \/ Abort \/ Disconnect

Next == Step /\ UNCHANGED given

Spec == Init /\ [][Next]_vars

------------------------------------------------------------------------------
(* Types; no index has an id above max_index_id, and no snapshot is found  *)
(* by a later transaction.                                                 *)
TypeOK ==
  /\ {auto_increment, careful} \subseteq BOOLEAN
  /\ records \in Records
  /\ index_data \in Entries
  /\ key_generator \in Nat
  /\ max_index_id \in 0 .. MaxIndexes
  /\ indexes \subseteq 1 .. max_index_id
  /\ txn \in {"none", "readwrite", "upgrade"}
  /\ snapshot \in {NotCaptured} \cup Content
  /\ txn = "none" => snapshot = NotCaptured
  /\ pre_upgrade \in (SUBSET Indexes) \X (0 .. MaxIndexes)
  /\ toRead \in [Indexes -> SUBSET PKeys]
  /\ readOne \in [Indexes -> (PKeys \X Vals) \cup {Nothing}]

(* An index that is not being filled lists exactly the records that have   *)
(* its keys, after any mix of puts, deletes, rejected puts, index creation *)
(* and aborts, while pages are careful.                                     *)
IndexesAgree ==
  careful => \A i \in indexes : Filled(i) =>
    \A e \in IKeys : Entry(i, e) = {k \in PKeys : KeyExists(k) /\ e \in records[k][i]}

(* What a careless page cannot break: an id no index has had yet, or     *)
(* whose index was undone by an abort, has no left-over entries.           *)
NewIndexesStartEmpty ==
  \A i \in Indexes : i > max_index_id => \A e \in IKeys : Entry(i, e) = {}

(* "Enforce unique-index constraints": two records never share a key of a  *)
(* unique index.                                                           *)
UniqueIndexesHold ==
  careful => \A i \in indexes \cap UniqueIndexes : \A e \in IKeys :
    Filled(i) => \A k, l \in Entry(i, e) : k = l

(* The store hangs together: types, and the three parts above.             *)
StoreIsSound == TypeOK /\ IndexesAgree /\ NewIndexesStartEmpty /\ UniqueIndexesHold

(* "reject if a unique index key already maps to a DIFFERENT record".      *)
RejectedOnlyForAnother ==
  [][\A req \in PKeys \cup {NoKey}, v \in Vals : UniqueRejected(req, v) =>
       \E i \in indexes \cap UniqueIndexes, k \in PKeys \ {UsedKey(req)} :
         KeyExists(k) /\ records[k][i] \cap v[i] # {}]_vars

(* "the backend assigns the next number": a put without a key replaces no  *)
(* record as long as doubles can tell the numbers apart.                   *)
GeneratedKeyIsNew ==
  [][NextNumber <= MaxExact =>
       \A v \in Vals : PutStored(NoKey, v, FALSE) => ~KeyExists(UsedKey(NoKey))]_vars

(* An aborted transaction leaves records, index entries, generator and     *)
(* indexes as it found them, whatever it created, deleted or was refused.  *)
AbortUndoesEverything == [][Abort => Now' = base]_vars
=============================================================================
