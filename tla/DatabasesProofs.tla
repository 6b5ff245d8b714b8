--------------------------- MODULE DatabasesProofs ---------------------------
(***************************************************************************)
(* What holds of IDBObjectStore for any primary keys, index keys, values   *)
(* and indexes; of IDBRegistry for any scopes, databases and handles; and  *)
(* of the locks of OPFS, for any profiles, files and sessions.             *)
(***************************************************************************)
EXTENDS MCDatabases, FunctionTheorems, FiniteSetTheorems, TLAPS

------------------------------------------------------------------------------
(* What holds of a content c of the store: of the one there is, and of the *)
(* one a transaction began on.                                             *)
Having(r, i, e) == {k \in PKeys : r[k] # NoVal /\ e \in r[k][i]}

Agree(c, I) ==
  \A i \in I, e \in IKeys : PKsOf(c.index_data, i, e) = Having(c.records, i, e)

Apart(r, I) ==
  \A i \in I \cap UniqueIndexes, k, l \in PKeys :
    k # l /\ r[k] # NoVal /\ r[l] # NoVal => r[k][i] \cap r[l][i] = {}

EmptyBeyond(ix, m) == \A i \in Indexes, e \in IKeys : i > m => PKsOf(ix, i, e) = {}

Ahead(r, g) ==
  auto_increment /\ g <= MaxExact => \A k \in PKeys : r[k] # NoVal => k < g

------------------------------------------------------------------------------
(* The inductive invariant.                                                *)
BaseTyped == base \in Content \X SUBSET Indexes

(* An index is filled in the upgrade that created it.                      *)
FillingInv ==
  \A i \in Indexes : ~Filled(i) => txn = "upgrade" /\ i <= max_index_id

(* What a content promises of the indexes that are filled, the others will *)
(* have promised when their cursor is at its end.                          *)
Read(i) == {k \in PKeys : k \notin toRead[i] /\ (readOne[i] # Nothing => readOne[i][1] # k)}

IndexesInv ==
  careful =>
    /\ \A i \in indexes, e \in IKeys : Entry(i, e) = Having(records, i, e) \cap Read(i)
    /\ Apart(records, indexes)
    /\ \A i \in Indexes : ~Filled(i) => i \in indexes
    /\ \A i \in Indexes : readOne[i] # Nothing => /\ records[readOne[i][1]] = readOne[i][2]
                                                  /\ readOne[i][1] \notin toRead[i]

ContentInv == EmptyBeyond(index_data, max_index_id) /\ Ahead(records, key_generator)

(* A transaction that aborts goes back to what it began on, and that was   *)
(* a sound store.                                                          *)
BaseInv ==
  txn # "none" =>
    /\ RolledBack = base[1]
    /\ IF txn = "upgrade"
         THEN pre_upgrade[1] = base[2] /\ pre_upgrade[2] <= max_index_id
         ELSE indexes = base[2]
    /\ LET m == IF txn = "upgrade" THEN pre_upgrade[2] ELSE max_index_id
       IN  base[2] \subseteq 1 .. m /\ EmptyBeyond(base[1].index_data, m)
    /\ Ahead(base[1].records, base[1].key_generator)
    /\ careful => Agree(base[1], base[2]) /\ Apart(base[1].records, base[2])

Inv == TypeOK /\ BaseTyped /\ FillingInv /\ IndexesInv /\ ContentInv /\ BaseInv

------------------------------------------------------------------------------
(* Ids and entries of the indexes.                                         *)
LEMMA IndexIds ==
  ASSUME Inv
  PROVE  /\ max_index_id \in Nat /\ MaxIndexes \in Nat /\ max_index_id \in 0 .. MaxIndexes
         /\ indexes \subseteq 1 .. max_index_id /\ indexes \subseteq Indexes
<1>1. /\ max_index_id \in 0 .. MaxIndexes /\ MaxIndexes \in Nat
      /\ indexes \subseteq 1 .. max_index_id
  BY ConstantsAssumption DEF Inv, TypeOK
<1> QED
  BY <1>1 DEF Indexes

LEMMA PKsTyped ==
  ASSUME NEW ix \in Entries, NEW i \in Indexes, NEW e \in IKeys
  PROVE  PKsOf(ix, i, e) \subseteq PKeys /\ ix[i][e] \in {NoEntry} \cup SUBSET PKeys
  BY DEF Entries, PKsOf

LEMMA Removed ==
  ASSUME NEW ix \in Entries, NEW ks
  PROVE  /\ RemoveFromIndexes(ix, ks) \in Entries
         /\ \A i \in Indexes, e \in IKeys :
              PKsOf(RemoveFromIndexes(ix, ks), i, e) = PKsOf(ix, i, e) \ ks
<1> DEFINE new == RemoveFromIndexes(ix, ks)
<1>1. ASSUME NEW i \in Indexes, NEW e \in IKeys
      PROVE  /\ new[i][e] = IF ix[i][e] = NoEntry THEN NoEntry ELSE ix[i][e] \ ks
             /\ new[i][e] \in {NoEntry} \cup SUBSET PKeys
             /\ PKsOf(new, i, e) = PKsOf(ix, i, e) \ ks
  <2>1. new[i][e] = IF ix[i][e] = NoEntry THEN NoEntry ELSE ix[i][e] \ ks
    BY DEF RemoveFromIndexes
  <2> HIDE DEF new
  <2>2. ix[i][e] \in {NoEntry} \cup SUBSET PKeys
    BY PKsTyped
  <2>3. CASE ix[i][e] = NoEntry
    BY <2>1, <2>3 DEF PKsOf
  <2>4. CASE ix[i][e] # NoEntry
    <3>1. ix[i][e] \ ks \in SUBSET PKeys
      BY <2>2, <2>4
    <3>2. ix[i][e] \ ks # NoEntry
      BY <3>1, ConstantsAssumption
    <3> QED
      BY <2>1, <2>4, <3>1, <3>2 DEF PKsOf
  <2> QED
    BY <2>1, <2>3, <2>4
<1>2. new \in Entries
  <2>1. new = [i \in Indexes |-> [e \in IKeys |-> new[i][e]]]
    BY DEF RemoveFromIndexes
  <2> HIDE DEF new
  <2> QED
    BY <2>1, <1>1 DEF Entries
<1> QED
  BY <1>1, <1>2

LEMMA Added ==
  ASSUME NEW ix \in Entries, NEW k \in PKeys, NEW v, NEW I
  PROVE  /\ AddToIndexes(ix, k, v, I) \in Entries
         /\ \A i \in Indexes, e \in IKeys :
              PKsOf(AddToIndexes(ix, k, v, I), i, e) =
                IF i \in I /\ e \in v[i] THEN PKsOf(ix, i, e) \cup {k} ELSE PKsOf(ix, i, e)
<1> DEFINE new == AddToIndexes(ix, k, v, I)
<1>1. ASSUME NEW i \in Indexes, NEW e \in IKeys
      PROVE  /\ new[i][e] \in {NoEntry} \cup SUBSET PKeys
             /\ PKsOf(new, i, e) =
                  IF i \in I /\ e \in v[i] THEN PKsOf(ix, i, e) \cup {k} ELSE PKsOf(ix, i, e)
  <2>1. new[i][e] = IF i \in I /\ e \in v[i] THEN PKsOf(ix, i, e) \cup {k} ELSE ix[i][e]
    BY DEF AddToIndexes
  <2> HIDE DEF new
  <2>2. PKsOf(ix, i, e) \subseteq PKeys /\ ix[i][e] \in {NoEntry} \cup SUBSET PKeys
    BY PKsTyped
  <2>3. CASE i \in I /\ e \in v[i]
    <3>1. PKsOf(ix, i, e) \cup {k} \in SUBSET PKeys
      BY <2>2
    <3>2. PKsOf(ix, i, e) \cup {k} # NoEntry
      BY <3>1, ConstantsAssumption
    <3>3. new[i][e] = PKsOf(ix, i, e) \cup {k}
      BY <2>1, <2>3
    <3>4. PKsOf(new, i, e) = new[i][e]
      BY <3>2, <3>3 DEF PKsOf
    <3> QED
      BY <2>3, <3>1, <3>3, <3>4
  <2>4. CASE ~(i \in I /\ e \in v[i])
    BY <2>1, <2>2, <2>4 DEF PKsOf
  <2> QED
    BY <2>3, <2>4
<1>2. new \in Entries
  <2>1. new = [i \in Indexes |-> [e \in IKeys |-> new[i][e]]]
    BY DEF AddToIndexes
  <2> HIDE DEF new
  <2> QED
    BY <2>1, <1>1 DEF Entries
<1> QED
  BY <1>1, <1>2

LEMMA NoEntries ==
  NoIndexData \in Entries /\ \A i \in Indexes, e \in IKeys : PKsOf(NoIndexData, i, e) = {}
  BY DEF NoIndexData, Entries, PKsOf

(* The key generator never goes back, and as long as doubles can tell its  *)
(* numbers apart it is ahead of the key that was used.                     *)
LEMMA GeneratorMoves ==
  ASSUME Inv, NEW req \in PKeys \cup {NoKey}, UsedKey(req) \in PKeys
  PROVE  /\ GeneratorAfter(req) \in Nat /\ key_generator <= GeneratorAfter(req)
         /\ auto_increment /\ GeneratorAfter(req) <= MaxExact =>
              UsedKey(req) < GeneratorAfter(req)
<1>1. key_generator \in Nat /\ MaxExact \in Nat
  BY ConstantsAssumption DEF Inv, TypeOK
<1>2. NextNumber \in Nat /\ key_generator <= NextNumber
  BY <1>1 DEF NextNumber
<1>3. CASE req = NoKey
  <2>1. GeneratorAfter(req) = IF auto_increment THEN NextNumber + 1 ELSE key_generator
    BY <1>3 DEF GeneratorAfter
  <2>2. NextNumber <= MaxExact => UsedKey(req) = NextNumber
    BY <1>3 DEF UsedKey, ToDouble
  <2> QED
    BY <1>1, <1>2, <2>1, <2>2
<1>4. CASE req # NoKey
  <2>1. req \in Nat /\ UsedKey(req) = req
    BY <1>4, ConstantsAssumption DEF UsedKey
  <2>2. CASE ~auto_increment
    BY <1>1, <2>2 DEF GeneratorAfter
  <2>3. CASE auto_increment
    <3> DEFINE candidate == 1 + (IF req < MaxExact THEN req ELSE MaxExact)
    <3>1. GeneratorAfter(req) = IF candidate > key_generator THEN candidate ELSE key_generator
      BY <1>4, <2>3 DEF GeneratorAfter
    <3> QED
      BY <1>1, <2>1, <3>1
  <2> QED
    BY <2>2, <2>3
<1> QED
  BY <1>3, <1>4

LEMMA AheadAfter ==
  ASSUME Inv, NEW req \in PKeys \cup {NoKey}, UsedKey(req) \in PKeys, NEW r,
         \A k \in PKeys : k # UsedKey(req) /\ r[k] # NoVal => records[k] # NoVal
  PROVE  Ahead(records, GeneratorAfter(req)) /\ Ahead(r, GeneratorAfter(req))
<1> DEFINE g == GeneratorAfter(req)
<1>1. /\ g \in Nat /\ key_generator <= g /\ key_generator \in Nat /\ MaxExact \in Nat
      /\ auto_increment /\ g <= MaxExact => UsedKey(req) < g
  BY GeneratorMoves, ConstantsAssumption DEF Inv, TypeOK
<1> HIDE DEF g
<1>2. Ahead(records, g)
  <2> SUFFICES ASSUME auto_increment, g <= MaxExact, NEW k \in PKeys, records[k] # NoVal
               PROVE  k < g
    BY DEF Ahead
  <2>1. k \in Nat /\ key_generator <= MaxExact
    BY <1>1, ConstantsAssumption
  <2>2. k < key_generator
    BY <2>1 DEF Inv, ContentInv, Ahead
  <2> QED
    BY <1>1, <2>1, <2>2
<1>3. Ahead(r, g)
  <2> SUFFICES ASSUME auto_increment, g <= MaxExact, NEW k \in PKeys, r[k] # NoVal
               PROVE  k < g
    BY DEF Ahead
  <2>1. CASE k = UsedKey(req)
    BY <1>1, <2>1
  <2>2. CASE k # UsedKey(req)
    BY <1>2, <2>2 DEF Ahead
  <2> QED
    BY <2>1, <2>2
<1> QED
  BY <1>2, <1>3 DEF g

------------------------------------------------------------------------------
(* Snapshots.                                                              *)
LEMMA SnapshotArmed ==
  ASSUME Inv, txn # "none", EnsureSnapshot, base' = base
  PROVE  snapshot' \in Content /\ RolledBack' = base[1]
<1>1. snapshot' = RolledBack
  BY DEF EnsureSnapshot, RolledBack
<1>2. RolledBack = base[1] /\ base[1] \in Content
  BY DEF Inv, BaseInv, BaseTyped
<1>3. snapshot' # NotCaptured
  BY <1>1, <1>2, ConstantsAssumption
<1> QED
  BY <1>1, <1>2, <1>3 DEF RolledBack

LEMMA BaseStands ==
  ASSUME Inv, UNCHANGED <<auto_increment, careful, txn, pre_upgrade, base>>,
         txn # "none" => RolledBack' = base[1],
         txn = "readwrite" => UNCHANGED <<indexes, max_index_id>>,
         max_index_id' \in Nat, max_index_id <= max_index_id'
  PROVE  BaseInv' /\ BaseTyped'
<1>1. BaseTyped'
  BY DEF Inv, BaseTyped
<1>2. BaseInv'
  <2> SUFFICES ASSUME txn # "none" PROVE BaseInv'
    BY DEF BaseInv
  <2>1. txn \in {"readwrite", "upgrade"} /\ max_index_id \in Nat
        /\ pre_upgrade[2] \in Nat
    BY DEF Inv, TypeOK
  <2>2. CASE txn = "readwrite"
    BY <2>2 DEF Inv, BaseInv, EmptyBeyond, Ahead, Agree, Apart
  <2>3. CASE txn = "upgrade"
    <3>1. pre_upgrade[2] <= max_index_id'
      BY <2>1, <2>3 DEF Inv, BaseInv
    <3> QED
      BY <2>3, <3>1 DEF Inv, BaseInv, EmptyBeyond, Ahead, Agree, Apart
  <2> QED
    BY <2>1, <2>2, <2>3
<1> QED
  BY <1>1, <1>2

(* When pages are careful, an index is read to the end while they write.   *)
LEMMA ReadToTheEnd ==
  ASSUME NEW i, Filled(i) PROVE Read(i) = PKeys
  BY DEF Filled, Read

LEMMA HavingKeys ==
  ASSUME NEW r, NEW i, NEW e PROVE Having(r, i, e) \subseteq PKeys
  BY DEF Having

(* While transactions write, every index is at its end.                    *)
LEMMA WritesToFilled ==
  ASSUME Inv, Quiet, careful
  PROVE  \A i \in indexes, e \in IKeys : Entry(i, e) = Having(records, i, e)
<1> SUFFICES ASSUME NEW i \in indexes, NEW e \in IKeys
             PROVE  Entry(i, e) = Having(records, i, e)
  OBVIOUS
<1>1. i \in Indexes
  BY IndexIds
<1>2. Read(i) = PKeys
  BY <1>1, ReadToTheEnd DEF Quiet
<1>3. Entry(i, e) = Having(records, i, e) \cap Read(i)
  BY DEF Inv, IndexesInv
<1> QED
  BY <1>2, <1>3, HavingKeys

LEMMA FillingStands ==
  ASSUME Inv, UNCHANGED <<txn, filling>>, max_index_id' \in Nat, max_index_id <= max_index_id'
  PROVE  FillingInv' /\ \A i \in Indexes : Read(i)' = Read(i) /\ (Filled(i)' <=> Filled(i))
<1>1. \A i \in Indexes : Read(i)' = Read(i) /\ (Filled(i)' <=> Filled(i))
  BY DEF Read, Filled, filling
<1>2. \A i \in Indexes : i \in Nat
  BY DEF Indexes
<1>3. max_index_id \in Nat
  BY DEF Inv, TypeOK
<1> QED
  BY <1>1, <1>2, <1>3 DEF Inv, FillingInv, filling

------------------------------------------------------------------------------
(* Writes: what changes is the content, and every index is filled.         *)
LEMMA Written ==
  ASSUME Inv, Writing, EnsureSnapshot, UNCHANGED given,
         UNCHANGED <<indexes, max_index_id, txn, pre_upgrade, filling, base>>,
         records' \in Records, index_data' \in Entries, key_generator' \in Nat,
         EmptyBeyond(index_data', max_index_id), Ahead(records', key_generator'),
         careful => /\ \A i \in indexes, e \in IKeys :
                         PKsOf(index_data', i, e) = Having(records', i, e)
                    /\ Apart(records', indexes)
  PROVE  Inv'
<1>1. txn # "none" /\ Quiet
  BY DEF Writing
<1>2. snapshot' \in Content /\ RolledBack' = base[1]
  BY <1>1, SnapshotArmed
<1>3. TypeOK'
  BY <1>1, <1>2 DEF Inv, TypeOK, given, filling
<1>4. max_index_id \in Nat
  BY DEF Inv, TypeOK
<1>5. BaseInv' /\ BaseTyped'
  BY <1>2, <1>4, BaseStands DEF given
<1>6. FillingInv' /\ \A i \in Indexes : Read(i)' = Read(i) /\ (Filled(i)' <=> Filled(i))
  BY <1>4, FillingStands
<1>7. ContentInv'
  BY DEF ContentInv, EmptyBeyond, Ahead, given
<1>8. IndexesInv'
  <2> SUFFICES ASSUME careful PROVE IndexesInv'
    BY DEF IndexesInv, given
  <2>1. \A i \in Indexes : Filled(i) /\ Read(i) = PKeys
    BY <1>1, ReadToTheEnd DEF Quiet
  <2>2. ASSUME NEW i \in indexes, NEW e \in IKeys
        PROVE  Entry(i, e)' = Having(records, i, e)' \cap Read(i)'
    <3>1. i \in Indexes
      BY IndexIds
    <3>2. Read(i)' = PKeys
      BY <1>6, <2>1, <3>1
    <3>3. Entry(i, e)' = Having(records', i, e)
      BY DEF Entry, PKsOf
    <3> QED
      BY <3>2, <3>3, HavingKeys DEF Having
  <2>3. \A i \in Indexes : Filled(i)' /\ readOne'[i] = Nothing
    BY <1>6, <2>1 DEF Filled
  <2> QED
    BY <2>2, <2>3 DEF IndexesInv, Apart
<1> QED
  BY <1>3, <1>5, <1>6, <1>7, <1>8 DEF Inv

LEMMA PutStoredStep ==
  ASSUME Inv, NEW req \in PKeys \cup {NoKey}, NEW v \in Vals, NEW addOnly,
         PutStored(req, v, addOnly), UNCHANGED given
  PROVE  Inv'
<1> DEFINE k == UsedKey(req)
           left == RemoveFromIndexes(index_data, {k})
<1>1. /\ Writing /\ k \in PKeys /\ EnsureSnapshot /\ key_generator' = GeneratorAfter(req)
      /\ UNCHANGED <<indexes, max_index_id, txn, pre_upgrade, filling, base>>
      /\ ~UniqueConflict(k, v)
      /\ records' = [records EXCEPT ![k] = v]
      /\ index_data' = AddToIndexes(left, k, v, indexes)
  BY DEF PutStored, PutAttempt
<1>2. /\ records \in Records /\ index_data \in Entries /\ indexes \subseteq Indexes
      /\ v # NoVal /\ v \in [Indexes -> SUBSET IKeys] /\ max_index_id \in Nat
      /\ indexes \subseteq 1 .. max_index_id
  BY ConstantsAssumption DEF Inv, TypeOK, Indexes
<1> HIDE DEF k
<1>3. /\ records' \in Records /\ records'[k] = v
      /\ \A l \in PKeys : l # k => records'[l] = records[l]
  BY <1>1, <1>2 DEF Records
<1>4. key_generator' \in Nat /\ Ahead(records', key_generator')
  BY <1>1, <1>3, GeneratorMoves, AheadAfter DEF k
<1>5. /\ left \in Entries
      /\ \A i \in Indexes, e \in IKeys : PKsOf(left, i, e) = Entry(i, e) \ {k}
  BY <1>2, Removed DEF Entry
<1> HIDE DEF left
<1>6. /\ index_data' \in Entries
      /\ \A i \in Indexes, e \in IKeys :
           PKsOf(index_data', i, e) =
             IF i \in indexes /\ e \in v[i] THEN (Entry(i, e) \ {k}) \cup {k} ELSE Entry(i, e) \ {k}
  BY <1>1, <1>5, Added
<1>7. EmptyBeyond(index_data', max_index_id)
  <2> SUFFICES ASSUME NEW i \in Indexes, NEW e \in IKeys, i > max_index_id
               PROVE  PKsOf(index_data', i, e) = {}
    BY DEF EmptyBeyond
  <2>1. i \notin indexes
    BY <1>2
  <2>2. Entry(i, e) = {}
    BY DEF Inv, ContentInv, EmptyBeyond, Entry
  <2> QED
    BY <1>6, <2>1, <2>2
<1>8. ASSUME careful
      PROVE  /\ \A i \in indexes, e \in IKeys : PKsOf(index_data', i, e) = Having(records', i, e)
             /\ Apart(records', indexes)
  <2>1. \A i \in indexes, e \in IKeys : Entry(i, e) = Having(records, i, e)
    BY <1>1, <1>8, WritesToFilled DEF Writing
  <2>2. ASSUME NEW i \in indexes, NEW e \in IKeys
        PROVE  PKsOf(index_data', i, e) = Having(records', i, e)
    <3>1. Having(records', i, e) =
            (Having(records, i, e) \ {k}) \cup (IF e \in v[i] THEN {k} ELSE {})
      BY <1>1, <1>2, <1>3 DEF Having
    <3>2. i \in Indexes
      BY <1>2
    <3> QED
      BY <1>6, <2>1, <3>1, <3>2
  <2>3. ASSUME NEW i \in indexes \cap UniqueIndexes, NEW l \in PKeys, l # k, records[l] # NoVal
        PROVE  records[l][i] \cap v[i] = {}
    <3> SUFFICES ASSUME NEW e \in records[l][i] \cap v[i] PROVE FALSE
      OBVIOUS
    <3>1. i \in Indexes /\ e \in IKeys
      BY <1>2
    <3>2. l \in Entry(i, e)
      BY <2>1, <2>3, <3>1 DEF Having
    <3>3. index_data[i][e] # NoEntry /\ index_data[i][e] # {k}
      BY <2>3, <3>2 DEF Entry, PKsOf
    <3> QED
      BY <1>1, <3>3 DEF UniqueConflict
  <2>4. Apart(records, indexes)
    BY <1>8 DEF Inv, IndexesInv
  <2>5. Apart(records', indexes)
    <3> SUFFICES ASSUME NEW i \in indexes \cap UniqueIndexes, NEW a \in PKeys, NEW b \in PKeys,
                        a # b, records'[a] # NoVal, records'[b] # NoVal
                 PROVE  records'[a][i] \cap records'[b][i] = {}
      BY DEF Apart
    <3>1. CASE a = k
      BY <1>3, <2>3, <3>1
    <3>2. CASE b = k
      BY <1>3, <2>3, <3>2
    <3>3. CASE a # k /\ b # k
      BY <1>3, <2>4, <3>3 DEF Apart
    <3> QED
      BY <3>1, <3>2, <3>3
  <2> QED
    BY <2>2, <2>5
<1> QED
  BY <1>1, <1>3, <1>4, <1>6, <1>7, <1>8, Written

(* What a write that is refused changes: the generator, perhaps.           *)
LEMMA Refused ==
  ASSUME Inv, Writing, EnsureSnapshot, UNCHANGED given,
         UNCHANGED <<records, index_data, indexes, max_index_id, txn, pre_upgrade, filling, base>>,
         key_generator' \in Nat, Ahead(records, key_generator')
  PROVE  Inv'
<1>1. records' \in Records /\ index_data' \in Entries /\ EmptyBeyond(index_data', max_index_id)
  BY DEF Inv, TypeOK, ContentInv
<1>2. Ahead(records', key_generator')
  OBVIOUS
<1>3. ASSUME careful
      PROVE  /\ \A i \in indexes, e \in IKeys : PKsOf(index_data', i, e) = Having(records', i, e)
             /\ Apart(records', indexes)
  <2>1. \A i \in indexes, e \in IKeys : Entry(i, e) = Having(records, i, e)
    BY <1>3, WritesToFilled DEF Writing
  <2>2. Apart(records, indexes)
    BY <1>3 DEF Inv, IndexesInv
  <2> QED
    BY <2>1, <2>2 DEF Entry
<1> QED
  BY <1>1, <1>2, <1>3, Written

LEMMA PutStep == ASSUME Inv, Put, UNCHANGED given PROVE Inv'
<1>1. ASSUME NEW req \in PKeys \cup {NoKey}, PutAttempt(req), UNCHANGED <<records, index_data>>
      PROVE  Inv'
  <2>1. /\ Writing /\ UsedKey(req) \in PKeys /\ EnsureSnapshot
        /\ key_generator' = GeneratorAfter(req)
        /\ UNCHANGED <<indexes, max_index_id, txn, pre_upgrade, filling, base>>
    BY <1>1 DEF PutAttempt
  <2>2. key_generator' \in Nat /\ Ahead(records, key_generator')
    BY <2>1, GeneratorMoves, AheadAfter
  <2> QED
    BY <1>1, <2>1, <2>2, Refused
<1>2. CASE PutWithoutKey
  <2>1. /\ Writing /\ EnsureSnapshot
        /\ UNCHANGED <<records, index_data, key_generator>>
        /\ UNCHANGED <<indexes, max_index_id, txn, pre_upgrade, filling, base>>
    BY <1>2 DEF PutWithoutKey, content
  <2>2. key_generator' \in Nat /\ Ahead(records, key_generator')
    BY <2>1 DEF Inv, TypeOK, ContentInv
  <2> QED
    BY <2>1, <2>2, Refused
<1>3. ASSUME NEW req \in PKeys \cup {NoKey}, NEW v \in Vals, UniqueRejected(req, v) PROVE Inv'
  BY <1>1, <1>3 DEF UniqueRejected
<1>4. ASSUME NEW req \in PKeys \cup {NoKey}, AddRejected(req) PROVE Inv'
  BY <1>1, <1>4 DEF AddRejected
<1> QED
  BY <1>2, <1>3, <1>4, PutStoredStep DEF Put

LEMMA EraseStep ==
  ASSUME Inv, UNCHANGED given, NEW ks, NEW ix \in Entries, Erase(ks, ix),
         \A i \in Indexes, e \in IKeys : PKsOf(ix, i, e) = Entry(i, e) \ ks
  PROVE  Inv'
<1>1. /\ Writing /\ EnsureSnapshot /\ index_data' = ix
      /\ records' = [k \in PKeys |-> IF k \in ks THEN NoVal ELSE records[k]]
      /\ UNCHANGED <<key_generator, indexes, max_index_id, txn, pre_upgrade, filling, base>>
  BY DEF Erase
<1>2. /\ records \in Records /\ indexes \subseteq Indexes
      /\ key_generator \in Nat /\ Ahead(records, key_generator)
  BY IndexIds DEF Inv, TypeOK, ContentInv
<1>3. records' \in Records
  BY <1>1, <1>2 DEF Records
<1>4. \A k \in PKeys : records'[k] # NoVal => k \notin ks /\ records'[k] = records[k]
  BY <1>1
<1>5. Ahead(records', key_generator')
  BY <1>1, <1>2, <1>4 DEF Ahead
<1>6. EmptyBeyond(index_data', max_index_id)
  BY <1>1 DEF Inv, ContentInv, EmptyBeyond, Entry
<1>7. ASSUME careful
      PROVE  /\ \A i \in indexes, e \in IKeys : PKsOf(index_data', i, e) = Having(records', i, e)
             /\ Apart(records', indexes)
  <2>1. \A i \in indexes, e \in IKeys : Entry(i, e) = Having(records, i, e)
    BY <1>1, <1>7, WritesToFilled DEF Writing
  <2>2. ASSUME NEW i \in indexes, NEW e \in IKeys
        PROVE  PKsOf(index_data', i, e) = Having(records', i, e)
    <3>1. Having(records', i, e) = Having(records, i, e) \ ks
      BY <1>1 DEF Having
    <3> QED
      BY <1>1, <1>2, <2>1, <3>1
  <2>3. Apart(records, indexes)
    BY <1>7 DEF Inv, IndexesInv
  <2> QED
    BY <1>4, <2>2, <2>3 DEF Apart
<1> QED
  BY <1>1, <1>2, <1>3, <1>5, <1>6, <1>7, Written

LEMMA DeleteRangeStep == ASSUME Inv, NEW ks, DeleteRange(ks), UNCHANGED given PROVE Inv'
<1>1. index_data \in Entries
  BY DEF Inv, TypeOK
<1> QED
  BY <1>1, Removed, EraseStep DEF DeleteRange, Entry

LEMMA ClearStep == ASSUME Inv, Clear, UNCHANGED given PROVE Inv'
<1>1. index_data \in Entries
  BY DEF Inv, TypeOK
<1>2. ASSUME NEW i \in Indexes, NEW e \in IKeys
      PROVE  PKsOf(NoIndexData, i, e) = Entry(i, e) \ PKeys
  BY <1>1, PKsTyped, NoEntries DEF Entry
<1> QED
  BY <1>2, NoEntries, EraseStep DEF Clear

LEMMA DeleteIndexStep ==
  ASSUME Inv, NEW i \in Indexes, DeleteIndex(i), UNCHANGED given PROVE Inv'
<1>1. /\ txn = "upgrade" /\ Quiet /\ i \in indexes /\ EnsureSnapshot
      /\ indexes' = indexes \ {i}
      /\ index_data' = [index_data EXCEPT ![i] = NoIndexData[i]]
      /\ UNCHANGED <<records, key_generator, max_index_id, txn, pre_upgrade, filling, base>>
  BY DEF DeleteIndex
<1>2. /\ index_data \in Entries /\ indexes \subseteq Indexes /\ max_index_id \in Nat
      /\ indexes \subseteq 1 .. max_index_id
  BY IndexIds DEF Inv, TypeOK
<1>3. snapshot' \in Content /\ RolledBack' = base[1]
  BY <1>1, SnapshotArmed
<1>4. /\ index_data' \in Entries
      /\ \A e \in IKeys : PKsOf(index_data', i, e) = {}
      /\ \A j \in Indexes, e \in IKeys : j # i => PKsOf(index_data', j, e) = Entry(j, e)
  BY <1>1, <1>2 DEF Entries, NoIndexData, PKsOf, Entry
<1>5. TypeOK'
  BY <1>1, <1>3, <1>4 DEF Inv, TypeOK, given, filling
<1>6. BaseInv' /\ BaseTyped'
  BY <1>1, <1>2, <1>3, BaseStands DEF given
<1>7. FillingInv' /\ \A j \in Indexes : Read(j)' = Read(j) /\ (Filled(j)' <=> Filled(j))
  BY <1>1, <1>2, FillingStands
<1>8. ContentInv'
  BY <1>1, <1>4 DEF Inv, ContentInv, EmptyBeyond, Ahead, given, Entry
<1>9. IndexesInv'
  <2> SUFFICES ASSUME careful PROVE IndexesInv'
    BY DEF IndexesInv, given
  <2>1. \A j \in Indexes : Filled(j) /\ Filled(j)' /\ readOne'[j] = Nothing
    BY <1>1, <1>7 DEF Quiet, Filled
  <2>2. ASSUME NEW j \in indexes', NEW e \in IKeys
        PROVE  Entry(j, e)' = Having(records, j, e)' \cap Read(j)'
    <3>1. j \in indexes /\ j # i /\ j \in Indexes
      BY <1>1, <1>2
    <3>2. Entry(j, e) = Having(records, j, e) \cap Read(j)
      BY <3>1 DEF Inv, IndexesInv
    <3>3. Entry(j, e)' = Entry(j, e) /\ Having(records, j, e)' = Having(records, j, e)
      BY <1>1, <1>4, <3>1 DEF Entry, PKsOf, Having
    <3> QED
      BY <1>7, <3>1, <3>2, <3>3
  <2>3. Apart(records, indexes)'
    BY <1>1 DEF Inv, IndexesInv, Apart
  <2> QED
    BY <2>1, <2>2, <2>3 DEF IndexesInv
<1> QED
  BY <1>5, <1>6, <1>7, <1>8, <1>9 DEF Inv

------------------------------------------------------------------------------
(* Indexes that are created and filled.                                    *)
LEMMA CreateIndexStep == ASSUME Inv, CreateIndex, UNCHANGED given PROVE Inv'
<1> DEFINE i == max_index_id + 1
<1>1. /\ txn = "upgrade" /\ i \in Indexes
      /\ careful /\ i \in UniqueIndexes => Fits(i)
      /\ indexes' = indexes \cup {i} /\ max_index_id' = i
      /\ toRead' = [toRead EXCEPT ![i] = {k \in PKeys : KeyExists(k)}]
      /\ UNCHANGED <<records, index_data, key_generator, txn, snapshot, pre_upgrade, readOne, base>>
  BY DEF CreateIndex, content
<1>2. /\ max_index_id \in Nat /\ indexes \subseteq 1 .. max_index_id /\ indexes \subseteq Indexes
      /\ toRead \in [Indexes -> SUBSET PKeys] /\ MaxIndexes \in Nat
  BY ConstantsAssumption DEF Inv, TypeOK, Indexes
<1>3. i \in Nat /\ i > max_index_id /\ i \notin indexes /\ i \in 0 .. MaxIndexes
      /\ indexes' \subseteq 1 .. i
  BY <1>1, <1>2 DEF Indexes
<1>4. Filled(i)
  BY <1>1, <1>2, <1>3 DEF Inv, FillingInv
<1> HIDE DEF i
<1>5. toRead' \in [Indexes -> SUBSET PKeys] /\ toRead'[i] = {k \in PKeys : KeyExists(k)}
      /\ \A j \in Indexes : j # i => toRead'[j] = toRead[j]
  BY <1>1, <1>2
<1>6. TypeOK'
  BY <1>1, <1>3, <1>5 DEF Inv, TypeOK, given
<1>7. BaseInv' /\ BaseTyped'
  <2>1. RolledBack' = RolledBack
    BY <1>1 DEF RolledBack, Now
  <2>2. RolledBack = base[1] /\ max_index_id' \in Nat /\ max_index_id <= max_index_id'
    BY <1>1, <1>2, <1>3 DEF Inv, BaseInv
  <2> QED
    BY <1>1, <2>1, <2>2, BaseStands DEF given
<1>8. \A j \in Indexes : j # i => Read(j)' = Read(j) /\ (Filled(j)' <=> Filled(j))
  BY <1>1, <1>5 DEF Read, Filled
<1>9. FillingInv'
  <2> SUFFICES ASSUME NEW j \in Indexes, ~Filled(j)' PROVE j <= i
    BY <1>1 DEF FillingInv
  <2>1. CASE j = i
    BY <1>3, <2>1
  <2>2. CASE j # i
    <3>1. j <= max_index_id
      BY <1>8, <2>2 DEF Inv, FillingInv
    <3> QED
      BY <1>2, <1>3, <3>1 DEF Indexes
  <2> QED
    BY <2>1, <2>2
<1>10. ContentInv'
  <2>1. EmptyBeyond(index_data, i)
    <3> SUFFICES ASSUME NEW j \in Indexes, NEW e \in IKeys, j > i PROVE PKsOf(index_data, j, e) = {}
      BY DEF EmptyBeyond
    <3>1. j > max_index_id
      BY <1>2, <1>3 DEF Indexes
    <3> QED
      BY <3>1 DEF Inv, ContentInv, EmptyBeyond
  <2> QED
    BY <1>1, <2>1 DEF Inv, ContentInv, Ahead, EmptyBeyond, given
<1>11. IndexesInv'
  <2> SUFFICES ASSUME careful PROVE IndexesInv'
    BY DEF IndexesInv, given
  <2>1. ASSUME NEW j \in indexes', NEW e \in IKeys
        PROVE  Entry(j, e)' = Having(records, j, e)' \cap Read(j)'
    <3>1. Entry(j, e)' = Entry(j, e) /\ Having(records, j, e)' = Having(records, j, e)
      BY <1>1 DEF Entry, PKsOf, Having
    <3>2. CASE j = i
      <4>1. Entry(i, e) = {}
        BY <1>1, <1>3 DEF Inv, ContentInv, EmptyBeyond, Entry
      <4>2. Read(j)' \cap Having(records, j, e) = {}
        <5>1. \A k \in Read(j)' : k \in PKeys /\ k \notin toRead'[j]
          BY DEF Read
        <5>2. toRead'[j] = {k \in PKeys : KeyExists(k)}
          BY <1>5, <3>2
        <5> QED
          BY <5>1, <5>2 DEF Having, KeyExists
      <4>3. Entry(j, e)' = {}
        BY <3>1, <3>2, <4>1
      <4> QED
        BY <3>1, <4>2, <4>3
    <3>3. CASE j # i
      <4>1. j \in indexes /\ j \in Indexes
        BY <1>1, <1>2, <3>3
      <4>2. Entry(j, e) = Having(records, j, e) \cap Read(j)
        BY <4>1 DEF Inv, IndexesInv
      <4> QED
        BY <1>8, <3>1, <3>3, <4>1, <4>2
    <3> QED
      BY <3>2, <3>3
  <2>2. Apart(records, indexes')
    <3> SUFFICES ASSUME NEW j \in indexes' \cap UniqueIndexes, NEW k \in PKeys, NEW l \in PKeys,
                        k # l, records[k] # NoVal, records[l] # NoVal
                 PROVE  records[k][j] \cap records[l][j] = {}
      BY DEF Apart
    <3>1. CASE j = i
      BY <1>1, <3>1 DEF Fits, KeyExists
    <3>2. CASE j # i
      BY <1>1, <3>2 DEF Inv, IndexesInv, Apart
    <3> QED
      BY <3>1, <3>2
  <2>3. \A j \in Indexes : ~Filled(j)' => j \in indexes'
    BY <1>1, <1>8 DEF Inv, IndexesInv
  <2>4. ASSUME NEW j \in Indexes, readOne[j] # Nothing
        PROVE  records[readOne[j][1]] = readOne[j][2] /\ readOne[j][1] \notin toRead'[j]
    <3>1. j # i
      BY <1>4, <2>4 DEF Filled
    <3> QED
      BY <1>5, <2>4, <3>1 DEF Inv, IndexesInv
  <2> QED
    BY <1>1, <2>1, <2>2, <2>3, <2>4 DEF IndexesInv, Apart
<1> QED
  BY <1>6, <1>7, <1>9, <1>10, <1>11 DEF Inv

LEMMA CursorReadsStep ==
  ASSUME Inv, NEW i \in Indexes, NEW k \in PKeys, CursorReads(i, k), UNCHANGED given
  PROVE  Inv'
<1>1. /\ readOne[i] = Nothing /\ k \in toRead[i]
      /\ toRead' = [toRead EXCEPT ![i] = @ \ {k}]
      /\ readOne' = [readOne EXCEPT ![i] = IF KeyExists(k) THEN <<k, records[k]>> ELSE @]
      /\ UNCHANGED <<records, index_data, key_generator, indexes, max_index_id, txn, snapshot,
                     pre_upgrade, base>>
  BY DEF CursorReads, content
<1>2. /\ toRead \in [Indexes -> SUBSET PKeys]
      /\ readOne \in [Indexes -> (PKeys \X Vals) \cup {Nothing}]
      /\ records \in [PKeys -> Vals \cup {NoVal}] /\ max_index_id \in Nat
  BY DEF Inv, TypeOK, Records
<1>3. toRead' \in [Indexes -> SUBSET PKeys] /\ toRead'[i] = toRead[i] \ {k}
      /\ \A j \in Indexes : j # i => toRead'[j] = toRead[j]
  BY <1>1, <1>2
<1>4. /\ readOne' \in [Indexes -> (PKeys \X Vals) \cup {Nothing}]
      /\ readOne'[i] = IF KeyExists(k) THEN <<k, records[k]>> ELSE Nothing
      /\ \A j \in Indexes : j # i => readOne'[j] = readOne[j]
  BY <1>1, <1>2 DEF KeyExists
<1>5. TypeOK'
  BY <1>1, <1>3, <1>4 DEF Inv, TypeOK, given
<1>6. BaseInv' /\ BaseTyped'
  <2>1. RolledBack' = RolledBack
    BY <1>1 DEF RolledBack, Now
  <2>2. txn # "none" => RolledBack = base[1]
    BY DEF Inv, BaseInv
  <2> QED
    BY <1>1, <1>2, <2>1, <2>2, BaseStands DEF given
<1>7. ~Filled(i)
  BY <1>1 DEF Filled
<1>8. \A j \in Indexes : j # i => Read(j)' = Read(j) /\ (Filled(j)' <=> Filled(j))
  BY <1>3, <1>4 DEF Read, Filled
<1>9. FillingInv'
  BY <1>1, <1>7, <1>8 DEF Inv, FillingInv
<1>10. ContentInv'
  BY <1>1 DEF Inv, ContentInv, EmptyBeyond, Ahead, given
<1>11. IndexesInv'
  <2> SUFFICES ASSUME careful PROVE IndexesInv'
    BY DEF IndexesInv, given
  <2>1. KeyExists(k) => readOne'[i] # Nothing /\ readOne'[i][1] = k /\ readOne'[i][2] = records[k]
    BY <1>2, <1>4, ConstantsAssumption DEF KeyExists
  <2>2. \A e \in IKeys : Having(records, i, e) \cap Read(i)' = Having(records, i, e) \cap Read(i)
    <3>1. CASE KeyExists(k)
      <4>1. Read(i)' = Read(i)
        BY <1>1, <1>3, <2>1, <3>1 DEF Read
      <4> QED
        BY <4>1
    <3>2. CASE ~KeyExists(k)
      <4>1. Read(i)' = Read(i) \cup {k}
        BY <1>1, <1>3, <1>4, <3>2 DEF Read
      <4> QED
        BY <3>2, <4>1 DEF Having, KeyExists
    <3> QED
      BY <3>1, <3>2
  <2>3. ASSUME NEW j \in indexes, NEW e \in IKeys
        PROVE  Entry(j, e)' = Having(records, j, e)' \cap Read(j)'
    <3>1. Entry(j, e)' = Entry(j, e) /\ Having(records, j, e)' = Having(records, j, e)
      BY <1>1 DEF Entry, PKsOf, Having
    <3>2. j \in Indexes /\ Entry(j, e) = Having(records, j, e) \cap Read(j)
      BY IndexIds DEF Inv, IndexesInv
    <3> QED
      BY <1>8, <2>2, <3>1, <3>2
  <2>4. ASSUME NEW j \in Indexes, readOne'[j] # Nothing
        PROVE  records[readOne'[j][1]] = readOne'[j][2] /\ readOne'[j][1] \notin toRead'[j]
    <3>1. CASE j = i
      BY <1>3, <1>4, <2>1, <2>4, <3>1
    <3>2. CASE j # i
      BY <1>3, <1>4, <2>4, <3>2 DEF Inv, IndexesInv
    <3> QED
      BY <3>1, <3>2
  <2>5. \A j \in Indexes : ~Filled(j)' => j \in indexes
    BY <1>7, <1>8 DEF Inv, IndexesInv
  <2>6. Apart(records, indexes)
    BY DEF Inv, IndexesInv
  <2> QED
    BY <1>1, <2>3, <2>4, <2>5, <2>6 DEF IndexesInv, Apart
<1> QED
  BY <1>5, <1>6, <1>9, <1>10, <1>11 DEF Inv

LEMMA SetIndexKeysStep ==
  ASSUME Inv, NEW i \in Indexes, SetIndexKeys(i), UNCHANGED given PROVE Inv'
<1> DEFINE k == readOne[i][1]
           v == readOne[i][2]
<1>1. /\ readOne[i] # Nothing /\ EnsureSnapshot
      /\ index_data' = AddToIndexes(index_data, k, v, {i})
      /\ readOne' = [readOne EXCEPT ![i] = Nothing]
      /\ UNCHANGED <<records, key_generator, indexes, max_index_id, txn, pre_upgrade, toRead, base>>
  BY DEF SetIndexKeys
<1>2. /\ readOne \in [Indexes -> (PKeys \X Vals) \cup {Nothing}] /\ index_data \in Entries
      /\ max_index_id \in Nat
  BY DEF Inv, TypeOK
<1>3. k \in PKeys /\ v \in Vals
  BY <1>1, <1>2
<1>4. txn = "upgrade" /\ i <= max_index_id
  BY <1>1 DEF Inv, FillingInv, Filled
<1>5. snapshot' \in Content /\ RolledBack' = base[1]
  BY <1>1, <1>4, SnapshotArmed
<1> HIDE DEF k, v
<1>6. /\ index_data' \in Entries
      /\ \A j \in Indexes, e \in IKeys :
           PKsOf(index_data', j, e) =
             IF j = i /\ e \in v[j] THEN Entry(j, e) \cup {k} ELSE Entry(j, e)
  <2> DEFINE I == {i}
  <2>1. \A j : j \in I <=> j = i
    OBVIOUS
  <2>2. index_data' = AddToIndexes(index_data, k, v, I)
    BY <1>1
  <2> HIDE DEF I
  <2>3. /\ AddToIndexes(index_data, k, v, I) \in Entries
        /\ \A j \in Indexes, e \in IKeys :
             PKsOf(AddToIndexes(index_data, k, v, I), j, e) =
               IF j \in I /\ e \in v[j] THEN PKsOf(index_data, j, e) \cup {k}
               ELSE PKsOf(index_data, j, e)
    BY <1>2, <1>3, Added
  <2> QED
    BY <2>1, <2>2, <2>3 DEF Entry
<1>7. /\ readOne' \in [Indexes -> (PKeys \X Vals) \cup {Nothing}] /\ readOne'[i] = Nothing
      /\ \A j \in Indexes : j # i => readOne'[j] = readOne[j]
  BY <1>1, <1>2
<1>8. TypeOK'
  BY <1>1, <1>4, <1>5, <1>6, <1>7 DEF Inv, TypeOK, given
<1>9. BaseInv' /\ BaseTyped'
  BY <1>1, <1>2, <1>5, BaseStands DEF given
<1>10. \A j \in Indexes : j # i => Read(j)' = Read(j) /\ (Filled(j)' <=> Filled(j))
  BY <1>1, <1>7 DEF Read, Filled
<1>11. ~Filled(i)
  BY <1>1 DEF Filled
<1>12. FillingInv'
  BY <1>1, <1>10, <1>11 DEF Inv, FillingInv
<1>13. ContentInv'
  <2>1. EmptyBeyond(index_data', max_index_id)
    <3> SUFFICES ASSUME NEW j \in Indexes, NEW e \in IKeys, j > max_index_id
                 PROVE  PKsOf(index_data', j, e) = {}
      BY DEF EmptyBeyond
    <3>1. j # i
      BY <1>2, <1>4 DEF Indexes
    <3>2. Entry(j, e) = {}
      BY DEF Inv, ContentInv, EmptyBeyond, Entry
    <3> QED
      BY <1>6, <3>1, <3>2
  <2> QED
    BY <1>1, <2>1 DEF Inv, ContentInv, EmptyBeyond, Ahead, given
<1>14. IndexesInv'
  <2> SUFFICES ASSUME careful PROVE IndexesInv'
    BY DEF IndexesInv, given
  <2>1. records[k] = v /\ k \notin toRead[i] /\ v # NoVal
    BY <1>1, <1>3, ConstantsAssumption DEF Inv, IndexesInv, k, v
  <2>2. Read(i)' = Read(i) \cup {k} /\ k \notin Read(i)
    BY <1>1, <1>3, <1>7, <2>1 DEF Read, k
  <2>3. ASSUME NEW j \in indexes, NEW e \in IKeys
        PROVE  Entry(j, e)' = Having(records, j, e)' \cap Read(j)'
    <3>1. Having(records, j, e)' = Having(records, j, e)
      BY <1>1 DEF Having
    <3>2. j \in Indexes /\ Entry(j, e) = Having(records, j, e) \cap Read(j)
      BY IndexIds DEF Inv, IndexesInv
    <3>3. Entry(j, e)' = IF j = i /\ e \in v[j] THEN Entry(j, e) \cup {k} ELSE Entry(j, e)
      BY <1>6, <3>2 DEF Entry, PKsOf
    <3>4. CASE j = i
      <4>1. k \in Having(records, i, e) <=> e \in v[i]
        BY <1>3, <2>1 DEF Having
      <4> QED
        BY <2>2, <3>1, <3>2, <3>3, <3>4, <4>1
    <3>5. CASE j # i
      BY <1>10, <3>1, <3>2, <3>3, <3>5
    <3> QED
      BY <3>4, <3>5
  <2>4. ASSUME NEW j \in Indexes, readOne'[j] # Nothing
        PROVE  records[readOne'[j][1]] = readOne'[j][2] /\ readOne'[j][1] \notin toRead[j]
    BY <1>7, <2>4 DEF Inv, IndexesInv
  <2>5. \A j \in Indexes : ~Filled(j)' => j \in indexes
    BY <1>10, <1>11 DEF Inv, IndexesInv
  <2>6. Apart(records, indexes)
    BY DEF Inv, IndexesInv
  <2> QED
    BY <1>1, <2>3, <2>4, <2>5, <2>6 DEF IndexesInv, Apart
<1> QED
  BY <1>8, <1>9, <1>12, <1>13, <1>14 DEF Inv

------------------------------------------------------------------------------
(* Transactions.                                                           *)
LEMMA BeginStep == ASSUME Inv, NEW what \in {"readwrite", "upgrade"}, Begin(what), UNCHANGED given
                   PROVE  Inv'
<1>1. /\ txn = "none" /\ txn' = what
      /\ pre_upgrade' = IF what = "upgrade" THEN <<indexes, max_index_id>> ELSE pre_upgrade
      /\ base' = Now
      /\ UNCHANGED <<records, index_data, key_generator, indexes,
                      max_index_id, snapshot, toRead, readOne>>
  BY DEF Begin, content, filling
<1>2. /\ records \in Records /\ index_data \in Entries /\ key_generator \in Nat
      /\ max_index_id \in 0 .. MaxIndexes /\ indexes \subseteq 1 .. max_index_id
      /\ snapshot = NotCaptured /\ indexes \subseteq Indexes /\ max_index_id \in Nat
  BY <1>1, ConstantsAssumption DEF Inv, TypeOK, Indexes
<1>3. \A i \in Indexes : Filled(i) /\ Filled(i)' /\ Read(i) = PKeys /\ Read(i)' = Read(i)
  <2>1. \A i \in Indexes : Filled(i)
    BY <1>1 DEF Inv, FillingInv
  <2> QED
    BY <1>1, <2>1, ReadToTheEnd DEF Filled, Read
<1>4. TypeOK'
  BY <1>1, <1>2 DEF Inv, TypeOK, given
<1>5. /\ base'[1] = [records |-> records, index_data |-> index_data,
                  key_generator |-> key_generator]
      /\ base'[2] = indexes
  BY <1>1 DEF Now
<1>6. BaseTyped'
  BY <1>1, <1>2 DEF BaseTyped, Now, Content
<1>7. FillingInv'
  BY <1>3 DEF FillingInv
<1>8. ContentInv'
  BY <1>1 DEF Inv, ContentInv, EmptyBeyond, Ahead, given
<1>9. IndexesInv'
  <2> SUFFICES ASSUME careful PROVE IndexesInv'
    BY DEF IndexesInv, given
  <2>1. ASSUME NEW i \in indexes, NEW e \in IKeys
        PROVE  Entry(i, e)' = Having(records, i, e)' \cap Read(i)'
    <3>1. Entry(i, e)' = Entry(i, e) /\ Having(records, i, e)' = Having(records, i, e)
      BY <1>1 DEF Entry, PKsOf, Having
    <3>2. i \in Indexes /\ Entry(i, e) = Having(records, i, e) \cap Read(i)
      BY IndexIds DEF Inv, IndexesInv
    <3> QED
      BY <1>3, <3>1, <3>2
  <2>2. \A i \in Indexes : Filled(i)' /\ readOne'[i] = Nothing
    BY <1>3 DEF Filled
  <2>3. Apart(records, indexes)
    BY DEF Inv, IndexesInv
  <2> QED
    BY <1>1, <2>1, <2>2, <2>3 DEF IndexesInv, Apart
<1>10. BaseInv'
  <2>1. RolledBack' = base'[1]
    BY <1>1, <1>2, <1>5 DEF RolledBack, Now
  <2>2. txn' = "upgrade" => pre_upgrade'[1] = base'[2] /\ pre_upgrade'[2] = max_index_id
    BY <1>1, <1>5
  <2>3. /\ EmptyBeyond(base'[1].index_data, max_index_id)
        /\ Ahead(base'[1].records, base'[1].key_generator)
    BY <1>5 DEF Inv, ContentInv
  <2>4. ASSUME careful PROVE Agree(base'[1], base'[2]) /\ Apart(base'[1].records, base'[2])
    <3>1. \A i \in indexes, e \in IKeys : Entry(i, e) = Having(records, i, e)
      BY <1>3, <2>4, WritesToFilled DEF Quiet
    <3>2. Apart(records, indexes)
      BY <2>4 DEF Inv, IndexesInv
    <3> QED
      BY <1>5, <3>1, <3>2 DEF Agree, Entry
  <2>5. base'[2] \subseteq 1 .. max_index_id /\ max_index_id <= max_index_id
    BY <1>2, <1>5
  <2> QED
    BY <1>1, <1>5, <2>1, <2>2, <2>3, <2>4, <2>5 DEF BaseInv, EmptyBeyond, Ahead, Agree, Apart, given
<1> QED
  BY <1>4, <1>6, <1>7, <1>8, <1>9, <1>10 DEF Inv

(* Nothing is filled outside of transactions.                              *)
LEMMA EndsAtRest ==
  ASSUME Inv, Ends
  PROVE  /\ txn' = "none" /\ snapshot' = NotCaptured /\ pre_upgrade' = pre_upgrade
         /\ toRead' \in [Indexes -> SUBSET PKeys]
         /\ readOne' \in [Indexes -> (PKeys \X Vals) \cup {Nothing}]
         /\ FillingInv' /\ BaseInv'
         /\ \A i \in Indexes : Filled(i)' /\ readOne'[i] = Nothing /\ Read(i)' = PKeys
<1>1. /\ txn' = "none" /\ snapshot' = NotCaptured /\ pre_upgrade' = pre_upgrade
      /\ toRead' = [i \in Indexes |-> {}] /\ readOne' = [i \in Indexes |-> Nothing]
  BY DEF Ends
<1>2. \A i \in Indexes : Filled(i)' /\ readOne'[i] = Nothing /\ Read(i)' = PKeys
  BY <1>1 DEF Filled, Read
<1>3. FillingInv' /\ BaseInv'
  BY <1>1, <1>2 DEF FillingInv, BaseInv
<1>4. toRead' \in [Indexes -> SUBSET PKeys]
  BY <1>1
<1>5. readOne' \in [Indexes -> (PKeys \X Vals) \cup {Nothing}]
  BY <1>1
<1> QED
  BY <1>1, <1>2, <1>3, <1>4, <1>5

LEMMA KeepsStep ==
  ASSUME Inv, Commit \/ Disconnect, UNCHANGED given PROVE Inv'
<1>1. /\ Ends /\ base' = Now
      /\ UNCHANGED <<records, index_data, key_generator, indexes, max_index_id>>
  BY DEF Commit, Disconnect, content
<1>2. Quiet
  BY DEF Commit, Disconnect, Quiet
<1>3. TypeOK'
  BY <1>1, EndsAtRest DEF Inv, TypeOK, given
<1>4. BaseTyped'
  BY <1>1, IndexIds DEF Inv, TypeOK, BaseTyped, Now, Content
<1>5. ContentInv'
  BY <1>1 DEF Inv, ContentInv, EmptyBeyond, Ahead, given
<1>6. IndexesInv'
  <2> SUFFICES ASSUME careful PROVE IndexesInv'
    BY DEF IndexesInv, given
  <2>1. \A i \in indexes, e \in IKeys : Entry(i, e) = Having(records, i, e)
    BY <1>2, WritesToFilled
  <2>2. ASSUME NEW i \in indexes, NEW e \in IKeys
        PROVE  Entry(i, e)' = Having(records, i, e)' \cap Read(i)'
    <3>1. i \in Indexes
      BY IndexIds
    <3>2. Entry(i, e)' = Entry(i, e) /\ Having(records, i, e)' = Having(records, i, e)
      BY <1>1 DEF Entry, PKsOf, Having
    <3> QED
      BY <1>1, <2>1, <3>1, <3>2, EndsAtRest, HavingKeys
  <2>3. Apart(records, indexes)
    BY DEF Inv, IndexesInv
  <2> QED
    BY <1>1, <2>2, <2>3, EndsAtRest DEF IndexesInv, Apart
<1> QED
  BY <1>1, <1>3, <1>4, <1>5, <1>6, EndsAtRest DEF Inv

(* An abort goes back to what the transaction began on.                    *)
LEMMA AbortGoesBack ==
  ASSUME Inv, Abort
  PROVE  /\ txn # "none" /\ base \in Content \X SUBSET Indexes
         /\ records' = base[1].records /\ index_data' = base[1].index_data
         /\ key_generator' = base[1].key_generator /\ indexes' = base[2]
         /\ max_index_id' = IF txn = "upgrade" THEN pre_upgrade[2] ELSE max_index_id
         /\ base' = base
<1>1. txn # "none" /\ RolledBack = base[1]
  BY DEF Abort, Ends, Inv, BaseInv
<1>2. indexes' = base[2]
  BY <1>1 DEF Abort, Inv, BaseInv
<1> QED
  BY <1>1, <1>2 DEF Abort, Inv, BaseTyped

LEMMA AbortStep == ASSUME Inv, Abort, UNCHANGED given PROVE Inv'
<1> DEFINE m == IF txn = "upgrade" THEN pre_upgrade[2] ELSE max_index_id
<1>1. /\ txn # "none" /\ base \in Content \X SUBSET Indexes /\ base' = base
      /\ records' = base[1].records /\ index_data' = base[1].index_data
      /\ key_generator' = base[1].key_generator /\ indexes' = base[2] /\ max_index_id' = m
  BY AbortGoesBack
<1>2. /\ base[2] \subseteq 1 .. m /\ EmptyBeyond(base[1].index_data, m)
      /\ Ahead(base[1].records, base[1].key_generator)
      /\ careful => Agree(base[1], base[2]) /\ Apart(base[1].records, base[2])
  BY <1>1 DEF Inv, BaseInv
<1>3. m \in 0 .. MaxIndexes /\ pre_upgrade \in (SUBSET Indexes) \X (0 .. MaxIndexes)
  BY DEF Inv, TypeOK
<1> HIDE DEF m
<1>4. records' \in Records /\ index_data' \in Entries /\ key_generator' \in Nat
  BY <1>1 DEF Content
<1>5. Ends
  BY DEF Abort
<1>6. TypeOK'
  BY <1>1, <1>2, <1>3, <1>4, <1>5, EndsAtRest DEF Inv, TypeOK, given
<1>7. BaseTyped'
  BY <1>1 DEF BaseTyped
<1>8. ContentInv'
  BY <1>1, <1>2 DEF ContentInv, EmptyBeyond, Ahead, given
<1>9. IndexesInv'
  <2> SUFFICES ASSUME careful PROVE IndexesInv'
    BY DEF IndexesInv, given
  <2>1. ASSUME NEW i \in indexes', NEW e \in IKeys
        PROVE  Entry(i, e)' = Having(records, i, e)' \cap Read(i)'
    <3>1. i \in Indexes /\ PKsOf(base[1].index_data, i, e) = Having(base[1].records, i, e)
      BY <1>1, <1>2 DEF Agree
    <3>2. Entry(i, e)' = PKsOf(base[1].index_data, i, e)
          /\ Having(records, i, e)' = Having(base[1].records, i, e)
      BY <1>1 DEF Entry, PKsOf, Having
    <3> QED
      BY <1>5, <3>1, <3>2, EndsAtRest, HavingKeys
  <2>2. Apart(records, indexes)'
    BY <1>1, <1>2 DEF Apart
  <2> QED
    BY <1>5, <2>1, <2>2, EndsAtRest DEF IndexesInv
<1> QED
  BY <1>5, <1>6, <1>7, <1>8, <1>9, EndsAtRest DEF Inv

------------------------------------------------------------------------------
(* The theorems.                                                           *)
LEMMA InitInv == ASSUME Init PROVE Inv
<1>1. /\ records \in Records /\ index_data \in Entries /\ key_generator = 0
      /\ \A k \in PKeys : records[k] = NoVal
  BY NoEntries DEF Init, Records
<1>2. max_index_id = 0 /\ indexes = {} /\ 0 \in 0 .. MaxIndexes /\ MaxIndexes \in Nat
  BY ConstantsAssumption DEF Init
<1>3. TypeOK
  BY <1>1, <1>2 DEF Init, TypeOK
<1>4. BaseTyped
  BY <1>1, <1>2 DEF Init, BaseTyped, Now, Content
<1>5. \A i \in Indexes : Filled(i) /\ readOne[i] = Nothing
  BY DEF Init, Filled
<1>6. FillingInv /\ IndexesInv /\ BaseInv
  BY <1>2, <1>5 DEF Init, FillingInv, IndexesInv, BaseInv, Apart
<1>7. ContentInv
  BY <1>1, NoEntries DEF Init, ContentInv, EmptyBeyond, Ahead
<1> QED
  BY <1>3, <1>4, <1>6, <1>7 DEF Inv

LEMMA NextInv == ASSUME Inv, [Next]_vars PROVE Inv'
<1>1. CASE UNCHANGED vars
  BY <1>1 DEF vars, given, content, filling, Inv, TypeOK, BaseTyped, FillingInv, IndexesInv,
     ContentInv,
     BaseInv, Filled, Read, Entry, PKsOf, Having, Apart, EmptyBeyond, Ahead, Agree, RolledBack, Now
<1>2. CASE Step /\ UNCHANGED given
  BY <1>2, BeginStep, PutStep, DeleteRangeStep, ClearStep, CreateIndexStep, CursorReadsStep,
     SetIndexKeysStep, DeleteIndexStep, KeepsStep, AbortStep DEF Step
<1> QED
  BY <1>1, <1>2 DEF Next

LEMMA InvSound == ASSUME Inv PROVE StoreIsSound
<1>1. ASSUME careful, NEW i \in indexes, Filled(i), NEW e \in IKeys
      PROVE  Entry(i, e) = Having(records, i, e)
  <2>1. Entry(i, e) = Having(records, i, e) \cap Read(i)
    BY <1>1 DEF Inv, IndexesInv
  <2> QED
    BY <1>1, <2>1, ReadToTheEnd, HavingKeys
<1>2. IndexesAgree
  BY <1>1 DEF IndexesAgree, Having, KeyExists
<1>3. NewIndexesStartEmpty
  BY DEF Inv, ContentInv, EmptyBeyond, NewIndexesStartEmpty, Entry
<1>4. UniqueIndexesHold
  <2> SUFFICES ASSUME careful, NEW i \in indexes \cap UniqueIndexes, NEW e \in IKeys, Filled(i),
                      NEW k \in Entry(i, e), NEW l \in Entry(i, e), k # l
               PROVE  FALSE
    BY DEF UniqueIndexesHold
  <2>1. /\ k \in PKeys /\ records[k] # NoVal /\ e \in records[k][i]
        /\ l \in PKeys /\ records[l] # NoVal /\ e \in records[l][i]
    BY <1>1 DEF Having
  <2>2. Apart(records, indexes)
    BY DEF Inv, IndexesInv
  <2> QED
    BY <2>1, <2>2 DEF Apart
<1> QED
  BY <1>2, <1>3, <1>4 DEF Inv, StoreIsSound

LEMMA InductiveInvariant == Spec => []Inv
<1>1. Init => Inv
  BY InitInv
<1>2. Inv /\ [Next]_vars => Inv'
  BY NextInv
<1> QED
  BY <1>1, <1>2, PTL DEF Spec

(* For any keys, values and indexes, and any order of writes, refusals,    *)
(* index creations and ends of transactions: types; an index that is       *)
(* filled lists exactly the records that have its keys, a unique one each  *)
(* key once, and an id that no index has yet lists nothing.                *)
THEOREM StoreSound == Spec => []StoreIsSound
<1>1. Inv => StoreIsSound
  BY InvSound
<1> QED
  BY <1>1, InductiveInvariant, PTL

(* An abort leaves records, entries, generator and indexes as the          *)
(* transaction found them, whether or not it had armed the snapshot.       *)
THEOREM AbortsUndo == Spec => AbortUndoesEverything
<1>1. ASSUME Inv, Abort PROVE Now' = base
  <2>1. /\ base \in Content \X SUBSET Indexes
        /\ records' = base[1].records /\ index_data' = base[1].index_data
        /\ key_generator' = base[1].key_generator /\ indexes' = base[2]
    BY <1>1, AbortGoesBack
  <2>2. base[1] = [records |-> base[1].records, index_data |-> base[1].index_data,
                   key_generator |-> base[1].key_generator]
    BY <2>1 DEF Content
  <2>3. base = <<base[1], base[2]>>
    BY <2>1
  <2> QED
    BY <2>1, <2>2, <2>3 DEF Now
<1>2. Inv /\ [Next]_vars => [Abort => Now' = base]_vars
  BY <1>1
<1> QED
  BY <1>2, InductiveInvariant, PTL DEF Spec, AbortUndoesEverything

(* A put without a key replaces no record as long as doubles can tell the  *)
(* numbers of the generator apart.                                         *)
THEOREM GeneratedKeysAreNew == Spec => GeneratedKeyIsNew
<1>1. ASSUME Inv, NextNumber <= MaxExact, NEW v \in Vals, PutStored(NoKey, v, FALSE)
      PROVE  ~KeyExists(UsedKey(NoKey))
  <2>1. auto_increment /\ UsedKey(NoKey) \in PKeys
    BY <1>1 DEF PutStored, PutAttempt
  <2>2. UsedKey(NoKey) = NextNumber
    BY <1>1 DEF UsedKey, ToDouble
  <2>3. key_generator \in Nat /\ MaxExact \in Nat
    BY <1>1, ConstantsAssumption DEF Inv, TypeOK
  <2>4. key_generator <= NextNumber /\ NextNumber >= 1 /\ NextNumber \in Nat
        /\ (NextNumber = key_generator \/ key_generator = 0)
    BY <2>3 DEF NextNumber
  <2>5. key_generator <= MaxExact
    BY <1>1, <2>3, <2>4
  <2> SUFFICES ASSUME KeyExists(NextNumber) PROVE FALSE
    BY <2>2
  <2>6. NextNumber < key_generator
    BY <1>1, <2>1, <2>2, <2>5 DEF Inv, ContentInv, Ahead, KeyExists
  <2> QED
    BY <2>3, <2>4, <2>6
<1>2. Inv /\ [Next]_vars =>
        [NextNumber <= MaxExact =>
           \A v \in Vals : PutStored(NoKey, v, FALSE) => ~KeyExists(UsedKey(NoKey))]_vars
  BY <1>1
<1> QED
  BY <1>2, InductiveInvariant, PTL DEF Spec, GeneratedKeyIsNew

------------------------------------------------------------------------------
(* IDBRegistry.                                                            *)

LEMMA SameCardinality == \A S : Registry!Cardinality(S) = Cardinality(S)
  BY DEF Registry!Cardinality, Cardinality

LEMMA KeysAreFinite == IsFiniteSet(Registry!Keys)
  BY RegistryAssumption, FS_Product DEF Registry!Keys

(* The databases of a file get backends of their own, new ones, and no new *)
(* one is left over.                                                       *)
LEMMA FreshBackends ==
  ASSUME NEW f \in Registry!File, allocated \in Nat
  PROVE  /\ IsFiniteSet(Registry!InFile(f)) /\ Cardinality(Registry!InFile(f)) \in Nat
         /\ Cardinality(Registry!Added(f)) = Cardinality(Registry!InFile(f))
         /\ Registry!Fresh(f) \in Bijection(Registry!InFile(f), Registry!Added(f))
<1> DEFINE S == Registry!InFile(f)
           T == Registry!Added(f)
<1>1. IsFiniteSet(S) /\ Cardinality(S) \in Nat
  BY KeysAreFinite, FS_Subset, FS_CardinalityType DEF Registry!InFile
<1>2. IsFiniteSet(T) /\ Cardinality(T) = Cardinality(S)
  <2> DEFINE a == allocated + 1
             b == allocated + Cardinality(S)
  <2>1. a \in Int /\ b \in Int /\ b - a + 1 = Cardinality(S) /\ (a > b => Cardinality(S) = 0)
    BY <1>1
  <2>2. T = a .. b
    BY SameCardinality DEF Registry!Added
  <2> HIDE DEF a, b, S, T
  <2> QED
    BY <2>1, <2>2, FS_Interval
<1>3. \E n \in [S -> T] : \A k, l \in S : n[k] = n[l] => k = l
  <2>1. ExistsBijection(S, T)
    BY <1>1, <1>2, FS_SameCardinalityBij
  <2> QED
    BY <2>1 DEF ExistsBijection, Bijection, Injection, IsInjective
<1>4. /\ Registry!Fresh(f) \in [S -> T]
      /\ \A k, l \in S : Registry!Fresh(f)[k] = Registry!Fresh(f)[l] => k = l
  BY <1>3 DEF Registry!Fresh
<1>5. Registry!Fresh(f) \in Injection(S, T)
  BY <1>4 DEF Injection, IsInjective
<1>6. Registry!Fresh(f) \in Surjection(S, T)
  BY <1>1, <1>2, <1>5, FS_Injection
<1> QED
  BY <1>1, <1>2, <1>5, <1>6 DEF Bijection

LEMMA RegistryInit == Registry!Init => Registry!RegistryIsSound
<1> USE RegistryAssumption DEF Registry!Init
<1>1. Registry!Init => Registry!Registered = {}
  BY DEF Registry!Registered
<1>2. Registry!Init => Registry!TypeOK
  BY <1>1 DEF Registry!TypeOK, Registry!Live, Registry!File, Registry!Backends
<1>3. Registry!Init => Registry!OnlyClearsFree /\ Registry!BackendsHaveOneOwner
  BY <1>1 DEF Registry!OnlyClearsFree, Registry!BackendsHaveOneOwner
<1> QED
  BY <1>2, <1>3 DEF Registry!RegistryIsSound

(* A backend is registered, or in the graveyard, not both; for one key.    *)
LEMMA WhoIsLive ==
  ASSUME Registry!RegistryIsSound
  PROVE  /\ \A b : b \in Registry!Registered <=> b # Nothing /\ \E k \in Registry!Keys : registry[k] = b
         /\ \A k \in Registry!Keys : registry[k] # Nothing =>
              /\ registry[k] \in Registry!Backends /\ registry[k] \in 1 .. allocated
              /\ registry[k] \notin graveyard
         /\ \A b \in graveyard : b \in 1 .. allocated
  BY DEF Registry!RegistryIsSound, Registry!TypeOK, Registry!BackendsHaveOneOwner,
         Registry!Live, Registry!Registered

(* A handle is built on a live backend, one that was there or is new.      *)
LEMMA OpenKeeps ==
  ASSUME Registry!RegistryIsSound, NEW c \in Conns, NEW k \in Registry!Keys,
         Registry!OpenExisting(c, k) \/ Registry!OpenNew(c, k)
  PROVE  Registry!RegistryIsSound'
<1> USE RegistryAssumption DEF Registry!RegistryIsSound
<1>1. PICK b : /\ b \in Registry!Backends /\ b # Nothing
               /\ Registry!Connects(c, b)
               /\ registry' = [registry EXCEPT ![k] = b]
               /\ allocated' \in 0 .. MaxBackends /\ allocated <= allocated' /\ b <= allocated'
               /\ UNCHANGED <<graveyard, data, saved, freed>>
               /\ b = registry[k] \/ (registry[k] = Nothing /\ b > allocated)
  <2>1. CASE Registry!OpenExisting(c, k)
    <3>1. registry[k] \in Registry!Backends /\ registry[k] # Nothing /\ registry[k] <= allocated
      BY <2>1, WhoIsLive DEF Registry!OpenExisting, Registry!TypeOK
    <3> QED
      BY <2>1, <3>1 DEF Registry!OpenExisting, Registry!TypeOK
  <2>2. CASE Registry!OpenNew(c, k)
    <3>1. allocated \in Nat /\ allocated <= MaxBackends
      BY DEF Registry!TypeOK
    <3>2. /\ allocated + 1 \in Registry!Backends /\ allocated + 1 # Nothing
          /\ allocated + 1 \in 0 .. MaxBackends
      BY <2>2, <3>1 DEF Registry!OpenNew, Registry!Backends
    <3>3. /\ allocated' = allocated + 1 /\ Registry!Connects(c, allocated + 1)
          /\ registry' = [registry EXCEPT ![k] = allocated + 1]
          /\ registry[k] = Nothing /\ UNCHANGED <<graveyard, data, saved, freed>>
      BY <2>2 DEF Registry!OpenNew
    <3>4. allocated <= allocated + 1 /\ allocated + 1 > allocated /\ allocated + 1 <= allocated + 1
      BY <3>1
    <3> QED
      BY <3>2, <3>3, <3>4
  <2> QED
    BY <2>1, <2>2
<1>2. \A b2 : b2 \in Registry!Live' <=> b2 = b \/ b2 \in Registry!Live
  BY <1>1, WhoIsLive DEF Registry!TypeOK, Registry!Live, Registry!Registered
<1>3. /\ backend_[c] = Nothing /\ backend_' = [backend_ EXCEPT ![c] = b]
      /\ connections' = [connections EXCEPT ![b] = @ \cup {c}]
  BY <1>1 DEF Registry!Connects, Registry!OpenExisting, Registry!OpenNew
<1>4. Registry!TypeOK'
  <2>1. connections' = [e \in Registry!Backends |-> {d \in Conns : backend_'[d] = e}]
    <3>1. \A e \in Registry!Backends : connections'[e] = {d \in Conns : backend_'[d] = e}
      <4> SUFFICES ASSUME NEW e \in Registry!Backends
                   PROVE  connections'[e] = {d \in Conns : backend_'[d] = e}
        OBVIOUS
      <4>1. connections[e] = {d \in Conns : backend_[d] = e}
        BY DEF Registry!TypeOK
      <4>2. connections'[e] = IF e = b THEN connections[e] \cup {c} ELSE connections[e]
        BY <1>3 DEF Registry!TypeOK
      <4>3. \A d \in Conns : backend_'[d] = IF d = c THEN b ELSE backend_[d]
        BY <1>3 DEF Registry!TypeOK
      <4>4. e # Nothing
        BY DEF Registry!Backends
      <4> QED
        BY <1>3, <4>1, <4>2, <4>3, <4>4
    <3>2. DOMAIN connections' = Registry!Backends /\ connections' = [e \in Registry!Backends |-> connections'[e]]
      BY <1>3 DEF Registry!TypeOK
    <3> QED
      BY <3>1, <3>2
  <2>2. (Registry!Live \cup freed)' \subseteq 1 .. allocated'
    <3>1. Registry!Live \cup freed \subseteq 1 .. allocated /\ allocated \in Nat /\ allocated' \in Nat
      BY <1>1 DEF Registry!TypeOK
    <3>2. b \in 1 .. allocated'
      BY <1>1, <3>1 DEF Registry!Backends
    <3>3. 1 .. allocated \subseteq 1 .. allocated'
      BY <1>1, <3>1
    <3> QED
      BY <1>1, <1>2, <3>1, <3>2, <3>3
  <2> QED
    BY <1>1, <1>3, <2>1, <2>2 DEF Registry!TypeOK
<1>5. Registry!OnlyClearsFree'
  BY <1>1, <1>2, <1>3 DEF Registry!OnlyClearsFree, Registry!TypeOK
<1>6. Registry!BackendsHaveOneOwner'
  <2>1. \A l \in Registry!Keys : registry'[l] = IF l = k THEN b ELSE registry[l]
    BY <1>1 DEF Registry!TypeOK
  <2>2. b \notin graveyard
    BY <1>1, WhoIsLive DEF Registry!TypeOK
  <2>3. \A l \in Registry!Keys \ {k} : registry[l] # b
    BY <1>1, WhoIsLive DEF Registry!TypeOK, Registry!BackendsHaveOneOwner
  <2>4. b \notin freed
    <3>1. freed \subseteq 1 .. allocated /\ Registry!Live \cap freed = {}
      BY DEF Registry!TypeOK, Registry!BackendsHaveOneOwner
    <3>2. b = registry[k] => b \in Registry!Live
      BY <1>1 DEF Registry!Live, Registry!Registered
    <3>3. allocated \in Nat
      BY DEF Registry!TypeOK
    <3>4. b > allocated => b \notin 1 .. allocated
      BY <1>1, <3>3 DEF Registry!Backends
    <3> QED
      BY <1>1, <3>1, <3>2, <3>4
  <2>5. (Registry!Live \cap freed)' = {}
    BY <1>1, <1>2, <2>4 DEF Registry!BackendsHaveOneOwner
  <2> QED
    BY <1>1, <2>1, <2>2, <2>3, <2>5, WhoIsLive
      DEF Registry!BackendsHaveOneOwner, Registry!Registered
<1> QED
  BY <1>4, <1>5, <1>6

(* A handle goes, with what its backend knows of it.                       *)
LEMMA DisconnectKeeps ==
  ASSUME Registry!RegistryIsSound, NEW c \in Conns, Registry!Disconnect(c)
  PROVE  Registry!RegistryIsSound'
<1> USE DEF Registry!RegistryIsSound
<1>1. /\ backend_[c] \in Registry!Backends /\ backend_[c] # Nothing
      /\ connections' = [connections EXCEPT ![backend_[c]] = @ \ {c}]
      /\ backend_' = [backend_ EXCEPT ![c] = Nothing]
      /\ UNCHANGED <<registry, graveyard, allocated, data, saved, freed>>
  BY DEF Registry!Disconnect, Registry!TypeOK
<1>2. \A e \in Registry!Backends : connections'[e] = {d \in Conns : backend_'[d] = e}
  <2> SUFFICES ASSUME NEW e \in Registry!Backends
               PROVE  connections'[e] = {d \in Conns : backend_'[d] = e}
    OBVIOUS
  <2>1. connections[e] = {d \in Conns : backend_[d] = e} /\ e # Nothing
    BY RegistryAssumption DEF Registry!TypeOK, Registry!Backends
  <2>2. connections'[e] = IF e = backend_[c] THEN connections[e] \ {c} ELSE connections[e]
    BY <1>1 DEF Registry!TypeOK
  <2>3. \A d \in Conns : backend_'[d] = IF d = c THEN Nothing ELSE backend_[d]
    BY <1>1 DEF Registry!TypeOK
  <2> QED
    BY <2>1, <2>2, <2>3
<1>3. connections' = [e \in Registry!Backends |-> {d \in Conns : backend_'[d] = e}]
  BY <1>1, <1>2 DEF Registry!TypeOK
<1>4. Registry!TypeOK'
  <2>1. backend_' \in [Conns -> Registry!Backends \cup {Nothing}]
    BY <1>1 DEF Registry!TypeOK
  <2>2. Registry!Live' = Registry!Live
    BY <1>1 DEF Registry!Live, Registry!Registered
  <2> QED
    BY <1>1, <1>3, <2>1, <2>2 DEF Registry!TypeOK
<1>5. Registry!OnlyClearsFree' /\ Registry!BackendsHaveOneOwner'
  BY <1>1 DEF Registry!TypeOK, Registry!OnlyClearsFree, Registry!BackendsHaveOneOwner,
              Registry!Live, Registry!Registered
<1> QED
  BY <1>4, <1>5

(* Writes change what a backend holds, saves the file.                     *)
LEMMA WriteAndSaveKeep ==
  ASSUME Registry!RegistryIsSound,
         \/ \E c \in Conns, d \in Data : Registry!Write(c, d)
         \/ \E S \in {Scopes} \cup {{s} : s \in Scopes} : Registry!Save(S)
  PROVE  Registry!RegistryIsSound'
<1> USE DEF Registry!RegistryIsSound
<1>1. UNCHANGED <<registry, graveyard, allocated, connections, backend_, freed>>
  BY DEF Registry!Write, Registry!Save
<1>2. data' \in [Registry!Backends -> Data \cup {NoVal}] /\ saved' \in Registry!File
  <2>1. CASE \E c \in Conns, d \in Data : Registry!Write(c, d)
    BY <2>1 DEF Registry!Write, Registry!TypeOK
  <2>2. CASE \E S \in {Scopes} \cup {{s} : s \in Scopes} : Registry!Save(S)
    BY <2>2, WhoIsLive DEF Registry!Save, Registry!TypeOK, Registry!File
  <2> QED
    BY <2>1, <2>2
<1>3. Registry!TypeOK'
  BY <1>1, <1>2 DEF Registry!TypeOK, Registry!Live, Registry!Registered
<1>4. Registry!OnlyClearsFree' /\ Registry!BackendsHaveOneOwner'
  BY <1>1 DEF Registry!OnlyClearsFree, Registry!BackendsHaveOneOwner,
              Registry!Live, Registry!Registered
<1> QED
  BY <1>3, <1>4

(* A deleted database is buried: handles may still be built on it.         *)
LEMMA DeleteDatabaseKeeps ==
  ASSUME Registry!RegistryIsSound, NEW k \in Registry!Keys, Registry!DeleteDatabase(k)
  PROVE  Registry!RegistryIsSound'
<1> USE DEF Registry!RegistryIsSound
<1>1. /\ registry[k] # Nothing /\ graveyard' = graveyard \cup {registry[k]}
      /\ registry' = [registry EXCEPT ![k] = Nothing]
      /\ UNCHANGED <<allocated, data, connections, backend_, saved, freed>>
  BY DEF Registry!DeleteDatabase
<1>2. \A l \in Registry!Keys : registry'[l] = IF l = k THEN Nothing ELSE registry[l]
  BY <1>1 DEF Registry!TypeOK
<1>3. \A b : b \in Registry!Live' <=> b \in Registry!Live
  BY <1>1, <1>2 DEF Registry!Live, Registry!Registered
<1>4. Registry!TypeOK'
  BY <1>1, <1>3, WhoIsLive DEF Registry!TypeOK
<1>5. Registry!OnlyClearsFree'
  BY <1>1, <1>3 DEF Registry!OnlyClearsFree
<1>6. Registry!BackendsHaveOneOwner'
  <2>1. (Registry!Live \cap freed)' = {}
    BY <1>1, <1>3 DEF Registry!BackendsHaveOneOwner
  <2> QED
    BY <1>1, <1>2, <2>1, WhoIsLive DEF Registry!BackendsHaveOneOwner, Registry!Registered
<1> QED
  BY <1>4, <1>5, <1>6

(* What is loaded of a file gets backends of its own, and those it takes   *)
(* the keys of are buried; K are the keys that are kept.                   *)
LEMMA InstallKeeps ==
  ASSUME Registry!RegistryIsSound, NEW f \in Registry!File,
         NEW K \in SUBSET Registry!Keys, K \cap Registry!InFile(f) = {},
         Registry!Installs(f, Registry!Fresh(f)),
         registry' = [k \in Registry!Keys |->
            IF k \in Registry!InFile(f) THEN Registry!Fresh(f)[k]
            ELSE IF k \in K THEN registry[k] ELSE Nothing],
         graveyard' = graveyard \cup ({registry[k] : k \in Registry!Keys \ K} \ {Nothing}),
         UNCHANGED <<connections, backend_, saved, freed>>
  PROVE  Registry!RegistryIsSound'
<1> USE DEF Registry!RegistryIsSound
<1> DEFINE S == Registry!InFile(f)
           T == Registry!Added(f)
           n == Registry!Fresh(f)
<1>1. allocated \in Nat
  BY RegistryAssumption DEF Registry!TypeOK
<1>2. /\ Cardinality(S) \in Nat /\ Cardinality(T) = Cardinality(S)
      /\ n \in [S -> T] /\ \A k, l \in S : n[k] = n[l] => k = l
      /\ \A b \in T : \E k \in S : n[k] = b
  BY <1>1, FreshBackends DEF Bijection, Injection, Surjection, IsInjective
<1>3. /\ T \subseteq Registry!Backends /\ allocated' = allocated + Cardinality(T)
      /\ data' = [b \in Registry!Backends |->
           IF b \in T THEN f[CHOOSE k \in S : n[k] = b] ELSE data[b]]
  BY SameCardinality DEF Registry!Installs
<1>4. \A b \in T : b \in Nat /\ b > allocated /\ b <= allocated'
  BY <1>1, <1>2, <1>3, SameCardinality DEF Registry!Added
<1>5. allocated' \in 0 .. MaxBackends /\ allocated <= allocated'
  <2>1. CASE Cardinality(S) = 0
    BY <1>1, <1>2, <1>3, <2>1 DEF Registry!TypeOK
  <2>2. CASE Cardinality(S) # 0
    <3>1. allocated + Cardinality(S) \in T
      BY <1>1, <1>2, <2>2, SameCardinality DEF Registry!Added
    <3> QED
      BY <1>1, <1>2, <1>3, <3>1, RegistryAssumption DEF Registry!Backends
  <2> QED
    BY <2>1, <2>2
<1>6. data' \in [Registry!Backends -> Data \cup {NoVal}]
  <2>1. \A b \in T : f[CHOOSE k \in S : n[k] = b] \in Data \cup {NoVal}
    BY <1>2 DEF Registry!InFile, Registry!File
  <2> QED
    BY <1>3, <2>1 DEF Registry!TypeOK
<1>7. \A k \in Registry!Keys :
        registry'[k] = IF k \in S THEN n[k] ELSE IF k \in K THEN registry[k] ELSE Nothing
  OBVIOUS
<1>8. S \subseteq Registry!Keys
  BY DEF Registry!InFile
<1>9. \A b : b \in Registry!Live' <=> b \in T \/ b \in Registry!Live
  BY <1>2, <1>3, <1>4, <1>7, <1>8, RegistryAssumption DEF Registry!Live, Registry!Registered
<1>10. Registry!TypeOK'
  <2>1. registry' \in [Registry!Keys -> Registry!Backends \cup {Nothing}]
    BY <1>2, <1>3 DEF Registry!TypeOK
  <2>2. graveyard' \subseteq Registry!Backends
    BY WhoIsLive DEF Registry!TypeOK
  <2>3. (Registry!Live \cup freed)' \subseteq 1 .. allocated'
    <3>1. Registry!Live \cup freed \subseteq 1 .. allocated /\ allocated' \in Nat
      BY <1>5 DEF Registry!TypeOK
    <3>2. 1 .. allocated \subseteq 1 .. allocated' /\ T \subseteq 1 .. allocated'
      BY <1>1, <1>4, <1>5, <3>1
    <3> QED
      BY <1>9, <3>1, <3>2
  <2> QED
    BY <1>5, <1>6, <2>1, <2>2, <2>3 DEF Registry!TypeOK
<1>11. Registry!OnlyClearsFree'
  BY <1>9 DEF Registry!OnlyClearsFree
<1>12. Registry!BackendsHaveOneOwner'
  <2>1. \A k \in Registry!Keys : registry'[k] # Nothing => registry'[k] \notin graveyard'
    <3> SUFFICES ASSUME NEW k \in Registry!Keys, registry'[k] # Nothing
                 PROVE  registry'[k] \notin graveyard'
      OBVIOUS
    <3>1. CASE k \in S
      <4>1. registry'[k] \in T
        BY <1>2, <1>7, <3>1
      <4>2. \A b \in graveyard' : b \in 1 .. allocated
        BY WhoIsLive
      <4> QED
        BY <1>1, <1>4, <4>1, <4>2
    <3>2. CASE k \notin S
      BY <1>7, <3>2, WhoIsLive DEF Registry!BackendsHaveOneOwner
    <3> QED
      BY <3>1, <3>2
  <2>2. \A k, l \in Registry!Keys : registry'[k] = registry'[l] /\ registry'[k] # Nothing => k = l
    <3>1. \A k \in Registry!Keys \ S : registry'[k] # Nothing => registry'[k] = registry[k] /\ registry[k] <= allocated
      BY <1>7, WhoIsLive
    <3>2. \A k \in S : registry'[k] = n[k] /\ n[k] > allocated
      BY <1>2, <1>4, <1>7, <1>8
    <3> QED
      BY <1>1, <1>2, <1>4, <3>1, <3>2 DEF Registry!BackendsHaveOneOwner
  <2>3. (Registry!Live \cap freed)' = {}
    <3>1. \A b \in freed : b \in 1 .. allocated /\ b \notin Registry!Live
      BY DEF Registry!TypeOK, Registry!BackendsHaveOneOwner
    <3>2. \A b \in T : b \notin 1 .. allocated
      BY <1>1, <1>4
    <3> QED
      BY <1>9, <3>1, <3>2
  <2> QED
    BY <2>1, <2>2, <2>3 DEF Registry!BackendsHaveOneOwner, Registry!Registered
<1> QED
  BY <1>10, <1>11, <1>12

(* MbLoadIndexedDB keeps no key.                                           *)
LEMMA LoadKeeps ==
  ASSUME Registry!RegistryIsSound, Registry!Load
  PROVE  Registry!RegistryIsSound'
<1>1. saved \in Registry!File
  BY DEF Registry!RegistryIsSound, Registry!TypeOK
<1>2. registry' = [k \in Registry!Keys |->
         IF k \in Registry!InFile(saved) THEN Registry!Fresh(saved)[k]
         ELSE IF k \in {} THEN registry[k] ELSE Nothing]
  BY DEF Registry!Load
<1>3. graveyard' = graveyard \cup ({registry[k] : k \in Registry!Keys \ {}} \ {Nothing})
  BY DEF Registry!Load, Registry!Registered
<1>4. /\ {} \in SUBSET Registry!Keys /\ {} \cap Registry!InFile(saved) = {}
      /\ Registry!Installs(saved, Registry!Fresh(saved))
      /\ UNCHANGED <<connections, backend_, saved, freed>>
  BY DEF Registry!Load
<1> HIDE DEF Registry!Load
<1> QED
  BY <1>1, <1>2, <1>3, <1>4, InstallKeeps

(* A merge keeps the keys that are not in the file.                        *)
LEMMA MergeKeeps ==
  ASSUME Registry!RegistryIsSound, NEW f \in Registry!File, Registry!Merge(f)
  PROVE  Registry!RegistryIsSound'
<1> DEFINE K == Registry!Keys \ Registry!InFile(f)
<1>1. registry' = [k \in Registry!Keys |->
         IF k \in Registry!InFile(f) THEN Registry!Fresh(f)[k]
         ELSE IF k \in K THEN registry[k] ELSE Nothing]
  BY DEF Registry!Merge
<1>2. Registry!Keys \ K = Registry!InFile(f)
  BY DEF Registry!InFile
<1>3. graveyard' = graveyard \cup ({registry[k] : k \in Registry!Keys \ K} \ {Nothing})
  BY <1>2 DEF Registry!Merge, Registry!RetiredBy
<1> QED
  BY <1>1, <1>2, <1>3, InstallKeeps DEF Registry!Merge

(* What is loaded for a scope is a file of that scope.                     *)
LEMMA RekeyedFile ==
  ASSUME NEW s \in Scopes, saved \in Registry!File
  PROVE  /\ Registry!Rekeyed(s) \in Registry!File
         /\ \A k \in Registry!InFile(Registry!Rekeyed(s)) : k[1] = s
<1>1. \A k \in Registry!Keys :
        (\E o \in Scopes : saved[<<o, k[2]>>] # Nothing) =>
          saved[CHOOSE l \in Registry!Keys : l[2] = k[2] /\ saved[l] # Nothing]
            \in Data \cup {NoVal, Nothing}
  <2> SUFFICES ASSUME NEW k \in Registry!Keys, NEW o \in Scopes, saved[<<o, k[2]>>] # Nothing
               PROVE  saved[CHOOSE l \in Registry!Keys : l[2] = k[2] /\ saved[l] # Nothing]
                        \in Data \cup {NoVal, Nothing}
    OBVIOUS
  <2>1. <<o, k[2]>> \in Registry!Keys /\ <<o, k[2]>>[2] = k[2]
    BY DEF Registry!Keys
  <2>2. \E l \in Registry!Keys : l[2] = k[2] /\ saved[l] # Nothing
    BY <2>1
  <2> QED
    BY <2>2 DEF Registry!File
<1>2. Registry!Rekeyed(s) \in Registry!File
  BY <1>1 DEF Registry!Rekeyed, Registry!File
<1>3. \A k \in Registry!InFile(Registry!Rekeyed(s)) : k[1] = s
  BY DEF Registry!Rekeyed, Registry!InFile
<1> QED
  BY <1>2, <1>3

(* What a clear takes out of the registry it frees, whoever points at it.  *)
LEMMA ClearScopedKeeps ==
  ASSUME Registry!RegistryIsSound, NEW s \in Scopes, Registry!ClearScoped(s)
  PROVE  Registry!RegistryIsSound'
<1> USE DEF Registry!RegistryIsSound
<1> DEFINE Gone == {registry[k] : k \in Registry!ClearedBy(s)} \ {Nothing}
<1>1. /\ registry' = [k \in Registry!Keys |->
           IF k \in Registry!ClearedBy(s) THEN Nothing ELSE registry[k]]
      /\ freed' = freed \cup Gone
      /\ UNCHANGED <<graveyard, allocated, data, connections, backend_, saved>>
  BY DEF Registry!ClearScoped
<1>2. \A k \in Registry!Keys : registry'[k] = Nothing \/ registry'[k] = registry[k]
  BY <1>1
<1>3. Registry!ClearedBy(s) \subseteq Registry!Keys /\ Gone \subseteq Registry!Registered
  BY DEF Registry!ClearedBy, Registry!Keys, Registry!Registered
<1>4. Registry!Live' \subseteq Registry!Live /\ Registry!Live \subseteq Registry!Live' \cup Gone
  BY <1>1, <1>2 DEF Registry!Live, Registry!Registered
<1>5. Registry!Live' \cap Gone = {}
  <2> SUFFICES ASSUME NEW k \in Registry!ClearedBy(s), registry[k] # Nothing,
                      registry[k] \in Registry!Live'
               PROVE  FALSE
    OBVIOUS
  <2>1. k \in Registry!Keys /\ registry[k] \notin graveyard
    BY <1>3, WhoIsLive
  <2>2. PICK l \in Registry!Keys : registry'[l] = registry[k]
    BY <1>1, <2>1 DEF Registry!Live, Registry!Registered
  <2>3. registry[l] = registry[k] /\ l \notin Registry!ClearedBy(s)
    BY <1>1, <2>2
  <2> QED
    BY <2>1, <2>3 DEF Registry!BackendsHaveOneOwner
<1>6. Registry!TypeOK'
  <2>1. (Registry!Live \cup freed)' \subseteq 1 .. allocated'
    BY <1>1, <1>3, <1>4 DEF Registry!TypeOK, Registry!Live
  <2> QED
    BY <1>1, <1>2, <2>1 DEF Registry!TypeOK
<1>7. Registry!OnlyClearsFree'
  BY <1>1, <1>4 DEF Registry!OnlyClearsFree
<1>8. Registry!BackendsHaveOneOwner'
  <2>1. (Registry!Live \cap freed)' = {}
    BY <1>1, <1>4, <1>5 DEF Registry!BackendsHaveOneOwner
  <2> QED
    BY <1>1, <1>2, <2>1, WhoIsLive DEF Registry!BackendsHaveOneOwner, Registry!Registered
<1> QED
  BY <1>6, <1>7, <1>8

LEMMA RestartKeeps ==
  ASSUME Registry!RegistryIsSound, Registry!Restart
  PROVE  Registry!RegistryIsSound'
<1> USE RegistryAssumption DEF Registry!RegistryIsSound, Registry!Restart
<1>1. Registry!Registered' = {}
  BY DEF Registry!Registered
<1>2. Registry!TypeOK'
  BY <1>1 DEF Registry!TypeOK, Registry!Live, Registry!Backends
<1>3. Registry!OnlyClearsFree' /\ Registry!BackendsHaveOneOwner'
  BY <1>1 DEF Registry!OnlyClearsFree, Registry!BackendsHaveOneOwner
<1> QED
  BY <1>2, <1>3
(* Every operation of the registry keeps it sound.                         *)
LEMMA RegistryNext ==
  ASSUME Registry!RegistryIsSound, Registry!Next
  PROVE  Registry!RegistryIsSound'
<1>1. CASE \E c \in Conns : \E k \in Registry!Keys :
             Registry!OpenExisting(c, k) \/ Registry!OpenNew(c, k)
  BY <1>1, OpenKeeps
<1>2. CASE \/ \E c \in Conns, d \in Data : Registry!Write(c, d)
           \/ \E S \in {Scopes} \cup {{s} : s \in Scopes} : Registry!Save(S)
  BY <1>2, WriteAndSaveKeep
<1>3. CASE \E c \in Conns : Registry!Disconnect(c)
  BY <1>3, DisconnectKeeps
<1>4. CASE \E k \in Registry!Keys : Registry!DeleteDatabase(k)
  BY <1>4, DeleteDatabaseKeeps
<1>5. CASE Registry!Load
  BY <1>5, LoadKeeps
<1>6. CASE \E s \in Scopes : Registry!LoadMergeScoped(s)
  <2>1. saved \in Registry!File
    BY DEF Registry!RegistryIsSound, Registry!TypeOK
  <2> QED
    BY <1>6, <2>1, RekeyedFile, MergeKeeps DEF Registry!LoadMergeScoped
<1>7. CASE \E s \in Scopes : Registry!ClearScoped(s)
  BY <1>7, ClearScopedKeeps
<1>8. CASE Registry!Merge(saved)
  <2>1. saved \in Registry!File
    BY DEF Registry!RegistryIsSound, Registry!TypeOK
  <2> QED
    BY <1>8, <2>1, MergeKeeps
<1>9. CASE Registry!Restart
  BY <1>9, RestartKeeps
<1> QED
  BY <1>1, <1>2, <1>3, <1>4, <1>5, <1>6, <1>7, <1>8, <1>9 DEF Registry!Next

(* What it says is about these variables only.                             *)
LEMMA RegistryStutter ==
  ASSUME Registry!RegistryIsSound, UNCHANGED registryVars
  PROVE  Registry!RegistryIsSound'
  BY DEF registryVars, Registry!RegistryIsSound, Registry!TypeOK,
         Registry!OnlyClearsFree, Registry!BackendsHaveOneOwner,
         Registry!Live, Registry!Registered

LEMMA SumKeepsRegistry ==
  ASSUME Registry!RegistryIsSound, [SumNext]_SumVars
  PROVE  Registry!RegistryIsSound'
<1>1. CASE UNCHANGED registryVars
  BY <1>1, RegistryStutter
<1>2. CASE Registry!Next
  BY <1>2, RegistryNext
<1> QED
  BY <1>1, <1>2 DEF SumNext, SumVars

(* Handles point at backends that exist, each registered for one key or    *)
(* in the graveyard, or that the clearing of a session freed under them:   *)
(* no deletion, load or merge does.                                        *)
THEOREM RegistrySound == SumSpec => []RegistryIsSound
<1>1. SumInit => Registry!RegistryIsSound
  BY RegistryInit DEF SumInit
<1>2. Registry!RegistryIsSound /\ [SumNext]_SumVars
        => Registry!RegistryIsSound'
  BY SumKeepsRegistry
<1>3. Registry!RegistryIsSound => RegistryIsSound
  BY DEF RegistryIsSound
<1> QED
  BY <1>1, <1>2, <1>3, PTL DEF SumSpec

(* A load and a clear of one session's databases leave those of the others.*)
LEMMA OneProfileAtATime ==
  ASSUME saved \in Registry!File
  PROVE  Registry!StaysApart
<1> SUFFICES ASSUME NEW s \in Scopes
             PROVE  /\ (Registry!LoadMergeScoped(s) \/ Registry!ClearScoped(s)) =>
                        \A k \in Registry!Keys : k[1] # s => registry'[k] = registry[k]
                    /\ Registry!LoadMergeScoped(s) =>
                        \E o \in Scopes : \A k \in Registry!InFile(saved) : k[1] = o
  BY DEF Registry!StaysApart
<1>1. Registry!ClearScoped(s) =>
        \A k \in Registry!Keys : k[1] # s => registry'[k] = registry[k]
  BY DEF Registry!ClearScoped, Registry!ClearedBy, Registry!Keys
<1>2. Registry!LoadMergeScoped(s) =>
        \A k \in Registry!Keys : k[1] # s => registry'[k] = registry[k]
  BY RekeyedFile DEF Registry!LoadMergeScoped, Registry!Merge
<1>3. Registry!LoadMergeScoped(s) =>
        \E o \in Scopes : \A k \in Registry!InFile(saved) : k[1] = o
  <2>1. CASE Registry!InFile(saved) = {}
    BY <2>1
  <2>2. CASE Registry!InFile(saved) # {}
    BY <2>2 DEF Registry!LoadMergeScoped, Registry!OneScope, Registry!InFile, Registry!Keys
  <2> QED
    BY <2>1, <2>2
<1> QED
  BY <1>1, <1>2, <1>3

(* "never merge them under one identity", of every load and every clear.   *)
THEOREM ProfilesApart == SumSpec => ProfilesStayApart
<1>1. SumInit => Registry!RegistryIsSound
  BY RegistryInit DEF SumInit
<1>2. Registry!RegistryIsSound /\ [SumNext]_SumVars
        => Registry!RegistryIsSound'
  BY SumKeepsRegistry
<1>3. Registry!RegistryIsSound => [which = "registry" => Registry!StaysApart]_registryVars
  BY OneProfileAtATime DEF Registry!RegistryIsSound, Registry!TypeOK
<1> QED
  BY <1>1, <1>2, <1>3, PTL DEF SumSpec, ProfilesStayApart

------------------------------------------------------------------------------
(* OPFS: the locks.                                                        *)

(* The sessions of the file system, and what is known of each: an access   *)
(* handle that can be closed holds its lock.                               *)
SessionFields == {"object", "node", "exclusive", "held", "open", "buffer"}

SessionsOK ==
  /\ IsFiniteSet(DOMAIN sessions)
  /\ sessions = [s \in DOMAIN sessions |-> sessions[s]]
  /\ \A s \in DOMAIN sessions :
       /\ DOMAIN sessions[s] = SessionFields
       /\ sessions[s].node \in Locks!Nodes
       /\ sessions[s].exclusive \in BOOLEAN /\ sessions[s].held \in BOOLEAN
       /\ sessions[s].object = "access" /\ sessions[s].open => sessions[s].held

LocksOK ==
  /\ lock_shared \in [Locks!Nodes -> Nat]
  /\ lock_exclusive \in [Locks!Nodes -> BOOLEAN]

LocksInv == SessionsOK /\ LocksOK /\ Locks!LocksHaveHolders

LEMMA SameCardinalityOfLocks == \A S : Locks!Cardinality(S) = Cardinality(S)
  BY DEF Locks!Cardinality, Cardinality

(* What the invariant of the locks says of a file.                         *)
LEMMA HoldersOf ==
  ASSUME LocksInv, NEW n \in Locks!Nodes
  PROVE  /\ \A e : IsFiniteSet(Locks!Holders(n, e))
         /\ lock_shared[n] = Cardinality(Locks!Holders(n, FALSE))
         /\ lock_exclusive[n] <=> Locks!Holders(n, TRUE) # {}
         /\ lock_exclusive[n] => \E s : Locks!Holders(n, TRUE) = {s}
         /\ lock_exclusive[n] => Locks!Holders(n, FALSE) = {}
<1>1. \A e : IsFiniteSet(Locks!Holders(n, e))
  BY FS_Subset DEF LocksInv, SessionsOK, Locks!Holders
<1>2. /\ lock_shared[n] = Cardinality(Locks!Holders(n, FALSE))
      /\ lock_exclusive[n] <=> Locks!Holders(n, TRUE) # {}
      /\ lock_exclusive[n] => Cardinality(Locks!Holders(n, TRUE)) = 1 /\ Locks!Holders(n, FALSE) = {}
  BY SameCardinalityOfLocks DEF LocksInv, LocksOK, Locks!LocksHaveHolders
<1>3. lock_exclusive[n] => \E s : Locks!Holders(n, TRUE) = {s}
  BY <1>1, <1>2, FS_Singleton
<1> QED
  BY <1>1, <1>2, <1>3

(* ... and what suffices for it after a step.                              *)
LEMMA HoldersAfter ==
  ASSUME LocksOK',
         \A n \in Locks!Nodes :
           /\ lock_shared'[n] = Cardinality(Locks!Holders(n, FALSE)')
           /\ lock_exclusive'[n] <=> Locks!Holders(n, TRUE)' # {}
           /\ lock_exclusive'[n] => \E s : Locks!Holders(n, TRUE)' = {s}
           /\ lock_exclusive'[n] => Locks!Holders(n, FALSE)' = {}
  PROVE  Locks!LocksHaveHolders'
  BY SameCardinalityOfLocks, FS_Singleton DEF LocksOK, Locks!LocksHaveHolders

LEMMA LocksInit == Locks!Init => LocksInv
<1> SUFFICES ASSUME Locks!Init PROVE LocksInv
  OBVIOUS
<1>1. DOMAIN sessions = {}
  BY DEF Locks!Init
<1>2. SessionsOK
  BY <1>1, FS_EmptySet DEF Locks!Init, SessionsOK
<1>3. LocksOK /\ \A n \in Locks!Nodes : \A e : Locks!Holders(n, e) = {}
  BY <1>1 DEF Locks!Init, LocksOK, Locks!Holders
<1>4. \A n \in Locks!Nodes : lock_shared[n] = 0 /\ ~lock_exclusive[n]
  BY DEF Locks!Init
<1> QED
  BY <1>2, <1>3, <1>4, FS_EmptySet, SameCardinalityOfLocks DEF LocksInv, LocksOK, Locks!LocksHaveHolders

(* A lock is granted: the new session is the one holder there is more.     *)
LEMMA OpensKeeps ==
  ASSUME LocksInv, NEW s, NEW n \in Locks!Nodes, NEW object, NEW exclusive \in BOOLEAN, NEW b,
         Locks!Opens(s, n, object, exclusive, b)
  PROVE  LocksInv'
<1> USE DEF LocksInv
<1> DEFINE new == [object |-> object, node |-> n, exclusive |-> exclusive, held |-> TRUE,
                   open |-> TRUE, buffer |-> b]
<1>1. s \notin DOMAIN sessions /\ Locks!AcquireLock(n, exclusive)
      /\ sessions' = [t \in DOMAIN sessions \cup {s} |-> IF t = s THEN new ELSE sessions[t]]
  BY DEF Locks!Opens, Locks!With
<1>2. DOMAIN sessions' = DOMAIN sessions \cup {s} /\ sessions'[s] = new
      /\ \A t \in DOMAIN sessions : sessions'[t] = sessions[t]
  BY <1>1
<1>3. SessionsOK'
  <2>1. IsFiniteSet(DOMAIN sessions')
    BY <1>2, FS_AddElement DEF SessionsOK
  <2>2. sessions' = [t \in DOMAIN sessions' |-> sessions'[t]]
    BY <1>1
  <2>3. /\ DOMAIN new = SessionFields /\ new.node \in Locks!Nodes
        /\ new.exclusive \in BOOLEAN /\ new.held \in BOOLEAN /\ new.held
    BY DEF SessionFields
  <2> HIDE DEF new
  <2> QED
    BY <1>2, <2>1, <2>2, <2>3 DEF SessionsOK
<1>4. \A m \in Locks!Nodes, e \in BOOLEAN :
        Locks!Holders(m, e)' = IF m = n /\ e = exclusive THEN Locks!Holders(m, e) \cup {s}
                               ELSE Locks!Holders(m, e)
  <2>1. new.node = n /\ new.exclusive = exclusive /\ new.held
    OBVIOUS
  <2> HIDE DEF new
  <2> QED
    BY <1>1, <1>2, <2>1 DEF Locks!Holders
<1>5. \A m \in Locks!Nodes : s \notin Locks!Holders(m, FALSE)
  BY <1>1 DEF Locks!Holders
<1>6. CASE exclusive
  <2>1. ~lock_exclusive[n] /\ lock_shared[n] = 0 /\ lock_shared' = lock_shared
        /\ lock_exclusive' = [lock_exclusive EXCEPT ![n] = TRUE]
    BY <1>1, <1>6 DEF Locks!AcquireLock
  <2>2. LocksOK'
    BY <2>1 DEF LocksOK
  <2>3. Locks!Holders(n, FALSE) = {} /\ Locks!Holders(n, TRUE) = {}
    BY <2>1, HoldersOf, FS_EmptySet
  <2>4. \A m \in Locks!Nodes :
          /\ lock_shared'[m] = lock_shared[m]
          /\ lock_exclusive'[m] = IF m = n THEN TRUE ELSE lock_exclusive[m]
    BY <2>1 DEF LocksOK
  <2>5. \A m \in Locks!Nodes :
          /\ Locks!Holders(m, FALSE)' = Locks!Holders(m, FALSE)
          /\ Locks!Holders(m, TRUE)' = IF m = n THEN {s} ELSE Locks!Holders(m, TRUE)
    BY <1>4, <1>6, <2>3
  <2>6. Locks!LocksHaveHolders'
    BY <2>2, <2>3, <2>4, <2>5, HoldersOf, HoldersAfter
  <2> QED
    BY <1>3, <2>2, <2>6
<1>7. CASE ~exclusive
  <2>1. ~lock_exclusive[n] /\ lock_exclusive' = lock_exclusive
        /\ lock_shared' = [lock_shared EXCEPT ![n] = @ + 1]
    BY <1>1, <1>7 DEF Locks!AcquireLock
  <2>2. LocksOK'
    BY <2>1 DEF LocksOK
  <2>3. \A m \in Locks!Nodes :
          lock_shared'[m] = IF m = n THEN lock_shared[m] + 1 ELSE lock_shared[m]
    BY <2>1 DEF LocksOK
  <2>4. \A m \in Locks!Nodes :
          /\ Locks!Holders(m, TRUE)' = Locks!Holders(m, TRUE)
          /\ Locks!Holders(m, FALSE)' = IF m = n THEN Locks!Holders(m, FALSE) \cup {s}
                                        ELSE Locks!Holders(m, FALSE)
    BY <1>4, <1>7
  <2>5. Cardinality(Locks!Holders(n, FALSE) \cup {s}) = Cardinality(Locks!Holders(n, FALSE)) + 1
    BY <1>5, HoldersOf, FS_AddElement
  <2>6. \A m \in Locks!Nodes : lock_shared'[m] = Cardinality(Locks!Holders(m, FALSE)')
    BY <2>3, <2>4, <2>5, HoldersOf
  <2>7. Locks!LocksHaveHolders'
    BY <2>1, <2>2, <2>4, <2>6, HoldersOf, HoldersAfter
  <2> QED
    BY <1>3, <2>2, <2>7
<1> QED
  BY <1>6, <1>7

(* The sessions that hold locks are the same, and so are the locks.        *)
LEMMA SameHoldersKeep ==
  ASSUME LocksInv, UNCHANGED <<lock_shared, lock_exclusive>>, SessionsOK',
         \A n, e : Locks!Holders(n, e)' = Locks!Holders(n, e)
  PROVE  LocksInv'
<1>1. LocksOK'
  BY DEF LocksInv, LocksOK
<1>2. Locks!LocksHaveHolders'
  BY <1>1, HoldersOf, HoldersAfter
<1> QED
  BY <1>1, <1>2 DEF LocksInv

(* A holder releases its lock, and holds it no longer.                     *)
LEMMA ReleaseKeeps ==
  ASSUME LocksInv, NEW s \in DOMAIN sessions, sessions[s].held,
         Locks!ReleaseLock(sessions[s].node, sessions[s].exclusive), SessionsOK',
         \A n, e : Locks!Holders(n, e)' = Locks!Holders(n, e) \ {s}
  PROVE  LocksInv'
<1> USE DEF LocksInv
<1>0. PICK n \in Locks!Nodes : n = sessions[s].node
  BY DEF SessionsOK
<1>1. n \in Locks!Nodes /\ sessions[s].exclusive \in BOOLEAN
  BY DEF SessionsOK
<1>2. \A m, e : s \in Locks!Holders(m, e) <=> m = n /\ e = sessions[s].exclusive
  BY <1>0 DEF Locks!Holders
<1>3. \A m, e : ~(m = n /\ e = sessions[s].exclusive) => Locks!Holders(m, e)' = Locks!Holders(m, e)
  BY <1>2
<1>4. CASE sessions[s].exclusive
  <2>1. /\ lock_exclusive' = [lock_exclusive EXCEPT ![n] = FALSE] /\ lock_shared' = lock_shared
    BY <1>0, <1>4 DEF Locks!ReleaseLock
  <2>2. LocksOK'
    BY <2>1 DEF LocksOK
  <2>3. sessions[s].exclusive = TRUE
    BY <1>1, <1>4
  <2>4. Locks!Holders(n, TRUE)' = {} /\ Locks!Holders(n, FALSE)' = Locks!Holders(n, FALSE)
    <3>1. s \in Locks!Holders(n, TRUE)
      BY <1>2, <2>3
    <3>2. PICK t : Locks!Holders(n, TRUE) = {t}
      BY <1>1, <3>1, HoldersOf
    <3>3. Locks!Holders(n, TRUE)' = Locks!Holders(n, TRUE) \ {s}
      BY <2>3
    <3> QED
      BY <1>3, <2>3, <3>1, <3>2, <3>3
  <2>5. \A m \in Locks!Nodes :
          /\ lock_shared'[m] = lock_shared[m]
          /\ lock_exclusive'[m] = IF m = n THEN FALSE ELSE lock_exclusive[m]
    BY <2>1 DEF LocksOK
  <2>6. \A m \in Locks!Nodes : /\ m # n => Locks!Holders(m, TRUE)' = Locks!Holders(m, TRUE)
                               /\ Locks!Holders(m, FALSE)' = Locks!Holders(m, FALSE)
    BY <1>3, <2>4
  <2>7. Locks!LocksHaveHolders'
    BY <2>2, <2>4, <2>5, <2>6, HoldersOf, HoldersAfter
  <2> QED
    BY <2>2, <2>7
<1>5. CASE ~sessions[s].exclusive
  <2>1. /\ lock_shared' = [lock_shared EXCEPT ![n] = IF @ > 0 THEN @ - 1 ELSE 0]
        /\ lock_exclusive' = lock_exclusive
    BY <1>0, <1>5 DEF Locks!ReleaseLock
  <2>0. sessions[s].exclusive = FALSE
    BY <1>1, <1>5
  <2>2. LocksOK'
    <3>1. \A x \in Nat : (IF x > 0 THEN x - 1 ELSE 0) \in Nat
      OBVIOUS
    <3> QED
      BY <2>1, <3>1 DEF LocksOK
  <2>3. s \in Locks!Holders(n, FALSE)
    BY <1>2, <2>0
  <2>4. /\ Locks!Holders(n, FALSE)' = Locks!Holders(n, FALSE) \ {s}
        /\ Locks!Holders(n, TRUE)' = Locks!Holders(n, TRUE)
    BY <1>3, <2>0
  <2>5. /\ Cardinality(Locks!Holders(n, FALSE)') = lock_shared[n] - 1 /\ lock_shared[n] > 0
    <3>1. Cardinality(Locks!Holders(n, FALSE)) # 0 /\ lock_shared[n] \in Nat
      BY <1>1, <2>3, HoldersOf, FS_EmptySet DEF LocksOK
    <3>2. /\ lock_shared[n] = Cardinality(Locks!Holders(n, FALSE))
          /\ IsFiniteSet(Locks!Holders(n, FALSE))
      BY <1>1, HoldersOf
    <3>3. Cardinality(Locks!Holders(n, FALSE) \ {s}) = Cardinality(Locks!Holders(n, FALSE)) - 1
      BY <2>3, <3>2, FS_RemoveElement
    <3>4. Cardinality(Locks!Holders(n, FALSE)') = Cardinality(Locks!Holders(n, FALSE)) - 1
      BY <2>4, <3>3
    <3>5. lock_shared[n] \in Nat /\ lock_shared[n] # 0
      BY <3>1, <3>2
    <3>6. lock_shared[n] > 0
      BY <3>5
    <3> QED
      BY <3>2, <3>4, <3>6
  <2>6. \A m \in Locks!Nodes :
          lock_shared'[m] = IF m = n THEN lock_shared[m] - 1 ELSE lock_shared[m]
    BY <2>1, <2>5 DEF LocksOK
  <2>7. \A m \in Locks!Nodes : \A e : m # n => Locks!Holders(m, e)' = Locks!Holders(m, e)
    BY <1>3
  <2>8. Locks!LocksHaveHolders'
    BY <2>1, <2>2, <2>4, <2>5, <2>6, <2>7, HoldersOf, HoldersAfter
  <2> QED
    BY <2>2, <2>8
<1> QED
  BY <1>1, <1>4, <1>5

(* A step that changes one session, but not what it says of its lock.      *)
LEMMA BufferedKeeps ==
  ASSUME LocksInv, NEW s \in DOMAIN sessions, UNCHANGED <<lock_shared, lock_exclusive>>,
         NEW b, sessions' = [sessions EXCEPT ![s].buffer = b]
                \/ sessions' = [sessions EXCEPT ![s].open = FALSE]
  PROVE  LocksInv'
<1> USE DEF LocksInv
<1>1. /\ DOMAIN sessions' = DOMAIN sessions
      /\ \A t \in DOMAIN sessions : t # s => sessions'[t] = sessions[t]
      /\ DOMAIN sessions'[s] = SessionFields
      /\ \A f \in {"object", "node", "exclusive", "held"} : sessions'[s][f] = sessions[s][f]
      /\ sessions'[s].open => sessions[s].open
      /\ sessions' = [t \in DOMAIN sessions' |-> sessions'[t]]
  BY DEF SessionsOK, SessionFields
<1>2. /\ sessions'[s].object = sessions[s].object /\ sessions'[s].node = sessions[s].node
      /\ sessions'[s].exclusive = sessions[s].exclusive /\ sessions'[s].held = sessions[s].held
  BY <1>1
<1>3. SessionsOK'
  BY <1>1, <1>2 DEF SessionsOK
<1>4. \A n, e : Locks!Holders(n, e)' = Locks!Holders(n, e)
  BY <1>1, <1>2 DEF Locks!Holders
<1> QED
  BY <1>3, <1>4, SameHoldersKeep

LEMMA HostCloseKeeps ==
  ASSUME LocksInv, Locks!HostClose
  PROVE  LocksInv'
<1>1. PICK s \in DOMAIN sessions :
        /\ sessions[s].object = "access" /\ sessions[s].open
        /\ sessions' = [sessions EXCEPT ![s].held = FALSE, ![s].open = FALSE]
        /\ Locks!ReleaseLock(sessions[s].node, sessions[s].exclusive)
  BY DEF Locks!HostClose, Locks!OpenSessions
<1>2. sessions[s].held
  BY <1>1 DEF LocksInv, SessionsOK
<1>3. /\ DOMAIN sessions' = DOMAIN sessions
      /\ \A t \in DOMAIN sessions : t # s => sessions'[t] = sessions[t]
      /\ DOMAIN sessions'[s] = SessionFields
      /\ sessions'[s].node = sessions[s].node /\ sessions'[s].exclusive = sessions[s].exclusive
      /\ ~sessions'[s].held /\ ~sessions'[s].open /\ sessions'[s].held \in BOOLEAN
      /\ sessions' = [t \in DOMAIN sessions' |-> sessions'[t]]
  BY <1>1 DEF LocksInv, SessionsOK, SessionFields
<1>4. SessionsOK'
  BY <1>3 DEF LocksInv, SessionsOK
<1>5. \A n, e : Locks!Holders(n, e)' = Locks!Holders(n, e) \ {s}
  BY <1>3 DEF Locks!Holders
<1> QED
  BY <1>1, <1>2, <1>4, <1>5, ReleaseKeeps

LEMMA DisconnectFromFileKeeps ==
  ASSUME LocksInv, Locks!Disconnect
  PROVE  LocksInv'
<1>1. PICK s \in DOMAIN sessions :
        /\ Locks!Released(sessions[s])
        /\ sessions' = [t \in DOMAIN sessions \ {s} |-> sessions[t]]
  BY DEF Locks!Disconnect, Locks!Less
<1>2. /\ DOMAIN sessions' = DOMAIN sessions \ {s}
      /\ \A t \in DOMAIN sessions' : sessions'[t] = sessions[t]
      /\ sessions' = [t \in DOMAIN sessions' |-> sessions'[t]]
  BY <1>1
<1>3. IsFiniteSet(DOMAIN sessions')
  BY <1>2, FS_RemoveElement DEF LocksInv, SessionsOK
<1>4. SessionsOK'
  BY <1>2, <1>3 DEF LocksInv, SessionsOK
<1>5. \A n, e : Locks!Holders(n, e)' = Locks!Holders(n, e) \ {s}
  BY <1>2 DEF Locks!Holders
<1>6. CASE sessions[s].held
  BY <1>1, <1>4, <1>5, <1>6, ReleaseKeeps DEF Locks!Released
<1>7. CASE ~sessions[s].held
  <2>1. \A n, e : Locks!Holders(n, e)' = Locks!Holders(n, e)
    BY <1>5, <1>7 DEF Locks!Holders
  <2> QED
    BY <1>1, <1>4, <1>7, <2>1, SameHoldersKeep DEF Locks!Released
<1> QED
  BY <1>6, <1>7

LEMMA UnlockedStepKeeps ==
  ASSUME LocksInv, UNCHANGED <<lock_shared, lock_exclusive, sessions>>
  PROVE  LocksInv'
<1>1. SessionsOK' /\ \A n, e : Locks!Holders(n, e)' = Locks!Holders(n, e)
  BY DEF LocksInv, SessionsOK, Locks!Holders
<1> QED
  BY <1>1, SameHoldersKeep

LEMMA CrashKeeps ==
  ASSUME Locks!Crash
  PROVE  LocksInv'
<1>1. DOMAIN sessions' = {}
  BY DEF Locks!Crash
<1>2. SessionsOK'
  BY <1>1, FS_EmptySet DEF Locks!Crash, SessionsOK
<1>3. LocksOK' /\ \A n \in Locks!Nodes : \A e : Locks!Holders(n, e)' = {}
  BY <1>1 DEF Locks!Crash, LocksOK, Locks!Holders
<1>4. \A n \in Locks!Nodes : lock_shared'[n] = 0 /\ ~lock_exclusive'[n]
  BY DEF Locks!Crash
<1>5. Locks!LocksHaveHolders'
  BY <1>3, <1>4, FS_EmptySet, HoldersAfter
<1> QED
  BY <1>2, <1>3, <1>5 DEF LocksInv

LEMMA PageKeepsLocks ==
  ASSUME LocksInv, Locks!Page
  PROVE  LocksInv'
<1>1. CASE \/ Locks!GetSandboxedFileSystem \/ Locks!GetFile \/ Locks!GetDirectory
           \/ Locks!RemoveEntry \/ Locks!DelegateWrite
  <2>1. UNCHANGED <<lock_shared, lock_exclusive, sessions>>
    BY <1>1 DEF Locks!GetSandboxedFileSystem, Locks!GetFile, Locks!GetDirectory, Locks!GetEntry,
                Locks!RemoveEntry, Locks!DelegateWrite, Locks!locks
  <2> QED
    BY <2>1, UnlockedStepKeeps
<1>2. CASE Locks!CreateFileWriter
  <2>1. PICK s \in Sessions, n \in Locks!Nodes, exclusive \in BOOLEAN :
          \E b : Locks!Opens(s, n, "writer", exclusive, b)
    BY <1>2 DEF Locks!CreateFileWriter
  <2> QED
    BY <2>1, OpensKeeps
<1>3. CASE Locks!OpenAccessHandle
  <2>1. PICK s \in Sessions, n \in Locks!Nodes, exclusive \in BOOLEAN :
          Locks!Opens(s, n, "access", exclusive, <<>>)
    BY <1>3 DEF Locks!OpenAccessHandle
  <2> QED
    BY <2>1, OpensKeeps
<1>4. CASE Locks!WriterWrite
  <2>1. UNCHANGED <<lock_shared, lock_exclusive>>
        /\ \E s \in DOMAIN sessions : \E b : sessions' = [sessions EXCEPT ![s].buffer = b]
    BY <1>4 DEF Locks!WriterWrite, Locks!OpenSessions
  <2> QED
    BY <2>1, BufferedKeeps
<1>5. CASE Locks!WriterClose \/ Locks!WriterAbort
  <2>1. UNCHANGED <<lock_shared, lock_exclusive>>
        /\ \E s \in DOMAIN sessions : sessions' = [sessions EXCEPT ![s].open = FALSE]
    BY <1>5 DEF Locks!WriterClose, Locks!WriterAbort, Locks!OpenSessions
  <2> QED
    BY <2>1, BufferedKeeps
<1>6. CASE Locks!HostClose
  BY <1>6, HostCloseKeeps
<1>7. CASE Locks!Disconnect
  BY <1>7, DisconnectFromFileKeeps
<1> QED
  BY <1>1, <1>2, <1>3, <1>4, <1>5, <1>6, <1>7 DEF Locks!Page

LEMMA MergesLeaveLocks ==
  ASSUME NEW trees, Locks!MergeNodes(trees)
  PROVE  UNCHANGED <<lock_shared, lock_exclusive, sessions>>
<1>1. UNCHANGED Locks!locks
  BY Zenon DEF Locks!MergeNodes
<1> QED
  BY <1>1 DEF Locks!locks

LEMMA HostKeepsLocks ==
  ASSUME LocksInv, Locks!Host \/ Locks!MbLoadOPFSScoped
  PROVE  LocksInv'
<1>1. CASE Locks!Crash
  BY <1>1, CrashKeeps
<1>2. CASE ~Locks!Crash
  <2>1. CASE Locks!MbLoadOPFS \/ Locks!MbLoadOPFSScoped
    <3>1. \E trees : Locks!MergeNodes(trees)
      BY <2>1 DEF Locks!MbLoadOPFS, Locks!MbLoadOPFSScoped
    <3> QED
      BY <3>1, MergesLeaveLocks, UnlockedStepKeeps
  <2>2. CASE Locks!MbSaveOPFSScoped \/ Locks!MbSaveOPFS \/ Locks!MbClearOPFSScoped
    <3>1. UNCHANGED <<lock_shared, lock_exclusive, sessions>>
      BY <2>2 DEF Locks!MbSaveOPFSScoped, Locks!MbSaveOPFS, Locks!Save,
                  Locks!MbClearOPFSScoped, Locks!locks
    <3> QED
      BY <3>1, UnlockedStepKeeps
  <2> QED
    BY <1>2, <2>1, <2>2 DEF Locks!Host
<1> QED
  BY <1>1, <1>2

(* A file is locked by exactly the writers and access handles that were    *)
(* granted it and are still there, one of them if it is exclusive.         *)
THEOREM LocksAreHeld == SumSpec => []LocksHaveHolders
<1> DEFINE FileInv == which = "files" => LocksInv
<1>1. SumInit => FileInv
  BY LocksInit DEF SumInit
<1>2. FileInv /\ [SumNext]_SumVars => FileInv'
  <2> SUFFICES ASSUME FileInv, [SumNext]_SumVars, which' = "files"
               PROVE  LocksInv'
    OBVIOUS
  <2>1. which = "files" /\ LocksInv
    BY DEF SumNext, SumVars
  <2>2. CASE Locks!Next
    BY <2>1, <2>2, PageKeepsLocks, HostKeepsLocks DEF Locks!Next
  <2>3. CASE UNCHANGED opfsVars
    BY <2>1, <2>3, UnlockedStepKeeps DEF opfsVars
  <2> QED
    BY <2>1, <2>2, <2>3 DEF SumNext, SumVars
<1>3. FileInv => LocksHaveHolders
  BY DEF LocksHaveHolders, LocksInv
<1> QED
  BY <1>1, <1>2, <1>3, PTL DEF SumSpec
==============================================================================
