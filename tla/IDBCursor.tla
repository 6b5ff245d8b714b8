------------------------------- MODULE IDBCursor -------------------------------
(***************************************************************************)
(* The reads of an object store and one of its indexes: GetAll, Count and  *)
(* MbIDBCursor (frame/mb_indexeddb.cc).  A cursor takes the entries of its *)
(* range when it is opened and looks each record up when it comes to it,   *)
(* while pages write to the store.  Blink fetches entries ahead, and gives *)
(* back those it did not use.                                              *)
(*                                                                         *)
(* Keys are numbers: IDBKeys is about how their encodings sort.  An entry  *)
(* is <<cursor key, primary key>>; in the store itself the two are one.    *)
(***************************************************************************)
EXTENDS Integers, SequencesExt

CONSTANTS
  PKeys,       \* primary keys, numbers from 1
  IKeys,       \* index keys
  Ranges,      \* [lo, lo_open, hi, hi_open], bounds that are absent 0
  Limits,      \* max_count of GetAll, 0 for none
  None,        \* no cursor
  MaxWrites,   \* bound: writes after the cursor was opened
  MaxPrefetch  \* bound: entries fetched ahead at once

VARIABLES
  records,     \* data[store]: the primary keys of its records
  index_data,  \* entries of the index; one may outlive its record
  cursor,      \* MbIDBCursor, or None
  cache,       \* of Blink: entries fetched ahead and not used yet
  used,        \* of Blink: how many of the last ones it used
  delivered,   \* history: entries the page has been given
  owed,        \* history: entries the page is still to be given
  over,        \* the page was told that there are no more
  writes       \* writes so far

vars == <<records, index_data, cursor, cache, used, delivered, owed, over, writes>>

Entries == IKeys \X PKeys

------------------------------------------------------------------------------
(* The entries of a range, in the order of a direction.                    *)
Before(e, f) == e[1] < f[1] \/ (e[1] = f[1] /\ e[2] < f[2])
Precedes(reverse, e, f) == IF reverse THEN Before(f, e) ELSE Before(e, f)

InRange(k, r) ==
  /\ r.lo # 0 => k >= r.lo /\ ~(r.lo_open /\ k = r.lo)
  /\ r.hi # 0 => k <= r.hi /\ ~(r.hi_open /\ k = r.hi)

InOrder(S, reverse) ==
  LET forward == SetToSortSeq(S, Before) IN IF reverse THEN Reverse(forward) ELSE forward

(* The first primary key of each index key.                                *)
Firsts(S) == {e \in S : \A f \in S : f[1] = e[1] => e[2] <= f[2]}

Candidates(is_index, r) ==
  {e \in IF is_index THEN index_data ELSE {<<p, p>> : p \in records} : InRange(e[1], r)}

Living(S) == {e \in S : e[2] \in records}

(* The entries a cursor is opened with: of a unique direction, one for     *)
(* each index key, whether or not its record is there.                     *)
CursorEntries(is_index, r, unique) ==
  IF is_index /\ unique THEN Firsts(Candidates(is_index, r)) ELSE Candidates(is_index, r)

(* GetAll: of a unique direction, the first record that is there.          *)
GetAll(is_index, r, unique, reverse, max_count) ==
  LET found   == Living(Candidates(is_index, r))
      ordered == InOrder(IF is_index /\ unique THEN Firsts(found) ELSE found, reverse)
  IN IF max_count = 0 THEN ordered
     ELSE SubSeq(ordered, 1, IF max_count < Len(ordered) THEN max_count ELSE Len(ordered))

(* Count: all records of the store, those of the range, or its entries in  *)
(* the index.                                                              *)
Count(is_index, r) ==
  IF ~is_index /\ r.lo = 0 /\ r.hi = 0 THEN Cardinality(records)
  ELSE Cardinality(Living(Candidates(is_index, r)))

------------------------------------------------------------------------------
(* MbIDBCursor.  next is pos_, counted from 1.                             *)
Exists(c, i) == c.entries[i][2] \in records

(* AppendCurrent: the first entry from next on whose record is there.      *)
Found(c) == {i \in c.next .. Len(c.entries) : Exists(c, i)}
FirstFound(c) == CHOOSE i \in Found(c) : \A j \in Found(c) : i <= j

Init ==
  /\ \E keys \in [PKeys -> SUBSET IKeys], there \in SUBSET PKeys :
       /\ records = there
       /\ index_data = {e \in Entries : e[2] \in there /\ e[1] \in keys[e[2]]}
       /\ \A p \in PKeys \ there : keys[p] = {}
  /\ cursor = None /\ cache = <<>> /\ used = 0
  /\ delivered = <<>> /\ owed = {} /\ over = FALSE /\ writes = 0

(* OpenCursor delivers the first entry, or nothing.                        *)
OpenCursor(is_index, r, unique, reverse) ==
  LET entries == InOrder(CursorEntries(is_index, r, unique), reverse)
      c == [is_index |-> is_index, reverse |-> reverse, entries |-> entries, next |-> 1,
            prefetch_start |-> 1, prefetch_positions |-> <<>>]
  IN /\ cursor = None /\ ~over
     /\ IF Found(c) = {} THEN over' = TRUE /\ UNCHANGED <<cursor, delivered, owed>>
        ELSE /\ cursor' = [c EXCEPT !.next = FirstFound(c) + 1]
             /\ delivered' = <<entries[FirstFound(c)]>>
             /\ owed' = Living(ToSet(entries)) \ ToSet(delivered')
             /\ UNCHANGED over
     /\ UNCHANGED <<records, index_data, cache, used, writes>>

(* TakeOne: one entry, or the end.                                         *)
TakeOne(c, left) ==
  IF Found(c) = {}
  THEN /\ cursor' = [c EXCEPT !.next = Len(c.entries) + 1]
       /\ over' = TRUE /\ owed' = left /\ UNCHANGED delivered
  ELSE /\ cursor' = [c EXCEPT !.next = FirstFound(c) + 1]
       /\ delivered' = Append(delivered, c.entries[FirstFound(c)])
       /\ owed' = left \ {c.entries[FirstFound(c)]}
       /\ UNCHANGED over

Calls == cursor # None /\ ~over /\ cache = <<>>

(* continue(), when Blink has nothing in its cache.                        *)
Continue ==
  /\ Calls /\ TakeOne(cursor, owed)
  /\ UNCHANGED <<records, index_data, cache, used, writes>>

(* Whether the page skips entry e when it asks for a key, and a primary    *)
(* key, 0 if it does not say.                                              *)
Skips(c, e, key, primary) ==
  \/ Precedes(c.reverse, <<e[1], 0>>, <<key, 0>>)
  \/ primary # 0 /\ e[1] = key /\ Precedes(c.reverse, <<e[2], 0>>, <<primary, 0>>)

(* Continue with a key: the loop stops at the first entry it need not      *)
(* skip.                                                                   *)
Reached(c, key, primary) ==
  LET stops == {i \in c.next .. Len(c.entries) : ~Skips(c, c.entries[i], key, primary)}
  IN IF stops = {} THEN Len(c.entries) + 1 ELSE CHOOSE i \in stops : \A j \in stops : i <= j

(* A page seeks forwards in its direction only.                            *)
ContinueTo(key, primary) ==
  LET to    == <<key, primary>>
      at(e) == IF primary = 0 THEN <<e[1], 0>> ELSE e
  IN  /\ Calls /\ (primary # 0 => cursor.is_index)
      /\ Precedes(cursor.reverse, at(Last(delivered)), to)
      /\ TakeOne([cursor EXCEPT !.next = Reached(cursor, key, primary)],
                 {e \in owed : ~Precedes(cursor.reverse, at(e), to)})
      /\ UNCHANGED <<records, index_data, cache, used, writes>>

(* Advance(count) passes over count - 1 entries, be their records there or *)
(* not.                                                                    *)
Advance(count) ==
  /\ Calls
  /\ LET c == [cursor EXCEPT !.next = @ + count - 1]
     IN TakeOne(c, {e \in owed : \E i \in c.next .. Len(c.entries) : c.entries[i] = e})
  /\ UNCHANGED <<records, index_data, cache, used, writes>>

(* Prefetch: AppendCurrent until there are enough, which leaves next       *)
(* behind the last one.                                                    *)
Fetched(c, count) ==
  {i \in Found(c) : Cardinality({j \in Found(c) : j <= i}) <= count}

Prefetch(count) ==
  /\ Calls
  /\ LET at == SetToSortSeq(Fetched(cursor, count), <)
         c  == [cursor EXCEPT !.prefetch_start = cursor.next,
                              !.prefetch_positions = [n \in DOMAIN at |-> at[n] + 1]]
     IN IF at = <<>>
        THEN /\ cursor' = [c EXCEPT !.next = Len(c.entries) + 1]
             /\ over' = TRUE /\ UNCHANGED <<cache, used>>
        ELSE /\ cursor' = [c EXCEPT !.next = IF Len(at) < count THEN Len(c.entries) + 1
                                             ELSE at[Len(at)] + 1]
             /\ cache' = [n \in DOMAIN at |-> c.entries[at[n]]]
             /\ used' = 0 /\ UNCHANGED over
  /\ UNCHANGED <<records, index_data, delivered, owed, writes>>

(* Mutant: the position is what was there before less what is given back.  *)
RewoundByCount(c) == c.next - Len(cache)

(* PrefetchReset(used): behind the last entry that was used.               *)
Rewound(c) ==
  IF used > 0 /\ used <= Len(c.prefetch_positions)
  THEN c.prefetch_positions[used] ELSE c.prefetch_start

PrefetchReset ==
  /\ cache # <<>>
  /\ cursor' = [cursor EXCEPT !.next = Rewound(cursor), !.prefetch_positions = <<>>]
  /\ cache' = <<>> /\ used' = 0
  /\ UNCHANGED <<records, index_data, delivered, owed, over, writes>>

(* Blink answers continue() from its cache.                                *)
CachedContinue ==
  /\ cache # <<>>
  /\ delivered' = Append(delivered, Head(cache))
  /\ owed' = owed \ {Head(cache)}
  /\ cache' = Tail(cache) /\ used' = used + 1
  /\ UNCHANGED <<records, index_data, cursor, over, writes>>

------------------------------------------------------------------------------
(* Writes of any page: a put with index keys, a deletion, and index keys   *)
(* that come for a record that has gone since Blink read it.               *)
Write(there, index, p) ==
  /\ writes < MaxWrites /\ writes' = writes + 1
  /\ records' = there /\ index_data' = index
  /\ owed' = {e \in owed : e[2] # p}
  /\ UNCHANGED <<cursor, cache, used, delivered, over>>

Without(p) == {e \in index_data : e[2] # p}

Put(p, keys) == Write(records \cup {p}, Without(p) \cup (keys \X {p}), p)
Delete(p) == p \in records /\ Write(records \ {p}, Without(p), p)
SetIndexKeys(p, keys) ==
  p \notin records /\ Write(records, index_data \cup (keys \X {p}), p)

Next ==
  \/ \E is_index, unique, reverse \in BOOLEAN, r \in Ranges : OpenCursor(is_index, r, unique, reverse)
  \/ Continue \/ CachedContinue \/ PrefetchReset
  \/ \E key \in IKeys \cup PKeys, primary \in PKeys \cup {0} : ContinueTo(key, primary)
  \/ \E n \in 2 .. MaxPrefetch : Advance(n) \/ Prefetch(n)
  \/ \E p \in PKeys : \/ Delete(p)
                      \/ \E keys \in SUBSET IKeys \ {{}} : Put(p, keys) \/ SetIndexKeys(p, keys)

Spec == Init /\ [][Next]_vars

------------------------------------------------------------------------------
TypeOK ==
  /\ records \subseteq PKeys /\ index_data \subseteq Entries
  /\ cursor # None => cursor.next \in 1 .. Len(cursor.entries) + MaxPrefetch
  /\ used + Len(cache) <= MaxPrefetch

(* Whatever is fetched ahead, given back, skipped and written meanwhile,   *)
(* the page sees entries in the order of its direction and none twice, and *)
(* passes over none whose record stayed as it was.                         *)
CursorsMoveOn ==
  /\ \A i \in 1 .. Len(delivered) - 1 :
       Precedes(cursor.reverse, delivered[i], delivered[i + 1])
  /\ \A e \in owed : Precedes(cursor.reverse, Last(delivered), e)
  /\ over => owed = {}

(* The reads agree: a count is that of what getAll brings, a limit brings  *)
(* the first of it, and as long as no entry outlives its record a cursor   *)
(* goes through the same.                                                  *)
ReadsAgree == cursor = None =>
  \A is_index, unique, reverse \in BOOLEAN, r \in Ranges :
    LET all == GetAll(is_index, r, unique, reverse, 0) IN
    /\ ~unique => Count(is_index, r) = Len(all)
    /\ \A n \in Limits : n # 0 => IsPrefix(GetAll(is_index, r, unique, reverse, n), all)
    /\ Living(index_data) = index_data =>
         all = InOrder(CursorEntries(is_index, r, unique), reverse)

CursorsAreFaithful == TypeOK /\ CursorsMoveOn /\ ReadsAgree
=============================================================================
