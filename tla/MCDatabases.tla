------------------------------ MODULE MCDatabases ------------------------------
(***************************************************************************)
(* Instances of IDBObjectStore, IDBCursor, IDBKeys, IDBRegistry and OPFS   *)
(* for TLC: what pages store.  They keep different state and are explored  *)
(* side by side: `which' says whose behaviours these are, and the          *)
(* variables of the others stay as they are.  OPFS is there twice: pages   *)
(* that hold locks, and profiles that are saved and loaded.  Keys have     *)
(* nothing that changes.                                                   *)
(***************************************************************************)
EXTENDS IDBObjectStore, IDBKeys, FiniteSets

CONSTANTS
  e1, e2,  \* index keys
  Scopes, DBNames, Conns, MaxBackends, Data,  \* of IDBRegistry
  Owners, MaxNodes, Sessions, SavedFiles, MaxUses         \* of OPFS, for pages with locks

ASSUME RegistryAssumption ==
  /\ IsFiniteSet(Scopes) /\ IsFiniteSet(DBNames) /\ MaxBackends \in Nat
  /\ Nothing \notin Nat /\ Nothing \notin Data \cup {NoVal}

(* One index: two values that differ in its key, and one with both.        *)
OneIndexVals == {[i \in Indexes |-> {e1}], [i \in Indexes |-> {e2}],
                 [i \in Indexes |-> {e1, e2}]}

(* One index key: a value that every index sees, and one that none sees.   *)
OneKeyVals == {[i \in Indexes |-> {e1}], [i \in Indexes |-> {}]}

VARIABLES which, registry, graveyard, allocated, data, connections, backend_, saved,
          freed, stored, indexed, cursor, cache, used, delivered, owed, over, writes,
          roots, node_kind, children, node_bytes, lock_shared, lock_exclusive,
          sessions, files, uses, loaded

registryVars == <<registry, graveyard, allocated, data, connections, backend_, saved, freed>>
cursorVars == <<stored, indexed, cursor, cache, used, delivered, owed, over, writes>>
opfsVars == <<roots, node_kind, children, node_bytes, lock_shared, lock_exclusive,
              sessions, files, uses, loaded>>

Registry == INSTANCE IDBRegistry WITH Names <- DBNames, NoData <- NoVal, None <- Nothing

(* All keys, those after the first, and those up to the second but one.    *)
CursorRanges == {[lo |-> 0, lo_open |-> FALSE, hi |-> 0, hi_open |-> FALSE],
                 [lo |-> 1, lo_open |-> TRUE, hi |-> 0, hi_open |-> FALSE],
                 [lo |-> 0, lo_open |-> FALSE, hi |-> 2, hi_open |-> TRUE]}

Cursor == INSTANCE IDBCursor WITH
  PKeys <- 1 .. 3, IKeys <- {1, 2}, Ranges <- CursorRanges, Limits <- {1, 2}, None <- Nothing,
  MaxWrites <- 1, MaxPrefetch <- 2, records <- stored, index_data <- indexed

(* Strings of IDBKeys, with the byte that is escaped.                      *)
ShortStrings == {<<>>, <<0>>, <<97, 0>>}

(* Profiles whose pages hold locks; two that save and load.                *)
Locks == INSTANCE OPFS WITH
  Profiles <- Owners, Origins <- {"o"}, Names <- {"a"}, MaxDepth <- 2, MaxLength <- 1,
  Files <- SavedFiles, kind <- node_kind, bytes <- node_bytes

Disk == INSTANCE OPFS WITH
  Profiles <- {"p1", "p2"}, Origins <- {"o"}, Names <- {"a"}, MaxNodes <- 3, MaxDepth <- 2,
  MaxLength <- 1, Sessions <- {}, Files <- {"p2", "process"}, MaxUses <- 3,
  kind <- node_kind, bytes <- node_bytes

SumInit ==
  /\ Init /\ Registry!Init /\ Cursor!Init
  /\ which \in {"store", "cursor", "keys", "registry", "files", "disk"}
  /\ which # "store" => ~careful
  /\ auto_increment => careful
  /\ which # "cursor" => stored = {}
  /\ IF which = "disk" THEN Disk!Init ELSE Locks!Init

SumNext ==
  /\ UNCHANGED which
  /\ \/ which = "store" /\ Next /\ UNCHANGED <<cursorVars, registryVars, opfsVars>>
     \/ which = "cursor" /\ Cursor!Next /\ UNCHANGED <<vars, registryVars, opfsVars>>
     \/ which = "registry" /\ Registry!Next /\ UNCHANGED <<vars, cursorVars, opfsVars>>
     \/ which = "files" /\ Locks!Next /\ UNCHANGED <<vars, cursorVars, registryVars>>
     \/ which = "disk" /\ Disk!Next /\ UNCHANGED <<vars, cursorVars, registryVars>>

SumVars == <<vars, cursorVars, registryVars, opfsVars, which>>

SumSpec == SumInit /\ [][SumNext]_SumVars

(* Handles, backends and the registry hang together, but for what a host   *)
(* clears under its pages; and profiles do not touch each other.           *)
RegistryIsSound   == which = "registry" => Registry!RegistryIsSound
ProfilesStayApart == [][which = "registry" => Registry!StaysApart]_registryVars

(* Files of the origin-private file system are locked by those who hold    *)
(* them.                                                                   *)
LocksHaveHolders == which = "files" => Locks!LocksHaveHolders

(* What is read is what was stored: a cursor passes over no entry that     *)
(* stayed, counts and getAll agree with it, keys sort as their encodings   *)
(* do, and a load brings the whole of a whole file into its own profile.   *)
ReadsAreRight ==
  /\ which = "cursor" => Cursor!CursorsAreFaithful
  /\ which = "keys" => KeysAreExact
  /\ which = "disk" => Disk!LoadsAreWhole
=============================================================================
