----------------------------- MODULE IDBRegistry -----------------------------
(***************************************************************************)
(* The lives of the database backends of frame/mb_indexeddb.cc: the        *)
(* process-wide Registry, the Graveyard of backends taken out of it, the   *)
(* connections that point at either, and the operations that replace       *)
(* backends: deleteDatabase, loading a snapshot file, clearing a session.  *)
(*                                                                         *)
(* A Registry key is a session's scope and a database; what a database     *)
(* holds is one value.                                                     *)
(***************************************************************************)
EXTENDS Integers, FiniteSets

CONSTANTS
  Scopes,       \* scope prefixes, one per session
  Names,        \* origin and database name within a scope
  Conns,        \* MbIDBDatabase handles
  MaxBackends,  \* bound: backends ever allocated
  Data, NoData, \* contents; NoData: never upgraded, no version
  None          \* no slot, no handle

Keys     == Scopes \X Names
Backends == 1 .. MaxBackends   \* in the order of allocation, whatever their addresses
File     == [Keys -> Data \cup {NoData, None}]

VARIABLES
  registry,     \* Registry(): key -> backend
  graveyard,    \* Graveyard()
  allocated,    \* how many have been allocated so far
  data,         \* backend -> what it holds
  connections,  \* backend -> connections
  backend_,     \* connection -> the backend it points at
  saved,        \* the snapshot file, None where it has no such database
  freed         \* history: the backends that a clear erased from the registry

vars == <<registry, graveyard, allocated, data, connections, backend_, saved, freed>>

------------------------------------------------------------------------------
Registered == {registry[k] : k \in Keys} \ {None}
Live       == Registered \cup graveyard

Init ==
  /\ registry = [k \in Keys |-> None]
  /\ graveyard = {}
  /\ allocated = 0
  /\ data = [b \in Backends |-> NoData]
  /\ connections = [b \in Backends |-> {}]
  /\ backend_ = [c \in Conns |-> None]
  /\ saved = [k \in Keys |-> None]
  /\ freed = {}

(* MbIDBDatabase registers with the backend it is built on.                *)
Connects(c, b) ==
  /\ backend_' = [backend_ EXCEPT ![c] = b]
  /\ connections' = [connections EXCEPT ![b] = @ \cup {c}]

(* Open, through GetOrCreate.                                              *)
OpenExisting(c, k) ==
  /\ backend_[c] = None /\ registry[k] # None
  /\ Connects(c, registry[k])
  /\ UNCHANGED <<registry, graveyard, allocated, data, saved, freed>>

OpenNew(c, k) ==
  /\ backend_[c] = None /\ registry[k] = None
  /\ allocated < MaxBackends
  /\ allocated' = allocated + 1
  /\ registry' = [registry EXCEPT ![k] = allocated']
  /\ Connects(c, allocated')
  /\ UNCHANGED <<graveyard, data, saved, freed>>

(* What a raw backend_ leads to: where one was freed there may be any now. *)
Reached(b) == IF b \in freed THEN 1 .. allocated ELSE {b}

(* An upgrade or a write through a handle, whatever became of its backend. *)
Write(c, d) ==
  /\ backend_[c] # None
  /\ \E b \in Reached(backend_[c]) : data' = [data EXCEPT ![b] = d]
  /\ UNCHANGED <<registry, graveyard, allocated, connections, backend_, saved, freed>>

(* Mutant: the destructor does not unregister.                             *)
DisconnectSilently(c) ==
  /\ backend_[c] # None
  /\ backend_' = [backend_ EXCEPT ![c] = None]
  /\ UNCHANGED <<registry, graveyard, allocated, data, connections, saved, freed>>

(* ~MbIDBDatabase takes itself off its backend.                            *)
Disconnect(c) ==
  /\ backend_[c] # None
  /\ connections' = [connections EXCEPT ![backend_[c]] = @ \ {c}]
  /\ backend_' = [backend_ EXCEPT ![c] = None]
  /\ UNCHANGED <<registry, graveyard, allocated, data, saved, freed>>

(* Mutant: the backend is freed.                                           *)
DeleteAndFree(k) ==
  /\ registry[k] # None
  /\ registry' = [registry EXCEPT ![k] = None]
  /\ UNCHANGED <<graveyard, allocated, data, connections, backend_, saved, freed>>

(* The open connections are told (VersionChange), not closed.              *)
DeleteDatabase(k) ==
  /\ registry[k] # None
  /\ graveyard' = graveyard \cup {registry[k]}
  /\ registry' = [registry EXCEPT ![k] = None]
  /\ UNCHANGED <<allocated, data, connections, backend_, saved, freed>>

------------------------------------------------------------------------------
(* MbSaveIndexedDB and MbSaveIndexedDBScoped: S are the scopes saved.      *)
Save(S) ==
  /\ saved' = [k \in Keys |->
       IF k[1] \in S /\ registry[k] # None THEN data[registry[k]] ELSE None]
  /\ UNCHANGED <<registry, graveyard, allocated, data, connections, backend_, freed>>

InFile(f) == {k \in Keys : f[k] # None}

(* A fresh backend for every database of file f; it does not matter which  *)
(* has which address.                                                      *)
Added(f) == (allocated + 1) .. (allocated + Cardinality(InFile(f)))

Fresh(f) ==
  CHOOSE n \in [InFile(f) -> Added(f)] :
    \A k, l \in InFile(f) : n[k] = n[l] => k = l

Installs(f, n) ==
  LET new == Added(f) IN
    /\ new \subseteq Backends
    /\ allocated' = allocated + Cardinality(new)
    /\ data' = [b \in Backends |->
         IF b \in new THEN f[CHOOSE k \in InFile(f) : n[k] = b] ELSE data[b]]

(* MbLoadIndexedDB: the registry is replaced.                              *)
Load ==
  /\ LET n == Fresh(saved) IN
       /\ Installs(saved, n)
       /\ registry' = [k \in Keys |-> IF k \in InFile(saved) THEN n[k] ELSE None]
  /\ graveyard' = graveyard \cup Registered
  /\ UNCHANGED <<connections, backend_, saved, freed>>

(* What a snapshot becomes when it is loaded for scope s: every database   *)
(* re-keyed from the one scope it was saved for.                           *)
Rekeyed(s) ==
  [k \in Keys |->
     IF k[1] = s /\ \E o \in Scopes : saved[<<o, k[2]>>] # None
       THEN saved[CHOOSE l \in Keys : l[2] = k[2] /\ saved[l] # None] ELSE None]

(* Mutant: every backend is retired, its slot left behind.                 *)
RetiredByAll(f) == Registered
(* The backends a merge replaces.                                          *)
RetiredBy(f) == {registry[k] : k \in InFile(f)} \ {None}

(* Mutant: a file of several profiles is taken for one.                    *)
AnyScope == TRUE
OneScope == \A k, l \in InFile(saved) : k[1] = l[1]

(* MbLoadIndexedDBMerge(Scoped): the databases of the file replace those   *)
(* under the same keys, the others stay.                                   *)
Merge(f) ==
  /\ LET n == Fresh(f) IN
       /\ Installs(f, n)
       /\ registry' = [k \in Keys |-> IF k \in InFile(f) THEN n[k] ELSE registry[k]]
  /\ graveyard' = graveyard \cup RetiredBy(f)
  /\ UNCHANGED <<connections, backend_, saved, freed>>

LoadMergeScoped(s) == OneScope /\ Merge(Rekeyed(s))

ClearedBy(s) == {s} \X Names

(* MbClearIndexedDBScoped erases the entries, and with them the backends,  *)
(* whoever holds a handle on them.                                         *)
ClearScoped(s) ==
  /\ registry' = [k \in Keys |-> IF k \in ClearedBy(s) THEN None ELSE registry[k]]
  /\ freed' = freed \cup ({registry[k] : k \in ClearedBy(s)} \ {None})
  /\ UNCHANGED <<graveyard, allocated, data, connections, backend_, saved>>

(* The process starts again; the file stays.                               *)
Restart ==
  /\ registry' = [k \in Keys |-> None]
  /\ graveyard' = {} /\ allocated' = 0
  /\ data' = [b \in Backends |-> NoData]
  /\ connections' = [b \in Backends |-> {}]
  /\ backend_' = [c \in Conns |-> None]
  /\ freed' = {}
  /\ UNCHANGED saved

Next ==
  \/ \E c \in Conns :
       \/ \E k \in Keys : OpenExisting(c, k) \/ OpenNew(c, k)
       \/ \E d \in Data : Write(c, d)
       \/ Disconnect(c)
  \/ \E k \in Keys : DeleteDatabase(k)
  \/ \E S \in {Scopes} \cup {{s} : s \in Scopes} : Save(S)
  \/ Load
  \/ \E s \in Scopes : LoadMergeScoped(s) \/ ClearScoped(s)
  \/ Merge(saved)
  \/ Restart

Spec == Init /\ [][Next]_vars

------------------------------------------------------------------------------
(* Types; a connection is listed by the backend it points at and by no     *)
(* other, so a deletion notifies the handles that exist.                   *)
TypeOK ==
  /\ registry \in [Keys -> Backends \cup {None}]
  /\ graveyard \subseteq Backends
  /\ allocated \in 0 .. MaxBackends /\ Live \cup freed \subseteq 1 .. allocated
  /\ data \in [Backends -> Data \cup {NoData}]
  /\ backend_ \in [Conns -> Backends \cup {None}]
  /\ connections = [b \in Backends |-> {c \in Conns : backend_[c] = b}]
  /\ saved \in File

(* "Backends removed from the active Registry ... are RETIRED here, not    *)
(* freed: a page may still hold a live MbIDBDatabase": the backend a       *)
(* handle points at exists.  A clear frees those of its session.           *)
HandlesPointToBackends == \A c \in Conns : backend_[c] # None => backend_[c] \in Live

(* Nothing but a clear takes a backend from under its handles: deleting,   *)
(* loading and merging, in any order and number, leave it to them.         *)
OnlyClearsFree == \A c \in Conns : backend_[c] # None => backend_[c] \in Live \cup freed

(* A backend has one owner: no two entries hold it, none in the registry   *)
(* has been moved to the graveyard, and what was freed is in neither.      *)
BackendsHaveOneOwner ==
  /\ Registered \cap graveyard = {} /\ Live \cap freed = {}
  /\ \A k, l \in Keys : registry[k] = registry[l] /\ registry[k] # None => k = l

(* Types, and who owns a backend and who points at it.                     *)
RegistryIsSound == TypeOK /\ OnlyClearsFree /\ BackendsHaveOneOwner

(* "never merge them under one identity": loading or clearing one profile  *)
(* leaves the databases of others alone, and what a load brings into it    *)
(* comes from a single profile.                                            *)
StaysApart ==
     \A s \in Scopes :
       /\ (LoadMergeScoped(s) \/ ClearScoped(s)) =>
            \A k \in Keys : k[1] # s => registry'[k] = registry[k]
       /\ LoadMergeScoped(s) =>
            \E o \in Scopes : \A k \in InFile(saved) : k[1] = o

ProfilesStayApart == [][StaysApart]_vars
=============================================================================
