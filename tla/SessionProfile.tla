---------------------------- MODULE SessionProfile ----------------------------
(***************************************************************************)
(* Persistent browsing profiles (session/mb_session.cc): the identity      *)
(* marker in a profile's directory, handles of one process opened on it,   *)
(* snapshots restored at the first open and flushed on demand and at the   *)
(* end, crashes, writes that fail half way, and directories copied or      *)
(* renamed behind the program's back.                                      *)
(*                                                                         *)
(* One snapshot file stands for idb.dat or opfs.dat, which go through the  *)
(* same steps one after the other.  What a store holds is one value.       *)
(***************************************************************************)
CONSTANTS
  Dirs,      \* profile directories, resolved
  Tokens,    \* identities, made up when needed
  Handles,   \* MbSession objects
  Views,     \* views and view configurations
  Contents,  \* what a profile's store may hold
  Blank,     \* the content of a new or cleared store, one of Contents
  Legacy,    \* a scope of an older version, not a token
  None,      \* no file, no session, no directory
  Torn       \* a file that does not parse, not None

VARIABLES
  (* On disk. *)
  marker,     \* dir -> [token, dir it is bound to], Torn or None
  file,       \* dir -> [scope, content], Torn or None
  backups,    \* dir -> files kept by BackupMigratedSnapshot
  (* In the process. *)
  store,      \* token -> content of its scope in the process-wide store
  profiles,   \* token -> ProfileState
  session,    \* handle -> [dir, id], or None
  refs,       \* handle -> views bound to it
  detached,   \* handle -> its owner has let go of it
  (* History. *)
  originals   \* dir -> files that were put there from outside

disk == <<marker, file, backups>>
vars == <<disk, store, profiles, session, refs, detached, originals>>

Markers   == [token : Tokens, dir : Dirs \cup {None}]
Snapshots == [scope : Tokens \cup {Legacy}, content : Contents]
ProfileState ==
  [handles : SUBSET Handles, restored : BOOLEAN, safe : BOOLEAN,
   needs_backup : BOOLEAN, backup_complete : BOOLEAN]

NewProfile ==
  [handles |-> {}, restored |-> FALSE, safe |-> TRUE, needs_backup |-> FALSE,
   backup_complete |-> FALSE]

IsMarker(m)   == m \notin {None, Torn}
IsSnapshot(f) == f \notin {None, Torn}

------------------------------------------------------------------------------
(* An UnguessableToken is none that is found anywhere.                     *)
Fresh(t) ==
  /\ profiles[t] = NewProfile /\ store[t] = Blank
  /\ \A d \in Dirs :
       /\ IsMarker(marker[d]) => marker[d].token # t
       /\ \A f \in backups[d] \cup originals[d] \cup {file[d]} :
            IsSnapshot(f) => f.scope # t

NoProcess ==
  /\ store = [t \in Tokens |-> Blank]
  /\ profiles = [t \in Tokens |-> NewProfile]
  /\ session = [h \in Handles |-> None]
  /\ refs = [h \in Handles |-> {}]
  /\ detached = [h \in Handles |-> FALSE]

(* One directory was made by an older version, or is damaged, or is new.   *)
Init ==
  /\ NoProcess
  /\ \E d \in Dirs, t \in Tokens :
       \E m \in {None, Torn, [token |-> t, dir |-> None]},
          f \in {None, Torn} \cup [scope : {Legacy, t}, content : Contents] :
         /\ marker = [e \in Dirs |-> IF e = d THEN m ELSE None]
         /\ file = [e \in Dirs |-> IF e = d THEN f ELSE None]
  /\ backups = [d \in Dirs |-> {}]
  /\ originals = [d \in Dirs |-> {file[d]} \ {None}]

------------------------------------------------------------------------------
(* Mutant: a marker is good wherever it lies.                              *)
BoundAnywhere(m, d) == IsMarker(m)

(* ParseProfileId: version 2, and bound to this directory.                 *)
BoundHere(m, d) == IsMarker(m) /\ m.dir = d

(* LoadOrCreateProfileId finds token t in d, or makes it up.               *)
IdentityFor(d, t) ==
  \/ BoundHere(marker[d], d) /\ t = marker[d].token /\ UNCHANGED marker
  \/ /\ marker[d] # Torn /\ ~BoundHere(marker[d], d)
     /\ Fresh(t)
     /\ marker' = [marker EXCEPT ![d] = [token |-> t, dir |-> d]]

(* Mutant: every handle restores.                                          *)
RestoresEachTime(t, d) == file[d] # None

(* RestoreFromDisk has a snapshot to load.                                 *)
Restores(t, d) == ~profiles[t].restored /\ file[d] # None

(* Its databases replace those of the scope; a snapshot of another scope   *)
(* is re-keyed, and must be kept before it is written over.                *)
RestoredProfile(t, d) ==
  IF Restores(t, d)
    THEN [profiles[t] EXCEPT
            !.restored = TRUE,
            !.safe = IsSnapshot(file[d]),
            !.needs_backup = IsSnapshot(file[d]) /\ file[d].scope # t]
    ELSE [profiles[t] EXCEPT !.restored = TRUE]

Create(h, d, t) ==
  /\ session[h] = None
  /\ IdentityFor(d, t)
  /\ session' = [session EXCEPT ![h] = [dir |-> d, id |-> t]]
  /\ detached' = [detached EXCEPT ![h] = FALSE]
  /\ profiles' = [profiles EXCEPT
       ![t] = [RestoredProfile(t, d) EXCEPT !.handles = @ \cup {h}]]
  /\ store' = IF Restores(t, d) /\ IsSnapshot(file[d])
                THEN [store EXCEPT ![t] = file[d].content] ELSE store
  /\ UNCHANGED <<file, backups, refs, originals>>

(* Pages of the profile change what its store holds.                       *)
Write(h, v) ==
  /\ session[h] # None
  /\ store' = [store EXCEPT ![session[h].id] = v]
  /\ UNCHANGED <<disk, profiles, session, refs, detached, originals>>

(* ClearStorage "authorizes replacing an unreadable legacy snapshot".      *)
ClearStorage(h) ==
  /\ session[h] # None
  /\ LET t == session[h].id IN
       /\ store' = [store EXCEPT ![t] = Blank]
       /\ profiles' = [profiles EXCEPT
            ![t] = [@ EXCEPT !.safe = TRUE, !.needs_backup = FALSE,
                             !.backup_complete = FALSE]]
  /\ originals' = [originals EXCEPT ![session[h].dir] = {}]
  /\ UNCHANGED <<disk, session, refs, detached>>

------------------------------------------------------------------------------
(* Mutant: any marker will do.                                             *)
AnyIdentity(h) == session[h] # None

HasIdentity(h) ==
  LET m == marker[session[h].dir] IN
    BoundHere(m, session[h].dir) /\ m.token = session[h].id

MayWrite(p) == p.safe

(* Mutant: a re-keyed snapshot is written over without a backup.           *)
KeptNothing(p, f) == {}

(* What is kept in a backup before the snapshot f is written over.         *)
Kept(p, f) == IF p.needs_backup /\ ~p.backup_complete THEN {f} ELSE {}

(* There is nothing to keep that has to be kept.                           *)
NothingToKeep(p, f) == p.needs_backup /\ ~p.backup_complete /\ f = None

(* FlushToDisk leaves one of these: it is refused, or the backup fails;    *)
(* the write fails, before or after it damaged the file; it succeeds.      *)
FlushOutcomes(h) ==
  LET d == session[h].dir
      t == session[h].id
      p == profiles[t]
      Outcome(f, kept, q) == [file |-> f, kept |-> kept, profile |-> q]
  IN {Outcome(file[d], {}, p)} \cup
       IF ~HasIdentity(h) \/ ~MayWrite(p) \/ NothingToKeep(p, file[d]) THEN {}
       ELSE {Outcome(f, Kept(p, file[d]),
                     [p EXCEPT !.backup_complete = p.needs_backup]) :
               f \in {Torn, file[d]}}
            \cup {Outcome([scope |-> t, content |-> store[t]], Kept(p, file[d]),
                     [p EXCEPT !.needs_backup = FALSE, !.backup_complete = FALSE])}

FlushOutcome(h, o) ==
  LET d == session[h].dir IN
    /\ file' = [file EXCEPT ![d] = o.file]
    /\ backups' = [backups EXCEPT ![d] = @ \cup o.kept]

FlushToDisk(h) ==
  /\ session[h] # None
  /\ \E o \in FlushOutcomes(h) :
       /\ FlushOutcome(h, o)
       /\ profiles' = [profiles EXCEPT ![session[h].id] = o.profile]
  /\ UNCHANGED <<marker, store, session, refs, detached, originals>>

(* Mutant: the views are not counted.                                      *)
DeletableAtOnce(h) == detached'[h]

Deletable(h) == detached'[h] /\ refs'[h] = {}

(* MaybeDelete: a last flush, and the last handle takes ProfileState along. *)
MaybeDelete(h) ==
  IF Deletable(h)
    THEN LET t == session[h].id IN
           \E o \in FlushOutcomes(h) :
             /\ FlushOutcome(h, o)
             /\ profiles' = [profiles EXCEPT
                  ![t] = IF o.profile.handles = {h} THEN NewProfile
                         ELSE [o.profile EXCEPT !.handles = @ \ {h}]]
             /\ session' = [session EXCEPT ![h] = None]
    ELSE UNCHANGED <<file, backups, profiles, session>>

AddRef(h, v) ==
  /\ session[h] # None /\ ~detached[h]
  /\ \A g \in Handles : v \notin refs[g]
  /\ refs' = [refs EXCEPT ![h] = @ \cup {v}]
  /\ UNCHANGED <<disk, store, profiles, session, detached, originals>>

Release(h, v) ==
  /\ v \in refs[h]
  /\ refs' = [refs EXCEPT ![h] = @ \ {v}]
  /\ UNCHANGED detached
  /\ MaybeDelete(h)
  /\ UNCHANGED <<marker, store, originals>>

Detach(h) ==
  /\ session[h] # None /\ ~detached[h]
  /\ detached' = [detached EXCEPT ![h] = TRUE]
  /\ UNCHANGED refs
  /\ MaybeDelete(h)
  /\ UNCHANGED <<marker, store, originals>>

------------------------------------------------------------------------------
(* The process dies without a flush.                                       *)
Crash ==
  /\ store' = [t \in Tokens |-> Blank]
  /\ profiles' = [t \in Tokens |-> NewProfile]
  /\ session' = [h \in Handles |-> None]
  /\ refs' = [h \in Handles |-> {}]
  /\ detached' = [h \in Handles |-> FALSE]
  /\ UNCHANGED <<disk, originals>>

(* Somebody copies or renames directory d to e, which does not exist and   *)
(* is not open (nothing is slipped under an open profile).  The snapshot   *)
(* is an outsider unless it belongs to the identity found in e.            *)
Own(d, e) ==
  BoundHere(marker[d], e) /\ IsSnapshot(file[d]) /\ file[d].scope = marker[d].token

Arrives(d, e) ==
  /\ d # e /\ <<marker[e], file[e], backups[e]>> = <<None, None, {}>>
  /\ <<marker[d], file[d]>> # <<None, None>>
  /\ ~\E h \in Handles : session[h] # None /\ session[h].dir = e

Brought(d, e) ==
  IF Own(d, e) THEN originals[d] \ {file[d]} ELSE originals[d] \cup ({file[d]} \ {None})

Copy(d, e) ==
  /\ Arrives(d, e)
  /\ marker' = [marker EXCEPT ![e] = marker[d]]
  /\ file' = [file EXCEPT ![e] = file[d]]
  /\ backups' = [backups EXCEPT ![e] = backups[d]]
  /\ originals' = [originals EXCEPT ![e] = Brought(d, e)]
  /\ UNCHANGED <<store, profiles, session, refs, detached>>

Rename(d, e) ==
  /\ Arrives(d, e)
  /\ marker' = [marker EXCEPT ![e] = marker[d], ![d] = None]
  /\ file' = [file EXCEPT ![e] = file[d], ![d] = None]
  /\ backups' = [backups EXCEPT ![e] = backups[d], ![d] = {}]
  /\ originals' = [originals EXCEPT ![e] = Brought(d, e), ![d] = {}]
  /\ UNCHANGED <<store, profiles, session, refs, detached>>

Next ==
  \/ \E h \in Handles :
       \/ \E d \in Dirs, t \in Tokens : Create(h, d, t)
       \/ \E v \in Contents : Write(h, v)
       \/ ClearStorage(h) \/ FlushToDisk(h) \/ Detach(h)
       \/ \E v \in Views : AddRef(h, v) \/ Release(h, v)
  \/ \E d, e \in Dirs : Copy(d, e) \/ Rename(d, e)
  \/ Crash

Spec == Init /\ [][Next]_vars

------------------------------------------------------------------------------
(* Types; a profile knows its handles, and a session outlives the views    *)
(* bound to it.                                                            *)
TypeOK ==
  /\ marker \in [Dirs -> {None, Torn} \cup Markers]
  /\ file \in [Dirs -> {None, Torn} \cup Snapshots]
  /\ backups \in [Dirs -> SUBSET ({Torn} \cup Snapshots)]
  /\ store \in [Tokens -> Contents]
  /\ profiles \in [Tokens -> ProfileState]
  /\ session \in [Handles -> {None} \cup [dir : Dirs, id : Tokens]]
  /\ refs \in [Handles -> SUBSET Views]
  /\ detached \in [Handles -> BOOLEAN]
  /\ \A t \in Tokens :
       profiles[t].handles = {h \in Handles : session[h] # None /\ session[h].id = t}
  /\ \A h \in Handles : refs[h] # {} => session[h] # None
  /\ originals \in [Dirs -> SUBSET ({Torn} \cup Snapshots)]

(* "never overwrite a snapshot that failed parsing or whose legacy scope   *)
(* was ambiguous ... retain its original bytes": a snapshot that came from *)
(* outside is still in its directory, as it was or in a backup, after any  *)
(* flushes, failures, crashes and reopenings, until the profile is cleared. *)
OriginalsSurvive == \A d \in Dirs : originals[d] \subseteq backups[d] \cup {file[d]}

(* The marker is bound to the directory: handles with one identity, whose  *)
(* stores are shared, are open on one directory, copies and renames        *)
(* notwithstanding.                                                        *)
OneDirectoryPerIdentity ==
  \A h, g \in Handles :
    session[h] # None /\ session[g] # None /\ session[h].id = session[g].id =>
      session[h].dir = session[g].dir

(* Types, and the two parts above.                                         *)
ProfilesAreSafe == TypeOK /\ OriginalsSurvive /\ OneDirectoryPerIdentity

(* "never write snapshots without their matching identity": what the       *)
(* process writes into a directory is saved under the identity found there. *)
SavedUnderItsIdentity ==
  \A d \in Dirs :
    marker[d] # None /\ file'[d] # file[d] /\ IsSnapshot(file'[d]) =>
      BoundHere(marker[d], d) /\ file'[d].scope = marker[d].token

(* "restore once": opening a profile that is open already leaves what its  *)
(* pages wrote alone.                                                      *)
OpenProfileIsNotReloaded ==
  \A h \in Handles, d \in Dirs, t \in Tokens :
    Create(h, d, t) /\ profiles[t].handles # {} => UNCHANGED store

(* Memory and disk meet under one identity, and only when they should.     *)
ProfilesKeepTheirOwn ==
  [][SavedUnderItsIdentity /\ OpenProfileIsNotReloaded]_vars
=============================================================================
