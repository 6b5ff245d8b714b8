------------------------------- MODULE MCStored -------------------------------
(***************************************************************************)
(* Instances of IDBTransactions and SessionProfile for TLC: the            *)
(* transactions of a database and the profiles that databases are kept in. *)
(* They keep different state and are explored side by side: `which' says   *)
(* whose behaviours these are.                                             *)
(***************************************************************************)
EXTENDS IDBTransactions, TLC

CONSTANTS Dirs, Tokens, Handles, Views, Contents, Blank, Legacy, None, Torn

VARIABLES which, marker, file, backups, store, profiles, session, refs, detached, originals

Profiles == INSTANCE SessionProfile

(* Markers of what is absent or damaged are told from what is there.       *)
ASSUME ProfilesAssumption ==
  /\ Blank \in Contents /\ None \notin Dirs \cup {Torn}
  /\ {None, Torn} \cap (Profiles!Markers \cup Profiles!Snapshots) = {}
  /\ None \notin [dir : Dirs, id : Tokens]

profileVars == <<marker, file, backups, store, profiles, session, refs, detached, originals>>

SumInit ==
  /\ which \in {"database", "profiles"}
  /\ Init /\ Profiles!Init
  /\ which = "database" =>
       \A d \in Dirs : marker[d] = None /\ file[d] = None /\ backups[d] = {}
  /\ which = "profiles" => metadata = NewDatabase

SumNext ==
  /\ UNCHANGED which
  /\ \/ which = "database" /\ Next /\ UNCHANGED profileVars
     \/ which = "profiles" /\ Profiles!Next /\ UNCHANGED vars

SumSpec == SumInit /\ [][SumNext]_<<vars, profileVars, which>>

(* Connections, ids and values are interchangeable, and so are identities, *)
(* handles and directories.                                                *)
Symmetry ==
  Permutations(Conns) \cup Permutations(TxnIds) \cup Permutations(Vals) \cup
  Permutations(Tokens) \cup Permutations(Handles) \cup Permutations(Dirs)

(* Originals survive and identities stay with one directory; nothing is    *)
(* saved under another identity, and opening a profile again leaves what   *)
(* its pages wrote alone.                                                  *)
ProfilesAreSafe      == Profiles!ProfilesAreSafe
ProfilesKeepTheirOwn ==
  [][Profiles!SavedUnderItsIdentity /\ Profiles!OpenProfileIsNotReloaded]_profileVars
=============================================================================
