--------------------------------- MODULE OPFS ----------------------------------
(***************************************************************************)
(* The origin private file system (frame/mb_opfs.cc): trees of nodes in    *)
(* memory, one for each scope (a profile and an origin); the handles,      *)
(* writers and synchronous access handles that pages bind to nodes and     *)
(* that keep a node whose entry was removed; and the files a profile is    *)
(* saved to and merged back from.                                          *)
(***************************************************************************)
EXTENDS Naturals, Sequences, SequencesExt, FiniteSets

CONSTANTS
  Profiles, Origins,  \* scopes are pairs of these
  Names,              \* of entries
  MaxNodes,           \* bound on the nodes that are made
  MaxDepth,           \* bound on the depth of a tree
  MaxLength,          \* bound on the length of a file
  Sessions,           \* writers and access handles that may be open at once
  MaxUses,            \* bound on saves, loads, crashes and clears
  Files               \* the files that are saved: of Profiles, and Whole

VARIABLES
  roots,      \* OpfsRoots(): scope -> node
  kind,       \* is_dir: "dir" or "file"; "none" is a node not yet made
  children,   \* name -> node
  bytes,
  lock_shared, lock_exclusive,
  sessions,   \* MbFsFileWriter and MbFsAccessHandleHost objects
  files,      \* what is on disk: of each profile, and of the process
  uses,       \* bound: the uses of the files
  loaded      \* history: a load that has just happened, and what was there

tree  == <<roots, kind, children, bytes>>
locks == <<lock_shared, lock_exclusive, sessions>>
vars  == <<tree, locks, files, uses, loaded>>

Partitions == Profiles \X Origins
Nodes  == 1 .. MaxNodes
NoNode == 0
Bytes  == UNION {[1 .. n -> {0, 1}] : n \in 0 .. MaxLength}
Paths  == UNION {[1 .. n -> Names] : n \in 0 .. MaxDepth}
Dir    == <<2>>         \* the contents of a directory: no file's
Whole  == "process"     \* the file of mbSaveOPFS
NoFile == [torn |-> FALSE, trees |-> <<>>]
NoLoad == [torn |-> FALSE, profile |-> "none", trees |-> <<>>, before |-> <<>>]

Init ==
  /\ roots = <<>>
  /\ kind = [n \in Nodes |-> "none"]
  /\ children = [n \in Nodes |-> <<>>]
  /\ bytes = [n \in Nodes |-> <<>>]
  /\ lock_shared = [n \in Nodes |-> 0]
  /\ lock_exclusive = [n \in Nodes |-> FALSE]
  /\ sessions = <<>> /\ uses = 0
  /\ files = [f \in Files |-> NoFile]
  /\ loaded = NoLoad

With(f, x, v) == [y \in DOMAIN f \cup {x} |-> IF y = x THEN v ELSE f[y]]
Less(f, S)    == [y \in DOMAIN f \ S |-> f[y]]

Spare == {n \in Nodes : kind[n] = "none"}
First(S) == CHOOSE n \in S : \A m \in S : n <= m

(* The node at a path: WNode does not look below a file.                   *)
Step(n, a) == IF n # NoNode /\ a \in DOMAIN children[n] THEN children[n][a] ELSE NoNode
Reach(n, p) == FoldLeft(Step, n, p)
Shown(n, p) ==
  FoldLeft(LAMBDA m, a : IF m # NoNode /\ kind[m] = "dir" THEN Step(m, a) ELSE NoNode, n, p)
Tree(n) ==
  [p \in {q \in Paths : Shown(n, q) # NoNode} |->
     IF kind[Shown(n, p)] = "dir" THEN Dir ELSE bytes[Shown(n, p)]]

------------------------------------------------------------------------------
(* Directories.  A page holds a handle of every node that was made, and    *)
(* keeps it when the entry is removed.                                     *)
GetSandboxedFileSystem ==
  /\ Spare # {}
  /\ \E s \in Partitions \ DOMAIN roots :
       /\ roots' = With(roots, s, First(Spare))
       /\ kind' = [kind EXCEPT ![First(Spare)] = "dir"]
  /\ UNCHANGED <<children, bytes, locks, files, uses>>

Directories == {n \in Nodes : kind[n] = "dir"}

(* GetFile and GetDirectory of a name that is not there.                   *)
GetEntry(k) ==
  /\ Spare # {}
  /\ \E d \in Directories : \E a \in Names \ DOMAIN children[d] :
       /\ kind' = [kind EXCEPT ![First(Spare)] = k]
       /\ children' = [children EXCEPT ![d] = With(@, a, First(Spare))]
  /\ UNCHANGED <<roots, bytes, locks, files, uses>>

GetFile == GetEntry("file")
GetDirectory == GetEntry("dir")

RemoveEntry ==
  /\ \E d \in Directories, a \in Names, recurse \in BOOLEAN :
       /\ a \in DOMAIN children[d]
       /\ LET n == children[d][a] IN
            kind[n] = "dir" /\ ~recurse => children[n] = <<>>
       /\ children' = [children EXCEPT ![d] = Less(@, {a})]
  /\ UNCHANGED <<roots, kind, bytes, locks, files, uses>>

------------------------------------------------------------------------------
(* Locks, and the two kinds of object that hold them.                      *)
AcquireLock(n, exclusive) ==
  /\ ~lock_exclusive[n]
  /\ exclusive => lock_shared[n] = 0
  /\ IF exclusive
       THEN /\ lock_exclusive' = [lock_exclusive EXCEPT ![n] = TRUE]
            /\ UNCHANGED lock_shared
       ELSE /\ lock_shared' = [lock_shared EXCEPT ![n] = @ + 1]
            /\ UNCHANGED lock_exclusive

ReleaseLock(n, exclusive) ==
  IF exclusive
    THEN /\ lock_exclusive' = [lock_exclusive EXCEPT ![n] = FALSE]
         /\ UNCHANGED lock_shared
    ELSE /\ lock_shared' = [lock_shared EXCEPT ![n] = IF @ > 0 THEN @ - 1 ELSE 0]
         /\ UNCHANGED lock_exclusive

Opens(s, n, object, exclusive, b) ==
  /\ s \notin DOMAIN sessions
  /\ AcquireLock(n, exclusive)
  /\ sessions' = With(sessions, s, [object |-> object, node |-> n,
                                    exclusive |-> exclusive, held |-> TRUE,
                                    open |-> TRUE, buffer |-> b])

CreateFileWriter ==
  /\ \E s \in Sessions, n \in Nodes, exclusive, keep \in BOOLEAN :
       /\ kind[n] = "file"
       /\ Opens(s, n, "writer", exclusive, IF keep THEN bytes[n] ELSE <<>>)
  /\ UNCHANGED <<tree, files, uses>>

OpenAccessHandle ==
  /\ \E s \in Sessions, n \in Nodes, exclusive \in BOOLEAN :
       /\ kind[n] = "file"
       /\ Opens(s, n, "access", exclusive, <<>>)
  /\ UNCHANGED <<tree, files, uses>>

(* One byte at an offset: a gap past the end is filled with zeros.         *)
Spliced(b, offset) ==
  [i \in 1 .. (IF offset > Len(b) THEN offset ELSE Len(b)) |->
     IF i = offset THEN 1 ELSE IF i <= Len(b) THEN b[i] ELSE 0]
Resized(b, length) ==
  [i \in 1 .. length |-> IF i <= Len(b) THEN b[i] ELSE 0]
Edits(b) ==
  {Spliced(b, o) : o \in 1 .. MaxLength} \cup {Resized(b, l) : l \in 0 .. MaxLength}

OpenSessions(object) ==
  {s \in DOMAIN sessions : sessions[s].object = object /\ sessions[s].open}

(* MbFsFileWriter: ApplyWrite and Truncate work on the buffer.             *)
WriterWrite ==
  /\ \E s \in OpenSessions("writer") :
       \E b \in Edits(sessions[s].buffer) :
         sessions' = [sessions EXCEPT ![s].buffer = b]
  /\ UNCHANGED <<tree, lock_shared, lock_exclusive, files, uses>>

(* The page does not use a writer it has closed or aborted.                *)
WriterClose ==
  /\ \E s \in OpenSessions("writer") :
       /\ bytes' = [bytes EXCEPT ![sessions[s].node] = sessions[s].buffer]
       /\ sessions' = [sessions EXCEPT ![s].open = FALSE]
  /\ UNCHANGED <<roots, kind, children, lock_shared, lock_exclusive, files, uses>>

WriterAbort ==
  /\ \E s \in OpenSessions("writer") : sessions' = [sessions EXCEPT ![s].open = FALSE]
  /\ UNCHANGED <<tree, lock_shared, lock_exclusive, files, uses>>

(* MbFsFileDelegateHost: Write and SetLength work on the node.             *)
DelegateWrite ==
  /\ \E s \in OpenSessions("access") :
       \E b \in Edits(bytes[sessions[s].node]) :
         bytes' = [bytes EXCEPT ![sessions[s].node] = b]
  /\ UNCHANGED <<roots, kind, children, locks, files, uses>>

(* MbFsAccessHandleHost::Close, after which the delegate is closed too.    *)
HostClose ==
  /\ \E s \in OpenSessions("access") :
       /\ sessions' = [sessions EXCEPT ![s].held = FALSE, ![s].open = FALSE]
       /\ ReleaseLock(sessions[s].node, sessions[s].exclusive)
  /\ UNCHANGED <<tree, files, uses>>

(* Mutant: the destructor releases what Close has released.                *)
ReleasedTwice(x) == ReleaseLock(x.node, x.exclusive)

Released(x) ==
  IF x.held THEN ReleaseLock(x.node, x.exclusive)
            ELSE UNCHANGED <<lock_shared, lock_exclusive>>

(* The pipe of a writer or a host closes, with or without a Close.         *)
Disconnect ==
  /\ \E s \in DOMAIN sessions :
       /\ Released(sessions[s])
       /\ sessions' = Less(sessions, {s})
  /\ UNCHANGED <<tree, files, uses>>

------------------------------------------------------------------------------
(* Persistence.                                                            *)
Save(f, S) ==
  /\ f \in Files
  /\ files' = [files EXCEPT ![f] =
                 [torn |-> FALSE, trees |-> [s \in S |-> Tree(roots[s])]]]
  /\ UNCHANGED <<tree, locks>>

ScopesOf(p) == {s \in DOMAIN roots : s[1] = p}

MbSaveOPFSScoped == \E p \in Profiles : Save(p, ScopesOf(p))
MbSaveOPFS == Save(Whole, DOMAIN roots)

(* The process dies while a file is written; nothing of the process stays. *)
Crash ==
  /\ \E torn \in SUBSET DOMAIN files :
       files' = [f \in DOMAIN files |->
                   IF f \in torn THEN [files[f] EXCEPT !.torn = TRUE] ELSE files[f]]
  /\ roots' = <<>> /\ sessions' = <<>>
  /\ kind' = [n \in Nodes |-> "none"]
  /\ children' = [n \in Nodes |-> <<>>]
  /\ bytes' = [n \in Nodes |-> <<>>]
  /\ lock_shared' = [n \in Nodes |-> 0]
  /\ lock_exclusive' = [n \in Nodes |-> FALSE]

(* MergeNodeInto of trees: what is missing is made, nothing is deleted.    *)
(* "Places" are pairs of a scope and a path.                               *)
Places(trees) == {pl \in (DOMAIN trees) \X Paths : pl[2] \in DOMAIN trees[pl[1]]}
Present(pl) == pl[1] \in DOMAIN roots /\ Reach(roots[pl[1]], pl[2]) # NoNode
Missing(trees) == {pl \in Places(trees) : ~Present(pl)}

NodeFor(trees, new, pl) ==
  IF Present(pl) THEN Reach(roots[pl[1]], pl[2]) ELSE new[pl]

MergeNodes(trees) ==
  LET made == SetToSeq(Missing(trees))
      spare == SetToSortSeq(Spare, <)
      new == [pl \in Missing(trees) |-> spare[CHOOSE i \in DOMAIN made : made[i] = pl]]
      node == [pl \in Places(trees) |-> NodeFor(trees, new, pl)]
      At(n) == {pl \in Places(trees) : node[pl] = n}
      Value(pl) == trees[pl[1]][pl[2]]
      Added(n) == {pl \in Places(trees) : pl[2] # <<>> /\ node[<<pl[1], Front(pl[2])>>] = n}
  IN
    /\ Len(made) <= Len(spare)
    /\ roots' = [s \in DOMAIN roots \cup DOMAIN trees |->
                   IF s \in DOMAIN roots THEN roots[s] ELSE node[<<s, <<>> >>]]
    /\ kind' = [n \in Nodes |->
                  IF At(n) = {} THEN kind[n]
                  ELSE IF \E pl \in At(n) : Value(pl) = Dir THEN "dir" ELSE "file"]
    /\ bytes' = [n \in Nodes |->
                  IF \E pl \in At(n) : Value(pl) # Dir
                    THEN Value(CHOOSE pl \in At(n) : TRUE) ELSE bytes[n]]
    /\ children' = [n \in Nodes |->
                      [a \in DOMAIN children[n] \cup {Last(pl[2]) : pl \in Added(n)} |->
                         IF a \in DOMAIN children[n] THEN children[n][a]
                         ELSE node[CHOOSE pl \in Added(n) : Last(pl[2]) = a]]]
    /\ UNCHANGED <<locks, files>>

(* Mutant: what was read of a torn file is merged.                         *)
ReadableOrTorn(f) ==
  \A s, t \in DOMAIN files[f].trees : s[1] = t[1]

(* ParseAndMergeScopedOpfs: parsed into detached roots first, of a single  *)
(* profile, which is re-keyed to the one that is being opened.             *)
Readable(f) ==
  /\ ~files[f].torn
  /\ \A s, t \in DOMAIN files[f].trees : s[1] = t[1]

Rekeyed(trees, p) ==
  [s \in {<<p, t[2]>> : t \in DOMAIN trees} |->
     trees[CHOOSE t \in DOMAIN trees : t[2] = s[2]]]

Trees == [s \in DOMAIN roots |-> Tree(roots[s])]

MbLoadOPFSScoped ==
  \E p \in Profiles, f \in DOMAIN files :
    /\ Readable(f)
    /\ MergeNodes(Rekeyed(files[f].trees, p))
    /\ loaded' = [torn |-> files[f].torn, profile |-> p,
                  trees |-> Rekeyed(files[f].trees, p), before |-> Trees]

(* MbLoadOPFS merges as it reads: of a torn file, what comes first.        *)
Upwards(Q) == \A pl \in Q : pl[2] = <<>> \/ <<pl[1], Front(pl[2])>> \in Q
ReadFrom(file) ==
  IF file.torn THEN {Q \in SUBSET Places(file.trees) : Upwards(Q)}
               ELSE {Places(file.trees)}
Part(trees, Q) ==
  [s \in {pl[1] : pl \in Q} |->
     [p \in {pl[2] : pl \in {x \in Q : x[1] = s}} |-> trees[s][p]]]

MbLoadOPFS ==
  \E f \in DOMAIN files : \E Q \in ReadFrom(files[f]) :
    MergeNodes(Part(files[f].trees, Q))

MbClearOPFSScoped ==
  /\ \E p \in Profiles : roots' = Less(roots, ScopesOf(p))
  /\ UNCHANGED <<kind, children, bytes, locks, files>>

------------------------------------------------------------------------------
Page ==
  \/ GetSandboxedFileSystem \/ GetFile \/ GetDirectory \/ RemoveEntry
  \/ CreateFileWriter \/ WriterWrite \/ WriterClose \/ WriterAbort
  \/ OpenAccessHandle \/ DelegateWrite \/ HostClose \/ Disconnect

Host == MbSaveOPFSScoped \/ MbSaveOPFS \/ Crash \/ MbLoadOPFS \/ MbClearOPFSScoped

Next ==
  \/ Page /\ loaded' = NoLoad
  \/ Host /\ loaded' = NoLoad /\ uses < MaxUses /\ uses' = uses + 1
  \/ MbLoadOPFSScoped /\ uses < MaxUses /\ uses' = uses + 1

Spec == Init /\ [][Next]_vars

------------------------------------------------------------------------------
(* A lock on a file is held by exactly the writers and access handles that *)
(* were granted it and are still there, an exclusive one by one of them    *)
(* and by nobody else, whatever order closes and vanished pipes come in.   *)
Holders(n, exclusive) ==
  {s \in DOMAIN sessions :
     sessions[s].node = n /\ sessions[s].held /\ sessions[s].exclusive = exclusive}

LocksHaveHolders ==
  \A n \in Nodes :
    /\ lock_shared[n] = Cardinality(Holders(n, FALSE))
    /\ lock_exclusive[n] = (Holders(n, TRUE) # {})
    /\ lock_exclusive[n] =>
         Cardinality(Holders(n, TRUE)) = 1 /\ Holders(n, FALSE) = {}

(* "A corrupt/truncated file must not leave a partial live tree": a load   *)
(* is of a whole file, it brings all of it, and it leaves what the file    *)
(* does not mention and every other profile as they were.                  *)
Mentions(t, p) == \E q \in DOMAIN t : IsPrefix(q, p) /\ (q = p \/ t[q] # Dir)

LoadsAreWhole ==
  loaded # NoLoad =>
    /\ ~loaded.torn
    /\ DOMAIN Trees = DOMAIN loaded.before \cup DOMAIN loaded.trees
    /\ \A s \in DOMAIN loaded.trees :
         /\ s[1] = loaded.profile
         /\ \A p \in DOMAIN loaded.trees[s] :
              p \in DOMAIN Trees[s] /\ Trees[s][p] = loaded.trees[s][p]
    /\ \A s \in DOMAIN loaded.before : \A p \in DOMAIN loaded.before[s] :
         \/ s \in DOMAIN loaded.trees /\ Mentions(loaded.trees[s], p)
         \/ p \in DOMAIN Trees[s] /\ Trees[s][p] = loaded.before[s][p]
=============================================================================
