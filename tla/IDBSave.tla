------------------------------- MODULE IDBSave -------------------------------
(***************************************************************************)
(* Saving IndexedDB while its records carry Blobs                          *)
(* (SerializeWithBlobsOnService in frame/mb_indexeddb.cc).  The main       *)
(* thread posts the save and blocks.  The service thread asks every Blob   *)
(* for its bytes, notes them under the address of the record's             *)
(* WebBlobInfo, and after the last answer writes the records out, looking  *)
(* the bytes up by address.  Between the answers the service thread is     *)
(* free to run other operations.                                           *)
(***************************************************************************)
EXTENDS FiniteSets

CONSTANTS
  Records,      \* keys of records with one Blob each
  Addrs,        \* addresses a WebBlobInfo may be allocated at
  Blobs,        \* Blobs, and the bytes they hold
  None,         \* no record, no save
  Empty         \* no bytes

VARIABLES
  addr,       \* record -> address of its WebBlobInfo, None without record
  blob,       \* record -> its Blob
  main,       \* main thread: "runs", "waits" (for done) or "writes"
  gathering,  \* the service thread has asked for the bytes
  asked,      \* <<address, Blob>> still to answer
  bytes,      \* address -> what was answered
  out,        \* record -> bytes in the buffer to be written, None if none
  disturbed   \* history: somebody operated while the main thread waited

vars == <<addr, blob, main, gathering, asked, bytes, out, disturbed>>

------------------------------------------------------------------------------
Exists(r) == addr[r] # None
Used      == {addr[r] : r \in Records} \ {None}
NoBytes   == [a \in Addrs |-> Empty]

Init ==
  /\ addr = [r \in Records |-> None]
  /\ blob = [r \in Records |-> None]
  /\ main = "runs"
  /\ gathering = FALSE
  /\ asked = {}
  /\ bytes = NoBytes
  /\ out = [r \in Records |-> None]
  /\ disturbed = FALSE

(* The factory is bound by workers too, which nobody blocks.               *)
Operates == disturbed' = (disturbed \/ main = "waits")

(* Put builds a new MbRecord; what it replaced is freed after.             *)
Put(r, b) ==
  /\ Operates
  /\ \E a \in Addrs \ Used : addr' = [addr EXCEPT ![r] = a]
  /\ blob' = [blob EXCEPT ![r] = b]
  /\ UNCHANGED <<main, gathering, asked, bytes, out>>

Delete(r) ==
  /\ Operates /\ Exists(r)
  /\ addr' = [addr EXCEPT ![r] = None]
  /\ blob' = [blob EXCEPT ![r] = None]
  /\ UNCHANGED <<main, gathering, asked, bytes, out>>

------------------------------------------------------------------------------
(* MbSaveIndexedDB on the main thread.                                     *)
Save ==
  /\ main = "runs"
  /\ main' = "waits"
  /\ disturbed' = FALSE
  /\ UNCHANGED <<addr, blob, gathering, asked, bytes, out>>

SerializeRegistry(map) ==
  [r \in Records |-> IF Exists(r) THEN map[addr[r]] ELSE None]

(* The barrier: with nothing left to wait for, the records are written out *)
(* in the same task and the main thread is woken.                          *)
Await(X, map) ==
  IF X = {}
    THEN /\ out' = SerializeRegistry(map)
         /\ gathering' = FALSE /\ main' = "writes"
    ELSE gathering' = TRUE /\ UNCHANGED <<out, main>>

(* The task: one read per Blob.                                            *)
Gather ==
  LET X == {<<addr[r], blob[r]>> : r \in {q \in Records : Exists(q)}} IN
    /\ main = "waits" /\ ~gathering
    /\ asked' = X
    /\ bytes' = NoBytes
    /\ Await(X, NoBytes)
    /\ UNCHANGED <<addr, blob, disturbed>>

Answered(x) ==
  /\ x \in asked
  /\ bytes' = [bytes EXCEPT ![x[1]] = x[2]]
  /\ UNCHANGED <<addr, blob, disturbed>>

(* Mutants: an answer counts twice at the barrier, or not at all; the      *)
(* barrier does not wait.                                                  *)
AnswerTwice(x) ==
  /\ Answered(x)
  /\ \E y \in asked : asked' = asked \ {x, y} /\ Await(asked \ {x, y}, bytes')
AnswerLost(x) ==
  Answered(x) /\ UNCHANGED <<asked, main, gathering, out>>
AnswerUnawaited(x) ==
  Answered(x) /\ asked' = asked \ {x} /\ Await({}, bytes')

Answer(x) ==
  Answered(x) /\ asked' = asked \ {x} /\ Await(asked \ {x}, bytes')

(* The main thread wakes up and writes the file.                           *)
WriteFile ==
  /\ main = "writes"
  /\ main' = "runs"
  /\ out' = [r \in Records |-> None]
  /\ UNCHANGED <<addr, blob, gathering, asked, bytes, disturbed>>

Next ==
  \/ \E r \in Records : (\E b \in Blobs : Put(r, b)) \/ Delete(r)
  \/ Save \/ Gather \/ WriteFile
  \/ \E x \in Addrs \X Blobs : Answer(x)

Spec == Init /\ [][Next]_vars

(* The service thread goes on and every Blob answers.                      *)
Proceeds == Gather \/ WriteFile \/ \E x \in Addrs \X Blobs : Answer(x)

FairSpec == Spec /\ WF_vars(Proceeds)

------------------------------------------------------------------------------
(* Types; records have addresses of their own, bytes are awaited only for  *)
(* a save the main thread waits for.                                       *)
TypeOK ==
  /\ addr \in [Records -> Addrs \cup {None}]
  /\ blob \in [Records -> Blobs \cup {None}]
  /\ \A r, q \in Records : addr[r] = addr[q] /\ Exists(r) => r = q
  /\ \A r \in Records : Exists(r) <=> blob[r] # None
  /\ main \in {"runs", "waits", "writes"}
  /\ gathering \in BOOLEAN
  /\ gathering => main = "waits"
  /\ asked \subseteq Addrs \X Blobs
  /\ asked # {} => gathering
  /\ bytes \in [Addrs -> Blobs \cup {Empty}]
  /\ out \in [Records -> Blobs \cup {Empty, None}]
  /\ disturbed \in BOOLEAN

(* "Records are immutable for the duration (no IDB op runs while the       *)
(* caller blocks), so the &bi pointers stay valid": as long as that is so, *)
(* every record is written out with the bytes of its own Blob.             *)
WritesTheirBytes == main = "waits" /\ main' = "writes" /\ ~disturbed => out' = blob

EveryRecordGetsItsBytes == [][WritesTheirBytes]_vars

(* The main thread, blocked for a save, runs again.                        *)
SaveReturns == []<>(main = "runs")
=============================================================================
