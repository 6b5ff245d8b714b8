---------------------------- MODULE AtomicStores ----------------------------
(***************************************************************************)
(* What transactions promise a page: each object store has at most one     *)
(* transaction writing it, everybody reads the writes at once, a commit    *)
(* makes them permanent and an abort takes exactly them back.              *)
(***************************************************************************)
CONSTANTS Txns, Stores, Content, NoTxn

VARIABLES
  visible,    \* store -> content every request reads
  committed,  \* store -> content if every running transaction aborted
  owner       \* store -> the transaction writing it, or NoTxn

vars == <<visible, committed, owner>>

Init ==
  /\ visible \in [Stores -> Content]
  /\ committed = visible
  /\ owner = [s \in Stores |-> NoTxn]

(* Transaction x replaces the content of store s.                          *)
Write(x, s) ==
  /\ owner[s] \in {NoTxn, x}
  /\ owner' = [owner EXCEPT ![s] = x]
  /\ visible'[s] \in Content
  /\ visible' = [visible EXCEPT ![s] = visible'[s]]
  /\ committed' = committed

(* The transactions in X end and their writes stay.                        *)
Keep(X) ==
  /\ committed' = [s \in Stores |->
       IF owner[s] \in X THEN visible[s] ELSE committed[s]]
  /\ owner' = [s \in Stores |-> IF owner[s] \in X THEN NoTxn ELSE owner[s]]
  /\ visible' = visible

(* Transaction x ends and its writes never happened.                       *)
Undo(x) ==
  /\ visible' = [s \in Stores |->
       IF owner[s] = x THEN committed[s] ELSE visible[s]]
  /\ owner' = [s \in Stores |-> IF owner[s] = x THEN NoTxn ELSE owner[s]]
  /\ committed' = committed

Next ==
  \/ \E x \in Txns : Undo(x) \/ \E s \in Stores : Write(x, s)
  \/ \E X \in SUBSET Txns : Keep(X)

Spec == Init /\ [][Next]_vars
=============================================================================
