--------------------------- MODULE RetentionProofs ---------------------------
(***************************************************************************)
(* Theorems about Retention, for every set of nodes, every finite set of   *)
(* rows and every BATCH_SIZE.                                              *)
(***************************************************************************)
EXTENDS Retention, TLAPS

\* Every variable keeps its type: in particular every row belongs to a node of the table
\* (heartbeat.py:20-22, nodes.py:95-104).
THEOREM TypeCorrect == Spec => []TypeOK
<1>1. Init => TypeOK
  <2>1. Init => cleanup \in Cleanup
    BY DEF Init, Cleanup
  <2> QED BY <2>1 DEF Init, TypeOK
<1>2. TypeOK /\ [Next]_vars => TypeOK'
  <2> SUFFICES ASSUME TypeOK, [Next]_vars
               PROVE  TypeOK'
    OBVIOUS
  <2>0. NoNode \notin nodes
    BY RetentionAssumption DEF TypeOK, RetentionAssumption
  <2>1. ASSUME NEW n \in Nodes, NEW r \in Rows, Heartbeat(n, r)
        PROVE  TypeOK'
    BY <2>0, <2>1 DEF Heartbeat, TypeOK, Cleanup, Present
  <2>2. ASSUME NEW r \in Rows, Expire(r)
        PROVE  TypeOK'
    BY <2>2 DEF Expire, TypeOK, Cleanup, Present
  <2>3. ASSUME NEW n \in Nodes, RemoveNode(n)
        PROVE  TypeOK'
    <3> DEFINE gone == {r \in Rows : owner[r] = n}
    <3>1. owner' \in [Rows -> nodes' \cup {NoNode}]
      BY <2>3 DEF RemoveNode, TypeOK
    <3>2. expired' \subseteq Present'
      BY <2>3 DEF RemoveNode, TypeOK, Present
    <3>3. cleanup' \in Cleanup
      BY <2>3 DEF RemoveNode, TypeOK, Cleanup
    <3>4. nodes' \subseteq Nodes /\ disturbed' \in BOOLEAN
      BY <2>3 DEF RemoveNode, TypeOK
    <3> QED BY <3>1, <3>2, <3>3, <3>4 DEF TypeOK
  <2>4. CASE Begin
    BY <2>4 DEF Begin, TypeOK, Cleanup, Present
  <2>5. CASE Select
    <3>1. PICK batch \in SUBSET cleanup.doomed :
            cleanup' = [cleanup EXCEPT !.at = "deleting", !.batch = batch]
      BY <2>5 DEF Select
    <3>2. cleanup' \in Cleanup
      BY <3>1 DEF TypeOK, Cleanup
    <3> QED BY <2>5, <3>2 DEF Select, TypeOK, Present
  <2>6. CASE Delete
    <3>1. owner' \in [Rows -> nodes' \cup {NoNode}]
      BY <2>6 DEF Delete, TypeOK
    <3>2. expired' \subseteq Present'
      BY <2>6 DEF Delete, TypeOK, Present
    <3>3. cleanup' \in Cleanup
      BY <2>6 DEF Delete, TypeOK, Cleanup
    <3> QED BY <2>6, <3>1, <3>2, <3>3 DEF Delete, TypeOK
  <2>7. CASE CleanupFails
    BY <2>7 DEF CleanupFails, TypeOK, Cleanup, Present
  <2>8. CASE UNCHANGED vars
    BY <2>8 DEF vars, TypeOK, Present
  <2> QED BY <2>1, <2>2, <2>3, <2>4, <2>5, <2>6, <2>7, <2>8 DEF Next, CleanupStep
<1> QED BY <1>1, <1>2, PTL DEF Spec

-----------------------------------------------------------------------------
(***************************************************************************)
(* CycleCleans looks at the end of a cycle.  What makes it true there is   *)
(* what is known of the batch before: it is all that is left or it is      *)
(* full, and in an undisturbed cycle all of it is still in the table.      *)
(***************************************************************************)
BatchInv ==
  /\ cleanup.doomed \subseteq Present
  /\ cleanup.at = "deleting" /\ ~ disturbed =>
       /\ cleanup.batch \subseteq cleanup.doomed
       /\ cleanup.batch = cleanup.doomed \/ Cardinality(cleanup.batch) = BATCH_SIZE
  /\ CycleCleans

LEMMA BatchInitial ==
  ASSUME Init
  PROVE  BatchInv
BY DEF Init, BatchInv, CycleCleans

LEMMA BatchDeleted ==
  ASSUME TypeOK, BatchInv, Delete
  PROVE  BatchInv'
<1> DEFINE deleted == cleanup.batch \cap Present
<1>1. /\ cleanup'.doomed = cleanup.doomed \ deleted
      /\ cleanup'.at = IF Cardinality(deleted) < BATCH_SIZE THEN "asleep" ELSE "between"
      /\ disturbed' = disturbed
  BY DEF Delete
<1>2. Present' = Present \ deleted
  BY DEF Delete, TypeOK, Present
<1>3. ASSUME ~ disturbed, Cardinality(deleted) < BATCH_SIZE
      PROVE  cleanup.doomed \ deleted = {}
  <2>1. deleted = cleanup.batch
    BY <1>3 DEF BatchInv, Delete
  <2>2. Cardinality(deleted) # BATCH_SIZE
    BY <1>3, RetentionAssumption DEF RetentionAssumption
  <2> QED BY <1>3, <2>1, <2>2 DEF BatchInv, Delete
<1>4. CycleCleans'
  BY <1>1, <1>3 DEF CycleCleans
<1> QED BY <1>1, <1>2, <1>4 DEF BatchInv

LEMMA BatchKept ==
  ASSUME TypeOK, BatchInv, [Next]_vars
  PROVE  BatchInv'
<1>1. ASSUME NEW n \in Nodes, NEW r \in Rows, Heartbeat(n, r)
      PROVE  BatchInv'
  <2>1. Present \subseteq Present'
    BY <1>1, RetentionAssumption DEF Heartbeat, TypeOK, Present, RetentionAssumption
  <2> QED BY <1>1, <2>1 DEF Heartbeat, BatchInv, CycleCleans
<1>2. ASSUME NEW r \in Rows, Expire(r)
      PROVE  BatchInv'
  BY <1>2 DEF Expire, BatchInv, CycleCleans, Present
<1>3. ASSUME NEW n \in Nodes, RemoveNode(n)
      PROVE  BatchInv'
  <2> DEFINE gone == {r \in Rows : owner[r] = n}
  <2>1. /\ cleanup'.doomed = cleanup.doomed \ gone
        /\ cleanup'.at = cleanup.at /\ cleanup'.batch = cleanup.batch
        /\ disturbed' = (disturbed \/ cleanup.batch \cap gone # {})
    BY <1>3 DEF RemoveNode, TypeOK, Cleanup
  <2>2. Present' = Present \ gone
    BY <1>3, RetentionAssumption DEF RemoveNode, TypeOK, Present, RetentionAssumption
  <2>3. ASSUME cleanup.at = "deleting", ~ disturbed'
        PROVE  /\ cleanup'.batch \subseteq cleanup'.doomed
               /\ \/ cleanup'.batch = cleanup'.doomed
                  \/ Cardinality(cleanup'.batch) = BATCH_SIZE
    BY <2>1, <2>3 DEF BatchInv
  <2>4. CycleCleans'
    BY <2>1 DEF BatchInv, CycleCleans
  <2> QED BY <2>1, <2>2, <2>3, <2>4 DEF BatchInv
<1>4. CASE Begin
  <2>1. cleanup'.doomed = expired /\ cleanup'.at = "between" /\ Present' = Present
    BY <1>4 DEF Begin, Present
  <2> QED BY <2>1 DEF TypeOK, BatchInv, CycleCleans
<1>5. CASE Select
  <2>1. PICK batch \in SUBSET cleanup.doomed :
          /\ batch = cleanup.doomed \/ Cardinality(batch) = BATCH_SIZE
          /\ cleanup' = [cleanup EXCEPT !.at = "deleting", !.batch = batch]
    BY <1>5 DEF Select
  <2>2. /\ cleanup'.at = "deleting" /\ cleanup'.batch = batch
        /\ cleanup'.doomed = cleanup.doomed
    BY <2>1 DEF TypeOK, Cleanup
  <2>3. Present' = Present
    BY <1>5 DEF Select, Present
  <2> QED BY <2>1, <2>2, <2>3 DEF BatchInv, CycleCleans
<1>6. CASE Delete
  BY <1>6, BatchDeleted
<1>7. CASE CleanupFails
  <2>1. disturbed' /\ cleanup'.doomed = cleanup.doomed /\ Present' = Present
    BY <1>7 DEF CleanupFails, Present, TypeOK, Cleanup
  <2> QED BY <2>1 DEF BatchInv, CycleCleans
<1>8. CASE UNCHANGED vars
  BY <1>8 DEF vars, BatchInv, CycleCleans, Present
<1> QED
  BY <1>1, <1>2, <1>3, <1>4, <1>5, <1>6, <1>7, <1>8 DEF Next, CleanupStep

\* A cycle of the cleanup that neither failed nor lost rows of its batch to the removal of a
\* node has deleted all it set out to delete, whatever BATCH_SIZE is
\* (heartbeat_cleanup.py:24-42).
THEOREM CyclesClean == Spec => []CycleCleans
<1>1. TypeOK /\ BatchInv /\ [Next]_vars => BatchInv'
  BY BatchKept
<1>2. BatchInv => CycleCleans
  BY DEF BatchInv
<1> QED BY <1>1, <1>2, BatchInitial, TypeCorrect, PTL DEF Spec
=============================================================================
