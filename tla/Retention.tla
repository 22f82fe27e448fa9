------------------------------ MODULE Retention ------------------------------
(***************************************************************************)
(* The table of past heartbeats: handlers insert into it, the removal of a *)
(* node deletes its rows, and heartbeat_cleanup.py deletes what is older   *)
(* than HEARTBEAT_RETENTION_DAYS, once a day and in batches, with a commit *)
(* after each.                                                             *)
(*                                                                         *)
(* A batch is one DELETE with a subselect.  PostgreSQL selects the ids and *)
(* then deletes those rows that are still there when it gets to them: the  *)
(* removal of a node can commit in between.  Time is reduced to which rows *)
(* are older than the retention by now; limit_date, to which rows were     *)
(* when the cycle began.                                                   *)
(*                                                                         *)
(* An operator introduced by "Variant:" is the definition below it with    *)
(* one mistake in it; it is in no next-state relation.                     *)
(***************************************************************************)
EXTENDS Naturals, FiniteSets

CONSTANTS Nodes,
          Rows,       \* rows that there can be at one time
          NoNode,     \* the owner of a row that is not in the table
          BATCH_SIZE

ASSUME RetentionAssumption ==
  /\ IsFiniteSet(Rows)
  /\ NoNode \notin Nodes
  /\ BATCH_SIZE \in Nat \ {0}

VARIABLES nodes,      \* the nodes in their table
          owner,      \* the node_id of each row
          expired,    \* the rows older than the retention
          cleanup,    \* heartbeat_cleanup_task
          disturbed   \* history: the cycle failed, or a removal hit its batch

vars == <<nodes, owner, expired, cleanup, disturbed>>

Present == {r \in Rows : owner[r] # NoNode}

\* at: asleep, between two batches, or inside of a DELETE; doomed: the rows older than
\* limit_date; batch: the ids the subselect has returned.
Cleanup == [at : {"asleep", "between", "deleting"},
            doomed : SUBSET Rows, batch : SUBSET Rows]

TypeOK ==
  /\ nodes \subseteq Nodes
  /\ owner \in [Rows -> nodes \cup {NoNode}]
  /\ expired \subseteq Present
  /\ cleanup \in Cleanup
  /\ disturbed \in BOOLEAN

Init ==
  /\ nodes = Nodes
  /\ owner = [r \in Rows |-> NoNode]
  /\ expired = {}
  /\ cleanup = [at |-> "asleep", doomed |-> {}, batch |-> {}]
  /\ disturbed = FALSE

\* A heartbeat is stored; an id is used once, so that a row the cleanup refers to is not.
Heartbeat(n, r) ==
  /\ n \in nodes
  /\ r \notin Present \cup cleanup.batch
  /\ owner' = [owner EXCEPT ![r] = n]
  /\ UNCHANGED <<nodes, expired, cleanup, disturbed>>

\* The row passes the retention.
Expire(r) ==
  /\ r \in Present \ expired
  /\ expired' = expired \cup {r}
  /\ UNCHANGED <<nodes, owner, cleanup, disturbed>>

\* Variant: the rows of the node stay.
RemoveNodeOnly(n) ==
  /\ n \in nodes
  /\ nodes' = nodes \ {n}
  /\ UNCHANGED <<owner, expired, cleanup, disturbed>>

\* remove_node, or the removal of its site: the rows go in the same transaction.
RemoveNode(n) ==
  LET gone == {r \in Rows : owner[r] = n}
  IN /\ n \in nodes
     /\ nodes' = nodes \ {n}
     /\ owner' = [r \in Rows |-> IF r \in gone THEN NoNode ELSE owner[r]]
     /\ expired' = expired \ gone
     /\ cleanup' = [cleanup EXCEPT !.doomed = @ \ gone]
     /\ disturbed' = (disturbed \/ cleanup.batch \cap gone # {})

(***************************************************************************)
(* The cleanup.                                                            *)
(***************************************************************************)
Begin ==
  /\ cleanup.at = "asleep"
  /\ cleanup' = [at |-> "between", doomed |-> expired, batch |-> {}]
  /\ disturbed' = FALSE
  /\ UNCHANGED <<nodes, owner, expired>>

\* Variant: limit_date is taken anew for each batch.
SelectAnew ==
  /\ cleanup.at = "between"
  /\ \E batch \in SUBSET expired :
       /\ Cardinality(batch) <= BATCH_SIZE
       /\ batch = expired \/ Cardinality(batch) = BATCH_SIZE
       /\ cleanup' = [at |-> "deleting", doomed |-> expired, batch |-> batch]
  /\ UNCHANGED <<nodes, owner, expired, disturbed>>

Select ==
  /\ cleanup.at = "between"
  /\ \E batch \in SUBSET cleanup.doomed :
       /\ Cardinality(batch) <= BATCH_SIZE
       /\ batch = cleanup.doomed \/ Cardinality(batch) = BATCH_SIZE
       /\ cleanup' = [cleanup EXCEPT !.at = "deleting", !.batch = batch]
  /\ UNCHANGED <<nodes, owner, expired, disturbed>>

\* Variant: a full batch ends the cycle too.
DeleteOnce ==
  LET deleted == cleanup.batch \cap Present
  IN /\ cleanup.at = "deleting"
     /\ owner' = [r \in Rows |-> IF r \in deleted THEN NoNode ELSE owner[r]]
     /\ expired' = expired \ deleted
     /\ cleanup' = [at |-> IF Cardinality(deleted) <= BATCH_SIZE THEN "asleep" ELSE "between",
                    doomed |-> cleanup.doomed \ deleted, batch |-> {}]
     /\ UNCHANGED <<nodes, disturbed>>

Delete ==
  LET deleted == cleanup.batch \cap Present
  IN /\ cleanup.at = "deleting"
     /\ owner' = [r \in Rows |-> IF r \in deleted THEN NoNode ELSE owner[r]]
     /\ expired' = expired \ deleted
     /\ cleanup' = [at |-> IF Cardinality(deleted) < BATCH_SIZE THEN "asleep" ELSE "between",
                    doomed |-> cleanup.doomed \ deleted, batch |-> {}]
     /\ UNCHANGED <<nodes, disturbed>>

\* An error of the database (a deadlock with a removal is one), or a restart of the hub.
CleanupFails ==
  /\ cleanup.at # "asleep"
  /\ cleanup' = [cleanup EXCEPT !.at = "asleep", !.batch = {}]
  /\ disturbed' = TRUE
  /\ UNCHANGED <<nodes, owner, expired>>

CleanupStep == Begin \/ Select \/ Delete \/ CleanupFails

Next ==
  \/ \E r \in Rows : Expire(r) \/ \E n \in Nodes : Heartbeat(n, r)
  \/ \E n \in Nodes : RemoveNode(n)
  \/ CleanupStep

Spec == Init /\ [][Next]_vars

(***************************************************************************)
(* Fairness: the task goes on, whatever a cycle came to.                   *)
(***************************************************************************)
Fairness == WF_vars(Begin) /\ WF_vars(Select) /\ WF_vars(Delete)

FairSpec == Spec /\ Fairness

-----------------------------------------------------------------------------
\* A cycle ends with nothing left that was too old when it began, unless it failed or the
\* removal of a node took rows out of the batch under way: only then is a short batch not
\* the last one (heartbeat_cleanup.py:24-42).
CycleCleans == cleanup.at = "asleep" /\ ~ disturbed => cleanup.doomed = {}

\* Every cycle ends, although heartbeats go on arriving and growing too old meanwhile
\* (heartbeat_cleanup.py:24-45).
CycleEnds == cleanup.at # "asleep" ~> cleanup.at = "asleep"

\* Once failures end, a row that is too old goes, however many cycles were cut short
\* (heartbeat_cleanup.py:19-53).
FailuresEnd == <>[][~ CleanupFails]_vars
OldRowsGo == FailuresEnd => \A r \in Rows : r \in expired ~> r \notin expired
=============================================================================
