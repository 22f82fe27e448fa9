----------------------------- MODULE NodeHealth -----------------------------
(***************************************************************************)
(* Whether a node is alive, as the hub sees it: the columns status,        *)
(* offline_cycles, offline_alert_sent and last_seen of its row, written by *)
(* the heartbeat handler and by the offline detector, and the offline and  *)
(* recovery notifications that the two decide on.                          *)
(*                                                                         *)
(* A handler and a detector cycle each read the row, and commit in a later *)
(* step what they computed from what they read; SQLAlchemy writes only the *)
(* columns whose new value differs from the value read.  Time, and with it *)
(* last_seen, is reduced to whether last_seen is older than                *)
(* NODE_OFFLINE_THRESHOLD_SECONDS.                                         *)
(*                                                                         *)
(* An operator introduced by "Variant:" is the definition below it with    *)
(* one mistake in it; it is in no next-state relation.                     *)
(***************************************************************************)
EXTENDS Integers

CONSTANTS Nodes,
          Handlers,    \* heartbeat requests that can be open at one time
          NoNode,      \* a handler that is not open
          Overlap,     \* two heartbeats of one node can be open together
          HubCrashes   \* the hub process can stop and start again

ASSUME HealthAssumption ==
  /\ NoNode \notin Nodes
  /\ Overlap \in BOOLEAN
  /\ HubCrashes \in BOOLEAN

VARIABLES table,     \* the nodes whose row is in the table
          row,       \* the first three columns, of each node
          silent,    \* the nodes whose last_seen is older than the threshold
          hb,        \* the heartbeat handlers
          detector,  \* the offline detector's cycle
          tasks,     \* notifications handed to background tasks
          last       \* history: the last notification decided on, of each node

vars == <<table, row, silent, hb, detector, tasks, last>>

Columns == [status : {"online", "offline"}, offline_cycles : Nat,
            offline_alert_sent : BOOLEAN]

Kinds == {"offline", "recovery"}

TypeOK ==
  /\ table \subseteq Nodes
  /\ row \in [Nodes -> Columns]
  /\ silent \subseteq Nodes
  /\ hb \in [Handlers -> [node : Nodes \cup {NoNode}, read : Columns]]
  /\ detector \in [at : {"idle", "read", "committed"},
                   batch : SUBSET Nodes, read : [Nodes -> Columns]]
  /\ tasks \subseteq Nodes \X Kinds
  /\ last \in [Nodes -> Kinds \cup {"repeated"}]

\* A node that has just registered.
Registered == [status |-> "online", offline_cycles |-> 0,
               offline_alert_sent |-> FALSE]

Closed == [node |-> NoNode, read |-> Registered]
Asleep == [at |-> "idle", batch |-> {}, read |-> [n \in Nodes |-> Registered]]

Init ==
  /\ table = Nodes
  /\ row = [n \in Nodes |-> Registered]
  /\ hb = [h \in Handlers |-> Closed]
  /\ detector = Asleep
  /\ silent = {}
  /\ tasks = {}
  /\ last = [n \in Nodes |-> "recovery"]

\* The history after a decision: the second of a kind in a row shows.
After(before, kind) == IF before = kind THEN "repeated" ELSE kind

(***************************************************************************)
(* The heartbeat handler (agents.py).                                      *)
(***************************************************************************)

\* get_current_node has authenticated the request and read the row.
HeartbeatRead(h, n) ==
  /\ hb[h].node = NoNode
  /\ n \in table
  /\ Overlap \/ \A g \in Handlers : hb[g].node # n
  /\ hb' = [hb EXCEPT ![h] = [node |-> n, read |-> row[n]]]
  /\ UNCHANGED <<table, row, silent, detector, tasks, last>>

\* Variant: the alert flag survives the heartbeat.
HeardFlagKept(read, now) ==
  [status |-> "online", offline_cycles |-> 0,
   offline_alert_sent |-> now.offline_alert_sent]

\* Variant: the flag is cleared only together with the status.
HeardIfOffline(read, now) ==
  [status |-> "online", offline_cycles |-> 0,
   offline_alert_sent |-> read.status = "online" /\ now.offline_alert_sent]

\* The columns after the handler's UPDATE: whatever it set to another value than
\* it had read.
Heard(read, now) ==
  [status |-> IF read.status # "online" THEN "online" ELSE now.status,
   offline_cycles |-> IF read.offline_cycles # 0 THEN 0 ELSE now.offline_cycles,
   offline_alert_sent |-> ~ read.offline_alert_sent /\ now.offline_alert_sent]

\* The commit; a recovery task follows if the row read says an alert was sent.  The other
\* columns it writes (figures, metric alerts, the command) touch none of these.
HeartbeatCommit(h) ==
  LET n == hb[h].node
      recovered == IF hb[h].read.offline_alert_sent
                   THEN {<<n, "recovery">>} ELSE {}
  IN /\ n \in table
     /\ row' = [row EXCEPT ![n] = Heard(hb[h].read, @)]
     /\ silent' = silent \ {n}
     /\ tasks' = tasks \cup recovered
     /\ last' = [last EXCEPT ![n] = IF recovered = {} THEN @ ELSE After(@, "recovery")]
     /\ hb' = [hb EXCEPT ![h] = Closed]
     /\ UNCHANGED <<table, detector>>

\* The commit fails, always so when the row is gone: 500, nothing written.
HeartbeatFail(h) ==
  /\ hb[h].node # NoNode
  /\ hb' = [hb EXCEPT ![h] = Closed]
  /\ UNCHANGED <<table, row, silent, detector, tasks, last>>

(***************************************************************************)
(* The offline detector (offline_detector.py).                             *)
(***************************************************************************)

\* Variant: nodes already alerted on are selected again.
OverdueAgain == table \cap silent

\* The nodes the cycle selects.
Overdue == {n \in table \cap silent : ~ row[n].offline_alert_sent}

DetectorRead ==
  /\ detector.at = "idle"
  /\ Overdue # {}
  /\ detector' = [at |-> "read", batch |-> Overdue,
                  read |-> [n \in Nodes |-> IF n \in Overdue THEN row[n]
                                                             ELSE Registered]]
  /\ UNCHANGED <<table, row, silent, hb, tasks, last>>

Due(read) == read.offline_cycles + 1 >= 3

\* Variant: the cycles are counted down.
MissedDown(read, now) ==
  [status |-> "offline", offline_cycles |-> read.offline_cycles - 1,
   offline_alert_sent |-> Due(read) \/ now.offline_alert_sent]

\* The columns after the detector's UPDATE.
Missed(read, now) ==
  [status |-> IF read.status = "online" THEN "offline" ELSE now.status,
   offline_cycles |-> read.offline_cycles + 1,
   offline_alert_sent |-> Due(read) \/ now.offline_alert_sent]

(***************************************************************************)
(* An UPDATE that finds no row raises, and the whole batch is rolled back, *)
(* unless it is one of several sent together because they set the same     *)
(* columns: their row count is not known to the driver.  (SQLAlchemy sends *)
(* together only neighbours in the order of their ids.)                    *)
(***************************************************************************)
SameColumns(m, n) ==
  /\ detector.read[m].status = detector.read[n].status
  /\ Due(detector.read[m]) <=> Due(detector.read[n])

MayCommit ==
  \A n \in detector.batch \ table :
    \E m \in detector.batch \ {n} : SameColumns(m, n)

DetectorCommit ==
  LET written == detector.batch \cap table
      due == {n \in detector.batch : Due(detector.read[n])}
  IN /\ detector.at = "read"
     /\ MayCommit
     /\ row' = [n \in Nodes |-> IF n \in written
                                THEN Missed(detector.read[n], row[n])
                                ELSE row[n]]
     /\ last' = [n \in Nodes |-> IF n \in due \cap written
                                 THEN After(last[n], "offline") ELSE last[n]]
     /\ detector' = IF due = {} THEN Asleep
                    ELSE [Asleep EXCEPT !.at = "committed", !.batch = due]
     /\ UNCHANGED <<table, silent, hb, tasks>>

\* Variant: a batch that failed is tried again as it is.
DetectorRetry == detector.at = "read" /\ UNCHANGED vars

\* Variant: the alerts collected are sent although the commit failed.
DetectorFailSends ==
  LET due == {n \in detector.batch : Due(detector.read[n])}
  IN /\ detector.at = "read"
     /\ detector' = IF due = {} THEN Asleep
                    ELSE [Asleep EXCEPT !.at = "committed", !.batch = due]
     /\ UNCHANGED <<table, row, silent, hb, tasks, last>>

\* The read or the commit fails: the session is rolled back, the loop sleeps.
DetectorFail ==
  /\ detector.at = "read"
  /\ detector' = Asleep
  /\ UNCHANGED <<table, row, silent, hb, tasks, last>>

\* The session has been closed: a task starts for the alerts of the batch.
DetectorDispatch ==
  /\ detector.at = "committed"
  /\ tasks' = tasks \cup (detector.batch \X {"offline"})
  /\ detector' = Asleep
  /\ UNCHANGED <<table, row, silent, hb, last>>

(***************************************************************************)
(* The background tasks.  They run concurrently, each at its own pace, so  *)
(* any of them can be the next to try its webhooks.  Equal tasks are kept  *)
(* once: run one after the other, they say the same.                       *)
(***************************************************************************)
Notify(n, kind) ==
  /\ <<n, kind>> \in tasks
  /\ tasks' = tasks \ {<<n, kind>>}
  /\ UNCHANGED <<table, row, silent, hb, detector, last>>

(***************************************************************************)
(* The threshold passes with no heartbeat; the administrator removes the   *)
(* node, or its site (a node that is gone keeps the values of a new one);  *)
(* the hub stops and starts again, with what it had in memory lost.        *)
(***************************************************************************)
FallSilent(n) ==
  /\ n \in table \ silent
  /\ silent' = silent \cup {n}
  /\ UNCHANGED <<table, row, hb, detector, tasks, last>>

RemoveNode(n) ==
  /\ n \in table
  /\ table' = table \ {n}
  /\ row' = [row EXCEPT ![n] = Registered]
  /\ silent' = silent \ {n}
  /\ last' = [last EXCEPT ![n] = "recovery"]
  /\ UNCHANGED <<hb, detector, tasks>>

HubCrash ==
  /\ HubCrashes
  /\ hb' = [h \in Handlers |-> Closed]
  /\ detector' = Asleep
  /\ tasks' = {}
  /\ UNCHANGED <<table, row, silent, last>>

DetectorStep == DetectorRead \/ DetectorCommit \/ DetectorFail \/ DetectorDispatch

Next ==
  \/ \E h \in Handlers : \/ \E n \in Nodes : HeartbeatRead(h, n)
                         \/ HeartbeatCommit(h) \/ HeartbeatFail(h)
  \/ DetectorStep
  \/ \E n \in Nodes, kind \in Kinds : Notify(n, kind)
  \/ \E n \in Nodes : FallSilent(n) \/ RemoveNode(n)
  \/ HubCrash

Spec == Init /\ [][Next]_vars

(***************************************************************************)
(* Fairness: the detector's loop goes on after every cycle, a failed one   *)
(* included, and its commit does not fail for ever; an open handler ends; a *)
(* background task runs.                                                   *)
(***************************************************************************)
Fairness ==
  /\ WF_vars(DetectorRead) /\ SF_vars(DetectorCommit) /\ WF_vars(DetectorDispatch)
  /\ WF_vars(DetectorFail)
  /\ \A h \in Handlers : WF_vars(HeartbeatCommit(h) \/ HeartbeatFail(h))
  /\ \A n \in Nodes, kind \in Kinds : WF_vars(Notify(n, kind))

FairSpec == Spec /\ Fairness

-----------------------------------------------------------------------------
(***************************************************************************)
(* Safety.                                                                 *)
(***************************************************************************)

\* Offline and recovery notifications alternate, however the detector and the handlers
\* interleave, and offline_alert_sent says which of the two was decided on last
\* (agents.py:180-190, offline_detector.py:30-54).
AlertsPaired ==
  \A n \in table :
    last[n] = IF row[n].offline_alert_sent THEN "offline" ELSE "recovery"

\* The count of missed cycles never passes three, and a count of three comes with the
\* alert flagged: an outage that has been reported is not counted any further, and one
\* that has reached three is reported (offline_detector.py:33-50, agents.py:183-190).  From
\* which count an outage starts is left open: a heartbeat that has read 0 leaves what
\* a cycle counts before it commits.
CountsToThree ==
  \A n \in table :
    /\ row[n].offline_cycles <= 3
    /\ row[n].offline_cycles = 3 => row[n].offline_alert_sent

\* The notifications are those of NodeAlerts: in turn for each node, none without its
\* decision in the table, none posted more often than decided on (agents.py:180-190,
\* offline_detector.py:30-66).
Collected == IF detector.at = "committed" THEN detector.batch \X {"offline"} ELSE {}

Alerts == INSTANCE NodeAlerts WITH
  watched <- table,
  reported <- {n \in table : row[n].offline_alert_sent},
  outbox <- tasks \cup Collected

AlertsInTurn == Alerts!Spec

(***************************************************************************)
(* Liveness.                                                               *)
(***************************************************************************)
SilentForGood(n) == <>[](n \in table \cap silent)

\* A node that stays silent is reported, whatever other nodes of the same batch are
\* removed and whatever commits fail (offline_detector.py:30-57, 91-96).
SilentNodeReported ==
  \A n \in Nodes : SilentForGood(n) => <>[](row[n].offline_alert_sent)

\* A node that stays silent is marked offline (offline_detector.py:43-44).
SilentNodeOffline ==
  \A n \in Nodes : SilentForGood(n) => <>[](row[n].status = "offline")

\* An outage that was reported ends with a recovery, if the node's heartbeats go on
\* being processed (agents.py:180-190).
HeardForever(n) ==
  []<><<\E h \in Handlers : hb[h].node = n /\ HeartbeatCommit(h)>>_vars
RecoveryReported ==
  \A n \in Nodes :
    HeardForever(n) => (row[n].offline_alert_sent ~> ~ row[n].offline_alert_sent)
=============================================================================
