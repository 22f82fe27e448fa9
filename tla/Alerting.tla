------------------------------ MODULE Alerting ------------------------------
(***************************************************************************)
(* From a heartbeat to a webhook: MetricAlerts decides on the alerts of a  *)
(* node, and hands them over to AlertDelivery when it commits, together    *)
(* with the recovery alert there may be; the offline detector hands over   *)
(* batches of its own.  When a recovery or an offline alert is due is the  *)
(* subject of NodeHealth; here either can come at any time.                *)
(*                                                                         *)
(* A site's webhooks are read where a task starts, and can be any.  A node *)
(* has one site; the nodes of a batch can have different ones.             *)
(***************************************************************************)
EXTENDS MetricAlerts, AlertDelivery

CONSTANTS Recovery,     \* the recovery alert of the node
          OfflineBatch, \* the alerts of a cycle of the detector, a sequence
          Webhooks      \* the sets of webhooks a site can have

vars == <<metricVars, deliveryVars>>

ASSUME AlertingAssumption ==
  /\ IsFiniteSet(Metrics)
  /\ Metrics \cup {Recovery} \subseteq Alerts
  /\ OfflineBatch \in Seq(Alerts)
  /\ Webhooks \subseteq SUBSET Channels

TypeOK == MetricTypeOK /\ DeliveryTypeOK

Init == MetricInit /\ DeliveryInit

\* background_tasks after the commit: a recovery, then the metrics.
HeartbeatCommit(h) ==
  /\ Commit(h)
  /\ \E recovery \in {<<>>, <<Recovery>>}, urls \in Webhooks :
       LET queue == recovery \o SetToSeq(beat[h].alerts)
       IN IF queue = <<>> THEN UNCHANGED deliveryVars
                          ELSE \E t \in Tasks : Start(t, queue, [a \in Alerts |-> urls])

\* The detector's cycle has committed.
DetectorBatch ==
  /\ \E t \in Tasks, urls \in [ToSet(OfflineBatch) -> Webhooks] :
       Start(t, OfflineBatch,
             [a \in Alerts |-> IF a \in ToSet(OfflineBatch) THEN urls[a] ELSE {}])
  /\ UNCHANGED metricVars

HubStops == BeatsLost /\ TasksLost

Next ==
  \/ \E h \in Handlers :
       \/ (\E high \in SUBSET Metrics : Begin(h, high)) /\ UNCHANGED deliveryVars
       \/ HeartbeatCommit(h)
       \/ Abandon(h) /\ UNCHANGED deliveryVars
  \/ Tick /\ UNCHANGED deliveryVars
  \/ DetectorBatch
  \/ \E t \in Tasks : DeliveryStep(t) /\ UNCHANGED metricVars
  \/ HubStops

Spec == Init /\ [][Next]_vars

(***************************************************************************)
(* Fairness: the event loop resumes every task, and every post is answered *)
(* or times out (5 s).                                                     *)
(***************************************************************************)
Fairness ==
  \A t \in Tasks :
    /\ WF_vars(Proceed(t) /\ UNCHANGED metricVars)
    /\ \A c \in Channels :
         WF_vars((Accepted(t, c) \/ Refused(t, c)) /\ UNCHANGED metricVars)

FairSpec == Spec /\ Fairness

-----------------------------------------------------------------------------
\* Every task ends, whatever the webhooks answer (alert_engine.py:24-42).
TasksEnd == \A t \in Tasks : Busy(t) ~> ~ Busy(t)
=============================================================================
