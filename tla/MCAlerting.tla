----------------------------- MODULE MCAlerting -----------------------------
(* Instances of Alerting for TLC. *)
EXTENDS Alerting

\* A cycle of the detector finds two nodes due.
TwoOffline == <<"gateway", "sensor">>

AllAlerts == Metrics \cup {"recovery"} \cup ToSet(TwoOffline)
=============================================================================
