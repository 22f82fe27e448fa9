------------------------------ MODULE NodeAlerts ------------------------------
(***************************************************************************)
(* What the offline and recovery notifications of the nodes promise,       *)
(* without rows, copies of rows, handlers or cycles.  A node is reported   *)
(* offline, then recovered, and so on in turn.  A notification is posted   *)
(* only if it was decided on, and at most once for each time; one that is  *)
(* still in memory is lost when the hub stops.  NodeHealth implements this *)
(* specification when the heartbeats of a node do not overlap.             *)
(***************************************************************************)
CONSTANT Nodes

VARIABLES watched,   \* the nodes there are
          reported,  \* those whose last report was that they are offline
          outbox     \* the notifications decided on and not yet posted

vars == <<watched, reported, outbox>>

Init ==
  /\ watched = Nodes
  /\ reported = {}
  /\ outbox = {}

\* Nodes are found to be offline.  Some that were removed a moment ago may be announced too.
Report ==
  \E down \in SUBSET (watched \ reported), removed \in SUBSET (Nodes \ watched) :
    /\ reported' = reported \cup down
    /\ outbox' = outbox \cup ((down \cup removed) \X {"offline"})
    /\ UNCHANGED watched

Recover(n) ==
  /\ n \in reported
  /\ reported' = reported \ {n}
  /\ outbox' = outbox \cup {<<n, "recovery">>}
  /\ UNCHANGED watched

Post(notification) ==
  /\ notification \in outbox
  /\ outbox' = outbox \ {notification}
  /\ UNCHANGED <<watched, reported>>

Remove(n) ==
  /\ n \in watched
  /\ watched' = watched \ {n}
  /\ reported' = reported \ {n}
  /\ UNCHANGED outbox

HubStops ==
  /\ outbox' = {}
  /\ UNCHANGED <<watched, reported>>

Next ==
  \/ Report \/ HubStops
  \/ \E n \in Nodes : Recover(n) \/ Remove(n)
  \/ \E notification \in Nodes \X {"offline", "recovery"} : Post(notification)

Spec == Init /\ [][Next]_vars
=============================================================================
