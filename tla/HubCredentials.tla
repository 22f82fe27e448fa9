--------------------------- MODULE HubCredentials ---------------------------
(***************************************************************************)
(* The hub's side of the rolling credential of one node: the columns       *)
(* active_jti, pending_jti and pending_command of its row, authentication  *)
(* of a heartbeat, the renewal of the token by an administrator, removal.  *)
(*                                                                         *)
(* Every request has a database session of its own.  Reading the row       *)
(* (db.get) and committing are separate steps: any other request may       *)
(* commit in between, and the UPDATE that SQLAlchemy emits writes only the *)
(* columns the handler assigned.  An UPDATE or an INSERT for a row that    *)
(* has meanwhile been deleted raises, and the request ends in a 500.       *)
(*                                                                         *)
(* An operator introduced by "Variant:" is in no next-state relation.  It  *)
(* is the definition below it with one mistake in it, kept to show which   *)
(* property tells the two apart.                                           *)
(***************************************************************************)
EXTENDS Exchange

CONSTANTS Renewals,        \* renew-jwt requests that can be open at one time
          SecretPersisted  \* JWT_SECRET_KEY survives a restart of the hub

ASSUME SecretAssumption == SecretPersisted \in BOOLEAN

VARIABLES exists,    \* the node's row is in the table
          node,      \* the row
          issued,    \* jtis of the tokens created for the node so far
          dead,      \* those whose token no longer decodes
          renewing   \* renewals past the pending_jti check, before the commit

hubVars == <<exists, node, issued, dead, renewing>>

NodeRow == [active : OptJti, pending : OptJti, command : OptJti]

HubTypeOK ==
  /\ exists \in BOOLEAN
  /\ node \in NodeRow
  /\ issued \subseteq Jtis
  /\ dead \subseteq issued
  /\ renewing \subseteq Renewals

\* The jtis get_current_node lets through.
Accepted == {node.active, node.pending} \ {NoJti}

\* Registration has just issued the token j (register_agent).
HubInit(j) ==
  /\ exists = TRUE
  /\ node = [active |-> j, pending |-> NoJti, command |-> NoJti]
  /\ issued = {j}
  /\ dead = {}
  /\ renewing = {}

(***************************************************************************)
(* get_current_node: decode the token, read the row, compare the jti.      *)
(***************************************************************************)
Decodes(h) == hb[h].jti \notin dead

\* The handler goes on to the given stage with the row it has just read.
Proceed(h, stage) ==
  hb' = [hb EXCEPT ![h] = [@ EXCEPT !.at = stage, !.command = node.command]]

AuthActive(h) ==
  /\ hb[h].at = "sent"
  /\ Decodes(h) /\ exists /\ hb[h].jti = node.active
  /\ Proceed(h, "serving")
  /\ UNCHANGED hubVars

AuthPending(h) ==
  /\ hb[h].at = "sent"
  /\ Decodes(h) /\ exists /\ hb[h].jti = node.pending
  /\ hb[h].jti # node.active
  /\ Proceed(h, "consolidating")
  /\ UNCHANGED hubVars

AuthReject(h) ==
  /\ hb[h].at = "sent"
  /\ ~ (Decodes(h) /\ exists /\ hb[h].jti \in Accepted)
  /\ Answer(h, "unauthorized")
  /\ UNCHANGED hubVars

\* Variant: the old jti stays active.
ConsolidateNothing(h) ==
  /\ hb[h].at = "consolidating" /\ exists
  /\ node' = [node EXCEPT !.pending = NoJti]
  /\ hb' = [hb EXCEPT ![h].at = "serving"]
  /\ UNCHANGED <<exists, issued, dead, renewing>>

\* Variant: pending_jti is not cleared.
ConsolidateBoth(h) ==
  /\ hb[h].at = "consolidating" /\ exists
  /\ node' = [node EXCEPT !.active = hb[h].jti]
  /\ hb' = [hb EXCEPT ![h].at = "serving"]
  /\ UNCHANGED <<exists, issued, dead, renewing>>

\* The commit of get_current_node.  It writes both columns whatever they hold
\* now; the row object keeps the pending_command it was read with.
Consolidate(h) ==
  /\ hb[h].at = "consolidating"
  /\ \/ /\ exists
        /\ node' = [node EXCEPT !.active = hb[h].jti, !.pending = NoJti]
        /\ hb' = [hb EXCEPT ![h].at = "serving"]
     \/ /\ ~ exists
        /\ Answer(h, "error")
        /\ UNCHANGED node
  /\ UNCHANGED <<exists, issued, dead, renewing>>

\* Variant: the command is handed out and stays queued.
ServeAndKeep(h) ==
  /\ hb[h].at = "serving" /\ exists
  /\ hb' = [hb EXCEPT ![h].at = "ok"]
  /\ UNCHANGED hubVars

\* The rest of the heartbeat handler: the command read with the row is handed
\* out, and the column is cleared if there was one.
Serve(h) ==
  /\ hb[h].at = "serving"
  /\ \/ /\ exists
        /\ hb' = [hb EXCEPT ![h].at = "ok"]
        /\ node' = IF hb[h].command = NoJti
                   THEN node
                   ELSE [node EXCEPT !.command = NoJti]
     \/ /\ ~ exists
        /\ Answer(h, "error")
        /\ UNCHANGED node
  /\ UNCHANGED <<exists, issued, dead, renewing>>

(***************************************************************************)
(* renew_node_jwt.  The check and the commit are separate steps; a renewal *)
(* refused with 429 changes nothing and has no action.                     *)
(***************************************************************************)
\* Variant: no check for a rotation in progress.
RenewUnchecked(r) ==
  /\ r \notin renewing /\ exists
  /\ renewing' = renewing \cup {r}
  /\ UNCHANGED <<hb, exists, node, issued, dead>>

RenewCheck(r) ==
  /\ r \notin renewing
  /\ exists /\ node.pending = NoJti
  /\ renewing' = renewing \cup {r}
  /\ UNCHANGED <<hb, exists, node, issued, dead>>

\* Variant: the new token is active at once.
RenewAtOnce(r) ==
  /\ r \in renewing /\ exists
  /\ renewing' = renewing \ {r}
  /\ \E j \in Jtis \ issued :
       /\ issued' = issued \cup {j}
       /\ node' = [node EXCEPT !.active = j, !.command = j]
  /\ UNCHANGED <<hb, exists, dead>>

RenewCommit(r) ==
  /\ r \in renewing
  /\ renewing' = renewing \ {r}
  /\ \/ /\ exists
        /\ \E j \in Jtis \ issued :
             /\ issued' = issued \cup {j}
             /\ node' = [node EXCEPT !.pending = j, !.command = j]
     \/ /\ ~ exists
        /\ UNCHANGED <<issued, node>>
  /\ UNCHANGED <<hb, exists, dead>>

\* remove_node.
RemoveNode ==
  /\ exists
  /\ exists' = FALSE
  /\ UNCHANGED <<hb, node, issued, dead, renewing>>

(***************************************************************************)
(* A token reaches its `exp`.  The hub restarts: every request it was      *)
(* serving ends without a usable response and, when JWT_SECRET_KEY is not  *)
(* set in the environment, the tokens signed before no longer decode.      *)
(***************************************************************************)
Expire(j) ==
  /\ j \in issued \ dead
  /\ dead' = dead \cup {j}
  /\ UNCHANGED <<hb, exists, node, issued, renewing>>

HubRestart ==
  /\ hb' = [h \in Handlers |->
              IF hb[h].at \in {"idle"} \cup Responses
              THEN hb[h]
              ELSE [hb[h] EXCEPT !.at = "error", !.command = NoJti]]
  /\ renewing' = {}
  /\ dead' = IF SecretPersisted THEN dead ELSE issued
  /\ UNCHANGED <<exists, node, issued>>
=============================================================================
