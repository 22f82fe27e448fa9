---------------------------- MODULE TokenRotation ----------------------------
(***************************************************************************)
(* One agent and the hub rotating the agent's token: HubCredentials and    *)
(* EdgeAgent composed over the exchanges between them.                     *)
(*                                                                         *)
(* Covered: every interleaving of heartbeat handlers, renewals and the     *)
(* removal of the node; requests and responses lost, refused or late;      *)
(* crashes of the agent at any point of saveState, restarts of the hub     *)
(* and expiry of tokens.  Handlers with one element says that the hub has  *)
(* finished with a heartbeat before the agent sends the next; Renewals     *)
(* with one element, that renewals of the node do not overlap.             *)
(***************************************************************************)
EXTENDS HubCredentials, EdgeAgent

vars == <<hb, exists, node, issued, dead, renewing, agent, held>>

TypeOK ==
  /\ hb \in [Handlers -> ExchangeType]
  /\ HubTypeOK
  /\ AgentTypeOK

Init ==
  /\ hb = [h \in Handlers |-> Idle]
  /\ \E j \in Jtis : HubInit(j) /\ AgentInit(j)

HubHandler(h) ==
  \/ AuthActive(h) \/ AuthPending(h) \/ AuthReject(h)
  \/ Consolidate(h) \/ Serve(h)

AgentReceive(h) == ReceiveUnauthorized(h) \/ ReceiveError(h) \/ ReceiveOk(h)

HubStep ==
  /\ \/ \E h \in Handlers : HubHandler(h)
     \/ \E r \in Renewals : RenewCheck(r) \/ RenewCommit(r)
     \/ RemoveNode
     \/ \E j \in Jtis : Expire(j)
     \/ HubRestart
  /\ UNCHANGED agentVars

AgentStep ==
  /\ \/ \E h \in Handlers : Send(h) \/ AgentReceive(h)
     \/ Timeout
     \/ SaveTruncate \/ SaveWrite \/ SaveFail
     \/ Crash \/ Restart \/ RegisterRefused
  /\ UNCHANGED hubVars

NetworkStep ==
  /\ \E h \in Handlers : Lose(h) \/ Fail(h)
  /\ UNCHANGED <<hubVars, agentVars>>

Next == HubStep \/ AgentStep \/ NetworkStep

Spec == Init /\ [][Next]_vars

(***************************************************************************)
(* Fairness.  The event loop of the hub resumes every handler, the         *)
(* client's timeout and the ticker keep the agent's loop going, a started  *)
(* saveState or registration ends, the supervisor restarts what it has to  *)
(* restart.  Nothing is assumed of the network, of the administrator or of *)
(* failures.                                                               *)
(***************************************************************************)
Fairness ==
  /\ \A h \in Handlers : /\ WF_vars(HubHandler(h) /\ UNCHANGED agentVars)
                         /\ WF_vars(AgentReceive(h) /\ UNCHANGED hubVars)
  /\ \A r \in Renewals : WF_vars(RenewCommit(r) /\ UNCHANGED agentVars)
  /\ WF_vars((\E h \in Handlers : Send(h)) /\ UNCHANGED hubVars)
  /\ WF_vars(Timeout /\ UNCHANGED hubVars)
  /\ WF_vars((SaveTruncate \/ SaveWrite) /\ UNCHANGED hubVars)
  /\ WF_vars(Restart /\ UNCHANGED hubVars)
  /\ WF_vars(RegisterRefused /\ UNCHANGED hubVars)

FairSpec == Spec /\ Fairness

(***************************************************************************)
(* Faults: what no component does on purpose.  A timeout is one only when  *)
(* the exchange it gives up is still under way.                            *)
(***************************************************************************)
PrematureTimeout == Timeout /\ hb[agent.waiting].at # "idle"

Fault ==
  \/ NetworkStep
  \/ (SaveFail \/ Crash \/ PrematureTimeout) /\ UNCHANGED hubVars
  \/ (HubRestart \/ \E j \in Jtis : Expire(j)) /\ UNCHANGED agentVars

\* Faults end at some point, for as long as the property needs.
FaultsEnd == <>[][~ Fault]_vars

(***************************************************************************)
(* The hub is done with a heartbeat before the agent sends the next one,   *)
(* renewals of the node do not overlap, and the state file can be written. *)
(***************************************************************************)
Serial ==
  /\ \A g, h \in Handlers : g = h
  /\ \A q, r \in Renewals : q = r
  /\ ~ DiskFaults

-----------------------------------------------------------------------------
(***************************************************************************)
(* Safety.                                                                 *)
(***************************************************************************)

\* The hub never retires the token of the agent before the agent has the next
\* one: the active jti is one the agent has had in memory, however requests
\* overlap and whatever is lost (agents.py:60-69).
ActiveAcknowledged == exists => node.active \in held

\* The jti of the token that a running agent holds is one of the two in the row of its
\* node, so that authentication does not refuse it as revoked (agents.py:60-75,
\* nodes.py:70-90).  Whether the token still decodes, and what becomes of an agent that
\* does not run, it does not say.
AgentAccepted ==
  exists /\ agent.run \in Running => agent.jwt \in Accepted

\* The agent counts a 401, and gives up after max401Attempts of them, only when
\* the node has been removed or its token does not decode any more
\* (api.go:174-183): never because of a rotation or of a failing server.
NoFalseRevocation ==
  agent.consecutive401s > 0 \/ agent.run = "revoked"
    => ~ exists \/ agent.jwt \in dead

\* A token that was rotated out stays out: no handler that read the row earlier
\* makes its jti active or pending again (agents.py:65-69).
RotatedOutForGood ==
  [][\A j \in issued : j \notin Accepted => j \notin Accepted']_vars

(***************************************************************************)
(* The inductive invariants.  Provenance holds of every execution: what    *)
(* the agent has, and what a handler authenticated, is a token that the    *)
(* hub issued and that reached the agent, whatever else has gone stale.    *)
(***************************************************************************)
Provenance ==
  /\ held \subseteq issued
  /\ node.active \in held
  /\ node.pending # node.active
  /\ {node.pending, node.command} \subseteq issued \cup {NoJti}
  /\ agent.file \in held \cup {NoJti}
  /\ agent.run \in Running => agent.jwt \in held
  /\ \A h \in Handlers :
       /\ hb[h].at # "idle" => hb[h].jti \in held
       /\ hb[h].command \in issued \cup {NoJti}

(***************************************************************************)
(* SerialInv is what a serial execution maintains on top of it while the   *)
(* node is registered.                                                     *)
(***************************************************************************)

\* A queued command carries the pending token, which the agent does not have yet;
\* a renewal past its check still finds no pending token when it commits.
Queue ==
  /\ node.command # NoJti => node.command = node.pending /\ node.command \notin held
  /\ renewing # {} => node.pending = NoJti

\* The row a handler read is still the row.
Handling(h) ==
  /\ hb[h].at = "sent" => hb[h].jti \in Accepted
  /\ hb[h].at = "consolidating" =>
       hb[h].jti = node.pending /\ hb[h].command = NoJti
  /\ hb[h].at = "serving" => hb[h].command \in {node.command, NoJti}
  /\ hb[h].at = "ok" /\ hb[h].command # NoJti =>
       /\ hb[h].command = node.pending /\ node.command = NoJti
       /\ hb[h].command \notin held
  /\ hb[h].at = "unauthorized" => hb[h].jti \in dead

\* Once the pending token has been presented, it is all the agent has.
Presented(h) ==
  hb[h].at \in {"sent", "consolidating"} /\ hb[h].jti = node.pending =>
    /\ agent.file = node.pending
    /\ agent.run \in Running => agent.jwt = node.pending

\* The agent's token and state file, and what it knows of its own exchange.
Possession ==
  /\ agent.run \in Running => agent.jwt \in Accepted
  /\ agent.file \in Accepted \cup {NoJti}
  /\ agent.run = "up" => agent.file = agent.jwt
  /\ agent.run = "saving" => agent.file = node.active
  /\ agent.run = "writing" => agent.file = NoJti
  /\ agent.run # "up" => agent.waiting = NoHandler /\ agent.consecutive401s = 0
  /\ agent.run \in {"saving", "writing"} =>
       /\ agent.jwt = node.pending
       /\ \A h \in Handlers : hb[h].at = "idle"
  /\ agent.waiting # NoHandler /\ hb[agent.waiting].at # "idle" =>
       hb[agent.waiting].jti = agent.jwt
  /\ agent.consecutive401s > 0 \/ agent.run = "revoked" => agent.jwt \in dead

\* In a serial execution no handler, renewal or restart works with a token or a row
\* that another step has made stale (agents.py:46-77, 253-258, nodes.py:65-90).
SerialInv ==
  exists => /\ Queue
            /\ \A h \in Handlers : Handling(h) /\ Presented(h)
            /\ Possession

(***************************************************************************)
(* The abstract specification.  What the agent bears is the token in its   *)
(* memory or, while it does not run, the one that Restart would load; once *)
(* the node is removed its credentials stand for nothing.                  *)
(***************************************************************************)
WhileRegistered(jti) == IF exists THEN jti ELSE NoJti

Bearer == IF agent.run \in Running THEN agent.jwt ELSE agent.file

Rolling == INSTANCE RollingCredential WITH
  registered <- exists,
  current    <- WhileRegistered(node.active),
  successor  <- WhileRegistered(node.pending),
  bearer     <- WhileRegistered(Bearer),
  stored     <- WhileRegistered(agent.file),
  used       <- issued

\* A serial execution is a rolling credential: in particular consolidation never
\* retires a token before the agent has the next one in its memory and on its disk
\* (agents.py:60-69, api.go:226-227), and there is never a third token in play.
RollsCredential == Rolling!Spec

\* What the agent has, or would load, is none of the jtis in the row.
LockedOut == exists /\ Bearer \notin Accepted

\* Nothing locks an agent out but a kill between the truncation of its state file and the
\* end of the write (api.go:94): no rotation, lost or late answer or restart of the hub,
\* and no kill at any other point.  (An expired token keeps its jti.)
OnlyAKillLocksOut ==
  [][~ LockedOut /\ LockedOut' => agent.run = "writing" /\ agent'.run = "down"]_vars

(***************************************************************************)
(* Liveness.                                                               *)
(***************************************************************************)

\* Once the node is removed, and faults end, its agent gives up and terminates for good
\* (agents.py:46-51, api.go:174-183, main.go:73-78), unless a kill has left it without a
\* token: that one goes on being restarted, to be refused as often (api.go:46-61).
RevocationStops ==
  FaultsEnd => (~ exists ~> [](agent.run = "revoked") \/ []Stranded)

\* Once faults have ended, a queued command is handed out, and a pending token that
\* the agent has is consolidated, unless the node is removed or its agent has given up
\* or lost its token (agents.py:62-69, 253-258).
Over == ~ exists \/ agent.run = "revoked" \/ Stranded
RenewalProgresses ==
  FaultsEnd =>
    /\ node.command # NoJti ~> node.command = NoJti \/ Over
    /\ node.pending # NoJti /\ agent.jwt = node.pending
         ~> agent.jwt # node.pending \/ Over

\* A renewal is over sooner or later if the agent goes on receiving answers to its
\* heartbeats: "please wait for the next heartbeat" is all that a refused renewal
\* asks (nodes.py:70-74).
HeartbeatsAnswered == []<><<\E h \in Handlers : ReceiveOk(h)>>_vars
RenewalConsumed ==
  HeartbeatsAnswered => (node.pending # NoJti ~> node.pending = NoJti \/ ~ exists)
=============================================================================
