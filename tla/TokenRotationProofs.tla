------------------------- MODULE TokenRotationProofs -------------------------
(***************************************************************************)
(* Theorems about TokenRotation, for every value of its constants.         *)
(***************************************************************************)
EXTENDS TokenRotation, TLAPS

-----------------------------------------------------------------------------
(* Type correctness, handler by handler. *)

\* What the assumption on max401Attempts says of the counter's range.
LEMMA CounterRange ==
  /\ 0 \in Counts
  /\ \A n \in Counts : n + 1 < max401Attempts => n + 1 \in Counts
<1>1. max401Attempts \in Nat \ {0}
  BY AgentAssumption DEF AgentAssumption
<1> QED BY <1>1 DEF Counts

LEMMA AnswerType ==
  ASSUME hb \in [Handlers -> ExchangeType], NEW h \in Handlers,
         NEW response \in Responses, Answer(h, response)
  PROVE  hb' \in [Handlers -> ExchangeType]
BY DEF Answer, ExchangeType, Stages, OptJti

LEMMA ProceedType ==
  ASSUME hb \in [Handlers -> ExchangeType], node \in NodeRow, NEW h \in Handlers,
         NEW stage \in Stages, Proceed(h, stage)
  PROVE  hb' \in [Handlers -> ExchangeType]
BY DEF Proceed, ExchangeType, NodeRow

LEMMA HandlerType ==
  ASSUME hb \in [Handlers -> ExchangeType], HubTypeOK,
         NEW h \in Handlers, HubHandler(h)
  PROVE  hb' \in [Handlers -> ExchangeType] /\ HubTypeOK'
<1>0. hb[h] \in ExchangeType /\ node \in NodeRow
  BY DEF HubTypeOK
<1>1. CASE AuthActive(h)
  BY <1>0, <1>1, ProceedType DEF AuthActive, HubTypeOK, hubVars, Stages
<1>2. CASE AuthPending(h)
  BY <1>0, <1>2, ProceedType DEF AuthPending, HubTypeOK, hubVars, Stages
<1>3. CASE AuthReject(h)
  BY <1>0, <1>3, AnswerType DEF AuthReject, HubTypeOK, hubVars, Responses
<1>4. CASE Consolidate(h) /\ exists
  <2>1. hb' = [hb EXCEPT ![h].at = "serving"]
    BY <1>4 DEF Consolidate
  <2>2. node' = [node EXCEPT !.active = hb[h].jti, !.pending = NoJti]
    BY <1>4 DEF Consolidate
  <2>3. hb' \in [Handlers -> ExchangeType]
    BY <1>0, <2>1 DEF ExchangeType, Stages
  <2>4. node' \in NodeRow
    BY <1>0, <2>2 DEF NodeRow, ExchangeType, OptJti
  <2> QED BY <1>4, <2>3, <2>4 DEF Consolidate, HubTypeOK
<1>5. CASE Serve(h) /\ exists
  BY <1>0, <1>5 DEF Serve, HubTypeOK, NodeRow, ExchangeType, Stages, Responses, OptJti
<1>6. CASE (Consolidate(h) \/ Serve(h)) /\ ~ exists
  BY <1>0, <1>6, AnswerType DEF Consolidate, Serve, HubTypeOK, Responses
<1> QED BY <1>1, <1>2, <1>3, <1>4, <1>5, <1>6 DEF HubHandler

LEMMA RenewalType ==
  ASSUME HubTypeOK, NEW r \in Renewals, RenewCheck(r) \/ RenewCommit(r)
  PROVE  HubTypeOK'
BY DEF HubTypeOK, RenewCheck, RenewCommit, NodeRow, OptJti

LEMMA RestartType ==
  ASSUME hb \in [Handlers -> ExchangeType], HubTypeOK, HubRestart
  PROVE  hb' \in [Handlers -> ExchangeType] /\ HubTypeOK'
<1>1. \A h \in Handlers :
        [hb[h] EXCEPT !.at = "error", !.command = NoJti] \in ExchangeType
  BY DEF ExchangeType, Stages, Responses, OptJti
<1> QED BY <1>1 DEF HubRestart, HubTypeOK

LEMMA SendType ==
  ASSUME hb \in [Handlers -> ExchangeType], AgentTypeOK,
         NEW h \in Handlers, Send(h)
  PROVE  hb' \in [Handlers -> ExchangeType] /\ AgentTypeOK'
BY DEF Send, AgentTypeOK, AgentState, ExchangeType, Stages, OptJti

LEMMA ReceiveType ==
  ASSUME hb \in [Handlers -> ExchangeType], AgentTypeOK,
         NEW h \in Handlers, AgentReceive(h)
  PROVE  hb' \in [Handlers -> ExchangeType] /\ AgentTypeOK'
<1>0. Idle \in ExchangeType
  BY DEF Idle, ExchangeType, Stages, OptJti
<1>1. hb' \in [Handlers -> ExchangeType]
  BY <1>0 DEF AgentReceive, ReceiveUnauthorized, ReceiveError, ReceiveOk, Take
<1>2. hb[h].command \in OptJti
  BY DEF ExchangeType
<1>3. CASE ReceiveUnauthorized(h)
  <2>1. CASE agent.consecutive401s + 1 < max401Attempts
    BY <1>1, <1>3, <2>1, CounterRange DEF ReceiveUnauthorized, AgentTypeOK, AgentState
  <2>2. CASE ~ (agent.consecutive401s + 1 < max401Attempts)
    BY <1>1, <1>3, <2>2, CounterRange DEF ReceiveUnauthorized, AgentTypeOK, AgentState
  <2> QED BY <2>1, <2>2
<1>4. CASE ReceiveError(h)
  BY <1>1, <1>4, CounterRange DEF ReceiveError, AgentTypeOK, AgentState
<1>5. CASE ReceiveOk(h)
  BY <1>1, <1>2, <1>5, CounterRange
  DEF ReceiveOk, AgentTypeOK, AgentState, OptJti, Running
<1> QED BY <1>1, <1>3, <1>4, <1>5 DEF AgentReceive

LEMMA ProcessType ==
  ASSUME AgentTypeOK,
         \/ Timeout \/ SaveTruncate \/ SaveWrite \/ SaveFail
         \/ Crash \/ Restart \/ RegisterRefused
  PROVE  AgentTypeOK'
<1> USE DEF AgentTypeOK, AgentState, Running, OptJti
<1>1. CASE Timeout      BY <1>1 DEF Timeout
<1>2. CASE SaveTruncate BY <1>2 DEF SaveTruncate
<1>3. CASE SaveWrite    BY <1>3 DEF SaveWrite
<1>4. CASE SaveFail     BY <1>4 DEF SaveFail
<1>5. CASE Crash        BY <1>5, CounterRange DEF Crash
<1>6. CASE Restart      BY <1>6 DEF Restart
<1>7. CASE RegisterRefused BY <1>7 DEF RegisterRefused
<1> QED BY <1>1, <1>2, <1>3, <1>4, <1>5, <1>6, <1>7

LEMMA NetworkType ==
  ASSUME hb \in [Handlers -> ExchangeType], NetworkStep
  PROVE  hb' \in [Handlers -> ExchangeType]
<1>1. Idle \in ExchangeType
  BY DEF Idle, ExchangeType, Stages, OptJti
<1>2. PICK h \in Handlers : Lose(h) \/ Fail(h)
  BY DEF NetworkStep
<1> QED BY <1>1, <1>2, AnswerType DEF Lose, Fail, Responses

LEMMA InitType == Init => TypeOK
<1> SUFFICES ASSUME Init PROVE TypeOK
  OBVIOUS
<1>1. PICK j \in Jtis : HubInit(j) /\ AgentInit(j)
  BY DEF Init
<1>2. Idle \in ExchangeType
  BY DEF Idle, ExchangeType, Stages, OptJti
<1>3. agent \in AgentState
  BY <1>1, CounterRange DEF AgentInit, AgentState, OptJti, Running
<1> QED BY <1>1, <1>2, <1>3
        DEF Init, HubInit, AgentInit, TypeOK, HubTypeOK, AgentTypeOK, NodeRow, OptJti

LEMMA StepType == TypeOK /\ [Next]_vars => TypeOK'
<1> SUFFICES ASSUME TypeOK, [Next]_vars
             PROVE  TypeOK'
  OBVIOUS
<1> USE DEF TypeOK
<1>1. CASE HubStep
  <2>1. AgentTypeOK'
    BY <1>1 DEF HubStep, agentVars, AgentTypeOK
  <2>2. CASE \E h \in Handlers : HubHandler(h)
    BY <2>1, <2>2, HandlerType
  <2>3. CASE \E r \in Renewals : RenewCheck(r) \/ RenewCommit(r)
    BY <2>1, <2>3, RenewalType DEF RenewCheck, RenewCommit
  <2>4. CASE RemoveNode \/ \E j \in Jtis : Expire(j)
    BY <2>1, <2>4 DEF RemoveNode, Expire, HubTypeOK
  <2>5. CASE HubRestart
    BY <2>1, <2>5, RestartType
  <2> QED BY <1>1, <2>2, <2>3, <2>4, <2>5 DEF HubStep
<1>2. CASE AgentStep
  <2>1. HubTypeOK'
    BY <1>2 DEF AgentStep, hubVars, HubTypeOK
  <2>2. CASE \E h \in Handlers : Send(h) \/ AgentReceive(h)
    BY <2>1, <2>2, SendType, ReceiveType
  <2>3. CASE \/ Timeout \/ SaveTruncate \/ SaveWrite \/ SaveFail
             \/ Crash \/ Restart \/ RegisterRefused
    BY <2>1, <2>3, ProcessType
    DEF Timeout, SaveTruncate, SaveWrite, SaveFail, Crash, Restart, RegisterRefused
  <2> QED BY <1>2, <2>2, <2>3 DEF AgentStep
<1>3. CASE NetworkStep
  BY <1>3, NetworkType
  DEF NetworkStep, hubVars, agentVars, HubTypeOK, AgentTypeOK
<1>4. CASE UNCHANGED vars
  BY <1>4 DEF vars, HubTypeOK, AgentTypeOK
<1> QED BY <1>1, <1>2, <1>3, <1>4 DEF Next

\* Every variable of the composed system stays within its type, the counter of
\* 401s below max401Attempts in particular.
THEOREM TypeCorrect == Spec => []TypeOK
BY InitType, StepType, PTL DEF Spec

-----------------------------------------------------------------------------
(* Provenance, and that the active token is one the agent has had. *)

LEMMA InitProvenance == Init => Provenance
<1> SUFFICES ASSUME Init PROVE Provenance
  OBVIOUS
<1>1. PICK j \in Jtis : HubInit(j) /\ AgentInit(j)
  BY DEF Init
<1> QED BY <1>1, NoJtiAssumption
        DEF Init, HubInit, AgentInit, Provenance, Idle, Running, NoJtiAssumption

LEMMA StepProvenance == TypeOK /\ Provenance /\ [Next]_vars => Provenance'
<1> SUFFICES ASSUME TypeOK, Provenance, [Next]_vars
             PROVE  Provenance'
  OBVIOUS
<1>0. /\ hb \in [Handlers -> ExchangeType]
      /\ \A h \in Handlers : hb[h] \in ExchangeType
      /\ node \in NodeRow /\ agent \in AgentState /\ held \subseteq Jtis
      /\ issued \subseteq Jtis
  BY DEF TypeOK, HubTypeOK, AgentTypeOK
<1>1. NoJti \notin held
  BY <1>0, NoJtiAssumption DEF NoJtiAssumption
<1>2. ASSUME NEW h \in Handlers, NEW response \in Responses, Answer(h, response),
             hb[h].at # "idle", UNCHANGED <<hubVars, agentVars>>
      PROVE  Provenance'
  BY <1>0, <1>2 DEF Answer, Provenance, ExchangeType, hubVars, agentVars
<1>3. CASE HubStep
  <2>1. ASSUME NEW h \in Handlers, HubHandler(h), UNCHANGED agentVars
        PROVE  Provenance'
    <3>1. CASE AuthActive(h)
      BY <1>0, <2>1, <3>1
      DEF AuthActive, Proceed, Provenance, ExchangeType, hubVars, agentVars
    <3>2. CASE AuthPending(h)
      BY <1>0, <2>1, <3>2
      DEF AuthPending, Proceed, Provenance, ExchangeType, hubVars, agentVars
    <3>3. CASE AuthReject(h)
      BY <1>2, <2>1, <3>3 DEF AuthReject, Responses
    <3>4. CASE Consolidate(h) /\ exists
      <4>1. /\ hb' = [hb EXCEPT ![h].at = "serving"]
            /\ node' = [node EXCEPT !.active = hb[h].jti, !.pending = NoJti]
            /\ UNCHANGED <<issued, agent, held>>
            /\ hb[h].jti \in held
        BY <2>1, <3>4 DEF Consolidate, agentVars, Provenance
      <4>2. /\ node'.active = hb[h].jti /\ node'.pending = NoJti
            /\ node'.command = node.command
        BY <1>0, <4>1 DEF NodeRow
      <4>3. \A g \in Handlers :
              /\ hb'[g].jti = hb[g].jti /\ hb'[g].command = hb[g].command
              /\ hb'[g].at # "idle" => g = h \/ hb[g].at # "idle"
        BY <1>0, <4>1 DEF ExchangeType
      <4> QED BY <1>0, <1>1, <4>1, <4>2, <4>3 DEF Provenance
    <3>5. CASE Serve(h) /\ exists
      BY <1>0, <2>1, <3>5
      DEF Serve, Provenance, ExchangeType, NodeRow, agentVars
    <3>6. CASE (Consolidate(h) \/ Serve(h)) /\ ~ exists
      BY <1>2, <2>1, <3>6 DEF Consolidate, Serve, Responses, hubVars
    <3> QED BY <2>1, <3>1, <3>2, <3>3, <3>4, <3>5, <3>6 DEF HubHandler
  <2>2. CASE \E r \in Renewals : RenewCheck(r)
    BY <1>3, <2>2 DEF HubStep, RenewCheck, Provenance, agentVars
  <2>3. CASE \E r \in Renewals : RenewCommit(r)
    BY <1>0, <1>3, <2>3 DEF HubStep, RenewCommit, Provenance, NodeRow, agentVars
  <2>4. CASE RemoveNode \/ \E j \in Jtis : Expire(j)
    BY <1>3, <2>4 DEF HubStep, RemoveNode, Expire, Provenance, agentVars
  <2>5. CASE HubRestart
    BY <1>0, <1>3, <2>5
    DEF HubStep, HubRestart, Provenance, ExchangeType, Responses, agentVars
  <2> QED BY <1>3, <2>1, <2>2, <2>3, <2>4, <2>5 DEF HubStep
<1>4. CASE AgentStep
  <2>1. ASSUME NEW h \in Handlers, Send(h), UNCHANGED hubVars
        PROVE  Provenance'
    BY <1>0, <2>1
    DEF Send, Provenance, AgentState, ExchangeType, Running, hubVars
  <2>2. ASSUME NEW h \in Handlers, AgentReceive(h), UNCHANGED hubVars
        PROVE  Provenance'
    <3>1. hb' = [hb EXCEPT ![h] = Idle] /\ agent.run \in Running
      BY <2>2 DEF AgentReceive, ReceiveUnauthorized, ReceiveError, ReceiveOk,
                  Take, Running
    <3>2. /\ held' \in {held, held \cup {hb[h].command}}
          /\ held' \subseteq issued
          /\ agent'.jwt \in held' /\ agent'.file = agent.file
      <4>1. CASE ReceiveUnauthorized(h) \/ ReceiveError(h)
        BY <1>0, <3>1, <4>1
        DEF ReceiveUnauthorized, ReceiveError, AgentState, Provenance
      <4>2. CASE ReceiveOk(h) /\ hb[h].command = NoJti
        BY <1>0, <3>1, <4>2 DEF ReceiveOk, AgentState, Provenance
      <4>3. CASE ReceiveOk(h) /\ hb[h].command # NoJti
        BY <1>0, <3>1, <4>3 DEF ReceiveOk, AgentState, Provenance
      <4> QED BY <2>2, <4>1, <4>2, <4>3 DEF AgentReceive
    <3> QED BY <1>0, <2>2, <3>1, <3>2 DEF Provenance, Idle, hubVars
  <2>3. CASE Timeout \/ SaveTruncate \/ SaveWrite \/ SaveFail \/ Crash
    BY <1>0, <1>4, <2>3
    DEF AgentStep, Timeout, SaveTruncate, SaveWrite, SaveFail, Crash, Provenance,
        AgentState, Running, hubVars
  <2>4. CASE Restart \/ RegisterRefused
    BY <1>0, <1>4, <2>4
    DEF AgentStep, Restart, RegisterRefused, Provenance, AgentState, Running, hubVars
  <2> QED BY <1>4, <2>1, <2>2, <2>3, <2>4 DEF AgentStep
<1>5. CASE NetworkStep
  <2>1. PICK h \in Handlers : Lose(h) \/ Fail(h)
    BY <1>5 DEF NetworkStep
  <2>2. CASE Lose(h)
    BY <1>0, <1>5, <2>2
    DEF NetworkStep, Lose, Idle, Provenance, hubVars, agentVars
  <2>3. CASE Fail(h)
    BY <1>2, <1>5, <2>3 DEF NetworkStep, Fail, Stages, Responses
  <2> QED BY <2>1, <2>2, <2>3
<1>6. CASE UNCHANGED vars
  BY <1>6 DEF vars, Provenance
<1> QED BY <1>3, <1>4, <1>5, <1>6 DEF Next

\* In every execution, heartbeats and renewals overlapping or not, a token in
\* circulation was issued by the hub, and one that a handler authenticated or the
\* state file holds has been in the agent's memory.
THEOREM ProvenanceInvariant == Spec => []Provenance
BY TypeCorrect, InitProvenance, StepProvenance, PTL DEF Spec

\* The hub never retires the agent's token before the agent has the next one,
\* in every execution.
THEOREM ActiveIsAcknowledged == Spec => []ActiveAcknowledged
<1>1. Provenance => ActiveAcknowledged
  BY DEF Provenance, ActiveAcknowledged
<1> QED BY <1>1, ProvenanceInvariant, PTL

-----------------------------------------------------------------------------
(* The invariant of serial executions. *)

LEMMA InitSerial == Init => SerialInv
<1> SUFFICES ASSUME Init PROVE SerialInv
  OBVIOUS
<1>1. PICK j \in Jtis : HubInit(j) /\ AgentInit(j)
  BY DEF Init
<1>2. \A h \in Handlers : hb[h].at = "idle"
  BY DEF Init, Idle
<1>3. /\ node.active = j /\ node.pending = NoJti /\ node.command = NoJti
      /\ renewing = {} /\ j # NoJti
  BY <1>1, NoJtiAssumption DEF HubInit, NoJtiAssumption
<1>4. /\ agent.run = "up" /\ agent.jwt = j /\ agent.file = j
      /\ agent.waiting = NoHandler /\ agent.consecutive401s = 0
  BY <1>1 DEF AgentInit
<1>5. Queue /\ \A h \in Handlers : Handling(h) /\ Presented(h)
  BY <1>2, <1>3 DEF Queue, Handling, Presented
<1>6. Possession
  BY <1>3, <1>4 DEF Possession, Accepted
<1> QED BY <1>5, <1>6 DEF SerialInv

\* The steps of the heartbeat handler.
LEMMA HandlerSerial ==
  ASSUME Serial, TypeOK, Provenance, SerialInv, exists,
         NEW h \in Handlers, HubHandler(h), UNCHANGED agentVars
  PROVE  SerialInv'
<1>0. /\ hb \in [Handlers -> ExchangeType] /\ hb[h] \in ExchangeType
      /\ node \in NodeRow /\ held \subseteq Jtis /\ issued \subseteq Jtis
      /\ \A g \in Handlers : g = h
      /\ agent.waiting \in {h, NoHandler}
      /\ NoJti \notin Jtis
      /\ Queue /\ Handling(h) /\ Presented(h) /\ Possession
  BY NoJtiAssumption
  DEF TypeOK, HubTypeOK, AgentTypeOK, AgentState, Serial, SerialInv, NoJtiAssumption
<1>1. hb[h].at # "idle" => hb[h].jti \in held
  BY DEF Provenance
<1>2. UNCHANGED <<agent, held>>
  BY DEF agentVars
<1>3. CASE AuthActive(h) \/ AuthPending(h)
  <2>1. /\ UNCHANGED <<exists, node, dead, renewing>>
        /\ hb[h].at = "sent" /\ hb'[h].jti = hb[h].jti
        /\ hb'[h].command = node.command
        /\ hb'[h].at = "serving" \/ hb'[h].at = "consolidating"
        /\ hb'[h].at = "consolidating" => hb[h].jti = node.pending
    BY <1>0, <1>3 DEF AuthActive, AuthPending, Proceed, ExchangeType, hubVars
  <2>2. Queue'
    BY <1>0, <1>2, <2>1 DEF Queue
  <2>3. Handling(h)' /\ Presented(h)'
    BY <1>0, <1>1, <1>2, <2>1 DEF Queue, Handling, Presented, Accepted
  <2>4. Possession'
    BY <1>0, <1>2, <2>1 DEF Possession, Accepted, Running
  <2> QED BY <1>0, <2>2, <2>3, <2>4 DEF SerialInv
<1>4. CASE AuthReject(h)
  <2>1. /\ UNCHANGED <<exists, node, dead, renewing>>
        /\ hb[h].at = "sent" /\ hb'[h].jti = hb[h].jti
        /\ hb'[h].at = "unauthorized" /\ hb[h].jti \in dead
    BY <1>0, <1>4 DEF AuthReject, Answer, Decodes, ExchangeType, hubVars, Handling
  <2>2. Queue'
    BY <1>0, <1>2, <2>1 DEF Queue
  <2>3. Handling(h)' /\ Presented(h)'
    BY <1>0, <1>2, <2>1 DEF Handling, Presented
  <2>4. Possession'
    BY <1>0, <1>2, <2>1 DEF Possession, Accepted, Running
  <2> QED BY <1>0, <2>2, <2>3, <2>4 DEF SerialInv
<1>5. CASE Consolidate(h)
  <2>1. /\ UNCHANGED <<exists, issued, dead, renewing>>
        /\ hb[h].at = "consolidating"
        /\ hb' = [hb EXCEPT ![h].at = "serving"]
        /\ node' = [node EXCEPT !.active = hb[h].jti, !.pending = NoJti]
    BY <1>5 DEF Consolidate
  <2>2. /\ hb'[h].at = "serving" /\ hb'[h].jti = hb[h].jti
        /\ hb'[h].command = hb[h].command
        /\ node'.active = hb[h].jti /\ node'.pending = NoJti
        /\ node'.command = node.command
    BY <1>0, <2>1 DEF ExchangeType, NodeRow
  <2>3. /\ hb[h].jti = node.pending /\ hb[h].command = NoJti
        /\ node.pending \in held /\ node.command = NoJti
        /\ agent.file = node.pending
        /\ agent.run \in Running => agent.jwt = node.pending
        /\ agent.run \notin {"saving", "writing"}
    BY <1>0, <1>1, <2>1 DEF Queue, Handling, Presented, Possession
  <2>4. Queue'
    BY <2>2, <2>3 DEF Queue
  <2>5. Handling(h)' /\ Presented(h)'
    BY <2>2, <2>3 DEF Handling, Presented
  <2>6. Possession'
    BY <1>0, <1>1, <1>2, <2>1, <2>2, <2>3 DEF Possession, Accepted
  <2> QED BY <1>0, <2>4, <2>5, <2>6 DEF SerialInv
<1>6. CASE Serve(h)
  <2>1. /\ UNCHANGED <<exists, issued, dead, renewing>>
        /\ hb[h].at = "serving"
        /\ hb'[h].at = "ok" /\ hb'[h].jti = hb[h].jti
        /\ hb'[h].command = hb[h].command
        /\ node'.active = node.active /\ node'.pending = node.pending
        /\ node'.command = IF hb[h].command = NoJti THEN node.command ELSE NoJti
    BY <1>0, <1>6 DEF Serve, ExchangeType, NodeRow
  <2>2. Queue'
    BY <1>0, <1>2, <2>1 DEF Queue
  <2>3. Handling(h)' /\ Presented(h)'
    BY <1>0, <1>2, <2>1 DEF Handling, Presented, Queue
  <2>4. Possession'
    BY <1>0, <1>2, <2>1 DEF Possession, Accepted, Running
  <2> QED BY <1>0, <2>2, <2>3, <2>4 DEF SerialInv
<1> QED BY <1>3, <1>4, <1>5, <1>6 DEF HubHandler

\* Renewals, removal, expiry and restarts of the hub.
LEMMA AdminSerial ==
  ASSUME Serial, TypeOK, Provenance, SerialInv, exists, UNCHANGED agentVars,
         \/ \E r \in Renewals : RenewCheck(r) \/ RenewCommit(r)
         \/ RemoveNode \/ (\E j \in Jtis : Expire(j)) \/ HubRestart
  PROVE  SerialInv'
<1>0. /\ hb \in [Handlers -> ExchangeType]
      /\ \A h \in Handlers : hb[h] \in ExchangeType
      /\ node \in NodeRow /\ held \subseteq Jtis /\ issued \subseteq Jtis
      /\ agent.waiting \in Handlers \cup {NoHandler}
      /\ renewing \subseteq Renewals
      /\ NoJti \notin Jtis
      /\ Queue /\ Possession
      /\ \A h \in Handlers : Handling(h) /\ Presented(h)
  BY NoJtiAssumption
  DEF TypeOK, HubTypeOK, AgentTypeOK, AgentState, SerialInv, NoJtiAssumption
<1>1. UNCHANGED <<agent, held>>
  BY DEF agentVars
<1>2. CASE \E r \in Renewals : RenewCheck(r)
  BY <1>0, <1>1, <1>2
  DEF RenewCheck, SerialInv, Queue, Handling, Presented, Possession, Accepted
<1>3. CASE \E r \in Renewals : RenewCommit(r)
  <2>1. PICK r \in Renewals, j \in Jtis \ issued :
          /\ r \in renewing /\ renewing' = renewing \ {r}
          /\ node' = [node EXCEPT !.pending = j, !.command = j]
          /\ UNCHANGED <<hb, dead>>
    BY <1>3 DEF RenewCommit
  <2>2. /\ node'.active = node.active /\ node'.pending = j /\ node'.command = j
        /\ node.pending = NoJti /\ node.command = NoJti
        /\ renewing' = {}
    BY <1>0, <2>1 DEF NodeRow, Queue, Serial
  <2>3. /\ held \subseteq issued /\ j \notin held /\ j # NoJti
        /\ agent.file # j /\ agent.run \in Running => agent.jwt # j
        /\ \A h \in Handlers : hb[h].at # "idle" => hb[h].jti \notin {j, NoJti}
    BY <1>0, <2>1 DEF Provenance
  <2>4. Queue'
    BY <1>1, <2>2, <2>3 DEF Queue
  <2>5. ASSUME NEW h \in Handlers
        PROVE  Handling(h)' /\ Presented(h)'
    BY <1>0, <1>1, <2>1, <2>2, <2>3 DEF Handling, Presented, Accepted
  <2>6. Possession'
    <3>1. agent.run \notin {"saving", "writing"}
      BY <1>0, <2>2, NoJtiAssumption DEF Possession, Provenance, Running
    <3> QED BY <1>0, <1>1, <2>1, <2>2, <3>1 DEF Possession, Accepted
  <2> QED BY <2>4, <2>5, <2>6 DEF SerialInv
<1>4. CASE RemoveNode
  BY <1>4 DEF RemoveNode, SerialInv
<1>5. CASE \E j \in Jtis : Expire(j)
  BY <1>0, <1>1, <1>5
  DEF Expire, SerialInv, Queue, Handling, Presented, Possession, Accepted
<1>6. CASE HubRestart
  <2>1. /\ UNCHANGED <<exists, node, issued>>
        /\ renewing' = {} /\ dead \subseteq dead'
    BY <1>6 DEF HubRestart, TypeOK, HubTypeOK
  <2>2. \A h \in Handlers :
          /\ hb'[h] = hb[h] \/ hb'[h].at = "error"
          /\ hb'[h].jti = hb[h].jti
          /\ hb[h].at = "idle" => hb'[h] = hb[h]
          /\ hb'[h].at \notin {"sent", "consolidating", "serving"}
    BY <1>0, <1>6 DEF HubRestart, ExchangeType, Responses
  <2>3. Queue'
    BY <1>0, <1>1, <2>1 DEF Queue
  <2>4. \A h \in Handlers : Handling(h)' /\ Presented(h)'
    BY <1>0, <1>1, <2>1, <2>2 DEF Handling, Presented
  <2>5. Possession'
    BY <1>0, <1>1, <2>1, <2>2 DEF Possession, Accepted
  <2> QED BY <2>3, <2>4, <2>5 DEF SerialInv
<1> QED BY <1>2, <1>3, <1>4, <1>5, <1>6

\* The agent's exchanges.
LEMMA ExchangeSerial ==
  ASSUME Serial, TypeOK, Provenance, SerialInv, exists,
         NEW h \in Handlers, Send(h) \/ AgentReceive(h), UNCHANGED hubVars
  PROVE  SerialInv'
<1>0. /\ hb \in [Handlers -> ExchangeType] /\ hb[h] \in ExchangeType
      /\ agent \in AgentState
      /\ \A g \in Handlers : g = h
      /\ NoHandler # h
      /\ Queue /\ Handling(h) /\ Presented(h) /\ Possession
  BY AgentAssumption
  DEF TypeOK, AgentTypeOK, Serial, SerialInv, AgentAssumption
<1>1. UNCHANGED <<exists, node, dead, renewing>>
  BY DEF hubVars
<1>2. CASE Send(h)
  <2>1. /\ hb'[h].at = "sent" /\ hb'[h].jti = agent.jwt
        /\ agent.run = "up" /\ agent'.run = "up" /\ agent'.waiting = h
        /\ agent'.jwt = agent.jwt /\ agent'.file = agent.file
        /\ agent'.consecutive401s = agent.consecutive401s
        /\ held' = held
    BY <1>0, <1>2 DEF Send, AgentState
  <2>2. Queue'
    BY <1>0, <1>1, <2>1 DEF Queue
  <2>3. Handling(h)' /\ Presented(h)'
    BY <1>0, <1>1, <2>1 DEF Handling, Presented, Possession, Accepted, Running
  <2>4. Possession'
    BY <1>0, <1>1, <2>1 DEF Possession, Accepted, Running
  <2> QED BY <1>0, <2>2, <2>3, <2>4 DEF SerialInv
<1>3. CASE AgentReceive(h)
  <2>1. /\ hb'[h].at = "idle" /\ agent.run = "up" /\ agent.waiting = h
        /\ hb[h].at # "idle"
    BY <1>0, <1>3
    DEF AgentReceive, ReceiveUnauthorized, ReceiveError, ReceiveOk, Take, Idle
  <2>2. Handling(h)' /\ Presented(h)'
    BY <2>1 DEF Handling, Presented
  <2>3. agent.jwt \in Accepted /\ agent.file = agent.jwt /\ hb[h].jti = agent.jwt
    BY <1>0, <2>1 DEF Possession, Running
  <2>4. CASE ReceiveUnauthorized(h)
    <3>1. /\ hb[h].jti \in dead /\ held' = held
          /\ agent'.run \in {"up", "revoked"} /\ agent'.waiting = NoHandler
          /\ agent'.jwt = agent.jwt /\ agent'.file = agent.file
          /\ agent'.run = "revoked" => agent'.consecutive401s = 0
      BY <1>0, <2>1, <2>4 DEF ReceiveUnauthorized, Take, AgentState, Handling
    <3>2. Queue' /\ Possession'
      BY <1>0, <1>1, <2>3, <3>1 DEF Queue, Possession, Accepted
    <3> QED BY <1>0, <2>2, <3>2 DEF SerialInv
  <2>5. CASE ReceiveError(h) \/ (ReceiveOk(h) /\ hb[h].command = NoJti)
    <3>1. /\ held' = held
          /\ agent'.run = "up" /\ agent'.waiting = NoHandler
          /\ agent'.consecutive401s = 0
          /\ agent'.jwt = agent.jwt /\ agent'.file = agent.file
      BY <1>0, <2>1, <2>5 DEF ReceiveError, ReceiveOk, AgentState
    <3>2. Queue' /\ Possession'
      BY <1>0, <1>1, <2>3, <3>1 DEF Queue, Possession, Accepted
    <3> QED BY <1>0, <2>2, <3>2 DEF SerialInv
  <2>6. CASE ReceiveOk(h) /\ hb[h].command # NoJti
    <3>1. /\ hb[h].command = node.pending /\ node.command = NoJti
          /\ agent'.run = "saving" /\ agent'.waiting = NoHandler
          /\ agent'.consecutive401s = 0
          /\ agent'.jwt = hb[h].command /\ agent'.file = agent.file
      BY <1>0, <2>1, <2>6 DEF ReceiveOk, Take, AgentState, Handling
    <3>2. Queue'
      BY <1>0, <1>1, <3>1 DEF Queue
    <3>3. agent.file = node.active
      BY <1>0, <2>1, <2>3, <2>6 DEF Handling, Take, ReceiveOk, Provenance, Accepted, Running
    <3>4. Possession'
      BY <1>0, <1>1, <2>1, <2>3, <2>6, <3>1, <3>3 DEF Possession, Accepted, Running
    <3> QED BY <1>0, <2>2, <3>2, <3>4 DEF SerialInv
  <2> QED BY <1>3, <2>4, <2>5, <2>6 DEF AgentReceive
<1> QED BY <1>2, <1>3

\* The rest of the agent's life: timeouts, saveState, crashes and restarts.
LEMMA ProcessSerial ==
  ASSUME Serial, TypeOK, Provenance, SerialInv, exists, UNCHANGED hubVars,
         \/ Timeout \/ SaveTruncate \/ SaveWrite \/ SaveFail
         \/ Crash \/ Restart \/ RegisterRefused
  PROVE  SerialInv'
<1>0. /\ agent \in AgentState
      /\ Queue /\ Possession
      /\ \A h \in Handlers : Handling(h) /\ Presented(h)
      /\ \A h \in Handlers : hb[h].at # "idle" => hb[h].jti # NoJti
  BY NoJtiAssumption
  DEF TypeOK, AgentTypeOK, SerialInv, Provenance, NoJtiAssumption
<1>1. UNCHANGED <<exists, node, dead, renewing, hb, held>>
  BY DEF hubVars, Timeout, SaveTruncate, SaveWrite, SaveFail, Crash, Restart,
         RegisterRefused
<1>2. Queue' /\ \A h \in Handlers : Handling(h)'
  BY <1>0, <1>1 DEF Queue, Handling, Accepted
<1>3. CASE Timeout
  <2>1. /\ agent.run = "up" /\ agent'.run = "up" /\ agent'.waiting = NoHandler
        /\ agent'.jwt = agent.jwt /\ agent'.file = agent.file
        /\ agent'.consecutive401s = agent.consecutive401s
    BY <1>0, <1>3 DEF Timeout, AgentState
  <2> QED BY <1>0, <1>1, <1>2, <2>1
          DEF SerialInv, Presented, Possession, Accepted
<1>4. CASE SaveTruncate \/ SaveWrite
  <2>1. /\ agent.run \in {"saving", "writing"}
        /\ agent'.run \in {"writing", "up"}
        /\ agent'.run = "up" => agent'.file = agent.jwt
        /\ agent'.run = "writing" => agent'.file = NoJti
        /\ agent'.jwt = agent.jwt /\ agent'.waiting = agent.waiting
        /\ agent'.consecutive401s = agent.consecutive401s
    BY <1>0, <1>4 DEF SaveTruncate, SaveWrite, AgentState
  <2>2. /\ agent.waiting = NoHandler /\ agent.jwt \in Accepted
        /\ agent.jwt = node.pending
        /\ \A h \in Handlers : hb[h].at = "idle"
    BY <1>0, <2>1 DEF Possession, Running
  <2> QED BY <1>0, <1>1, <1>2, <2>1, <2>2
          DEF SerialInv, Presented, Possession, Accepted
<1>5. CASE SaveFail
  BY <1>5 DEF SaveFail, Serial
<1>6. CASE Crash
  <2>1. /\ agent'.run = "down" /\ agent'.waiting = NoHandler
        /\ agent'.file = agent.file /\ agent'.consecutive401s = 0
    BY <1>0, <1>6 DEF Crash, AgentState
  <2> QED BY <1>0, <1>1, <1>2, <2>1
          DEF SerialInv, Presented, Possession, Accepted, Running
<1>7. CASE Restart
  <2>1. /\ agent.run \in {"down", "revoked"}
        /\ agent'.run = IF agent.file = NoJti THEN "registering" ELSE "up"
        /\ agent'.file = agent.file /\ agent'.jwt = agent.file
        /\ agent'.waiting = agent.waiting
        /\ agent'.consecutive401s = agent.consecutive401s
    BY <1>0, <1>7 DEF Restart, AgentState
  <2> QED BY <1>0, <1>1, <1>2, <2>1
          DEF SerialInv, Presented, Possession, Accepted, Running
<1>8. CASE RegisterRefused
  <2>1. /\ agent.run = "registering" /\ agent'.run = "down"
        /\ agent'.file = agent.file /\ agent'.jwt = agent.jwt
        /\ agent'.waiting = agent.waiting
        /\ agent'.consecutive401s = agent.consecutive401s
    BY <1>0, <1>8 DEF RegisterRefused, AgentState
  <2> QED BY <1>0, <1>1, <1>2, <2>1
          DEF SerialInv, Presented, Possession, Accepted, Running
<1> QED BY <1>3, <1>4, <1>5, <1>6, <1>7, <1>8

\* Losses and failures.
LEMMA NetworkSerial ==
  ASSUME Serial, TypeOK, Provenance, SerialInv, exists, NetworkStep
  PROVE  SerialInv'
<1>0. /\ hb \in [Handlers -> ExchangeType]
      /\ \A h \in Handlers : hb[h] \in ExchangeType
      /\ agent \in AgentState
      /\ Queue /\ Possession
      /\ \A h \in Handlers : Handling(h) /\ Presented(h)
  BY DEF TypeOK, AgentTypeOK, SerialInv
<1>1. UNCHANGED <<exists, node, dead, renewing, agent, held>>
  BY DEF NetworkStep, hubVars, agentVars
<1>2. PICK h \in Handlers : Lose(h) \/ Fail(h)
  BY DEF NetworkStep
<1>3. \A g \in Handlers :
        /\ hb'[g] = hb[g] \/ hb'[g].at \in {"idle", "error"}
        /\ hb'[g].at # "idle" => hb'[g].jti = hb[g].jti /\ hb[g].at # "idle"
  <2>1. CASE Lose(h)
    BY <1>0, <2>1 DEF Lose, Idle
  <2>2. CASE Fail(h)
    BY <1>0, <2>2 DEF Fail, Answer, ExchangeType
  <2> QED BY <1>2, <2>1, <2>2
<1>4. Queue' /\ \A g \in Handlers : Handling(g)' /\ Presented(g)'
  BY <1>0, <1>1, <1>3 DEF Queue, Handling, Presented, Accepted
<1>5. Possession'
  BY <1>0, <1>1, <1>3 DEF Possession, Accepted, AgentState
<1> QED BY <1>4, <1>5 DEF SerialInv

LEMMA StepSerial ==
  Serial /\ TypeOK /\ Provenance /\ SerialInv /\ [Next]_vars => SerialInv'
<1> SUFFICES ASSUME Serial, TypeOK, Provenance, SerialInv, [Next]_vars
             PROVE  SerialInv'
  OBVIOUS
<1>1. CASE ~ exists'
  BY <1>1 DEF SerialInv
<1>2. CASE exists /\ Next
  <2>1. CASE HubStep
    BY <1>2, <2>1, HandlerSerial, AdminSerial DEF HubStep
  <2>2. CASE AgentStep
    BY <1>2, <2>2, ExchangeSerial, ProcessSerial DEF AgentStep
  <2>3. CASE NetworkStep
    BY <1>2, <2>3, NetworkSerial
  <2> QED BY <1>2, <2>1, <2>2, <2>3 DEF Next
<1>3. CASE UNCHANGED vars
  BY <1>3 DEF vars, SerialInv, Queue, Handling, Presented, Possession, Accepted
<1>4. CASE ~ exists /\ Next
  <2>1. exists' = exists
    <3>1. CASE HubStep
      BY <1>4, <3>1
      DEF HubStep, HubHandler, AuthActive, AuthPending, AuthReject, Consolidate,
          Serve, RenewCheck, RenewCommit, RemoveNode, Expire, HubRestart, hubVars
    <3>2. CASE AgentStep \/ NetworkStep
      BY <3>2 DEF AgentStep, NetworkStep, hubVars
    <3> QED BY <1>4, <3>1, <3>2 DEF Next
  <2> QED BY <1>4, <2>1 DEF SerialInv
<1> QED BY <1>1, <1>2, <1>3, <1>4

\* In a serial execution no handler, renewal or restart works with a token or a
\* row that another step has made stale.
THEOREM SerialInvariant == Serial => (Spec => []SerialInv)
<1> SUFFICES ASSUME Serial PROVE Spec => []SerialInv
  OBVIOUS
<1>1. TypeOK /\ Provenance /\ SerialInv /\ [Next]_vars => SerialInv'
  BY StepSerial
<1> QED BY <1>1, InitSerial, TypeCorrect, ProvenanceInvariant, PTL DEF Spec

\* In a serial execution, whatever is lost and whenever agent or hub stop, the jti of a
\* running agent is one of the two in the row of its node (agents.py:60-75).
THEOREM SerialAccepted == Serial => (Spec => []AgentAccepted)
<1> SUFFICES ASSUME Serial PROVE Spec => []AgentAccepted
  OBVIOUS
<1>1. SerialInv => AgentAccepted
  BY DEF SerialInv, Possession, AgentAccepted
<1> QED BY <1>1, SerialInvariant, PTL

\* What an agent bears before a step that locks it out, and after: a token in its file
\* that is one of the row's, then nothing.
LEMMA StepLockedOut ==
  ASSUME TypeOK, Provenance, SerialInv, SerialInv', [Next]_vars,
         ~ LockedOut, LockedOut'
  PROVE  agent.run = "writing" /\ agent'.run = "down"
<1>1. exists' /\ Bearer' \notin Accepted'
  BY DEF LockedOut
<1>2. exists
  BY <1>1
  DEF Next, HubStep, HubHandler, AuthActive, AuthPending, AuthReject, Consolidate,
      Serve, RenewCheck, RenewCommit, RemoveNode, Expire, HubRestart, AgentStep,
      NetworkStep, hubVars, vars
<1>3. /\ agent \in AgentState /\ Possession
      /\ Bearer \in Accepted /\ NoJti \notin Accepted
      /\ node.active \in Accepted
  BY <1>2, NoJtiAssumption
  DEF LockedOut, TypeOK, AgentTypeOK, SerialInv, Accepted, Provenance, NoJtiAssumption
<1>4. agent'.run \notin Running /\ agent'.file = NoJti
  <2>1. /\ agent'.run \in Running => agent'.jwt \in Accepted'
        /\ agent'.file \in Accepted' \cup {NoJti}
    BY <1>1 DEF SerialInv, Possession
  <2> QED BY <1>1, <2>1 DEF Bearer
<1>5. CASE UNCHANGED agentVars
  BY <1>3, <1>4, <1>5 DEF agentVars, Bearer
<1>6. agent.run \notin Running => agent.file # NoJti
  BY <1>3 DEF Bearer
<1>7. agent.run \in {"up", "saving"} => agent.file # NoJti
  BY <1>3 DEF Possession, Running
<1>8. CASE \E h \in Handlers : Send(h) \/ AgentReceive(h)
  BY <1>3, <1>4, <1>7, <1>8
  DEF Send, AgentReceive, ReceiveUnauthorized, ReceiveError, ReceiveOk, Take, AgentState
<1>9. CASE Timeout \/ SaveTruncate \/ SaveWrite \/ SaveFail
  BY <1>3, <1>4, <1>9
  DEF Timeout, SaveTruncate, SaveWrite, SaveFail, AgentState, Running
<1>10. CASE Crash
  BY <1>3, <1>4, <1>6, <1>7, <1>10 DEF Crash, AgentState, Running
<1>11. CASE Restart \/ RegisterRefused
  BY <1>3, <1>4, <1>6, <1>11 DEF Restart, RegisterRefused, AgentState, Running
<1> QED BY <1>5, <1>8, <1>9, <1>10, <1>11
        DEF Next, HubStep, AgentStep, NetworkStep, vars, agentVars

\* In a serial execution only a kill between the truncation of the state file and the end
\* of the write (api.go:94) locks an agent out.
THEOREM SerialOnlyAKillLocksOut == Serial => (Spec => OnlyAKillLocksOut)
<1> SUFFICES ASSUME Serial PROVE Spec => OnlyAKillLocksOut
  OBVIOUS
<1>1. TypeOK /\ Provenance /\ SerialInv /\ SerialInv' /\ [Next]_vars =>
        [~ LockedOut /\ LockedOut' => agent.run = "writing" /\ agent'.run = "down"]_vars
  BY StepLockedOut
<1> QED BY <1>1, TypeCorrect, ProvenanceInvariant, SerialInvariant, PTL
        DEF Spec, OnlyAKillLocksOut

\* In a serial execution an agent counts 401s, and gives up, only when its node has
\* been removed or its token does not decode.
THEOREM SerialNoFalseRevocation == Serial => (Spec => []NoFalseRevocation)
<1> SUFFICES ASSUME Serial PROVE Spec => []NoFalseRevocation
  OBVIOUS
<1>1. SerialInv => NoFalseRevocation
  BY DEF SerialInv, Possession, NoFalseRevocation
<1> QED BY <1>1, SerialInvariant, PTL

LEMMA StepRotatedOut ==
  ASSUME TypeOK, SerialInv, [Next]_vars, NEW j \in issued, j \notin Accepted
  PROVE  j \notin Accepted'
<1>0. /\ node \in NodeRow /\ j # NoJti
      /\ j # node.active /\ j # node.pending
  BY NoJtiAssumption DEF TypeOK, HubTypeOK, Accepted, NoJtiAssumption
<1>1. CASE UNCHANGED node
  BY <1>1 DEF Accepted
<1>2. CASE \E h \in Handlers : Consolidate(h) /\ exists
  BY <1>0, <1>2 DEF Consolidate, NodeRow, SerialInv, Handling, Accepted
<1>3. CASE \E h \in Handlers : Serve(h) /\ exists
  BY <1>0, <1>3 DEF Serve, NodeRow, Accepted
<1>4. CASE \E r \in Renewals : RenewCommit(r)
  BY <1>0, <1>4 DEF RenewCommit, NodeRow, Accepted
<1>5. \/ UNCHANGED node
      \/ \E h \in Handlers : (Consolidate(h) \/ Serve(h)) /\ exists
      \/ \E r \in Renewals : RenewCommit(r)
  BY DEF Next, HubStep, AgentStep, NetworkStep, HubHandler, AuthActive,
         AuthPending, AuthReject, Consolidate, Serve, RenewCheck, RemoveNode,
         Expire, HubRestart, hubVars, vars
<1> QED BY <1>1, <1>2, <1>3, <1>4, <1>5

\* In a serial execution a token that was rotated out is never accepted again.
THEOREM SerialRotatedOut == Serial => (Spec => RotatedOutForGood)
<1> SUFFICES ASSUME Serial PROVE Spec => RotatedOutForGood
  OBVIOUS
<1>1. TypeOK /\ SerialInv /\ [Next]_vars =>
        [\A j \in issued : j \notin Accepted => j \notin Accepted']_vars
  BY StepRotatedOut
<1> QED BY <1>1, TypeCorrect, SerialInvariant, PTL DEF Spec, RotatedOutForGood

-----------------------------------------------------------------------------
(***************************************************************************)
(* A serial TokenRotation implements RollingCredential: the initial states *)
(* map to initial states and every step to a step or to a stutter.         *)
(***************************************************************************)

\* The values the state functions of the mapping have while the node is registered.
LEMMA Mapping ==
  ASSUME exists
  PROVE  /\ WhileRegistered(node.active) = node.active
         /\ WhileRegistered(node.pending) = node.pending
         /\ WhileRegistered(Bearer) = Bearer
         /\ WhileRegistered(agent.file) = agent.file
BY DEF WhileRegistered

\* Nothing the mapping reads has changed.
Mapped == <<exists, node.active, node.pending, Bearer, agent.file, issued>>

LEMMA Stutter ==
  ASSUME UNCHANGED Mapped
  PROVE  UNCHANGED Rolling!vars
BY DEF Mapped, Rolling!vars, WhileRegistered

LEMMA InitMaps == Init => Rolling!Init
<1> SUFFICES ASSUME Init PROVE Rolling!Init
  OBVIOUS
<1>1. PICK j \in Jtis : HubInit(j) /\ AgentInit(j)
  BY DEF Init
<1> QED BY <1>1
        DEF HubInit, AgentInit, Rolling!Init, WhileRegistered, Bearer, Running

\* The hub's handlers: consolidation is the only one that is more than a stutter.
LEMMA HandlerMaps ==
  ASSUME Serial, TypeOK, Provenance, SerialInv, exists,
         NEW h \in Handlers, HubHandler(h), UNCHANGED agentVars
  PROVE  [Rolling!Next]_Rolling!vars
<1>0. node \in NodeRow /\ Handling(h) /\ Presented(h)
  BY DEF TypeOK, HubTypeOK, SerialInv
<1>1. UNCHANGED <<Bearer, agent.file>>
  BY DEF agentVars, Bearer
<1>2. CASE AuthActive(h) \/ AuthPending(h) \/ AuthReject(h)
  BY <1>1, <1>2, Stutter DEF AuthActive, AuthPending, AuthReject, hubVars, Mapped
<1>3. CASE Serve(h)
  <2>1. UNCHANGED <<exists, issued, node.active, node.pending>>
    BY <1>0, <1>3 DEF Serve, NodeRow
  <2> QED BY <1>1, <2>1, Stutter DEF Mapped
<1>4. CASE Consolidate(h)
  <2>1. /\ hb[h].at = "consolidating" /\ hb[h].jti = node.pending
        /\ agent.file = node.pending
        /\ agent.run \in Running => agent.jwt = node.pending
        /\ hb[h].jti # NoJti
    BY <1>0, <1>4, NoJtiAssumption
    DEF Consolidate, Handling, Presented, Provenance, TypeOK, AgentTypeOK,
        NoJtiAssumption
  <2>2. /\ node'.active = node.pending /\ node'.pending = NoJti
        /\ exists' = exists /\ issued' = issued
    BY <1>0, <1>4, <2>1 DEF Consolidate, NodeRow
  <2>3. Bearer = node.pending
    BY <2>1 DEF Bearer
  <2>4. Rolling!Advance
    BY <1>1, <2>1, <2>2, <2>3 DEF Rolling!Advance, WhileRegistered
  <2> QED BY <2>4 DEF Rolling!Next
<1> QED BY <1>2, <1>3, <1>4 DEF HubHandler

\* Renewals, removal, expiry and restart of the hub.
LEMMA AdminMaps ==
  ASSUME Serial, TypeOK, Provenance, SerialInv, exists, UNCHANGED agentVars,
         \/ \E r \in Renewals : RenewCheck(r) \/ RenewCommit(r)
         \/ RemoveNode \/ (\E j \in Jtis : Expire(j)) \/ HubRestart
  PROVE  [Rolling!Next]_Rolling!vars
<1>1. UNCHANGED <<Bearer, agent.file>>
  BY DEF agentVars, Bearer
<1>2. CASE (\E r \in Renewals : RenewCheck(r)) \/ (\E j \in Jtis : Expire(j)) \/ HubRestart
  BY <1>1, <1>2, Stutter DEF RenewCheck, Expire, HubRestart, Mapped
<1>3. CASE \E r \in Renewals : RenewCommit(r)
  <2>1. PICK r \in Renewals, j \in Jtis \ issued :
          /\ r \in renewing
          /\ node' = [node EXCEPT !.pending = j, !.command = j]
          /\ issued' = issued \cup {j} /\ exists' = exists
    BY <1>3 DEF RenewCommit
  <2>2. /\ node'.active = node.active /\ node'.pending = j
        /\ node.pending = NoJti
    BY <2>1 DEF TypeOK, HubTypeOK, NodeRow, SerialInv, Queue
  <2>3. Rolling!Issue
    BY <1>1, <2>1, <2>2 DEF Rolling!Issue, WhileRegistered
  <2> QED BY <2>3 DEF Rolling!Next
<1>4. CASE RemoveNode
  BY <1>4 DEF RemoveNode, Rolling!Next, Rolling!Withdraw, WhileRegistered
<1> QED BY <1>2, <1>3, <1>4

\* The agent's exchanges: the new token is adopted with the response that carries it.
LEMMA ExchangeMaps ==
  ASSUME Serial, TypeOK, Provenance, SerialInv, exists,
         NEW h \in Handlers, Send(h) \/ AgentReceive(h), UNCHANGED hubVars
  PROVE  [Rolling!Next]_Rolling!vars
<1>0. agent \in AgentState /\ Handling(h) /\ Possession
  BY DEF TypeOK, AgentTypeOK, SerialInv
<1>1. UNCHANGED <<exists, node, issued>>
  BY DEF hubVars
<1>2. agent.run = "up" /\ agent'.file = agent.file
  BY <1>0
  DEF Send, AgentReceive, ReceiveUnauthorized, ReceiveError, ReceiveOk, Take, AgentState
<1>3. agent.jwt = agent.file /\ agent.jwt \in Accepted /\ agent.jwt \in held
  BY <1>0, <1>2 DEF Possession, Provenance, Running
<1>4. CASE agent'.jwt = agent.jwt
  BY <1>1, <1>2, <1>3, <1>4, Stutter DEF Mapped, Bearer
<1>5. CASE ReceiveOk(h) /\ hb[h].command # NoJti
  <2>1. /\ agent'.run = "saving" /\ agent'.jwt = node.pending
        /\ node.pending # NoJti /\ node.pending \notin held
    BY <1>0, <1>5 DEF ReceiveOk, Take, Handling, AgentState
  <2>2. Bearer = node.active /\ Bearer' = node.pending
    BY <1>2, <1>3, <2>1 DEF Bearer, Running, Accepted
  <2>3. Rolling!Adopt
    BY <1>1, <1>2, <2>1, <2>2 DEF Rolling!Adopt, WhileRegistered
  <2> QED BY <2>3 DEF Rolling!Next
<1>6. agent'.jwt = agent.jwt \/ (ReceiveOk(h) /\ hb[h].command # NoJti)
  BY <1>0
  DEF Send, AgentReceive, ReceiveUnauthorized, ReceiveError, ReceiveOk, Take, AgentState
<1> QED BY <1>4, <1>5, <1>6

\* saveState stores in two steps; a crash takes the agent back to what is stored.
LEMMA ProcessMaps ==
  ASSUME Serial, TypeOK, Provenance, SerialInv, exists, UNCHANGED hubVars,
         \/ Timeout \/ SaveTruncate \/ SaveWrite \/ SaveFail
         \/ Crash \/ Restart \/ RegisterRefused
  PROVE  [Rolling!Next]_Rolling!vars
<1>0. agent \in AgentState /\ Possession
  BY DEF TypeOK, AgentTypeOK, SerialInv
<1>1. UNCHANGED <<exists, node, issued>>
  BY DEF hubVars
<1>2. CASE Timeout
  <2>1. agent'.run = agent.run /\ agent'.jwt = agent.jwt /\ agent'.file = agent.file
    BY <1>0, <1>2 DEF Timeout, AgentState
  <2> QED BY <1>1, <2>1, Stutter DEF Mapped, Bearer
<1>3. CASE SaveTruncate
  <2>1. /\ agent.run = "saving" /\ agent'.run = "writing"
        /\ agent'.jwt = agent.jwt /\ agent'.file = NoJti
        /\ agent.jwt = node.pending /\ agent.file = node.active
    BY <1>0, <1>3 DEF SaveTruncate, AgentState, Possession
  <2>2. Bearer = node.pending /\ Bearer' = node.pending
    BY <2>1 DEF Bearer, Running
  <2>3. Rolling!Erase
    BY <1>1, <2>1, <2>2 DEF Rolling!Erase, WhileRegistered
  <2> QED BY <2>3 DEF Rolling!Next
<1>4. CASE SaveWrite
  <2>1. /\ agent.run = "writing" /\ agent'.run = "up"
        /\ agent'.jwt = agent.jwt /\ agent'.file = agent.jwt
        /\ agent.jwt = node.pending /\ agent.file = NoJti
    BY <1>0, <1>4 DEF SaveWrite, AgentState, Possession
  <2>2. Bearer = node.pending /\ Bearer' = node.pending
    BY <2>1 DEF Bearer, Running
  <2>3. Rolling!Store
    BY <1>1, <2>1, <2>2 DEF Rolling!Store, WhileRegistered
  <2> QED BY <2>3 DEF Rolling!Next
<1>5. CASE SaveFail
  BY <1>5 DEF SaveFail, Serial
<1>6. CASE Crash
  <2>1. Bearer' = agent.file /\ agent'.file = agent.file
    BY <1>0, <1>6 DEF Crash, Bearer, AgentState, Running
  <2>2. Rolling!Recall
    BY <1>1, <2>1 DEF Rolling!Recall, WhileRegistered
  <2> QED BY <2>2 DEF Rolling!Next
<1>7. CASE Restart
  <2>1. Bearer' = Bearer /\ agent'.file = agent.file
    BY <1>0, <1>7 DEF Restart, Bearer, AgentState, Running
  <2> QED BY <1>1, <2>1, Stutter DEF Mapped
<1>8. CASE RegisterRefused
  <2>1. Bearer' = Bearer /\ agent'.file = agent.file
    BY <1>0, <1>8 DEF RegisterRefused, Bearer, AgentState, Running
  <2> QED BY <1>1, <2>1, Stutter DEF Mapped
<1> QED BY <1>2, <1>3, <1>4, <1>5, <1>6, <1>7, <1>8

\* After the removal of the node nothing the mapping reads changes any more.
LEMMA RemovedMaps ==
  ASSUME TypeOK, ~ exists, Next
  PROVE  UNCHANGED Rolling!vars
<1>1. UNCHANGED <<exists, issued>>
  <2>1. CASE HubStep
    BY <2>1
    DEF HubStep, HubHandler, AuthActive, AuthPending, AuthReject, Consolidate,
        Serve, RenewCheck, RenewCommit, RemoveNode, Expire, HubRestart, hubVars
  <2>2. CASE AgentStep \/ NetworkStep
    BY <2>2 DEF AgentStep, NetworkStep, hubVars
  <2> QED BY <2>1, <2>2 DEF Next
<1> QED BY <1>1 DEF Rolling!vars, WhileRegistered

LEMMA StepMaps ==
  Serial /\ TypeOK /\ Provenance /\ SerialInv /\ [Next]_vars
    => [Rolling!Next]_Rolling!vars
<1> SUFFICES ASSUME Serial, TypeOK, Provenance, SerialInv, [Next]_vars
             PROVE  [Rolling!Next]_Rolling!vars
  OBVIOUS
<1>1. CASE UNCHANGED vars
  BY <1>1, Stutter DEF vars, Mapped, Bearer
<1>2. CASE ~ exists /\ Next
  BY <1>2, RemovedMaps
<1>3. CASE exists /\ HubStep
  BY <1>3, HandlerMaps, AdminMaps DEF HubStep
<1>4. CASE exists /\ AgentStep
  BY <1>4, ExchangeMaps, ProcessMaps DEF AgentStep
<1>5. CASE exists /\ NetworkStep
  BY <1>5, Stutter DEF NetworkStep, hubVars, agentVars, Mapped, Bearer
<1> QED BY <1>1, <1>2, <1>3, <1>4, <1>5 DEF Next

\* A serial execution is a rolling credential: consolidation (agents.py:60-69) never
\* retires a token before the agent has the next one in its memory and on its disk
\* (api.go:226-227), and there is never a third token in play.
THEOREM SerialRollsCredential == Serial => (Spec => RollsCredential)
<1> SUFFICES ASSUME Serial PROVE Spec => RollsCredential
  OBVIOUS
<1>1. TypeOK /\ Provenance /\ SerialInv /\ [Next]_vars => [Rolling!Next]_Rolling!vars
  BY StepMaps
<1>2. Spec => []SerialInv
  BY SerialInvariant
<1> QED BY <1>1, <1>2, InitMaps, TypeCorrect, ProvenanceInvariant, PTL
        DEF Spec, RollsCredential, Rolling!Spec
=============================================================================
