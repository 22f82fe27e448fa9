---------------------- MODULE ProvisioningIdentityProofs ----------------------
(***************************************************************************)
(* Whose the nodes are that Provisioning makes, for every value of its     *)
(* constants: nobody acts as another's node, and none is stranded.         *)
(***************************************************************************)
EXTENDS ProvisioningProofs

-----------------------------------------------------------------------------
(***************************************************************************)
(* Identities.  A created request carries a node of its own, made from the *)
(* token of the agent that waits for it, until the agent holds it.         *)
(***************************************************************************)
HoldsOwn ==
  \A a \in Agents : \A n \in Holds(a) :
    node[n].token = agent[a].token /\ node[n].at # "unborn"

HoldsAlone == \A a, b \in Agents : \A n \in Holds(a) : n \in Holds(b) => a = b

CreatedOwn ==
  \A r \in Requests : req[r].at = "created" =>
    /\ node[req[r].node].token = req[r].token /\ node[req[r].node].at # "unborn"
    /\ \A a \in Agents : req[r].node \notin Holds(a)

CreatedAlone ==
  \A r, q \in Requests :
    req[r].at = "created" /\ req[q].at = "created" /\ req[r].node = req[q].node => r = q

WaitsOwn ==
  \A a \in Agents : \A r \in Requests :
    agent[a].waiting = r =>
      /\ req[r].at \in UnderWay => req[r].token = agent[a].token
      /\ \A b \in Agents : agent[b].waiting = r => a = b

BareAgents ==
  \A a \in Agents :
    agent[a].token = None => Holds(a) = {} /\ agent[a].waiting = None

IdentityInv ==
  HoldsOwn /\ HoldsAlone /\ CreatedOwn /\ CreatedAlone /\ WaitsOwn /\ BareAgents

LEMMA IdentityInit == Init => IdentityInv
<1> SUFFICES ASSUME Init PROVE IdentityInv
  OBVIOUS
<1>1. \A a \in Agents : Holds(a) = {}
  BY DEF Init, Holds
<1>2. \A r \in Requests : req[r].at = "idle"
  BY DEF Init, Free
<1>3. \A a \in Agents : agent[a].waiting = None
  BY DEF Init
<1> QED BY <1>1, <1>2, <1>3, ProvisioningAssumption
        DEF IdentityInv, HoldsOwn, HoldsAlone, CreatedOwn, CreatedAlone, WaitsOwn,
            BareAgents, UnderWay, ProvisioningAssumption

(***************************************************************************)
(* The steps that give nobody anything: nodes stay what they are, agents   *)
(* keep their tokens and at most forget, requests at most end or pass.     *)
(***************************************************************************)
NodesStay ==
  \A n \in Nodes : /\ node'[n].token = node[n].token
                   /\ node[n].at # "unborn" => node'[n].at # "unborn"

AgentsForget ==
  \A a \in Agents : /\ agent'[a].token = agent[a].token
                    /\ Holds(a)' \subseteq Holds(a)
                    /\ agent'[a].waiting \in {agent[a].waiting, None}

RequestsEnd ==
  \A r \in Requests :
    \/ req'[r] = req[r]
    \/ req'[r].at \notin UnderWay
    \/ /\ req[r].at = "sent" /\ req'[r].at = "checked"
       /\ req'[r].token = req[r].token /\ req'[r].node = req[r].node

LEMMA IdentityKept ==
  ASSUME TypeInv, IdentityInv, NodesStay, AgentsForget, RequestsEnd
  PROVE  IdentityInv'
<1>0. /\ None \notin Requests
      /\ \A a \in Agents : Holds(a) \subseteq Nodes
      /\ \A r \in Requests : req[r].at = "created" => req[r].node \in Nodes
  BY ProvisioningAssumption DEF TypeInv, TypeOK, RequestsName, Holds, ProvisioningAssumption
<1>1. \A r \in Requests : req'[r].at = "created" => req'[r] = req[r]
  BY DEF RequestsEnd, UnderWay
<1>2. HoldsOwn'
  <2> SUFFICES ASSUME NEW a \in Agents, NEW n \in Holds(a)'
               PROVE  node'[n].token = agent'[a].token /\ node'[n].at # "unborn"
    BY DEF HoldsOwn
  <2>1. n \in Holds(a) /\ n \in Nodes /\ agent'[a].token = agent[a].token
    BY <1>0 DEF AgentsForget
  <2>2. node[n].token = agent[a].token /\ node[n].at # "unborn"
    BY <2>1 DEF IdentityInv, HoldsOwn
  <2> QED BY <2>1, <2>2 DEF NodesStay
<1>3. HoldsAlone'
  <2> SUFFICES ASSUME NEW a \in Agents, NEW b \in Agents, NEW n \in Holds(a)', n \in Holds(b)'
               PROVE  a = b
    BY DEF HoldsAlone
  <2>1. n \in Holds(a) /\ n \in Holds(b)
    BY DEF AgentsForget
  <2> QED BY <2>1 DEF IdentityInv, HoldsAlone
<1>4. CreatedOwn'
  <2> SUFFICES ASSUME NEW r \in Requests, req'[r].at = "created"
               PROVE  /\ node'[req'[r].node].token = req'[r].token
                      /\ node'[req'[r].node].at # "unborn"
                      /\ \A a \in Agents : req'[r].node \notin Holds(a)'
    BY DEF CreatedOwn
  <2>1. req'[r] = req[r] /\ req[r].at = "created" /\ req[r].node \in Nodes
    BY <1>0, <1>1
  <2>2. /\ node[req[r].node].token = req[r].token /\ node[req[r].node].at # "unborn"
        /\ \A a \in Agents : req[r].node \notin Holds(a)
    BY <2>1 DEF IdentityInv, CreatedOwn
  <2>3. \A a \in Agents : req'[r].node \notin Holds(a)'
    BY <2>1, <2>2 DEF AgentsForget
  <2> QED BY <2>1, <2>2, <2>3 DEF NodesStay
<1>5. CreatedAlone'
  BY <1>1 DEF IdentityInv, CreatedAlone
<1>6. WaitsOwn'
  <2> SUFFICES ASSUME NEW a \in Agents, NEW r \in Requests, agent'[a].waiting = r
               PROVE  /\ req'[r].at \in UnderWay => req'[r].token = agent'[a].token
                      /\ \A b \in Agents : agent'[b].waiting = r => a = b
    BY DEF WaitsOwn
  <2>1. /\ agent[a].waiting = r /\ agent'[a].token = agent[a].token
        /\ \A b \in Agents : agent'[b].waiting = r => agent[b].waiting = r
    BY <1>0 DEF AgentsForget
  <2>2. /\ req[r].at \in UnderWay => req[r].token = agent[a].token
        /\ \A b \in Agents : agent[b].waiting = r => a = b
    BY <2>1 DEF IdentityInv, WaitsOwn
  <2>3. req'[r].at \in UnderWay => req[r].at \in UnderWay /\ req'[r].token = req[r].token
    BY DEF RequestsEnd, UnderWay
  <2> QED BY <2>1, <2>2, <2>3
<1>7. BareAgents'
  <2> SUFFICES ASSUME NEW a \in Agents, agent'[a].token = None
               PROVE  Holds(a)' = {} /\ agent'[a].waiting = None
    BY DEF BareAgents
  <2>1. agent[a].token = None /\ Holds(a)' \subseteq Holds(a)
        /\ agent'[a].waiting \in {agent[a].waiting, None}
    BY DEF AgentsForget
  <2>2. Holds(a) = {} /\ agent[a].waiting = None
    BY <2>1 DEF IdentityInv, BareAgents
  <2> QED BY <2>1, <2>2
<1> QED BY <1>2, <1>3, <1>4, <1>5, <1>6, <1>7 DEF IdentityInv

LEMMA NoNews ==
  /\ UNCHANGED node => NodesStay
  /\ UNCHANGED agent => AgentsForget
  /\ UNCHANGED req => RequestsEnd
BY DEF NodesStay, AgentsForget, RequestsEnd, Holds

LEMMA TablesStay ==
  ASSUME TypeInv,
         \/ \E s \in Sites : CreateSite(s) \/ DeleteSite(s)
         \/ \E t \in Tokens : \/ \E s \in Sites : CreateToken(t, s)
                              \/ DeleteToken(t) \/ ExpireToken(t)
         \/ \E n \in Nodes : RemoveNode(n)
  PROVE  NodesStay /\ UNCHANGED <<req, agent, mishap>>
<1>0. node \in [Nodes -> [at : Lifetime, site : Sites \cup {None},
                         token : Tokens \cup {None}]]
  BY DEF TypeInv, TypeOK
<1>1. UNCHANGED <<req, agent, mishap>>
  BY DEF CreateSite, DeleteSite, CreateToken, DeleteToken, ExpireToken, RemoveNode
<1>2. ASSUME NEW s \in Sites, DeleteSite(s)
      PROVE  NodesStay
  BY <1>0, <1>2 DEF DeleteSite, NodesStay
<1>3. ASSUME NEW n \in Nodes, RemoveNode(n)
      PROVE  NodesStay
  BY <1>0, <1>3 DEF RemoveNode, NodesStay
<1>4. CASE UNCHANGED node
  BY <1>1, <1>4, NoNews
<1> QED BY <1>1, <1>2, <1>3, <1>4 DEF CreateSite, CreateToken, DeleteToken, ExpireToken

\* An agent that keeps its token and changes into one that holds no other node.
LEMMA AgentForgets ==
  ASSUME TypeInv, NEW a \in Agents, NEW new \in AgentType,
         agent' = [agent EXCEPT ![a] = new],
         new.token = agent[a].token, new.waiting \in {agent[a].waiting, None},
         {new.jwt, new.file} \subseteq {agent[a].jwt, agent[a].file, None}
  PROVE  AgentsForget
<1>1. agent'[a] = new /\ \A b \in Agents \ {a} : agent'[b] = agent[b]
  BY DEF TypeInv, TypeOK
<1> SUFFICES ASSUME NEW b \in Agents
             PROVE  /\ agent'[b].token = agent[b].token
                    /\ Holds(b)' \subseteq Holds(b)
                    /\ agent'[b].waiting \in {agent[b].waiting, None}
  BY DEF AgentsForget
<1>2. CASE b = a
  BY <1>1, <1>2 DEF Holds
<1>3. CASE b # a
  BY <1>1, <1>3 DEF Holds
<1> QED BY <1>2, <1>3

LEMMA AgentOnly ==
  ASSUME TypeInv, NEW a \in Agents,
         Resume(a) \/ Save(a) \/ SaveFail(a) \/ Timeout(a) \/ Crash(a) \/ Rejected(a)
  PROVE  AgentsForget
<1>0. agent[a] \in AgentType
  BY DEF TypeInv, TypeOK, AgentType
<1>1. CASE Resume(a)
  <2> DEFINE n == [agent[a] EXCEPT !.run = "up", !.jwt = agent[a].file]
  <2>1. n \in AgentType /\ n.token = agent[a].token /\ n.waiting = agent[a].waiting
        /\ n.jwt = agent[a].file /\ n.file = agent[a].file
    BY <1>0 DEF AgentType
  <2>2. agent' = [agent EXCEPT ![a] = n]
    BY <1>1 DEF Resume
  <2> HIDE DEF n
  <2> QED BY <2>1, <2>2, AgentForgets
<1>2. CASE Save(a)
  <2> DEFINE n == [agent[a] EXCEPT !.run = "up", !.file = agent[a].jwt]
  <2>1. n \in AgentType /\ n.token = agent[a].token /\ n.waiting = agent[a].waiting
        /\ n.jwt = agent[a].jwt /\ n.file = agent[a].jwt
    BY <1>0 DEF AgentType
  <2>2. agent' = [agent EXCEPT ![a] = n]
    BY <1>2 DEF Save
  <2> HIDE DEF n
  <2> QED BY <2>1, <2>2, AgentForgets
<1>3. CASE SaveFail(a)
  <2> DEFINE n == [agent[a] EXCEPT !.run = "failed", !.jwt = None]
  <2>1. n \in AgentType /\ n.token = agent[a].token /\ n.waiting = agent[a].waiting
        /\ n.jwt = None /\ n.file = agent[a].file
    BY <1>0 DEF AgentType
  <2>2. agent' = [agent EXCEPT ![a] = n]
    BY <1>3 DEF SaveFail
  <2> HIDE DEF n
  <2> QED BY <2>1, <2>2, AgentForgets
<1>4. CASE Timeout(a) \/ Rejected(a)
  <2> DEFINE n == [agent[a] EXCEPT !.run = "failed", !.waiting = None]
  <2>1. n \in AgentType /\ n.token = agent[a].token /\ n.waiting = None
        /\ n.jwt = agent[a].jwt /\ n.file = agent[a].file
    BY <1>0 DEF AgentType
  <2>2. agent' = [agent EXCEPT ![a] = n]
    BY <1>4 DEF Timeout, Rejected
  <2> HIDE DEF n
  <2> QED BY <2>1, <2>2, AgentForgets
<1>5. CASE Crash(a)
  <2> DEFINE n == [agent[a] EXCEPT !.run = "off", !.jwt = None, !.waiting = None]
  <2>1. n \in AgentType /\ n.token = agent[a].token /\ n.waiting = None
        /\ n.jwt = None /\ n.file = agent[a].file
    BY <1>0 DEF AgentType
  <2>2. agent' = [agent EXCEPT ![a] = n]
    BY <1>5 DEF Crash
  <2> HIDE DEF n
  <2> QED BY <2>1, <2>2, AgentForgets
<1> QED BY <1>1, <1>2, <1>3, <1>4, <1>5

LEMMA RequestOnly ==
  ASSUME TypeInv, NEW r \in Requests,
         \/ Passed(r)
         \/ req' = [req EXCEPT ![r] = [@ EXCEPT !.at = "refused"]]
         \/ req' = [req EXCEPT ![r] = Free]
  PROVE  RequestsEnd
<1>1. CASE Passed(r)
  BY <1>1, PassedEffect DEF RequestsEnd, Passed
<1>2. CASE req' = [req EXCEPT ![r] = [@ EXCEPT !.at = "refused"]]
  BY <1>2, RefusedEffect DEF RequestsEnd, UnderWay
<1>3. CASE req' = [req EXCEPT ![r] = Free]
  BY <1>3, FreedEffect DEF RequestsEnd, UnderWay
<1> QED BY <1>1, <1>2, <1>3

LEMMA WaitingIsRequest ==
  ASSUME TypeInv, NEW a \in Agents, agent[a].run = "registering"
  PROVE  agent[a].waiting \in Requests
<1>1. agent \in [Agents -> AgentType]
  BY DEF TypeInv, TypeOK, AgentType
<1>2. agent[a].waiting # None
  BY DEF TypeInv, AgentsWait
<1> QED BY <1>1, <1>2 DEF AgentType

\* What is left are the four steps that give something to somebody.
LEMMA GivingCases ==
  ASSUME TypeInv, [Next]_vars
  PROVE  \/ \E a \in Agents, t \in Tokens : Install(a, t)
         \/ \E r \in Requests, n \in Nodes : Committed(r, n)
         \/ \E a \in Agents, r \in Requests : Start(a, r)
         \/ \E a \in Agents : Registered(a)
         \/ NodesStay /\ AgentsForget /\ RequestsEnd
<1>1. ASSUME NEW r \in Requests, Passed(r) \/ Refused(r) \/ Fail(r) \/ Lose(r)
      PROVE  NodesStay /\ AgentsForget /\ RequestsEnd
  BY <1>1, RequestOnly, NoNews DEF Passed, Refused, Fail, Refuse, Lose
<1>2. ASSUME NEW a \in Agents,
             Resume(a) \/ Save(a) \/ SaveFail(a) \/ Timeout(a) \/ Crash(a)
      PROVE  NodesStay /\ AgentsForget /\ RequestsEnd
  BY <1>2, AgentOnly, NoNews DEF Resume, Save, SaveFail, Timeout, Crash
<1>3. ASSUME NEW a \in Agents, Rejected(a)
      PROVE  NodesStay /\ AgentsForget /\ RequestsEnd
  BY <1>3, AgentOnly, WaitingIsRequest, RequestOnly, NoNews DEF Rejected
<1>4. CASE UNCHANGED vars
  BY <1>4, NoNews DEF vars
<1>5. CASE Next
  BY <1>1, <1>2, <1>3, <1>5, HandleCases, TablesStay, NoNews DEF Next, Administer, Run
<1> QED BY <1>4, <1>5

LEMMA RegisteredEffect ==
  ASSUME TypeInv, NEW a \in Agents, Registered(a)
  PROVE  LET r == agent[a].waiting
         IN /\ r \in Requests /\ req[r].at = "created" /\ req[r].node \in Nodes
            /\ req'[r].at = "idle"
            /\ \A q \in Requests \ {r} : req'[q] = req[q]
            /\ agent'[a].run = "saving" /\ agent'[a].waiting = None
            /\ agent'[a].token = agent[a].token
            /\ agent'[a].jwt = req[r].node /\ agent'[a].file = agent[a].file
            /\ \A b \in Agents \ {a} : agent'[b] = agent[b]
            /\ node' = node /\ mishap' = mishap
<1> DEFINE r == agent[a].waiting
<1>0. agent \in [Agents -> AgentType]
  BY DEF TypeInv, TypeOK, AgentType
<1>1. agent[a].run = "registering" /\ req[r].at = "created"
  BY DEF Registered
<1>2. r \in Requests
  BY <1>1, WaitingIsRequest
<1>3. req[r].node \in Nodes
  BY <1>1, <1>2 DEF TypeInv, RequestsName
<1>4. req'[r].at = "idle" /\ \A q \in Requests \ {r} : req'[q] = req[q]
  <2>1. req' = [req EXCEPT ![r] = Free]
    BY DEF Registered
  <2> QED BY <1>2, <2>1, FreedEffect
<1>5. /\ agent'[a].run = "saving" /\ agent'[a].waiting = None
      /\ agent'[a].token = agent[a].token
      /\ agent'[a].jwt = req[r].node /\ agent'[a].file = agent[a].file
      /\ \A b \in Agents \ {a} : agent'[b] = agent[b]
  <2>1. agent' = [agent EXCEPT ![a] = [@ EXCEPT !.run = "saving", !.waiting = None,
                                                !.jwt = req[r].node]]
    BY DEF Registered
  <2> QED BY <1>0, <2>1 DEF AgentType
<1>6. node' = node /\ mishap' = mishap
  BY DEF Registered
<1> QED BY <1>1, <1>2, <1>3, <1>4, <1>5, <1>6

LEMMA InstallEffect ==
  ASSUME TypeInv, NEW a \in Agents, NEW t \in Tokens, Install(a, t)
  PROVE  /\ agent[a].token = None /\ agent'[a].token = t /\ t # None
         /\ agent'[a].jwt = agent[a].jwt /\ agent'[a].file = agent[a].file
         /\ agent'[a].waiting = agent[a].waiting /\ agent'[a].run = agent[a].run
         /\ \A b \in Agents \ {a} : agent'[b] = agent[b]
         /\ UNCHANGED <<node, req, mishap>>
<1>0. agent \in [Agents -> AgentType]
  BY DEF TypeInv, TypeOK, AgentType
<1>1. t # None
  BY ProvisioningAssumption DEF ProvisioningAssumption
<1>2. agent' = [agent EXCEPT ![a].token = t] /\ agent[a].token = None
  BY DEF Install
<1>3. UNCHANGED <<node, req, mishap>>
  BY DEF Install
<1> QED BY <1>0, <1>1, <1>2, <1>3 DEF AgentType

LEMMA IdentityInstall ==
  ASSUME TypeInv, IdentityInv, NEW a \in Agents, NEW t \in Tokens, Install(a, t)
  PROVE  IdentityInv'
<1>1. Holds(a) = {} /\ agent[a].waiting = None
  BY InstallEffect DEF IdentityInv, BareAgents
<1>2. \A b \in Agents : Holds(b)' = Holds(b) /\ agent'[b].waiting = agent[b].waiting
  BY InstallEffect DEF Holds
<1>3. node' = node /\ req' = req
  BY InstallEffect
<1>4. \A b \in Agents \ {a} : agent'[b].token = agent[b].token
  BY InstallEffect
<1>5. HoldsOwn'
  BY <1>1, <1>2, <1>3, <1>4 DEF IdentityInv, HoldsOwn
<1>6. HoldsAlone'
  BY <1>2 DEF IdentityInv, HoldsAlone
<1>7. CreatedOwn' /\ CreatedAlone'
  BY <1>2, <1>3 DEF IdentityInv, CreatedOwn, CreatedAlone
<1>8. WaitsOwn'
  <2>1. None \notin Requests
    BY ProvisioningAssumption DEF ProvisioningAssumption
  <2> QED BY <1>1, <1>2, <1>3, <1>4, <2>1 DEF IdentityInv, WaitsOwn
<1>9. BareAgents'
  BY <1>1, <1>2, <1>4 DEF IdentityInv, BareAgents
<1> QED BY <1>5, <1>6, <1>7, <1>8, <1>9 DEF IdentityInv

LEMMA IdentityCommitted ==
  ASSUME TypeInv, IdentityInv, NEW r \in Requests, NEW n \in Nodes, Committed(r, n)
  PROVE  IdentityInv'
<1>1. /\ node'[n].at = "live" /\ node'[n].token = req[r].token
      /\ \A m \in Nodes \ {n} : node'[m] = node[m]
      /\ req'[r].at = "created" /\ req'[r].token = req[r].token /\ req'[r].node = n
      /\ \A q \in Requests \ {r} : req'[q] = req[q]
  BY CommittedEffect
<1>2. agent' = agent /\ node[n].at = "unborn" /\ req[r].at = "checked"
  BY DEF Committed
<1>3. \A a \in Agents : Holds(a)' = Holds(a) /\ Holds(a) \subseteq Nodes \ {n}
  <2>1. \A a \in Agents : Holds(a)' = Holds(a) /\ Holds(a) \subseteq Nodes
    BY <1>2 DEF Holds, TypeInv, TypeOK
  <2>2. \A a \in Agents : n \notin Holds(a)
    BY <1>2 DEF IdentityInv, HoldsOwn
  <2> QED BY <2>1, <2>2
<1>4. \A q \in Requests \ {r} : req[q].at = "created" => req[q].node \in Nodes \ {n}
  <2>1. \A q \in Requests : req[q].at = "created" => req[q].node \in Nodes
    BY DEF TypeInv, RequestsName
  <2>2. \A q \in Requests : req[q].at = "created" => req[q].node # n
    BY <1>2 DEF IdentityInv, CreatedOwn
  <2> QED BY <2>1, <2>2
<1>5. HoldsOwn'
  BY <1>1, <1>2, <1>3 DEF IdentityInv, HoldsOwn
<1>6. HoldsAlone'
  BY <1>3 DEF IdentityInv, HoldsAlone
<1>7. CreatedOwn'
  <2> SUFFICES ASSUME NEW q \in Requests, req'[q].at = "created"
               PROVE  /\ node'[req'[q].node].token = req'[q].token
                      /\ node'[req'[q].node].at # "unborn"
                      /\ \A a \in Agents : req'[q].node \notin Holds(a)'
    BY DEF CreatedOwn
  <2>1. CASE q = r
    BY <1>1, <1>3, <2>1
  <2>2. CASE q # r
    <3>1. req'[q] = req[q] /\ node'[req[q].node] = node[req[q].node]
      BY <1>1, <1>4, <2>2
    <3> QED BY <1>3, <3>1 DEF IdentityInv, CreatedOwn
  <2> QED BY <2>1, <2>2
<1>8. CreatedAlone'
  <2> SUFFICES ASSUME NEW p \in Requests, NEW q \in Requests,
                      req'[p].at = "created", req'[q].at = "created",
                      req'[p].node = req'[q].node
               PROVE  p = q
    BY DEF CreatedAlone
  <2>1. CASE p = r \/ q = r
    BY <1>1, <1>4, <2>1
  <2>2. CASE p # r /\ q # r
    BY <1>1, <2>2 DEF IdentityInv, CreatedAlone
  <2> QED BY <2>1, <2>2
<1>9. WaitsOwn'
  <2>1. \A q \in Requests : /\ req'[q].token = req[q].token
                            /\ req'[q].at \in UnderWay => req[q].at \in UnderWay
    BY <1>1, <1>2 DEF UnderWay
  <2> QED BY <1>2, <2>1 DEF IdentityInv, WaitsOwn
<1>10. BareAgents'
  BY <1>2, <1>3 DEF IdentityInv, BareAgents
<1> QED BY <1>5, <1>6, <1>7, <1>8, <1>9, <1>10 DEF IdentityInv

LEMMA IdentityStart ==
  ASSUME TypeInv, IdentityInv, NEW a \in Agents, NEW r \in Requests, Start(a, r)
  PROVE  IdentityInv'
<1>1. /\ agent[a].token # None
      /\ req'[r].at = "sent" /\ req'[r].token = agent[a].token
      /\ \A q \in Requests \ {r} : req'[q] = req[q]
      /\ agent'[a].waiting = r /\ agent'[a].token = agent[a].token
      /\ agent'[a].jwt = agent[a].jwt /\ agent'[a].file = agent[a].file
      /\ \A b \in Agents \ {a} : agent'[b] = agent[b]
  BY StartedEffect
<1>2. node' = node /\ \A b \in Agents : agent[b].waiting # r
  BY DEF Start
<1>3. \A b \in Agents : Holds(b)' = Holds(b) /\ agent'[b].token = agent[b].token
  BY <1>1 DEF Holds
<1>4. \A q \in Requests : req'[q].at = "created" => req'[q] = req[q]
  <2> SUFFICES ASSUME NEW q \in Requests, req'[q].at = "created" PROVE req'[q] = req[q]
    OBVIOUS
  <2>1. q # r
    BY <1>1
  <2> QED BY <1>1, <2>1
<1>5. HoldsOwn' /\ HoldsAlone'
  BY <1>2, <1>3 DEF IdentityInv, HoldsOwn, HoldsAlone
<1>6. CreatedOwn' /\ CreatedAlone'
  BY <1>2, <1>3, <1>4 DEF IdentityInv, CreatedOwn, CreatedAlone
<1>7. WaitsOwn'
  <2> SUFFICES ASSUME NEW b \in Agents, NEW q \in Requests, agent'[b].waiting = q
               PROVE  /\ req'[q].at \in UnderWay => req'[q].token = agent'[b].token
                      /\ \A c \in Agents : agent'[c].waiting = q => b = c
    BY DEF WaitsOwn
  <2>1. CASE b = a
    BY <1>1, <1>2, <2>1
  <2>2. CASE b # a
    <3>1. agent'[b] = agent[b] /\ q # r /\ req'[q] = req[q]
      BY <1>1, <1>2, <2>2
    <3>2. /\ req[q].at \in UnderWay => req[q].token = agent[b].token
          /\ \A c \in Agents : agent[c].waiting = q => b = c
      BY <3>1 DEF IdentityInv, WaitsOwn
    <3>3. \A c \in Agents : agent'[c].waiting = q => agent[c].waiting = q
      BY <1>1, <3>1
    <3> QED BY <3>1, <3>2, <3>3
  <2> QED BY <2>1, <2>2
<1>8. BareAgents'
  BY <1>1, <1>3 DEF IdentityInv, BareAgents
<1> QED BY <1>5, <1>6, <1>7, <1>8 DEF IdentityInv

LEMMA IdentityRegistered ==
  ASSUME TypeInv, IdentityInv, NEW a \in Agents, Registered(a)
  PROVE  IdentityInv'
<1> DEFINE r == agent[a].waiting
           new == req[r].node
<1>1. /\ r \in Requests /\ req[r].at = "created" /\ new \in Nodes
      /\ req'[r].at = "idle"
      /\ \A q \in Requests \ {r} : req'[q] = req[q]
      /\ agent'[a].waiting = None /\ agent'[a].token = agent[a].token
      /\ agent'[a].jwt = new /\ agent'[a].file = agent[a].file
      /\ \A b \in Agents \ {a} : agent'[b] = agent[b]
      /\ node' = node
  BY RegisteredEffect
<1>2. /\ node[new].token = agent[a].token /\ node[new].at # "unborn"
      /\ \A b \in Agents : new \notin Holds(b)
  BY <1>1 DEF IdentityInv, CreatedOwn, WaitsOwn, UnderWay
<1>3. /\ Holds(a)' \subseteq Holds(a) \cup {new}
      /\ \A b \in Agents \ {a} : Holds(b)' = Holds(b)
  BY <1>1 DEF Holds
<1>4. \A b \in Agents : agent'[b].token = agent[b].token
  BY <1>1
<1>5. \A q \in Requests : req'[q].at = "created" =>
        q # r /\ req'[q] = req[q] /\ req[q].node # new
  <2> SUFFICES ASSUME NEW q \in Requests, req'[q].at = "created"
               PROVE  q # r /\ req'[q] = req[q] /\ req[q].node # new
    OBVIOUS
  <2>1. q # r
    BY <1>1
  <2>2. req'[q] = req[q]
    BY <1>1, <2>1
  <2> QED BY <1>1, <2>1, <2>2 DEF IdentityInv, CreatedAlone
<1>6. HoldsOwn'
  BY <1>1, <1>2, <1>3, <1>4 DEF IdentityInv, HoldsOwn
<1>7. HoldsAlone'
  <2> SUFFICES ASSUME NEW b \in Agents, NEW c \in Agents,
                      NEW n \in Holds(b)', n \in Holds(c)'
               PROVE  b = c
    BY DEF HoldsAlone
  <2>1. CASE n = new
    BY <1>2, <1>3, <2>1
  <2>2. CASE n # new
    <3>1. n \in Holds(b) /\ n \in Holds(c)
      BY <1>3, <2>2
    <3> QED BY <3>1 DEF IdentityInv, HoldsAlone
  <2> QED BY <2>1, <2>2
<1>8. CreatedOwn'
  <2> SUFFICES ASSUME NEW q \in Requests, req'[q].at = "created"
               PROVE  /\ node'[req'[q].node].token = req'[q].token
                      /\ node'[req'[q].node].at # "unborn"
                      /\ \A b \in Agents : req'[q].node \notin Holds(b)'
    BY DEF CreatedOwn
  <2>1. req'[q] = req[q] /\ req[q].at = "created" /\ req[q].node # new
    BY <1>5
  <2>2. /\ node[req[q].node].token = req[q].token /\ node[req[q].node].at # "unborn"
        /\ \A b \in Agents : req[q].node \notin Holds(b)
    BY <2>1 DEF IdentityInv, CreatedOwn
  <2> QED BY <1>1, <1>3, <2>1, <2>2
<1>9. CreatedAlone'
  BY <1>5 DEF IdentityInv, CreatedAlone
<1>10. WaitsOwn'
  <2> SUFFICES ASSUME NEW b \in Agents, NEW q \in Requests, agent'[b].waiting = q
               PROVE  /\ req'[q].at \in UnderWay => req'[q].token = agent'[b].token
                      /\ \A c \in Agents : agent'[c].waiting = q => b = c
    BY DEF WaitsOwn
  <2>0. None \notin Requests
    BY ProvisioningAssumption DEF ProvisioningAssumption
  <2>1. b # a /\ agent'[b] = agent[b]
    BY <1>1, <2>0
  <2>2. /\ req[q].at \in UnderWay => req[q].token = agent[b].token
        /\ \A c \in Agents : agent[c].waiting = q => b = c
    BY <2>1 DEF IdentityInv, WaitsOwn
  <2>3. \A c \in Agents : agent'[c].waiting = q => agent[c].waiting = q
    BY <1>1, <2>0
  <2>4. q # r
    BY <2>1, <2>2
  <2> QED BY <1>1, <2>1, <2>2, <2>3, <2>4
<1>11. BareAgents'
  <2>1. agent[a].token # None
    <3>1. agent[a].waiting # None
      BY DEF Registered, TypeInv, AgentsWait
    <3> QED BY <3>1 DEF IdentityInv, BareAgents
  <2> QED BY <1>1, <1>3, <2>1 DEF IdentityInv, BareAgents
<1> QED BY <1>6, <1>7, <1>8, <1>9, <1>10, <1>11 DEF IdentityInv

LEMMA IdentityStep ==
  ASSUME TypeInv, IdentityInv, [Next]_vars
  PROVE  IdentityInv'
BY GivingCases, IdentityInstall, IdentityCommitted, IdentityStart, IdentityRegistered,
   IdentityKept

\* No two agents act as the same node, and an agent acts as a node made from the token
\* it was installed with, whatever is lost, repeated or fails and even with two
\* registrations of one token under way (agents.py:116-136, api.go:121-143).
THEOREM OwnIdentities == Spec => []OwnIdentity
<1>1. Init => TypeInv /\ IdentityInv
  BY TypeInit, IdentityInit
<1>2. TypeInv /\ IdentityInv /\ [Next]_vars => (TypeInv /\ IdentityInv)'
  BY TypeStep, IdentityStep
<1>3. IdentityInv => OwnIdentity
  BY DEF IdentityInv, HoldsOwn, HoldsAlone, OwnIdentity
<1> QED BY <1>1, <1>2, <1>3, PTL DEF Spec

-----------------------------------------------------------------------------
(***************************************************************************)
(* Nothing stranded.  The token of every node, and of every request under  *)
(* way, is one that some agent was installed with; an agent with a token   *)
(* of its own and no mishap waits for the request that works on it.        *)
(***************************************************************************)
TokensHaveAgents ==
  /\ \A n \in Nodes : node[n].token # None =>
       \E b \in Agents : agent[b].token = node[n].token
  /\ \A r \in Requests : req[r].at \in {"sent", "checked"} =>
       \E b \in Agents : agent[b].token = req[r].token

WaitsForWork ==
  \A a \in Agents \ mishap : \A r \in Requests :
    /\ Unshared(a)
    /\ req[r].at \in {"sent", "checked"} /\ req[r].token = agent[a].token
    => agent[a].waiting = r

RefusalsEmpty ==
  \A r \in Requests : req[r].at = "refused" /\ req[r].node # None =>
    \A a \in Agents : agent[a].waiting = r => a \in mishap

HoldsInTurn ==
  \A a \in Agents :
    /\ agent[a].run \in {"off", "failed", "registering"} => agent[a].jwt = None
    /\ agent[a].run \in {"registering", "saving"} => agent[a].file = None

StrandInv ==
  NothingStranded /\ TokensHaveAgents /\ WaitsForWork /\ RefusalsEmpty /\ HoldsInTurn

LEMMA StrandInit == Init => StrandInv
<1> SUFFICES ASSUME Init PROVE StrandInv
  OBVIOUS
<1>1. \A n \in Nodes : node[n].token = None
  BY DEF Init
<1>2. \A r \in Requests : req[r].at = "idle"
  BY DEF Init, Free
<1>3. \A a \in Agents : agent[a].jwt = None /\ agent[a].file = None
  BY DEF Init
<1> QED BY <1>1, <1>2, <1>3 DEF StrandInv, NothingStranded, TokensHaveAgents,
                                WaitsForWork, RefusalsEmpty, HoldsInTurn

LEMMA StrandTables ==
  ASSUME TypeInv, StrandInv, NodesStay, UNCHANGED <<req, agent, mishap>>
  PROVE  StrandInv'
<1>1. \A n \in Nodes : node'[n].token = node[n].token
  BY DEF NodesStay
<1>2. \A a \in Agents : /\ Holds(a)' = Holds(a) /\ ToldOf(a)' = ToldOf(a)
                       /\ Unshared(a)' = Unshared(a)
  BY DEF Holds, ToldOf, Unshared
<1>3. NothingStranded'
  BY <1>1, <1>2 DEF StrandInv, NothingStranded
<1>4. TokensHaveAgents' /\ WaitsForWork'
  BY <1>1, <1>2 DEF StrandInv, TokensHaveAgents, WaitsForWork
<1>5. RefusalsEmpty' /\ HoldsInTurn'
  BY DEF StrandInv, RefusalsEmpty, HoldsInTurn
<1> QED BY <1>3, <1>4, <1>5 DEF StrandInv

\* A step of one request, which its agent learns of or counts as a mishap.
LEMMA StrandRequest ==
  ASSUME TypeInv, StrandInv, NEW r \in Requests,
         UNCHANGED <<node, agent>>, mishap \subseteq mishap',
         \A q \in Requests \ {r} : req'[q] = req[q],
         \A a \in Agents \ mishap' :
           agent[a].waiting = r => req'[r].node = req[r].node,
         req'[r].at \in {"sent", "checked"} =>
           req[r].at \in {"sent", "checked"} /\ req'[r].token = req[r].token,
         req'[r].at = "refused" /\ req'[r].node # None =>
           \A a \in Agents : agent[a].waiting = r => a \in mishap'
  PROVE  StrandInv'
<1>1. \A a \in Agents : Holds(a)' = Holds(a) /\ Unshared(a)' = Unshared(a)
  BY DEF Holds, Unshared
<1>2. \A a \in Agents \ mishap' : ToldOf(a)' = ToldOf(a)
  BY DEF ToldOf
<1>3. NothingStranded'
  BY <1>1, <1>2 DEF StrandInv, NothingStranded
<1>4. \A q \in Requests : req'[q].at \in {"sent", "checked"} =>
        req[q].at \in {"sent", "checked"} /\ req'[q].token = req[q].token
  OBVIOUS
<1>5. TokensHaveAgents' /\ WaitsForWork'
  BY <1>1, <1>4 DEF StrandInv, TokensHaveAgents, WaitsForWork
<1>6. RefusalsEmpty'
  BY DEF StrandInv, RefusalsEmpty
<1>7. HoldsInTurn'
  BY DEF StrandInv, HoldsInTurn
<1> QED BY <1>3, <1>5, <1>6, <1>7 DEF StrandInv

\* A step of one agent that drops nothing, or counts as a mishap.
LEMMA StrandAgent ==
  ASSUME TypeInv, StrandInv, NEW a \in Agents,
         UNCHANGED <<node, req>>, mishap \subseteq mishap',
         \A b \in Agents \ {a} : agent'[b] = agent[b],
         agent'[a].token = agent[a].token,
         agent'[a].waiting \in {agent[a].waiting, None},
         \/ a \in mishap'
         \/ agent'[a].waiting = agent[a].waiting /\ Holds(a) \subseteq Holds(a)',
         agent'[a].run \in {"off", "failed", "registering"} => agent'[a].jwt = None,
         agent'[a].run \in {"registering", "saving"} => agent'[a].file = None
  PROVE  StrandInv'
<1>0. None \notin Requests
  BY ProvisioningAssumption DEF ProvisioningAssumption
<1>1. \A b \in Agents : agent'[b].token = agent[b].token
  OBVIOUS
<1>2. \A b \in Agents : Unshared(b)' = Unshared(b)
  BY <1>1 DEF Unshared
<1>3. \A b \in Agents \ mishap' :
        /\ agent'[b].waiting = agent[b].waiting
        /\ Holds(b) \subseteq Holds(b)' /\ ToldOf(b)' = ToldOf(b)
  BY DEF Holds, ToldOf
<1>4. NothingStranded'
  BY <1>1, <1>2, <1>3 DEF StrandInv, NothingStranded
<1>5. TokensHaveAgents'
  BY <1>1 DEF StrandInv, TokensHaveAgents
<1>6. WaitsForWork'
  BY <1>1, <1>2, <1>3 DEF StrandInv, WaitsForWork
<1>7. RefusalsEmpty'
  BY <1>0 DEF StrandInv, RefusalsEmpty
<1>8. HoldsInTurn'
  BY DEF StrandInv, HoldsInTurn
<1> QED BY <1>4, <1>5, <1>6, <1>7, <1>8 DEF StrandInv

LEMMA StrandRequests ==
  ASSUME TypeInv, StrandInv, NEW r \in Requests,
         \/ Passed(r)
         \/ req[r].at \in {"sent", "checked"} /\ Refused(r)
         \/ Fail(r)
         \/ Lose(r)
  PROVE  StrandInv'
<1>0. \A a \in Agents : agent[a].waiting = r <=> a \in Waiting(r)
  BY DEF Waiting
<1>1. CASE Passed(r)
  BY <1>1, PassedEffect, StrandRequest DEF Passed
<1>2. CASE req[r].at \in {"sent", "checked"} /\ Refused(r)
  <2>1. req[r].node = None
    BY <1>2 DEF TypeInv, RequestsName
  <2> QED BY <1>2, <2>1, RefusedEffect, StrandRequest DEF Refused
<1>3. CASE Fail(r)
  <2>1. /\ req'[r].at = "refused" /\ req'[r].node = req[r].node
        /\ \A q \in Requests \ {r} : req'[q] = req[q]
    BY <1>3, RefusedEffect DEF Fail, Refuse
  <2>2. /\ UNCHANGED <<node, agent>> /\ mishap \subseteq mishap'
        /\ \A a \in Agents : agent[a].waiting = r => a \in mishap'
    BY <1>0, <1>3 DEF Fail
  <2> QED BY <2>1, <2>2, StrandRequest
<1>4. CASE Lose(r)
  <2>1. req'[r].at = "idle" /\ \A q \in Requests \ {r} : req'[q] = req[q]
    BY <1>4, FreedEffect DEF Lose
  <2>2. /\ UNCHANGED <<node, agent>> /\ mishap \subseteq mishap'
        /\ \A a \in Agents : agent[a].waiting = r => a \in mishap'
    BY <1>0, <1>4 DEF Lose
  <2> QED BY <2>1, <2>2, StrandRequest
<1> QED BY <1>1, <1>2, <1>3, <1>4

LEMMA StrandAgents ==
  ASSUME TypeInv, StrandInv, NEW a \in Agents,
         Resume(a) \/ Save(a) \/ SaveFail(a) \/ Timeout(a) \/ Crash(a)
  PROVE  StrandInv'
<1>0. /\ agent \in [Agents -> AgentType]
      /\ agent[a].run \in {"off", "failed", "registering"} => agent[a].jwt = None
      /\ agent[a].run \in {"registering", "saving"} => agent[a].file = None
  BY DEF TypeInv, TypeOK, AgentType, StrandInv, HoldsInTurn
<1>1. CASE Resume(a)
  <2>1. agent' = [agent EXCEPT ![a] = [@ EXCEPT !.run = "up", !.jwt = agent[a].file]]
        /\ UNCHANGED <<node, req, mishap>>
    BY <1>1 DEF Resume
  <2>2. /\ \A b \in Agents \ {a} : agent'[b] = agent[b]
        /\ agent'[a].run = "up" /\ agent'[a].token = agent[a].token
        /\ agent'[a].waiting = agent[a].waiting
        /\ agent'[a].jwt = agent[a].file /\ agent'[a].file = agent[a].file
    BY <1>0, <2>1 DEF AgentType
  <2>3. agent[a].jwt = None
    BY <1>0, <1>1 DEF Resume
  <2>4. Holds(a) \subseteq Holds(a)'
    BY <2>2, <2>3 DEF Holds
  <2> QED BY <2>1, <2>2, <2>4, StrandAgent
<1>2. CASE Save(a)
  <2>1. agent' = [agent EXCEPT ![a] = [@ EXCEPT !.run = "up", !.file = agent[a].jwt]]
        /\ UNCHANGED <<node, req, mishap>>
    BY <1>2 DEF Save
  <2>2. /\ \A b \in Agents \ {a} : agent'[b] = agent[b]
        /\ agent'[a].run = "up" /\ agent'[a].token = agent[a].token
        /\ agent'[a].waiting = agent[a].waiting
        /\ agent'[a].jwt = agent[a].jwt /\ agent'[a].file = agent[a].jwt
    BY <1>0, <2>1 DEF AgentType
  <2>3. agent[a].file = None
    BY <1>0, <1>2 DEF Save
  <2>4. Holds(a) \subseteq Holds(a)'
    BY <2>2, <2>3 DEF Holds
  <2> QED BY <2>1, <2>2, <2>4, StrandAgent
<1>3. CASE SaveFail(a)
  <2>1. agent' = [agent EXCEPT ![a] = [@ EXCEPT !.run = "failed", !.jwt = None]]
        /\ UNCHANGED <<node, req>> /\ mishap' = mishap \cup {a}
    BY <1>3 DEF SaveFail
  <2>2. /\ \A b \in Agents \ {a} : agent'[b] = agent[b]
        /\ agent'[a].run = "failed" /\ agent'[a].token = agent[a].token
        /\ agent'[a].waiting = agent[a].waiting /\ agent'[a].jwt = None
    BY <1>0, <2>1 DEF AgentType
  <2> QED BY <2>1, <2>2, StrandAgent
<1>4. CASE Timeout(a)
  <2>1. agent' = [agent EXCEPT ![a] = [@ EXCEPT !.run = "failed", !.waiting = None]]
        /\ UNCHANGED <<node, req>> /\ mishap' = mishap \cup {a}
        /\ agent[a].run = "registering"
    BY <1>4 DEF Timeout
  <2>2. /\ \A b \in Agents \ {a} : agent'[b] = agent[b]
        /\ agent'[a].run = "failed" /\ agent'[a].token = agent[a].token
        /\ agent'[a].waiting = None /\ agent'[a].jwt = agent[a].jwt
    BY <1>0, <2>1 DEF AgentType
  <2>3. agent[a].jwt = None
    BY <1>0, <2>1
  <2> QED BY <2>1, <2>2, <2>3, StrandAgent
<1>5. CASE Crash(a)
  <2>1. agent' = [agent EXCEPT ![a] = [@ EXCEPT !.run = "off", !.jwt = None,
                                                !.waiting = None]]
        /\ UNCHANGED <<node, req>> /\ mishap' = mishap \cup {a}
    BY <1>5 DEF Crash
  <2>2. /\ \A b \in Agents \ {a} : agent'[b] = agent[b]
        /\ agent'[a].run = "off" /\ agent'[a].token = agent[a].token
        /\ agent'[a].waiting = None /\ agent'[a].jwt = None
    BY <1>0, <2>1 DEF AgentType
  <2> QED BY <2>1, <2>2, StrandAgent
<1> QED BY <1>1, <1>2, <1>3, <1>4, <1>5

LEMMA StrandInstall ==
  ASSUME TypeInv, IdentityInv, StrandInv,
         NEW a \in Agents, NEW t \in Tokens, Install(a, t)
  PROVE  StrandInv'
<1>1. /\ agent[a].token = None /\ agent'[a].token = t /\ t # None
      /\ agent'[a].jwt = agent[a].jwt /\ agent'[a].file = agent[a].file
      /\ agent'[a].waiting = agent[a].waiting /\ agent'[a].run = agent[a].run
      /\ \A b \in Agents \ {a} : agent'[b] = agent[b]
      /\ node' = node /\ req' = req /\ mishap' = mishap
  BY InstallEffect
<1>2. \A b \in Agents : /\ Holds(b)' = Holds(b) /\ ToldOf(b)' = ToldOf(b)
                       /\ agent'[b].waiting = agent[b].waiting
  BY <1>1 DEF Holds, ToldOf
\* Somebody else has the token of everything that exists.
<1>3. /\ \A n \in Nodes : node[n].token # None =>
           \E b \in Agents \ {a} : agent[b].token = node[n].token
      /\ \A r \in Requests : req[r].at \in {"sent", "checked"} =>
           req[r].token # None /\ \E b \in Agents \ {a} : agent[b].token = req[r].token
  <2>1. \A r \in Requests : req[r].at \in {"sent", "checked"} => req[r].token # None
    BY ProvisioningAssumption
       DEF TypeInv, RequestsName, UnderWay, ProvisioningAssumption
  <2> QED BY <1>1, <2>1 DEF StrandInv, TokensHaveAgents
<1>4. ASSUME NEW b \in Agents \ {a}, agent[b].token # None, Unshared(b)'
      PROVE  Unshared(b)
  BY <1>1, <1>4 DEF Unshared
<1>5. ASSUME NEW b \in Agents \ {a}, agent'[a].token = agent[b].token
      PROVE  ~ Unshared(a)'
  BY <1>1, <1>5 DEF Unshared
<1>6. NothingStranded'
  <2> SUFFICES ASSUME NEW c \in Agents, c \notin mishap, NEW n \in Nodes,
                      Unshared(c)', agent'[c].token # None,
                      node[n].token = agent'[c].token
               PROVE  n \in Holds(c) \cup ToldOf(c)
    BY <1>1, <1>2 DEF NothingStranded
  <2>1. c # a
    BY <1>3, <1>5
  <2>2. agent'[c].token = agent[c].token /\ Unshared(c)
    BY <1>1, <1>4, <2>1
  <2> QED BY <2>2 DEF StrandInv, NothingStranded
<1>7. TokensHaveAgents'
  <2>1. \A b \in Agents \ {a} : agent'[b].token = agent[b].token
    BY <1>1
  <2> QED BY <1>1, <1>3, <2>1 DEF TokensHaveAgents
<1>8. WaitsForWork'
  <2> SUFFICES ASSUME NEW c \in Agents, c \notin mishap, NEW r \in Requests,
                      Unshared(c)', req[r].at \in {"sent", "checked"},
                      req[r].token = agent'[c].token
               PROVE  agent[c].waiting = r
    BY <1>1, <1>2 DEF WaitsForWork
  <2>1. c # a
    BY <1>3, <1>5
  <2>2. agent'[c].token = agent[c].token /\ agent[c].token # None /\ Unshared(c)
    BY <1>1, <1>3, <1>4, <2>1
  <2> QED BY <2>2 DEF StrandInv, WaitsForWork
<1>9. RefusalsEmpty'
  BY <1>1, <1>2 DEF StrandInv, RefusalsEmpty
<1>10. HoldsInTurn'
  BY <1>1 DEF StrandInv, HoldsInTurn
<1> QED BY <1>6, <1>7, <1>8, <1>9, <1>10 DEF StrandInv

LEMMA StrandCommitted ==
  ASSUME TypeInv, StrandInv, NEW r \in Requests, NEW n \in Nodes, Committed(r, n)
  PROVE  StrandInv'
<1>1. /\ req[r].token # None
      /\ node'[n].token = req[r].token /\ \A m \in Nodes \ {n} : node'[m] = node[m]
      /\ req'[r].at = "created" /\ req'[r].node = n
      /\ \A q \in Requests \ {r} : req'[q] = req[q]
  BY CommittedEffect
<1>2. agent' = agent /\ mishap' = mishap /\ req[r].at = "checked"
  BY DEF Committed
<1>3. req[r].node = None
  BY <1>2 DEF TypeInv, RequestsName
<1>4. \A a \in Agents : Holds(a)' = Holds(a) /\ Unshared(a)' = Unshared(a)
  BY <1>2 DEF Holds, Unshared
<1>5. NothingStranded'
  <2> SUFFICES ASSUME NEW a \in Agents, a \notin mishap, NEW m \in Nodes,
                      Unshared(a), agent[a].token # None,
                      node'[m].token = agent[a].token
               PROVE  m \in Holds(a) \cup ToldOf(a)'
    BY <1>2, <1>4 DEF NothingStranded
  <2>1. CASE m = n
    <3>1. agent[a].waiting = r
      BY <1>1, <1>2, <2>1 DEF StrandInv, WaitsForWork
    <3> QED BY <1>1, <1>2, <2>1, <3>1 DEF ToldOf
  <2>2. CASE m # n
    <3>1. m \in Holds(a) \cup ToldOf(a)
      BY <1>1, <2>2 DEF StrandInv, NothingStranded
    <3>2. m # None
      BY ProvisioningAssumption DEF ProvisioningAssumption
    <3>3. ASSUME m \in ToldOf(a)
          PROVE  m \in ToldOf(a)'
      <4>1. PICK q \in Requests : q = agent[a].waiting /\ m = req[q].node
        BY <3>3 DEF ToldOf
      <4>2. req'[q] = req[q]
        BY <1>1, <1>3, <3>2, <4>1
      <4> QED BY <1>2, <4>1, <4>2 DEF ToldOf
    <3> QED BY <3>1, <3>3
  <2> QED BY <2>1, <2>2
<1>6. \A q \in Requests : req'[q].at \in {"sent", "checked"} => req'[q] = req[q]
  <2> SUFFICES ASSUME NEW q \in Requests, req'[q].at \in {"sent", "checked"}
               PROVE  req'[q] = req[q]
    OBVIOUS
  <2>1. q # r
    BY <1>1
  <2> QED BY <1>1, <2>1
<1>7. TokensHaveAgents'
  <2>1. \E b \in Agents : agent[b].token = req[r].token
    BY <1>2 DEF StrandInv, TokensHaveAgents
  <2>2. ASSUME NEW m \in Nodes, node'[m].token # None
        PROVE  \E b \in Agents : agent'[b].token = node'[m].token
    <3>1. CASE m = n
      BY <1>1, <1>2, <2>1, <3>1
    <3>2. CASE m # n
      BY <1>1, <1>2, <2>2, <3>2 DEF StrandInv, TokensHaveAgents
    <3> QED BY <3>1, <3>2
  <2>3. ASSUME NEW q \in Requests, req'[q].at \in {"sent", "checked"}
        PROVE  \E b \in Agents : agent'[b].token = req'[q].token
    <3>1. req'[q] = req[q]
      BY <1>6, <2>3
    <3> QED BY <1>2, <2>3, <3>1 DEF StrandInv, TokensHaveAgents
  <2> QED BY <2>2, <2>3 DEF TokensHaveAgents
<1>8. WaitsForWork'
  BY <1>2, <1>4, <1>6 DEF StrandInv, WaitsForWork
<1>9. RefusalsEmpty'
  <2> SUFFICES ASSUME NEW q \in Requests, req'[q].at = "refused", req'[q].node # None
               PROVE  \A a \in Agents : agent[a].waiting = q => a \in mishap
    BY <1>2 DEF RefusalsEmpty
  <2>1. q # r
    BY <1>1
  <2>2. req'[q] = req[q]
    BY <1>1, <2>1
  <2> QED BY <2>2 DEF StrandInv, RefusalsEmpty
<1>10. HoldsInTurn'
  BY <1>2 DEF StrandInv, HoldsInTurn
<1> QED BY <1>5, <1>7, <1>8, <1>9, <1>10 DEF StrandInv

LEMMA StrandStart ==
  ASSUME TypeInv, StrandInv, NEW a \in Agents, NEW r \in Requests, Start(a, r)
  PROVE  StrandInv'
<1>0. None \notin Requests
  BY ProvisioningAssumption DEF ProvisioningAssumption
<1>1. /\ req'[r].at = "sent" /\ req'[r].token = agent[a].token
      /\ \A q \in Requests \ {r} : req'[q] = req[q]
      /\ agent'[a].run = "registering" /\ agent'[a].waiting = r
      /\ agent'[a].token = agent[a].token
      /\ agent'[a].jwt = agent[a].jwt /\ agent'[a].file = agent[a].file
      /\ \A b \in Agents \ {a} : agent'[b] = agent[b]
  BY StartedEffect
<1>2. /\ node' = node /\ mishap' = mishap
      /\ \A b \in Agents : agent[b].waiting # r
      /\ agent[a].run \in {"off", "failed"} /\ agent[a].file = None
  BY DEF Start
<1>3. agent[a].waiting = None
  BY <1>2 DEF TypeInv, AgentsWait
<1>4. \A b \in Agents : agent'[b].token = agent[b].token
  BY <1>1
<1>5. \A b \in Agents : Holds(b)' = Holds(b) /\ Unshared(b)' = Unshared(b)
  BY <1>1, <1>4 DEF Holds, Unshared
<1>6. \A b \in Agents : ToldOf(b) \subseteq ToldOf(b)'
  <2> SUFFICES ASSUME NEW b \in Agents, NEW m \in ToldOf(b)
               PROVE  m \in ToldOf(b)'
    OBVIOUS
  <2>1. PICK q \in Requests : q = agent[b].waiting /\ m = req[q].node
    BY DEF ToldOf
  <2>2. b # a /\ q # r
    BY <1>0, <1>2, <1>3, <2>1
  <2>3. agent'[b] = agent[b] /\ req'[q] = req[q]
    BY <1>1, <2>2
  <2> QED BY <2>1, <2>3 DEF ToldOf
<1>7. NothingStranded'
  BY <1>2, <1>4, <1>5, <1>6 DEF StrandInv, NothingStranded
<1>8. TokensHaveAgents'
  <2>1. ASSUME NEW q \in Requests, req'[q].at \in {"sent", "checked"}
        PROVE  \E b \in Agents : agent'[b].token = req'[q].token
    <3>1. CASE q = r
      BY <1>1, <3>1
    <3>2. CASE q # r
      BY <1>1, <1>4, <2>1, <3>2 DEF StrandInv, TokensHaveAgents
    <3> QED BY <3>1, <3>2
  <2> QED BY <1>2, <1>4, <2>1 DEF StrandInv, TokensHaveAgents
<1>9. WaitsForWork'
  <2> SUFFICES ASSUME NEW b \in Agents, b \notin mishap, NEW q \in Requests,
                      Unshared(b), req'[q].at \in {"sent", "checked"},
                      req'[q].token = agent[b].token
               PROVE  agent'[b].waiting = q
    BY <1>2, <1>4, <1>5 DEF WaitsForWork
  <2>1. CASE q = r
    <3>1. b = a
      BY <1>1, <2>1 DEF Unshared
    <3> QED BY <1>1, <2>1, <3>1
  <2>2. CASE q # r
    <3>1. agent[b].waiting = q
      BY <1>1, <2>2 DEF StrandInv, WaitsForWork
    <3>2. b # a
      BY <1>0, <1>3, <3>1
    <3> QED BY <1>1, <3>1, <3>2
  <2> QED BY <2>1, <2>2
<1>10. RefusalsEmpty'
  <2> SUFFICES ASSUME NEW q \in Requests, req'[q].at = "refused", req'[q].node # None,
                      NEW b \in Agents, agent'[b].waiting = q
               PROVE  b \in mishap
    BY <1>2 DEF RefusalsEmpty
  <2>1. q # r
    BY <1>1
  <2>2. b # a
    BY <1>1, <2>1
  <2>3. req'[q] = req[q] /\ agent'[b] = agent[b]
    BY <1>1, <2>1, <2>2
  <2> QED BY <2>3 DEF StrandInv, RefusalsEmpty
<1>11. HoldsInTurn'
  BY <1>1, <1>2 DEF StrandInv, HoldsInTurn
<1> QED BY <1>7, <1>8, <1>9, <1>10, <1>11 DEF StrandInv

\* An agent takes the answer to its request.
LEMMA StrandAnswered ==
  ASSUME TypeInv, IdentityInv, StrandInv, NEW a \in Agents, NEW r \in Requests,
         agent[a].run = "registering", agent[a].waiting = r,
         req[r].at \in {"created", "refused"}, req'[r].at = "idle",
         \A q \in Requests \ {r} : req'[q] = req[q],
         \A b \in Agents \ {a} : agent'[b] = agent[b],
         agent'[a].token = agent[a].token, agent'[a].waiting = None,
         agent'[a].file = agent[a].file,
         \/ agent'[a].run = "saving" /\ agent'[a].jwt = req[r].node
         \/ /\ agent'[a].run = "failed" /\ agent'[a].jwt = agent[a].jwt
            /\ req[r].at = "refused",
         UNCHANGED <<node, mishap>>
  PROVE  StrandInv'
<1>0. None \notin Requests /\ None \notin Nodes
  BY ProvisioningAssumption DEF ProvisioningAssumption
<1>1. agent[a].jwt = None /\ agent[a].file = None
  BY DEF StrandInv, HoldsInTurn
<1>2. \A b \in Agents : agent'[b].token = agent[b].token
  OBVIOUS
<1>3. \A b \in Agents : Unshared(b)' = Unshared(b)
  BY <1>2 DEF Unshared
<1>4. \A b \in Agents \ {a} : agent[b].waiting # r
  BY DEF IdentityInv, WaitsOwn
<1>5. \A b \in Agents \ {a} : Holds(b)' = Holds(b) /\ ToldOf(b)' = ToldOf(b)
  BY <1>4 DEF Holds, ToldOf
<1>6. ASSUME a \notin mishap, NEW n \in Nodes, n \in Holds(a) \cup ToldOf(a)
      PROVE  n \in Holds(a)'
  <2>1. n = req[r].node
    BY <1>0, <1>1, <1>6 DEF Holds, ToldOf
  <2>2. req[r].at # "refused"
    BY <1>0, <1>6, <2>1 DEF StrandInv, RefusalsEmpty
  <2>3. agent'[a].jwt = n
    BY <2>1, <2>2
  <2> QED BY <1>0, <2>3 DEF Holds
<1>7. NothingStranded'
  <2> SUFFICES ASSUME NEW b \in Agents, b \notin mishap, NEW n \in Nodes,
                      Unshared(b), agent[b].token # None,
                      node[n].token = agent[b].token
               PROVE  n \in Holds(b)' \cup ToldOf(b)'
    BY <1>2, <1>3 DEF NothingStranded
  <2>1. n \in Holds(b) \cup ToldOf(b)
    BY DEF StrandInv, NothingStranded
  <2> QED BY <1>5, <1>6, <2>1
<1>8. \A q \in Requests : req'[q].at \in {"sent", "checked", "refused"} =>
        q # r /\ req'[q] = req[q]
  <2> SUFFICES ASSUME NEW q \in Requests, req'[q].at \in {"sent", "checked", "refused"}
               PROVE  q # r /\ req'[q] = req[q]
    OBVIOUS
  <2>1. q # r
    OBVIOUS
  <2> QED BY <2>1
<1>9. TokensHaveAgents'
  BY <1>2, <1>8 DEF StrandInv, TokensHaveAgents
<1>10. WaitsForWork'
  <2> SUFFICES ASSUME NEW b \in Agents, b \notin mishap, NEW q \in Requests,
                      Unshared(b), req'[q].at \in {"sent", "checked"},
                      req'[q].token = agent[b].token
               PROVE  agent'[b].waiting = q
    BY <1>2, <1>3 DEF WaitsForWork
  <2>1. q # r /\ req'[q] = req[q]
    BY <1>8
  <2>2. agent[b].waiting = q
    BY <2>1 DEF StrandInv, WaitsForWork
  <2> QED BY <2>1, <2>2
<1>11. RefusalsEmpty'
  <2> SUFFICES ASSUME NEW q \in Requests, req'[q].at = "refused", req'[q].node # None,
                      NEW b \in Agents, agent'[b].waiting = q
               PROVE  b \in mishap
    BY DEF RefusalsEmpty
  <2>1. req'[q] = req[q] /\ b # a
    BY <1>0, <1>8
  <2> QED BY <2>1 DEF StrandInv, RefusalsEmpty
<1>12. HoldsInTurn'
  BY <1>1 DEF StrandInv, HoldsInTurn
<1> QED BY <1>7, <1>9, <1>10, <1>11, <1>12 DEF StrandInv

LEMMA StrandRegistered ==
  ASSUME TypeInv, IdentityInv, StrandInv, NEW a \in Agents, Registered(a)
  PROVE  StrandInv'
<1> DEFINE r == agent[a].waiting
<1>1. /\ r \in Requests /\ req[r].at = "created" /\ req'[r].at = "idle"
      /\ \A q \in Requests \ {r} : req'[q] = req[q]
      /\ agent'[a].run = "saving" /\ agent'[a].waiting = None
      /\ agent'[a].token = agent[a].token
      /\ agent'[a].jwt = req[r].node /\ agent'[a].file = agent[a].file
      /\ \A b \in Agents \ {a} : agent'[b] = agent[b]
      /\ node' = node /\ mishap' = mishap
  BY RegisteredEffect
<1>2. agent[a].run = "registering"
  BY DEF Registered
<1> QED BY <1>1, <1>2, StrandAnswered

LEMMA StrandRejected ==
  ASSUME TypeInv, IdentityInv, StrandInv, NEW a \in Agents, Rejected(a)
  PROVE  StrandInv'
<1> DEFINE r == agent[a].waiting
<1>0. agent \in [Agents -> AgentType]
  BY DEF TypeInv, TypeOK, AgentType
<1>1. agent[a].run = "registering" /\ req[r].at = "refused"
  BY DEF Rejected
<1>2. r \in Requests
  BY <1>1, WaitingIsRequest
<1>3. req'[r].at = "idle" /\ \A q \in Requests \ {r} : req'[q] = req[q]
  <2>1. req' = [req EXCEPT ![r] = Free]
    BY DEF Rejected
  <2> QED BY <1>2, <2>1, FreedEffect
<1>4. /\ agent'[a].run = "failed" /\ agent'[a].waiting = None
      /\ agent'[a].token = agent[a].token
      /\ agent'[a].jwt = agent[a].jwt /\ agent'[a].file = agent[a].file
      /\ \A b \in Agents \ {a} : agent'[b] = agent[b]
  <2>1. agent' = [agent EXCEPT ![a] = [@ EXCEPT !.run = "failed", !.waiting = None]]
    BY DEF Rejected
  <2> QED BY <1>0, <2>1 DEF AgentType
<1>5. node' = node /\ mishap' = mishap
  BY DEF Rejected
<1> QED BY <1>1, <1>2, <1>3, <1>4, <1>5, StrandAnswered

LEMMA StrandStep ==
  ASSUME TypeInv, IdentityInv, StrandInv, [Next]_vars
  PROVE  StrandInv'
<1>1. CASE Administer
  BY <1>1, TablesStay, StrandTables, StrandInstall DEF Administer
<1>2. ASSUME NEW r \in Requests, Handle(r) \/ Fail(r) \/ Lose(r)
      PROVE  StrandInv'
  BY <1>2, HandleCases, StrandRequests, StrandCommitted
<1>3. ASSUME NEW a \in Agents, Run(a) \/ Timeout(a) \/ SaveFail(a) \/ Crash(a)
      PROVE  StrandInv'
  BY <1>3, StrandAgents, StrandStart, StrandRegistered, StrandRejected DEF Run
<1>4. CASE UNCHANGED vars
  BY <1>4, NoNews, StrandTables DEF vars
<1> QED BY <1>1, <1>2, <1>3, <1>4 DEF Next

\* A registration token is never burned in vain: with no fault and a token of its own,
\* a host holds, or is about to be told of, every node made with its token
\* (api.go:121-143, agents.py:116-136).
THEOREM NothingIsStranded == Spec => []NothingStranded
<1>1. Init => TypeInv /\ IdentityInv /\ StrandInv
  BY TypeInit, IdentityInit, StrandInit
<1>2. TypeInv /\ IdentityInv /\ StrandInv /\ [Next]_vars
        => (TypeInv /\ IdentityInv /\ StrandInv)'
  BY TypeStep, IdentityStep, StrandStep
<1>3. StrandInv => NothingStranded
  BY DEF StrandInv
<1> QED BY <1>1, <1>2, <1>3, PTL DEF Spec
=============================================================================
