------------------------- MODULE ProvisioningProofs -------------------------
(***************************************************************************)
(* Theorems about Provisioning, for every value of its constants.          *)
(***************************************************************************)
EXTENDS Provisioning, TLAPS

-----------------------------------------------------------------------------
(***************************************************************************)
(* Types.  An agent waits exactly while it is in Register, and a request   *)
(* under way names a token, and a node once it is created.                 *)
(***************************************************************************)
UnderWay == {"sent", "checked", "created"}

AgentsWait ==
  \A a \in Agents : agent[a].run = "registering" <=> agent[a].waiting # None

RequestsName ==
  \A r \in Requests :
    /\ req[r].at \in UnderWay => req[r].token \in Tokens
    /\ req[r].at \in {"sent", "checked"} => req[r].node = None
    /\ req[r].at = "created" => req[r].node \in Nodes

TypeInv == TypeOK /\ AgentsWait /\ RequestsName

RequestType == [at : {"idle", "sent", "checked", "created", "refused"},
                token : Tokens \cup {None}, node : Nodes \cup {None}]
AgentType == [run : {"off", "registering", "saving", "up", "failed"},
              token : Tokens \cup {None}, jwt : Nodes \cup {None},
              file : Nodes \cup {None}, waiting : Requests \cup {None}]

\* A step that changes no request and no agent keeps what TypeInv says of them.
LEMMA TypeStable ==
  ASSUME TypeInv, TypeOK', UNCHANGED <<req, agent>>
  PROVE  TypeInv'
BY DEF TypeInv, AgentsWait, RequestsName

LEMMA TypeAdminister ==
  ASSUME TypeInv, Administer
  PROVE  TypeInv'
<1>1. ASSUME NEW s \in Sites, CreateSite(s)
      PROVE  TypeInv'
  BY <1>1, TypeStable DEF TypeInv, TypeOK, Lifetime, CreateSite
<1>2. ASSUME NEW s \in Sites, DeleteSite(s)
      PROVE  TypeInv'
  <2>1. site' \in [Sites -> Lifetime]
    BY <1>2 DEF TypeInv, TypeOK, Lifetime, DeleteSite
  <2>2. node' \in [Nodes -> [at : Lifetime, site : Sites \cup {None},
                             token : Tokens \cup {None}]]
    BY <1>2 DEF TypeInv, TypeOK, Lifetime, DeleteSite
  <2>3. token' \in [Tokens -> [at : Lifetime \cup {"expired"}, site : Sites \cup {None}]]
    BY <1>2 DEF TypeInv, TypeOK, Lifetime, DeleteSite
  <2> QED BY <1>2, <2>1, <2>2, <2>3, TypeStable DEF TypeInv, TypeOK, DeleteSite
<1>3. ASSUME NEW t \in Tokens, NEW s \in Sites, CreateToken(t, s)
      PROVE  TypeInv'
  BY <1>3, TypeStable DEF TypeInv, TypeOK, Lifetime, CreateToken
<1>4. ASSUME NEW t \in Tokens, DeleteToken(t) \/ ExpireToken(t)
      PROVE  TypeInv'
  BY <1>4, TypeStable DEF TypeInv, TypeOK, Lifetime, DeleteToken, ExpireToken
<1>5. ASSUME NEW t \in Tokens, NEW a \in Agents, Install(a, t)
      PROVE  TypeInv'
  BY <1>5 DEF TypeInv, TypeOK, AgentsWait, RequestsName, Install
<1>6. ASSUME NEW n \in Nodes, RemoveNode(n)
      PROVE  TypeInv'
  BY <1>6, TypeStable DEF TypeInv, TypeOK, Lifetime, RemoveNode
<1> QED BY <1>1, <1>2, <1>3, <1>4, <1>5, <1>6 DEF Administer

LEMMA TypeRequest ==
  ASSUME TypeInv, NEW r \in Requests, Handle(r) \/ Fail(r) \/ Lose(r)
  PROVE  TypeInv'
<1>0. /\ req \in [Requests -> RequestType] /\ req[r] \in RequestType
      /\ Waiting(r) \subseteq Agents
  BY DEF TypeInv, TypeOK, RequestType, Waiting
<1>1. CASE SelectToken(r)
  <2>1. PICK to \in {"checked", "refused"} : req' = [req EXCEPT ![r] = [@ EXCEPT !.at = to]]
    BY <1>0, <1>1 DEF SelectToken, Refuse, RequestType
  <2>2. req' \in [Requests -> RequestType]
    BY <1>0, <2>1 DEF RequestType
  <2>3. RequestsName'
    BY <1>0, <1>1, <2>1 DEF TypeInv, RequestsName, SelectToken, RequestType, UnderWay
  <2> QED BY <1>1, <2>2, <2>3 DEF TypeInv, TypeOK, AgentsWait, SelectToken, RequestType
<1>2. CASE Register(r)
  <2>1. CASE req' = [req EXCEPT ![r] = [@ EXCEPT !.at = "refused"]]
             /\ UNCHANGED <<site, token, node, agent, mishap>>
    BY <1>0, <2>1 DEF TypeInv, TypeOK, AgentsWait, RequestsName, RequestType, UnderWay
  <2>2. ASSUME NEW n \in Nodes,
               node' = [node EXCEPT ![n] = [at |-> "live",
                          site |-> token[req[r].token].site, token |-> req[r].token]],
               req' = [req EXCEPT ![r] = [@ EXCEPT !.at = "created", !.node = n]],
               token' = [token EXCEPT ![req[r].token].at = "gone"],
               req[r].at = "checked",
               UNCHANGED <<site, agent, mishap>>
        PROVE  TypeInv'
    <3>1. req[r].token \in Tokens
      BY <2>2 DEF TypeInv, RequestsName, UnderWay
    <3>2. req' \in [Requests -> RequestType]
      BY <1>0, <2>2 DEF RequestType
    <3>3. node' \in [Nodes -> [at : Lifetime, site : Sites \cup {None},
                               token : Tokens \cup {None}]]
      BY <2>2, <3>1 DEF TypeInv, TypeOK, Lifetime
    <3>4. token' \in [Tokens -> [at : Lifetime \cup {"expired"},
                                 site : Sites \cup {None}]]
      BY <2>2, <3>1 DEF TypeInv, TypeOK, Lifetime
    <3>5. RequestsName'
      BY <1>0, <2>2, <3>1 DEF TypeInv, RequestsName, RequestType, UnderWay
    <3> QED BY <2>2, <3>2, <3>3, <3>4, <3>5 DEF TypeInv, TypeOK, AgentsWait, RequestType
  <2> QED BY <1>2, <2>1, <2>2 DEF Register, Refuse
<1>3. CASE Fail(r)
  BY <1>0, <1>3 DEF TypeInv, TypeOK, AgentsWait, RequestsName, Fail, Refuse,
                    RequestType, UnderWay
<1>4. CASE Lose(r)
  BY <1>0, <1>4 DEF TypeInv, TypeOK, AgentsWait, RequestsName, Lose, Free,
                    RequestType, UnderWay
<1> QED BY <1>1, <1>2, <1>3, <1>4 DEF Handle

LEMMA StartEffect ==
  ASSUME TypeInv, NEW a \in Agents, NEW r \in Requests, Start(a, r)
  PROVE  /\ agent[a].token \in Tokens
         /\ req' = [req EXCEPT ![r] = [Free EXCEPT !.at = "sent", !.token = agent[a].token]]
         /\ agent' = [agent EXCEPT ![a] = [@ EXCEPT !.run = "registering",
                                                    !.waiting = r]]
<1>1. agent \in [Agents -> AgentType]
  BY DEF TypeInv, TypeOK, AgentType
<1>2. agent[a].token # None
  BY DEF Start
<1>3. agent[a].token \in Tokens
  BY <1>1, <1>2 DEF AgentType
<1> QED BY <1>3 DEF Start

\* An agent replaced by one that waits only while it registers.
LEMMA AgentReplaced ==
  ASSUME TypeInv, NEW a \in Agents, NEW new \in AgentType,
         new.run = "registering" <=> new.waiting # None,
         agent' = [agent EXCEPT ![a] = new]
  PROVE  agent' \in [Agents -> AgentType] /\ AgentsWait'
BY DEF TypeInv, TypeOK, AgentsWait, AgentType

LEMMA TypeAgent ==
  ASSUME TypeInv, NEW a \in Agents, Run(a) \/ Timeout(a) \/ SaveFail(a) \/ Crash(a)
  PROVE  TypeInv'
<1>0. /\ req \in [Requests -> RequestType]
      /\ agent \in [Agents -> AgentType] /\ agent[a] \in AgentType
      /\ None \notin Requests
  BY ProvisioningAssumption DEF TypeInv, TypeOK, RequestType, AgentType, ProvisioningAssumption
<1>w. agent[a].run = "registering" <=> agent[a].waiting # None
  BY DEF TypeInv, AgentsWait
<1>1. CASE Resume(a) \/ Save(a) \/ SaveFail(a) \/ Timeout(a) \/ Crash(a)
  <2>1. PICK new \in AgentType : /\ new.run = "registering" <=> new.waiting # None
                                 /\ agent' = [agent EXCEPT ![a] = new]
    <3>1. CASE Resume(a)
      <4> DEFINE n == [agent[a] EXCEPT !.run = "up", !.jwt = agent[a].file]
      <4>1. n \in AgentType /\ n.run = "up" /\ n.waiting = agent[a].waiting
        BY <1>0 DEF AgentType
      <4>2. agent[a].run # "registering" /\ agent' = [agent EXCEPT ![a] = n]
        BY <3>1 DEF Resume
      <4> QED BY <4>1, <4>2, <1>w
    <3>2. CASE Save(a)
      <4> DEFINE n == [agent[a] EXCEPT !.run = "up", !.file = agent[a].jwt]
      <4>1. n \in AgentType /\ n.run = "up" /\ n.waiting = agent[a].waiting
        BY <1>0 DEF AgentType
      <4>2. agent[a].run # "registering" /\ agent' = [agent EXCEPT ![a] = n]
        BY <3>2 DEF Save
      <4> QED BY <4>1, <4>2, <1>w
    <3>3. CASE SaveFail(a)
      <4> DEFINE n == [agent[a] EXCEPT !.run = "failed", !.jwt = None]
      <4>1. n \in AgentType /\ n.run = "failed" /\ n.waiting = agent[a].waiting
        BY <1>0 DEF AgentType
      <4>2. agent[a].run # "registering" /\ agent' = [agent EXCEPT ![a] = n]
        BY <3>3 DEF SaveFail
      <4> QED BY <4>1, <4>2, <1>w
    <3>4. CASE Timeout(a)
      <4> DEFINE n == [agent[a] EXCEPT !.run = "failed", !.waiting = None]
      <4>1. n \in AgentType /\ n.run = "failed" /\ n.waiting = None
        BY <1>0 DEF AgentType
      <4>2. agent' = [agent EXCEPT ![a] = n]
        BY <3>4 DEF Timeout
      <4> QED BY <4>1, <4>2
    <3>5. CASE Crash(a)
      <4> DEFINE n == [agent[a] EXCEPT !.run = "off", !.jwt = None, !.waiting = None]
      <4>1. n \in AgentType /\ n.run = "off" /\ n.waiting = None
        BY <1>0 DEF AgentType
      <4>2. agent' = [agent EXCEPT ![a] = n]
        BY <3>5 DEF Crash
      <4> QED BY <4>1, <4>2
    <3> QED BY <1>1, <3>1, <3>2, <3>3, <3>4, <3>5
  <2>2. mishap' \subseteq Agents /\ UNCHANGED <<site, token, node, req>>
    BY <1>1 DEF TypeInv, TypeOK, Resume, Save, SaveFail, Timeout, Crash
  <2>3. RequestsName'
    BY <2>2 DEF TypeInv, RequestsName
  <2> QED BY <2>1, <2>2, <2>3, AgentReplaced DEF TypeInv, TypeOK, AgentType
<1>2. ASSUME NEW r \in Requests, Start(a, r)
      PROVE  TypeInv'
  <2> DEFINE new == [agent[a] EXCEPT !.run = "registering", !.waiting = r]
  <2>1. /\ req' = [req EXCEPT ![r] = [Free EXCEPT !.at = "sent",
                                                 !.token = agent[a].token]]
        /\ agent' = [agent EXCEPT ![a] = new]
        /\ agent[a].token \in Tokens
    BY <1>2, StartEffect
  <2>2. req' \in [Requests -> RequestType]
    BY <1>0, <2>1 DEF RequestType, Free
  <2>3. new \in AgentType /\ new.run = "registering" /\ new.waiting = r
    BY <1>0 DEF AgentType
  <2>4. agent' \in [Agents -> AgentType] /\ AgentsWait'
    BY <1>0, <2>1, <2>3, AgentReplaced
  <2>5. RequestsName'
    BY <1>0, <2>1 DEF TypeInv, RequestsName, RequestType, UnderWay, Free
  <2> QED BY <1>2, <2>2, <2>4, <2>5 DEF TypeInv, TypeOK, RequestType, AgentType, Start
<1>3. CASE Registered(a) \/ Rejected(a)
  <2> DEFINE r == agent[a].waiting
  <2>1. r \in Requests /\ req[r] \in RequestType
    BY <1>0, <1>3, <1>w DEF Registered, Rejected, AgentType
  <2>2. req' = [req EXCEPT ![r] = [at |-> "idle", token |-> None, node |-> None]]
    BY <1>3 DEF Registered, Rejected, Free
  <2>3. req' \in [Requests -> RequestType]
    BY <1>0, <2>1, <2>2 DEF RequestType
  <2>4. RequestsName'
    BY <1>0, <2>1, <2>2 DEF TypeInv, RequestsName, RequestType, UnderWay
  <2>5. agent' \in [Agents -> AgentType] /\ AgentsWait'
    <3>1. CASE Registered(a)
      <4> DEFINE n == [agent[a] EXCEPT !.run = "saving", !.waiting = None,
                                       !.jwt = req[r].node]
      <4>1. n \in AgentType /\ n.run = "saving" /\ n.waiting = None
        BY <1>0, <2>1 DEF AgentType, RequestType
      <4>2. agent' = [agent EXCEPT ![a] = n]
        BY <3>1 DEF Registered
      <4> QED BY <4>1, <4>2, AgentReplaced
    <3>2. CASE Rejected(a)
      <4> DEFINE n == [agent[a] EXCEPT !.run = "failed", !.waiting = None]
      <4>1. n \in AgentType /\ n.run = "failed" /\ n.waiting = None
        BY <1>0 DEF AgentType
      <4>2. agent' = [agent EXCEPT ![a] = n]
        BY <3>2 DEF Rejected
      <4> QED BY <4>1, <4>2, AgentReplaced
    <3> QED BY <1>3, <3>1, <3>2
  <2>6. UNCHANGED <<site, token, node, mishap>>
    BY <1>3 DEF Registered, Rejected
  <2> QED BY <2>3, <2>4, <2>5, <2>6 DEF TypeInv, TypeOK, RequestType, AgentType
<1> QED BY <1>1, <1>2, <1>3 DEF Run

LEMMA TypeInit == Init => TypeInv
BY ProvisioningAssumption DEF Init, TypeInv, TypeOK, AgentsWait, RequestsName, Free,
                              Lifetime, UnderWay, ProvisioningAssumption

LEMMA TypeStep == TypeInv /\ [Next]_vars => TypeInv'
<1> SUFFICES ASSUME TypeInv, [Next]_vars PROVE TypeInv'
  OBVIOUS
<1>1. CASE Next
  BY <1>1, TypeAdminister, TypeRequest, TypeAgent DEF Next
<1>2. CASE UNCHANGED vars
  BY <1>2 DEF vars, TypeInv, TypeOK, AgentsWait, RequestsName
<1> QED BY <1>1, <1>2

\* Every state of the sites, tokens, nodes, requests and agents is one of those the
\* hub's tables and the agent's code have (agents.py:88-125, api.go:46-147).
THEOREM TypeCorrect == Spec => []TypeOK
<1>1. Spec => []TypeInv
  BY TypeInit, TypeStep, PTL DEF Spec
<1>2. TypeInv => TypeOK
  BY DEF TypeInv
<1> QED BY <1>1, <1>2, PTL

-----------------------------------------------------------------------------
(***************************************************************************)
(* What the steps do to single rows, requests and agents.                  *)
(***************************************************************************)
Refused(r) ==
  /\ req' = [req EXCEPT ![r] = [@ EXCEPT !.at = "refused"]]
  /\ UNCHANGED <<site, token, node, agent, mishap>>

Passed(r) ==
  /\ req[r].at = "sent" /\ token[req[r].token].at = "live"
  /\ Overlap \/ \A q \in Requests : req[q].at = "checked" => req[q].token # req[r].token
  /\ req' = [req EXCEPT ![r].at = "checked"]
  /\ UNCHANGED <<site, token, node, agent, mishap>>

Committed(r, n) ==
  LET t == req[r].token
  IN /\ req[r].at = "checked" /\ site[token[t].site] = "live" /\ node[n].at = "unborn"
     /\ node' = [node EXCEPT ![n] = [at |-> "live", site |-> token[t].site, token |-> t]]
     /\ req' = [req EXCEPT ![r] = [@ EXCEPT !.at = "created", !.node = n]]
     /\ token' = [token EXCEPT ![t].at = "gone"]
     /\ UNCHANGED <<site, agent, mishap>>

LEMMA HandleCases ==
  ASSUME NEW r \in Requests, Handle(r)
  PROVE  \/ Passed(r)
         \/ req[r].at \in {"sent", "checked"} /\ Refused(r)
         \/ \E n \in Nodes : Committed(r, n)
BY DEF Handle, SelectToken, Register, Refuse, Passed, Refused, Committed

LEMMA RefusedEffect ==
  ASSUME TypeInv, NEW r \in Requests,
         req' = [req EXCEPT ![r] = [@ EXCEPT !.at = "refused"]]
  PROVE  /\ req'[r].at = "refused" /\ req'[r].token = req[r].token
         /\ req'[r].node = req[r].node
         /\ \A q \in Requests \ {r} : req'[q] = req[q]
BY DEF TypeInv, TypeOK

LEMMA PassedEffect ==
  ASSUME TypeInv, NEW r \in Requests, Passed(r)
  PROVE  /\ req'[r].at = "checked" /\ req'[r].token = req[r].token
         /\ req'[r].node = req[r].node
         /\ req[r].token \in Tokens
         /\ \A q \in Requests \ {r} : req'[q] = req[q]
BY DEF TypeInv, TypeOK, RequestsName, UnderWay, Passed

LEMMA FreedEffect ==
  ASSUME TypeInv, NEW r \in Requests, req' = [req EXCEPT ![r] = Free]
  PROVE  /\ req'[r].at = "idle" /\ req'[r].node = None
         /\ \A q \in Requests \ {r} : req'[q] = req[q]
BY DEF TypeInv, TypeOK, Free

LEMMA CommittedEffect ==
  ASSUME TypeInv, NEW r \in Requests, NEW n \in Nodes, Committed(r, n)
  PROVE  LET t == req[r].token
         IN /\ t \in Tokens /\ t # None
            /\ token'[t].at = "gone" /\ token'[t].site = token[t].site
            /\ \A u \in Tokens \ {t} : token'[u] = token[u]
            /\ node'[n].at = "live" /\ node'[n].site = token[t].site
            /\ node'[n].token = t
            /\ \A m \in Nodes \ {n} : node'[m] = node[m]
            /\ req'[r].at = "created" /\ req'[r].token = t /\ req'[r].node = n
            /\ \A q \in Requests \ {r} : req'[q] = req[q]
<1> DEFINE t == req[r].token
<1>1. t \in Tokens /\ t # None
  BY ProvisioningAssumption DEF TypeInv, RequestsName, UnderWay, Committed,
                                ProvisioningAssumption
<1>2. /\ token'[t].at = "gone" /\ token'[t].site = token[t].site
      /\ \A u \in Tokens \ {t} : token'[u] = token[u]
  BY <1>1 DEF TypeInv, TypeOK, Committed
<1>3. /\ node'[n].at = "live" /\ node'[n].site = token[t].site /\ node'[n].token = t
      /\ \A m \in Nodes \ {n} : node'[m] = node[m]
  BY DEF TypeInv, TypeOK, Committed
<1>4. /\ req'[r].at = "created" /\ req'[r].token = t /\ req'[r].node = n
      /\ \A q \in Requests \ {r} : req'[q] = req[q]
  BY DEF TypeInv, TypeOK, Committed
<1> QED BY <1>1, <1>2, <1>3, <1>4

LEMMA StartedEffect ==
  ASSUME TypeInv, NEW a \in Agents, NEW r \in Requests, Start(a, r)
  PROVE  /\ agent[a].token \in Tokens /\ agent[a].token # None
         /\ req'[r].at = "sent" /\ req'[r].token = agent[a].token /\ req'[r].node = None
         /\ \A q \in Requests \ {r} : req'[q] = req[q]
         /\ agent'[a].run = "registering" /\ agent'[a].waiting = r
         /\ agent'[a].token = agent[a].token /\ agent'[a].jwt = agent[a].jwt
         /\ agent'[a].file = agent[a].file
         /\ \A b \in Agents \ {a} : agent'[b] = agent[b]
<1>1. req \in [Requests -> RequestType] /\ agent \in [Agents -> AgentType]
  BY DEF TypeInv, TypeOK, RequestType, AgentType
<1>2. agent[a].token \in Tokens /\ agent[a].token # None
  <2>1. agent[a].token # None
    BY DEF Start
  <2> QED BY <2>1, StartEffect
<1>3. /\ req'[r].at = "sent" /\ req'[r].token = agent[a].token /\ req'[r].node = None
      /\ \A q \in Requests \ {r} : req'[q] = req[q]
  <2>1. req' = [req EXCEPT ![r] = [Free EXCEPT !.at = "sent", !.token = agent[a].token]]
    BY StartEffect
  <2> QED BY <1>1, <2>1 DEF Free
<1>4. /\ agent'[a].run = "registering" /\ agent'[a].waiting = r
      /\ agent'[a].token = agent[a].token /\ agent'[a].jwt = agent[a].jwt
      /\ agent'[a].file = agent[a].file
      /\ \A b \in Agents \ {a} : agent'[b] = agent[b]
  <2>1. agent' = [agent EXCEPT ![a] = [@ EXCEPT !.run = "registering", !.waiting = r]]
    BY StartEffect
  <2> QED BY <1>1, <2>1 DEF AgentType
<1> QED BY <1>2, <1>3, <1>4

-----------------------------------------------------------------------------
(***************************************************************************)
(* The steps by what they do to the tables: no step outside the first six  *)
(* cases changes a table or lets a request pass the check of its token.    *)
(***************************************************************************)
Quiet ==
  /\ UNCHANGED <<site, token, node>>
  /\ \A q \in Requests : req'[q].at = "checked" => req'[q] = req[q]

LEMMA NextCases ==
  ASSUME TypeInv, [Next]_vars
  PROVE  \/ \E s \in Sites : CreateSite(s) \/ DeleteSite(s)
         \/ \E t \in Tokens : \/ \E s \in Sites : CreateToken(t, s)
                              \/ DeleteToken(t) \/ ExpireToken(t)
         \/ \E n \in Nodes : RemoveNode(n)
         \/ \E r \in Requests : Passed(r) \/ \E n \in Nodes : Committed(r, n)
         \/ Quiet
<1>1. ASSUME NEW r \in Requests, Refused(r) \/ Fail(r)
      PROVE  Quiet
  BY <1>1, RefusedEffect DEF Refused, Fail, Refuse, Quiet
<1>2. ASSUME NEW r \in Requests, Lose(r)
      PROVE  Quiet
  BY <1>2, FreedEffect DEF Lose, Quiet
<1>3. ASSUME NEW a \in Agents, NEW r \in Requests, Start(a, r)
      PROVE  Quiet
  <2>1. UNCHANGED <<site, token, node>>
    BY <1>3 DEF Start
  <2>2. req'[r].at = "sent" /\ \A q \in Requests \ {r} : req'[q] = req[q]
    BY <1>3, StartedEffect
  <2>3. ASSUME NEW q \in Requests, req'[q].at = "checked"
        PROVE  req'[q] = req[q]
    <3>1. q # r
      BY <2>2, <2>3
    <3> QED BY <2>2, <3>1
  <2> QED BY <2>1, <2>3 DEF Quiet
<1>4. ASSUME NEW a \in Agents, Registered(a) \/ Rejected(a)
      PROVE  Quiet
  <2>1. agent[a].waiting \in Requests
    <3>1. agent \in [Agents -> AgentType]
      BY DEF TypeInv, TypeOK, AgentType
    <3>2. agent[a].waiting # None
      BY <1>4 DEF TypeInv, AgentsWait, Registered, Rejected
    <3> QED BY <3>1, <3>2 DEF AgentType
  <2>2. req' = [req EXCEPT ![agent[a].waiting] = Free]
    BY <1>4 DEF Registered, Rejected
  <2> QED BY <1>4, <2>1, <2>2, FreedEffect DEF Registered, Rejected, Quiet
<1>5. ASSUME UNCHANGED <<site, token, node, req>>
      PROVE  Quiet
  BY <1>5 DEF Quiet
<1>6. ASSUME NEW a \in Agents,
             \/ \E t \in Tokens : Install(a, t)
             \/ Resume(a) \/ Save(a) \/ Timeout(a) \/ SaveFail(a) \/ Crash(a)
      PROVE  Quiet
  BY <1>5, <1>6 DEF Install, Resume, Save, Timeout, SaveFail, Crash
<1>7. CASE UNCHANGED vars
  BY <1>5, <1>7 DEF vars
<1>8. CASE Next
  BY <1>1, <1>2, <1>3, <1>4, <1>6, <1>8, HandleCases DEF Next, Administer, Run
<1> QED BY <1>7, <1>8

-----------------------------------------------------------------------------
(***************************************************************************)
(* Sites.  A token that exists has a site, and a node that lives has one:  *)
(* the invariant of the cascades and of the commit's foreign key.  A       *)
(* request that has passed the check names a token that has been created.  *)
(***************************************************************************)
SiteInv ==
  /\ SiteOwnsAll
  /\ \A t \in Tokens : token[t].at # "unborn" => token[t].site \in Sites
  /\ \A n \in Nodes : node[n].at = "live" => node[n].site \in Sites
  /\ \A r \in Requests : req[r].at = "checked" => token[req[r].token].at # "unborn"

LEMMA SiteInit == Init => SiteInv
BY DEF Init, SiteInv, SiteOwnsAll, Free

LEMMA SiteStep ==
  ASSUME TypeInv, SiteInv, [Next]_vars
  PROVE  SiteInv'
<1>0. /\ site \in [Sites -> Lifetime]
      /\ token \in [Tokens -> [at : Lifetime \cup {"expired"}, site : Sites \cup {None}]]
      /\ node \in [Nodes -> [at : Lifetime, site : Sites \cup {None},
                             token : Tokens \cup {None}]]
      /\ \A r \in Requests : req[r].at = "checked" => req[r].token \in Tokens
  BY DEF TypeInv, TypeOK, RequestsName, UnderWay
<1>1. ASSUME NEW s \in Sites, CreateSite(s)
      PROVE  SiteInv'
  BY <1>0, <1>1 DEF SiteInv, SiteOwnsAll, CreateSite
<1>2. ASSUME NEW s \in Sites, DeleteSite(s)
      PROVE  SiteInv'
  <2>1. \A t \in Tokens :
          /\ token[t].site # s => token'[t] = token[t]
          /\ token[t].site = s => token'[t].at = "gone" /\ token'[t].site = s
    BY <1>0, <1>2 DEF DeleteSite
  <2>2. \A n \in Nodes :
          /\ node[n].site # s => node'[n] = node[n]
          /\ node[n].site = s => node'[n].at = "gone"
    BY <1>0, <1>2 DEF DeleteSite
  <2>3. \A x \in Sites : x # s => site'[x] = site[x]
    BY <1>0, <1>2 DEF DeleteSite
  <2> QED BY <1>0, <1>2, <2>1, <2>2, <2>3 DEF SiteInv, SiteOwnsAll, DeleteSite
<1>3. ASSUME NEW t \in Tokens, NEW s \in Sites, CreateToken(t, s)
      PROVE  SiteInv'
  BY <1>0, <1>3 DEF SiteInv, SiteOwnsAll, CreateToken
<1>4. ASSUME NEW t \in Tokens, DeleteToken(t) \/ ExpireToken(t)
      PROVE  SiteInv'
  BY <1>0, <1>4 DEF SiteInv, SiteOwnsAll, DeleteToken, ExpireToken
<1>5. ASSUME NEW n \in Nodes, RemoveNode(n)
      PROVE  SiteInv'
  BY <1>0, <1>5 DEF SiteInv, SiteOwnsAll, RemoveNode
<1>6. ASSUME NEW r \in Requests, Passed(r)
      PROVE  SiteInv'
  BY <1>6, PassedEffect DEF SiteInv, SiteOwnsAll, Passed
<1>7. ASSUME NEW r \in Requests, NEW n \in Nodes, Committed(r, n)
      PROVE  SiteInv'
  <2> DEFINE t == req[r].token
  <2>1. /\ t \in Tokens /\ token'[t].at = "gone" /\ token'[t].site = token[t].site
        /\ \A u \in Tokens \ {t} : token'[u] = token[u]
        /\ node'[n].site = token[t].site
        /\ \A m \in Nodes \ {n} : node'[m] = node[m]
        /\ req'[r].at = "created"
        /\ \A q \in Requests \ {r} : req'[q] = req[q]
    BY <1>7, CommittedEffect
  <2>2. site' = site /\ site[token[t].site] = "live" /\ req[r].at = "checked"
    BY <1>7 DEF Committed
  <2>3. token[t].site \in Sites
    BY <2>1, <2>2 DEF SiteInv
  <2>4. SiteOwnsAll'
    BY <2>1, <2>2 DEF SiteInv, SiteOwnsAll
  <2>5. \A u \in Tokens : token'[u].at # "unborn" => token'[u].site \in Sites
    BY <2>1, <2>3 DEF SiteInv
  <2>6. \A m \in Nodes : node'[m].at = "live" => node'[m].site \in Sites
    BY <2>1, <2>3 DEF SiteInv
  <2>7. ASSUME NEW q \in Requests, req'[q].at = "checked"
        PROVE  token'[req'[q].token].at # "unborn"
    <3>1. q # r /\ req'[q] = req[q]
      BY <2>1, <2>7
    <3>2. req[q].token \in Tokens /\ token[req[q].token].at # "unborn"
      BY <1>0, <2>7, <3>1 DEF SiteInv
    <3> QED BY <2>1, <3>1, <3>2
  <2> QED BY <2>4, <2>5, <2>6, <2>7 DEF SiteInv
<1>8. CASE Quiet
  BY <1>8 DEF Quiet, SiteInv, SiteOwnsAll
<1> QED BY <1>1, <1>2, <1>3, <1>4, <1>5, <1>6, <1>7, <1>8, NextCases

\* No node and no usable token outlives its site, however the commit of a registration
\* falls with the removal of the site (sites.py:70-76, agents.py:101-125).
THEOREM SitesOwnAll == Spec => []SiteOwnsAll
<1>1. Init => TypeInv /\ SiteInv
  BY TypeInit, SiteInit
<1>2. TypeInv /\ SiteInv /\ [Next]_vars => (TypeInv /\ SiteInv)'
  BY TypeStep, SiteStep
<1>3. SiteInv => SiteOwnsAll
  BY DEF SiteInv
<1> QED BY <1>1, <1>2, <1>3, PTL DEF Spec

-----------------------------------------------------------------------------
(***************************************************************************)
(* Tokens.  A node's token is gone from the table; a request that has      *)
(* passed the check, no other working on its token, has a fresh token.     *)
(***************************************************************************)
UseInv ==
  /\ SingleUse
  /\ \A n \in Nodes : node[n].token # None => token[node[n].token].at = "gone"
  /\ \A r \in Requests : req[r].at = "checked" =>
       /\ \A n \in Nodes : node[n].token # req[r].token
       /\ \A q \in Requests :
            req[q].at = "checked" /\ req[q].token = req[r].token => q = r

LEMMA UseInit == Init => UseInv
BY DEF Init, UseInv, SingleUse, Free

LEMMA UseStep ==
  ASSUME ~ Overlap, TypeInv, UseInv, [Next]_vars
  PROVE  UseInv'
<1>0. /\ token \in [Tokens -> [at : Lifetime \cup {"expired"}, site : Sites \cup {None}]]
      /\ node \in [Nodes -> [at : Lifetime, site : Sites \cup {None},
                             token : Tokens \cup {None}]]
      /\ None \notin Tokens
  BY ProvisioningAssumption DEF TypeInv, TypeOK, ProvisioningAssumption
\* It is enough that no node gets another token, that no token returns, and that no
\* request passes the check.
<1>1. ASSUME \A n \in Nodes : node'[n].token = node[n].token,
             \A t \in Tokens : token[t].at = "gone" => token'[t].at = "gone",
             \A r \in Requests : req'[r].at = "checked" => req'[r] = req[r]
      PROVE  UseInv'
  BY <1>0, <1>1 DEF UseInv, SingleUse
<1>2. ASSUME NEW s \in Sites, CreateSite(s) \/ DeleteSite(s)
      PROVE  UseInv'
  <2>1. \A n \in Nodes : node'[n].token = node[n].token
    BY <1>0, <1>2 DEF CreateSite, DeleteSite
  <2>2. \A t \in Tokens : token[t].at = "gone" => token'[t].at = "gone"
    BY <1>0, <1>2 DEF CreateSite, DeleteSite
  <2> QED BY <1>1, <1>2, <2>1, <2>2 DEF CreateSite, DeleteSite
<1>3. ASSUME NEW t \in Tokens,
             (\E s \in Sites : CreateToken(t, s)) \/ DeleteToken(t) \/ ExpireToken(t)
      PROVE  UseInv'
  <2>1. \A u \in Tokens : token[u].at = "gone" => token'[u].at = "gone"
    BY <1>0, <1>3 DEF CreateToken, DeleteToken, ExpireToken
  <2> QED BY <1>1, <1>3, <2>1 DEF CreateToken, DeleteToken, ExpireToken
<1>4. ASSUME NEW n \in Nodes, RemoveNode(n)
      PROVE  UseInv'
  <2>1. \A m \in Nodes : node'[m].token = node[m].token
    BY <1>0, <1>4 DEF RemoveNode
  <2> QED BY <1>1, <1>4, <2>1 DEF RemoveNode
<1>5. ASSUME NEW r \in Requests, Passed(r)
      PROVE  UseInv'
  <2>1. /\ req'[r].token = req[r].token /\ req[r].token \in Tokens
        /\ \A q \in Requests \ {r} : req'[q] = req[q]
    BY <1>5, PassedEffect
  <2>2. /\ token' = token /\ node' = node /\ token[req[r].token].at = "live"
        /\ \A q \in Requests : req[q].at = "checked" => req[q].token # req[r].token
    BY <1>5 DEF Passed
  <2>3. \A n \in Nodes : node[n].token # req[r].token
    BY <1>0, <2>1, <2>2 DEF UseInv
  <2>4. ASSUME NEW p \in Requests, req'[p].at = "checked"
        PROVE  /\ \A n \in Nodes : node'[n].token # req'[p].token
               /\ \A q \in Requests :
                    req'[q].at = "checked" /\ req'[q].token = req'[p].token => q = p
    <3>1. CASE p = r
      BY <2>1, <2>2, <2>3, <3>1
    <3>2. CASE p # r
      <4>1. req'[p] = req[p] /\ req[p].at = "checked" /\ req[p].token # req[r].token
        BY <2>1, <2>2, <2>4, <3>2
      <4>2. \A n \in Nodes : node'[n].token # req'[p].token
        BY <2>2, <4>1 DEF UseInv
      <4>3. ASSUME NEW q \in Requests, req'[q].at = "checked", req'[q].token = req'[p].token
            PROVE  q = p
        <5>1. q # r /\ req'[q] = req[q]
          BY <2>1, <4>1, <4>3
        <5> QED BY <4>1, <4>3, <5>1 DEF UseInv
      <4> QED BY <4>2, <4>3
    <3> QED BY <3>1, <3>2
  <2>5. SingleUse' /\ \A n \in Nodes : node'[n].token # None
                                      => token'[node'[n].token].at = "gone"
    BY <2>2 DEF UseInv, SingleUse
  <2> QED BY <2>4, <2>5 DEF UseInv
<1>6. ASSUME NEW r \in Requests, NEW n \in Nodes, Committed(r, n)
      PROVE  UseInv'
  <2> DEFINE t == req[r].token
  <2>1. /\ t \in Tokens /\ token'[t].at = "gone"
        /\ \A u \in Tokens \ {t} : token'[u] = token[u]
        /\ node'[n].token = t
        /\ \A m \in Nodes \ {n} : node'[m] = node[m]
        /\ req'[r].at = "created"
        /\ \A q \in Requests \ {r} : req'[q] = req[q]
    BY <1>6, CommittedEffect
  <2>2. req[r].at = "checked"
    BY <1>6 DEF Committed
  <2>3. /\ \A m \in Nodes : node[m].token # t
        /\ \A q \in Requests : req[q].at = "checked" /\ req[q].token = t => q = r
    BY <2>2 DEF UseInv
  <2>4. SingleUse'
    BY <2>1, <2>3 DEF UseInv, SingleUse
  <2>5. ASSUME NEW m \in Nodes, node'[m].token # None
        PROVE  token'[node'[m].token].at = "gone"
    <3>1. CASE m = n
      BY <2>1, <3>1
    <3>2. CASE m # n
      <4>1. node'[m] = node[m] /\ node[m].token \in Tokens \ {t}
        BY <1>0, <2>1, <2>3, <2>5, <3>2
      <4>2. token[node[m].token].at = "gone"
        BY <2>5, <4>1 DEF UseInv
      <4> QED BY <2>1, <4>1, <4>2
    <3> QED BY <3>1, <3>2
  <2>6. ASSUME NEW p \in Requests, req'[p].at = "checked"
        PROVE  /\ \A m \in Nodes : node'[m].token # req'[p].token
               /\ \A q \in Requests :
                    req'[q].at = "checked" /\ req'[q].token = req'[p].token => q = p
    <3>1. p # r /\ req'[p] = req[p] /\ req[p].at = "checked"
      BY <2>1, <2>6
    <3>2. \A m \in Nodes : node'[m].token # req'[p].token
      <4>1. req[p].token # t
        BY <2>3, <3>1
      <4>2. \A m \in Nodes : node[m].token # req[p].token
        BY <3>1 DEF UseInv
      <4> QED BY <2>1, <3>1, <4>1, <4>2
    <3>3. ASSUME NEW q \in Requests, req'[q].at = "checked", req'[q].token = req'[p].token
          PROVE  q = p
      <4>1. q # r /\ req'[q] = req[q]
        BY <2>1, <3>3
      <4> QED BY <3>1, <3>3, <4>1 DEF UseInv
    <3> QED BY <3>2, <3>3
  <2> QED BY <2>4, <2>5, <2>6 DEF UseInv
<1>7. CASE Quiet
  BY <1>1, <1>7 DEF Quiet
<1> QED BY <1>2, <1>3, <1>4, <1>5, <1>6, <1>7, NextCases

\* If the hub works on one registration of a token at a time, a token makes one node
\* at most, whatever is lost, repeated or fails (agents.py:88-125).
THEOREM SerialSingleUse == ~ Overlap => (Spec => []SingleUse)
<1> SUFFICES ASSUME ~ Overlap PROVE Spec => []SingleUse
  OBVIOUS
<1>1. Init => TypeInv /\ UseInv
  BY TypeInit, UseInit
<1>2. TypeInv /\ UseInv /\ [Next]_vars => (TypeInv /\ UseInv)'
  BY TypeStep, UseStep
<1>3. UseInv => SingleUse
  BY DEF UseInv
<1> QED BY <1>1, <1>2, <1>3, PTL DEF Spec
=============================================================================
