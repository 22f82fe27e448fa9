---------------------------- MODULE Provisioning ----------------------------
(***************************************************************************)
(* How a host becomes a node: sites, the registration tokens issued for    *)
(* them, the register handler of the hub, and the start of the agent until *)
(* it has its own token in its state file.                                 *)
(*                                                                         *)
(* The register handler selects the registration token and commits in a    *)
(* later step.  The DELETE of a token row that is gone by then matches no  *)
(* row, of which SQLAlchemy only warns; the INSERT of a node whose site is *)
(* gone violates the foreign key, and the request ends in a 500.           *)
(*                                                                         *)
(* The token an agent gets is represented by the node it names.  Rows are  *)
(* never forgotten: the id of one that is gone is not given out again.  An *)
(* operator introduced by "Variant:" is the definition below it with one   *)
(* mistake in it; it is in no next-state relation.                         *)
(***************************************************************************)
CONSTANTS Sites, Tokens, Nodes,
          Agents,    \* the hosts the agent is installed on
          Requests,  \* registrations that can be under way at one time
          None,
          Overlap    \* the hub can work on two registrations of one token at once

ASSUME ProvisioningAssumption ==
  /\ None \notin Sites \cup Tokens \cup Nodes \cup Agents \cup Requests
  /\ Overlap \in BOOLEAN

VARIABLES site,   \* the sites table
          token,  \* the registration_tokens table
          node,   \* the nodes table
          req,    \* the registrations under way
          agent,  \* the agents
          mishap  \* history: the agents whose registration met with a fault

vars == <<site, token, node, req, agent, mishap>>

Lifetime == {"unborn", "live", "gone"}

(***************************************************************************)
(* A request is "sent", then "checked" once the token has been selected    *)
(* and found valid; "created" is the response 201, "refused" any other.    *)
(* An agent is "off", in Register ("registering", then "saving" with the   *)
(* 201 received), in its heartbeat loop ("up"), or has exited through      *)
(* log.Fatalf ("failed").                                                  *)
(***************************************************************************)
TypeOK ==
  /\ site \in [Sites -> Lifetime]
  /\ token \in [Tokens -> [at : Lifetime \cup {"expired"}, site : Sites \cup {None}]]
  /\ node \in [Nodes -> [at : Lifetime, site : Sites \cup {None},
                         token : Tokens \cup {None}]]
  /\ req \in [Requests -> [at : {"idle", "sent", "checked", "created", "refused"},
                           token : Tokens \cup {None}, node : Nodes \cup {None}]]
  /\ agent \in [Agents -> [run : {"off", "registering", "saving", "up", "failed"},
                           token : Tokens \cup {None}, jwt : Nodes \cup {None},
                           file : Nodes \cup {None}, waiting : Requests \cup {None}]]
  /\ mishap \subseteq Agents

Free == [at |-> "idle", token |-> None, node |-> None]

Init ==
  /\ site = [s \in Sites |-> "unborn"]
  /\ token = [t \in Tokens |-> [at |-> "unborn", site |-> None]]
  /\ node = [n \in Nodes |-> [at |-> "unborn", site |-> None, token |-> None]]
  /\ req = [r \in Requests |-> Free]
  /\ agent = [a \in Agents |-> [run |-> "off", token |-> None, jwt |-> None,
                                file |-> None, waiting |-> None]]
  /\ mishap = {}

(***************************************************************************)
(* The administrator's requests.                                           *)
(***************************************************************************)
CreateSite(s) ==
  /\ site[s] = "unborn"
  /\ site' = [site EXCEPT ![s] = "live"]
  /\ UNCHANGED <<token, node, req, agent, mishap>>

CreateToken(t, s) ==
  /\ token[t].at = "unborn" /\ site[s] = "live"
  /\ token' = [token EXCEPT ![t] = [at |-> "live", site |-> s]]
  /\ UNCHANGED <<site, node, req, agent, mishap>>

DeleteToken(t) ==
  /\ token[t].at \in {"live", "expired"}
  /\ token' = [token EXCEPT ![t].at = "gone"]
  /\ UNCHANGED <<site, node, req, agent, mishap>>

\* The row stays; is_valid turns false.
ExpireToken(t) ==
  /\ token[t].at = "live"
  /\ token' = [token EXCEPT ![t].at = "expired"]
  /\ UNCHANGED <<site, node, req, agent, mishap>>

RemoveNode(n) ==
  /\ node[n].at = "live"
  /\ node' = [node EXCEPT ![n].at = "gone"]
  /\ UNCHANGED <<site, token, req, agent, mishap>>

\* Variant: the nodes are removed, the tokens forgotten.
DeleteSiteNodes(s) ==
  /\ site[s] = "live"
  /\ site' = [site EXCEPT ![s] = "gone"]
  /\ node' = [n \in Nodes |-> IF node[n].site = s THEN [node[n] EXCEPT !.at = "gone"]
                                                  ELSE node[n]]
  /\ UNCHANGED <<token, req, agent, mishap>>

\* The cascades remove the site's nodes and tokens with it.
DeleteSite(s) ==
  /\ site[s] = "live"
  /\ site' = [site EXCEPT ![s] = "gone"]
  /\ node' = [n \in Nodes |-> IF node[n].site = s THEN [node[n] EXCEPT !.at = "gone"]
                                                  ELSE node[n]]
  /\ token' = [t \in Tokens |-> IF token[t].site = s THEN [token[t] EXCEPT !.at = "gone"]
                                                     ELSE token[t]]
  /\ UNCHANGED <<req, agent, mishap>>

(***************************************************************************)
(* register_agent.                                                         *)
(***************************************************************************)
Refuse(r) == req' = [req EXCEPT ![r] = [@ EXCEPT !.at = "refused"]]

\* Variant: its expiry is not looked at.
SelectStale(r) ==
  /\ req[r].at = "sent"
  /\ \/ /\ token[req[r].token].at \in {"live", "expired"}
        /\ \/ Overlap
           \/ \A q \in Requests : req[q].at = "checked" => req[q].token # req[r].token
        /\ req' = [req EXCEPT ![r].at = "checked"]
     \/ /\ token[req[r].token].at \notin {"live", "expired"}
        /\ Refuse(r)
  /\ UNCHANGED <<site, token, node, agent, mishap>>

\* The token is looked up: 401 if its row is not there or has expired.
SelectToken(r) ==
  /\ req[r].at = "sent"
  /\ \/ /\ token[req[r].token].at = "live"
        /\ \/ Overlap
           \/ \A q \in Requests : req[q].at = "checked" => req[q].token # req[r].token
        /\ req' = [req EXCEPT ![r].at = "checked"]
     \/ /\ token[req[r].token].at # "live"
        /\ Refuse(r)
  /\ UNCHANGED <<site, token, node, agent, mishap>>

\* Variant: the token is not deleted.
RegisterAndKeep(r) ==
  LET t == req[r].token
  IN /\ req[r].at = "checked" /\ site[token[t].site] = "live"
     /\ \E n \in {m \in Nodes : node[m].at = "unborn"} :
          /\ node' = [node EXCEPT ![n] = [at |-> "live", site |-> token[t].site,
                                          token |-> t]]
          /\ req' = [req EXCEPT ![r] = [@ EXCEPT !.at = "created", !.node = n]]
     /\ UNCHANGED <<site, token, agent, mishap>>

\* Variant: a second registration gets the node of the first.
RegisterAgain(r) ==
  LET t == req[r].token
      known == {m \in Nodes : node[m].at = "live" /\ node[m].site = token[t].site}
      new == {m \in Nodes : node[m].at = "unborn"}
  IN /\ req[r].at = "checked" /\ site[token[t].site] = "live"
     /\ \E n \in IF known # {} THEN known ELSE new :
          /\ node' = [node EXCEPT ![n] = [at |-> "live", site |-> token[t].site,
                                          token |-> t]]
          /\ req' = [req EXCEPT ![r] = [@ EXCEPT !.at = "created", !.node = n]]
     /\ token' = [token EXCEPT ![t].at = "gone"]
     /\ UNCHANGED <<site, agent, mishap>>

\* Variant: an error after the commit hides what was created.
RegisterUnseen(r) ==
  LET t == req[r].token
  IN /\ req[r].at = "checked" /\ site[token[t].site] = "live"
     /\ \E n \in {m \in Nodes : node[m].at = "unborn"} :
          node' = [node EXCEPT ![n] = [at |-> "live", site |-> token[t].site, token |-> t]]
     /\ token' = [token EXCEPT ![t].at = "gone"]
     /\ Refuse(r)
     /\ UNCHANGED <<site, agent, mishap>>

\* The commit: the node is inserted and the token row deleted, together.
Register(r) ==
  LET t == req[r].token
  IN /\ req[r].at = "checked"
     /\ \/ /\ site[token[t].site] = "live"
           /\ \E n \in {m \in Nodes : node[m].at = "unborn"} :
                /\ node' = [node EXCEPT ![n] = [at |-> "live", site |-> token[t].site,
                                                token |-> t]]
                /\ req' = [req EXCEPT ![r] = [@ EXCEPT !.at = "created", !.node = n]]
           /\ token' = [token EXCEPT ![t].at = "gone"]
        \/ /\ site[token[t].site] # "live"
           /\ Refuse(r)
           /\ UNCHANGED <<node, token, mishap>>
     /\ UNCHANGED <<site, agent, mishap>>

(***************************************************************************)
(* Failures: the hub stops, or raises, in the middle of a registration or  *)
(* after its commit; the network loses a request or a response.            *)
(***************************************************************************)
Waiting(r) == {a \in Agents : agent[a].waiting = r}

Fail(r) ==
  /\ req[r].at \in {"sent", "checked", "created"}
  /\ Refuse(r)
  /\ mishap' = mishap \cup Waiting(r)
  /\ UNCHANGED <<site, token, node, agent>>

Lose(r) ==
  /\ req[r].at \in {"sent", "created", "refused"}
  /\ req' = [req EXCEPT ![r] = Free]
  /\ mishap' = mishap \cup Waiting(r)
  /\ UNCHANGED <<site, token, node, agent>>

(***************************************************************************)
(* The agent.  Every exit through log.Fatalf makes the supervisor start it *)
(* again; the state file of a host that has not registered does not exist. *)
(***************************************************************************)

\* The installation command of a token is run on host a.
Install(a, t) ==
  /\ agent[a].token = None
  /\ token[t].at # "unborn"
  /\ agent' = [agent EXCEPT ![a].token = t]
  /\ UNCHANGED <<site, token, node, req, mishap>>

\* Init with a usable state file.
Resume(a) ==
  /\ agent[a].run \in {"off", "failed"} /\ agent[a].file # None
  /\ agent' = [agent EXCEPT ![a] = [@ EXCEPT !.run = "up", !.jwt = agent[a].file]]
  /\ UNCHANGED <<site, token, node, req, mishap>>

\* Init without one: Register sends its request.
Start(a, r) ==
  /\ agent[a].run \in {"off", "failed"} /\ agent[a].file = None
  /\ agent[a].token # None
  /\ req[r].at \in {"idle", "created", "refused"}
  /\ \A b \in Agents : agent[b].waiting # r
  /\ req' = [req EXCEPT ![r] = [Free EXCEPT !.at = "sent", !.token = agent[a].token]]
  /\ agent' = [agent EXCEPT ![a] = [@ EXCEPT !.run = "registering", !.waiting = r]]
  /\ UNCHANGED <<site, token, node, mishap>>

\* Variant: the registration token is kept in place of the one just received.
RegisteredUnchanged(a) ==
  LET r == agent[a].waiting
  IN /\ agent[a].run = "registering" /\ req[r].at = "created"
     /\ agent' = [agent EXCEPT ![a] = [@ EXCEPT !.run = "saving", !.waiting = None,
                                                !.jwt = req[r].token]]
     /\ req' = [req EXCEPT ![r] = Free]
     /\ UNCHANGED <<site, token, node, mishap>>

\* 201: the token is in memory, saveState comes next.
Registered(a) ==
  LET r == agent[a].waiting
  IN /\ agent[a].run = "registering" /\ req[r].at = "created"
     /\ agent' = [agent EXCEPT ![a] = [@ EXCEPT !.run = "saving", !.waiting = None,
                                                !.jwt = req[r].node]]
     /\ req' = [req EXCEPT ![r] = Free]
     /\ UNCHANGED <<site, token, node, mishap>>

\* Any other status.
Rejected(a) ==
  LET r == agent[a].waiting
  IN /\ agent[a].run = "registering" /\ req[r].at = "refused"
     /\ agent' = [agent EXCEPT ![a] = [@ EXCEPT !.run = "failed", !.waiting = None]]
     /\ req' = [req EXCEPT ![r] = Free]
     /\ UNCHANGED <<site, token, node, mishap>>

\* The client's timeout; the hub goes on with the request.
Timeout(a) ==
  /\ agent[a].run = "registering"
  /\ agent' = [agent EXCEPT ![a] = [@ EXCEPT !.run = "failed", !.waiting = None]]
  /\ mishap' = mishap \cup {a}
  /\ UNCHANGED <<site, token, node, req>>

Save(a) ==
  /\ agent[a].run = "saving"
  /\ agent' = [agent EXCEPT ![a] = [@ EXCEPT !.run = "up", !.file = agent[a].jwt]]
  /\ UNCHANGED <<site, token, node, req, mishap>>

SaveFail(a) ==
  /\ agent[a].run = "saving"
  /\ agent' = [agent EXCEPT ![a] = [@ EXCEPT !.run = "failed", !.jwt = None]]
  /\ mishap' = mishap \cup {a}
  /\ UNCHANGED <<site, token, node, req>>

Crash(a) ==
  /\ agent[a].run \in {"registering", "saving", "up"}
  /\ agent' = [agent EXCEPT ![a] = [@ EXCEPT !.run = "off", !.jwt = None,
                                             !.waiting = None]]
  /\ mishap' = mishap \cup {a}
  /\ UNCHANGED <<site, token, node, req>>

Administer ==
  \/ \E s \in Sites : CreateSite(s) \/ DeleteSite(s)
  \/ \E t \in Tokens : \/ \E s \in Sites : CreateToken(t, s)
                       \/ DeleteToken(t) \/ ExpireToken(t)
                       \/ \E a \in Agents : Install(a, t)
  \/ \E n \in Nodes : RemoveNode(n)

Handle(r) == SelectToken(r) \/ Register(r)

Run(a) ==
  \/ Resume(a) \/ Registered(a) \/ Rejected(a) \/ Save(a)
  \/ \E r \in Requests : Start(a, r)

Next ==
  \/ Administer
  \/ \E r \in Requests : Handle(r) \/ Fail(r) \/ Lose(r)
  \/ \E a \in Agents : Run(a) \/ Timeout(a) \/ SaveFail(a) \/ Crash(a)

Spec == Init /\ [][Next]_vars

-----------------------------------------------------------------------------
(***************************************************************************)
(* Safety.                                                                 *)
(***************************************************************************)

\* A registration token makes one node at most, ever, whatever is lost, repeated or
\* crashes in between (agents.py:88-125).
SingleUse ==
  \A m, n \in Nodes :
    node[m].token # None /\ node[m].token = node[n].token => m = n

\* The nodes that agent a holds the token of, in memory or on disk.
Holds(a) == {agent[a].jwt, agent[a].file} \ {None}

\* No two agents act as the same node, and an agent acts as a node that was made from
\* the registration token it was installed with (agents.py:120-136, api.go:121-143).
OwnIdentity ==
  \A a, b \in Agents :
    \A n \in Holds(a) : /\ node[n].token = agent[a].token
                        /\ n \in Holds(b) => a = b

\* Every node and every usable token belongs to a site that exists: no registration
\* slips past the removal of its site (sites.py:70-76, agents.py:101-125).
SiteOwnsAll ==
  /\ \A n \in Nodes : node[n].at = "live" => site[node[n].site] = "live"
  /\ \A t \in Tokens : token[t].at = "live" => site[token[t].site] = "live"

\* A registration token is never burned in vain: the node made with the token of a
\* host is the one the host holds, or is about to be told of, unless the token was
\* given to other hosts too or a fault hit the registration (api.go:121-143,
\* agents.py:116-136).
Unshared(a) == \A b \in Agents \ {a} : agent[b].token # agent[a].token
ToldOf(a) == {req[r].node : r \in Requests \cap {agent[a].waiting}}

NothingStranded ==
  \A a \in Agents \ mishap : \A n \in Nodes :
    /\ Unshared(a) /\ agent[a].token # None
    /\ node[n].token = agent[a].token
    => n \in Holds(a) \cup ToldOf(a)

\* Provisioning is Enrollment.  An invitation stands while its token is valid, or is in the
\* hands of a request that has found it valid: what happens to its row in between comes too
\* late (agents.py:88-125, sites.py:70-76, api.go:121-143).
Stands(t) ==
  \/ token[t].at = "live"
  \/ \E r \in Requests : req[r].at = "checked" /\ req[r].token = t

OfferOf(t) ==
  IF Stands(t) /\ site[token[t].site] = "live" THEN token[t].site ELSE None

HomeOf(n) == IF node[n].at = "live" THEN node[n].site ELSE None

Answered(n) == \E r \in Requests : req[r].at = "created" /\ req[r].node = n

Invitations == INSTANCE Enrollment WITH
  places <- {s \in Sites : site[s] = "live"},
  issued <- {t \in Tokens : token[t].at # "unborn"},
  offer <- [t \in Tokens |-> OfferOf(t)],
  given <- [a \in Agents |-> agent[a].token],
  origin <- [n \in Nodes |-> node[n].token],
  home <- [n \in Nodes |-> HomeOf(n)],
  letters <- {n \in Nodes : Answered(n)},
  bears <- [a \in Agents |-> Holds(a)]

EnrollsByInvitation == Invitations!Spec
=============================================================================
