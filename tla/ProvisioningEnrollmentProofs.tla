--------------------- MODULE ProvisioningEnrollmentProofs ---------------------
(***************************************************************************)
(* Provisioning implements Enrollment, for every value of its constants,   *)
(* when the hub works on one registration of a token at a time.            *)
(***************************************************************************)
EXTENDS ProvisioningIdentityProofs

-----------------------------------------------------------------------------
(***************************************************************************)
(* What the refinement needs beside the invariants of the safety           *)
(* properties: a node has no token before it is made, an agent holds at    *)
(* most one node, and no token is older than its site.                     *)
(***************************************************************************)
UnbornBare == \A n \in Nodes : node[n].at = "unborn" => node[n].token = None

HoldsOne == \A a \in Agents : \A m, n \in Holds(a) : m = n

SitesFirst ==
  \A t \in Tokens : IF token[t].at = "unborn" THEN token[t].site = None
                                              ELSE site[token[t].site] # "unborn"

EnrollInv ==
  /\ TypeInv /\ SiteInv /\ UseInv /\ IdentityInv /\ StrandInv
  /\ UnbornBare /\ HoldsOne /\ SitesFirst

LEMMA EnrollInit == Init => EnrollInv
<1> SUFFICES ASSUME Init PROVE EnrollInv
  OBVIOUS
<1>1. UnbornBare /\ HoldsOne /\ SitesFirst
  BY DEF Init, UnbornBare, HoldsOne, SitesFirst, Holds
<1> QED BY <1>1, TypeInit, SiteInit, UseInit, IdentityInit, StrandInit DEF EnrollInv

LEMMA UnbornBareStep ==
  ASSUME TypeInv, UnbornBare, [Next]_vars
  PROVE  UnbornBare'
<1>1. CASE NodesStay
  BY <1>1 DEF NodesStay, UnbornBare
<1>2. ASSUME NEW r \in Requests, NEW n \in Nodes, Committed(r, n)
      PROVE  UnbornBare'
  <2>1. node'[n].at = "live" /\ \A m \in Nodes \ {n} : node'[m] = node[m]
    BY <1>2, CommittedEffect
  <2> QED BY <2>1 DEF UnbornBare
<1>3. CASE UNCHANGED node
  BY <1>3 DEF UnbornBare
<1> QED BY <1>1, <1>2, <1>3, GivingCases DEF Install, Start, Registered

LEMMA HoldsOneStep ==
  ASSUME TypeInv, StrandInv, HoldsOne, [Next]_vars
  PROVE  HoldsOne'
<1>1. ASSUME \A a \in Agents : Holds(a)' \subseteq Holds(a)
      PROVE  HoldsOne'
  BY <1>1 DEF HoldsOne
<1>2. CASE AgentsForget
  BY <1>1, <1>2 DEF AgentsForget
<1>3. ASSUME NEW a \in Agents, NEW t \in Tokens, Install(a, t)
      PROVE  HoldsOne'
  <2>1. \A b \in Agents : agent'[b].jwt = agent[b].jwt /\ agent'[b].file = agent[b].file
    BY <1>3, InstallEffect
  <2> QED BY <1>1, <2>1 DEF Holds
<1>4. ASSUME NEW a \in Agents, NEW r \in Requests, Start(a, r)
      PROVE  HoldsOne'
  <2>1. \A b \in Agents : agent'[b].jwt = agent[b].jwt /\ agent'[b].file = agent[b].file
    BY <1>4, StartedEffect
  <2> QED BY <1>1, <2>1 DEF Holds
<1>5. ASSUME NEW r \in Requests, NEW n \in Nodes, Committed(r, n)
      PROVE  HoldsOne'
  BY <1>1, <1>5 DEF Committed, Holds
<1>6. ASSUME NEW a \in Agents, Registered(a)
      PROVE  HoldsOne'
  <2>1. /\ agent'[a].jwt = req[agent[a].waiting].node /\ agent'[a].file = agent[a].file
        /\ \A b \in Agents \ {a} : agent'[b] = agent[b]
    BY <1>6, RegisteredEffect
  <2>2. agent[a].file = None
    BY <1>6 DEF StrandInv, HoldsInTurn, Registered
  <2>3. \A m, n \in Holds(a)' : m = n
    BY <2>1, <2>2 DEF Holds
  <2>4. \A b \in Agents \ {a} : Holds(b)' = Holds(b)
    BY <2>1 DEF Holds
  <2> QED BY <2>3, <2>4 DEF HoldsOne
<1> QED BY <1>2, <1>3, <1>4, <1>5, <1>6, GivingCases

LEMMA SitesFirstStep ==
  ASSUME TypeInv, SiteInv, SitesFirst, [Next]_vars
  PROVE  SitesFirst'
<1>0. /\ site \in [Sites -> Lifetime]
      /\ token \in [Tokens -> [at : Lifetime \cup {"expired"}, site : Sites \cup {None}]]
      /\ \A t \in Tokens : token[t].at # "unborn" => token[t].site \in Sites
      /\ None \notin Sites
  BY ProvisioningAssumption DEF TypeInv, TypeOK, SiteInv, ProvisioningAssumption
<1>1. ASSUME \A s \in Sites : site[s] # "unborn" => site'[s] # "unborn",
             \A t \in Tokens : token'[t].site = token[t].site
                               /\ (token[t].at = "unborn" <=> token'[t].at = "unborn")
      PROVE  SitesFirst'
  BY <1>0, <1>1 DEF SitesFirst
<1>2. ASSUME NEW s \in Sites, CreateSite(s) \/ DeleteSite(s)
      PROVE  SitesFirst'
  <2>1. \A r \in Sites : site[r] # "unborn" => site'[r] # "unborn"
    BY <1>0, <1>2 DEF CreateSite, DeleteSite
  <2>2. CASE CreateSite(s)
    BY <1>1, <2>1, <2>2 DEF CreateSite
  <2>3. CASE DeleteSite(s)
    BY <1>0, <2>1, <2>3 DEF DeleteSite, SitesFirst
  <2> QED BY <1>2, <2>2, <2>3
<1>3. ASSUME NEW t \in Tokens, NEW s \in Sites, CreateToken(t, s)
      PROVE  SitesFirst'
  BY <1>0, <1>3 DEF CreateToken, SitesFirst
<1>4. ASSUME NEW t \in Tokens, DeleteToken(t) \/ ExpireToken(t)
      PROVE  SitesFirst'
  BY <1>0, <1>1, <1>4 DEF DeleteToken, ExpireToken
<1>5. ASSUME NEW n \in Nodes, RemoveNode(n)
      PROVE  SitesFirst'
  BY <1>1, <1>5 DEF RemoveNode
<1>6. ASSUME NEW r \in Requests, Passed(r)
      PROVE  SitesFirst'
  BY <1>1, <1>6 DEF Passed
<1>7. ASSUME NEW r \in Requests, NEW n \in Nodes, Committed(r, n)
      PROVE  SitesFirst'
  <2>1. /\ token'[req[r].token].site = token[req[r].token].site
        /\ token'[req[r].token].at = "gone"
        /\ \A u \in Tokens \ {req[r].token} : token'[u] = token[u]
    BY <1>7, CommittedEffect
  <2>2. token[req[r].token].at # "unborn"
    BY <1>7 DEF SiteInv, Committed
  <2>3. site' = site
    BY <1>7 DEF Committed
  <2> QED BY <1>1, <2>1, <2>2, <2>3
<1>8. CASE Quiet
  BY <1>1, <1>8 DEF Quiet
<1> QED BY <1>2, <1>3, <1>4, <1>5, <1>6, <1>7, <1>8, NextCases

LEMMA EnrollStep ==
  ASSUME ~ Overlap, EnrollInv, [Next]_vars
  PROVE  EnrollInv'
BY TypeStep, SiteStep, UseStep, IdentityStep, StrandStep, UnbornBareStep, HoldsOneStep,
   SitesFirstStep
   DEF EnrollInv

-----------------------------------------------------------------------------
(***************************************************************************)
(* The mapping, part by part.                                              *)
(***************************************************************************)
Places == {s \in Sites : site[s] = "live"}
Issued == {t \in Tokens : token[t].at # "unborn"}
Offers == [t \in Tokens |-> OfferOf(t)]
Given == [a \in Agents |-> agent[a].token]
Origins == [n \in Nodes |-> node[n].token]
Homes == [n \in Nodes |-> HomeOf(n)]
Letters == {n \in Nodes : Answered(n)}
Bearers == [a \in Agents |-> Holds(a)]

LEMMA Mapped ==
  ASSUME UNCHANGED <<Places, Issued, Offers, Given, Origins, Homes, Letters, Bearers>>
  PROVE  UNCHANGED Invitations!vars
BY DEF Invitations!vars, Invitations!hub, Invitations!hosts, Places, Issued, Offers, Given,
       Origins, Homes, Letters, Bearers

LEMMA MappedInit == Init => Invitations!Init
<1> SUFFICES ASSUME Init PROVE Invitations!Init
  OBVIOUS
<1>1. Places = {} /\ Issued = {}
  BY DEF Init, Places, Issued
<1>2. \A r \in Requests : req[r].at = "idle"
  BY DEF Init, Free
<1>3. Letters = {}
  BY <1>2 DEF Letters, Answered
<1>4. Offers = [t \in Tokens |-> None]
  BY <1>2 DEF Init, Offers, OfferOf, Stands
<1>5. Given = [a \in Agents |-> None] /\ Bearers = [a \in Agents |-> {}]
  BY DEF Init, Given, Bearers, Holds
<1>6. Origins = [n \in Nodes |-> None] /\ Homes = [n \in Nodes |-> None]
  BY DEF Init, Origins, Homes, HomeOf
<1> QED BY <1>1, <1>3, <1>4, <1>5, <1>6
           DEF Invitations!Init, Places, Issued, Offers, Given, Origins, Homes, Letters,
               Bearers

\* What stays with the parts of the state that it is read from.
LEMMA TablesMapped ==
  ASSUME UNCHANGED <<site, token, node>>
  PROVE  UNCHANGED <<Places, Issued, Origins, Homes>>
BY DEF Places, Issued, Origins, Homes, HomeOf

LEMMA HostsMapped ==
  ASSUME \A a \in Agents : agent'[a].token = agent[a].token /\ Holds(a)' = Holds(a)
  PROVE  UNCHANGED <<Given, Bearers>>
BY DEF Given, Bearers

LEMMA RequestsMapped ==
  ASSUME UNCHANGED req
  PROVE  /\ UNCHANGED Letters
         /\ UNCHANGED <<site, token>> => UNCHANGED Offers
BY DEF Letters, Answered, Offers, OfferOf, Stands

\* Whose invitation stands, its site exists.
LEMMA OfferedSite ==
  ASSUME TypeInv, SiteInv, NEW t \in Tokens
  PROVE  /\ Offers[t] = OfferOf(t)
         /\ Stands(t) => token[t].site \in Sites
         /\ OfferOf(t) \in Sites \cup {None} /\ None \notin Sites
         /\ OfferOf(t) # None => OfferOf(t) \in Places
         /\ OfferOf(t) # None <=> Stands(t) /\ site[token[t].site] = "live"
<1>1. None \notin Sites
  BY ProvisioningAssumption DEF ProvisioningAssumption
<1>2. Stands(t) => token[t].site \in Sites
  BY DEF SiteInv, Stands
<1> QED BY <1>1, <1>2 DEF Offers, OfferOf, Places

LEMMA OfferFalls ==
  ASSUME NEW t \in Tokens, OfferOf(t) # None, OfferOf(t)' = None,
         \A u \in Tokens \ {t} : OfferOf(u)' = OfferOf(u)
  PROVE  Offers[t] # None /\ Offers' = [Offers EXCEPT ![t] = None]
<1>1. Offers[t] # None
  BY DEF Offers
<1>2. Offers' = [u \in Tokens |-> OfferOf(u)']
  BY DEF Offers
<1>3. [Offers EXCEPT ![t] = None] = [u \in Tokens |-> IF u = t THEN None ELSE OfferOf(u)]
  BY DEF Offers
<1> QED BY <1>1, <1>2, <1>3

-----------------------------------------------------------------------------
(***************************************************************************)
(* The administrator's steps.                                              *)
(***************************************************************************)
LEMMA AdministerMapped ==
  ASSUME UNCHANGED <<req, agent>>, NodesStay
  PROVE  UNCHANGED <<Given, Bearers, Letters, Origins>>
BY DEF Given, Bearers, Holds, Letters, Answered, Origins, NodesStay

LEMMA MapsCreateSite ==
  ASSUME EnrollInv, NEW s \in Sites, CreateSite(s)
  PROVE  Invitations!Open(s)
<1>1. NodesStay /\ UNCHANGED <<req, agent>>
  BY TablesStay DEF EnrollInv
<1>2. /\ site[s] = "unborn" /\ site'[s] = "live" /\ \A r \in Sites \ {s} : site'[r] = site[r]
      /\ UNCHANGED <<token, node>>
  BY DEF CreateSite, EnrollInv, TypeInv, TypeOK
<1>3. s \notin Places /\ Places' = Places \cup {s}
  BY <1>2 DEF Places
<1>4. UNCHANGED <<Issued, Homes>>
  BY <1>2 DEF Issued, Homes, HomeOf
<1>5. UNCHANGED Offers
  <2>1. \A t \in Tokens : Stands(t)' = Stands(t)
    BY <1>1, <1>2 DEF Stands
  <2>2. ASSUME NEW t \in Tokens
        PROVE  OfferOf(t)' = OfferOf(t)
    <3>1. CASE Stands(t)
      <4>1. token[t].at # "unborn"
        BY <3>1 DEF Stands, EnrollInv, SiteInv
      <4>2. token[t].site \in Sites /\ token[t].site # s
        BY <1>2, <4>1 DEF EnrollInv, SiteInv, SitesFirst
      <4> QED BY <1>2, <2>1, <3>1, <4>2 DEF OfferOf
    <3>2. CASE ~ Stands(t)
      BY <2>1, <3>2 DEF OfferOf
    <3> QED BY <3>1, <3>2
  <2> QED BY <2>2 DEF Offers
<1> QED BY <1>1, <1>3, <1>4, <1>5, AdministerMapped
           DEF Invitations!Open, Invitations!hosts, Places, Issued, Offers, Given, Origins, Homes, Letters,
               Bearers

LEMMA MapsDeleteSite ==
  ASSUME EnrollInv, NEW s \in Sites, DeleteSite(s)
  PROVE  Invitations!Close(s)
<1>0. /\ site \in [Sites -> Lifetime]
      /\ token \in [Tokens -> [at : Lifetime \cup {"expired"}, site : Sites \cup {None}]]
      /\ node \in [Nodes -> [at : Lifetime, site : Sites \cup {None},
                             token : Tokens \cup {None}]]
      /\ None # s
  BY ProvisioningAssumption DEF EnrollInv, TypeInv, TypeOK, ProvisioningAssumption
<1>1. NodesStay /\ UNCHANGED <<req, agent>>
  BY TablesStay DEF EnrollInv
<1>2. /\ site[s] = "live" /\ site'[s] = "gone" /\ \A r \in Sites \ {s} : site'[r] = site[r]
      /\ \A t \in Tokens :
           /\ token'[t].site = token[t].site
           /\ token'[t].at = IF token[t].site = s THEN "gone" ELSE token[t].at
      /\ \A n \in Nodes :
           /\ node'[n].site = node[n].site
           /\ node'[n].at = IF node[n].site = s THEN "gone" ELSE node[n].at
  BY <1>0 DEF DeleteSite
<1>3. s \in Places /\ Places' = Places \ {s}
  BY <1>2 DEF Places
<1>4. UNCHANGED Issued
  BY <1>0, <1>2 DEF Issued, EnrollInv, SitesFirst
<1>5. Homes' = [n \in Nodes |-> IF Homes[n] = s THEN None ELSE Homes[n]]
  <2>1. ASSUME NEW n \in Nodes
        PROVE  HomeOf(n)' = IF HomeOf(n) = s THEN None ELSE HomeOf(n)
    BY <1>0, <1>2 DEF HomeOf
  <2> QED BY <2>1 DEF Homes
<1>6. Offers' = [t \in Tokens |-> IF Offers[t] = s THEN None ELSE Offers[t]]
  <2>1. ASSUME NEW t \in Tokens
        PROVE  OfferOf(t)' = IF OfferOf(t) = s THEN None ELSE OfferOf(t)
    <3>1. CASE token[t].site = s
      BY <1>0, <1>2, <3>1 DEF OfferOf
    <3>2. CASE token[t].site # s
      <4>1. Stands(t)' = Stands(t)
        BY <1>1, <1>2, <3>2 DEF Stands
      <4>2. Stands(t) => token[t].site \in Sites
        BY OfferedSite DEF EnrollInv
      <4> QED BY <1>0, <1>2, <3>2, <4>1, <4>2 DEF OfferOf
    <3> QED BY <3>1, <3>2
  <2> QED BY <2>1 DEF Offers
<1> QED BY <1>1, <1>3, <1>4, <1>5, <1>6, AdministerMapped
           DEF Invitations!Close, Invitations!hosts, Places, Issued, Offers, Given, Origins,
               Homes, Letters, Bearers

LEMMA MapsCreateToken ==
  ASSUME EnrollInv, NEW t \in Tokens, NEW s \in Sites, CreateToken(t, s)
  PROVE  Invitations!Offer(t, s)
<1>1. NodesStay /\ UNCHANGED <<req, agent>>
  BY TablesStay DEF EnrollInv
<1>2. /\ token[t].at = "unborn" /\ site[s] = "live"
      /\ token'[t].at = "live" /\ token'[t].site = s
      /\ \A u \in Tokens \ {t} : token'[u] = token[u]
      /\ UNCHANGED <<site, node>>
  BY DEF CreateToken, EnrollInv, TypeInv, TypeOK
<1>3. UNCHANGED <<Places, Homes>> /\ s \in Places
  BY <1>2 DEF Places, Homes, HomeOf
<1>4. t \notin Issued /\ Issued' = Issued \cup {t}
  BY <1>2 DEF Issued
<1>5. Offers' = [Offers EXCEPT ![t] = s]
  <2>1. OfferOf(t)' = s
    BY <1>2 DEF OfferOf, Stands
  <2>2. ASSUME NEW u \in Tokens \ {t}
        PROVE  OfferOf(u)' = OfferOf(u)
    BY <1>1, <1>2 DEF OfferOf, Stands
  <2> QED BY <2>1, <2>2 DEF Offers
<1> QED BY <1>1, <1>3, <1>4, <1>5, AdministerMapped
           DEF Invitations!Offer, Invitations!hosts, Places, Issued, Offers, Given, Origins,
               Homes, Letters, Bearers

\* The row of a token is gone or no longer valid: only if no request is working on it does
\* its invitation fall with it.
LEMMA MapsToken ==
  ASSUME EnrollInv, NEW t \in Tokens, DeleteToken(t) \/ ExpireToken(t)
  PROVE  [Invitations!Next]_Invitations!vars
<1>1. NodesStay /\ UNCHANGED <<req, agent>>
  BY TablesStay DEF EnrollInv
<1>2. /\ token[t].at # "unborn" /\ token'[t].at \in {"gone", "expired"}
      /\ token'[t].site = token[t].site
      /\ \A u \in Tokens \ {t} : token'[u] = token[u]
      /\ UNCHANGED <<site, node>>
  BY DEF DeleteToken, ExpireToken, EnrollInv, TypeInv, TypeOK
<1>3. UNCHANGED <<Places, Issued, Homes, Given, Bearers, Letters, Origins>>
  BY <1>1, <1>2, AdministerMapped DEF Places, Issued, Homes, HomeOf
<1>4. \A u \in Tokens \ {t} : OfferOf(u)' = OfferOf(u)
  BY <1>1, <1>2 DEF OfferOf, Stands
<1>5. Stands(t)' => Stands(t)
  BY <1>1, <1>2 DEF Stands
<1>6. OfferOf(t)' \in {OfferOf(t), None}
  BY <1>2, <1>5 DEF OfferOf
<1>7. CASE OfferOf(t)' = OfferOf(t)
  <2>1. Offers' = Offers
    BY <1>4, <1>7 DEF Offers
  <2> QED BY <1>3, <2>1, Mapped
<1>8. CASE OfferOf(t)' # OfferOf(t)
  <2>1. Offers[t] # None /\ Offers' = [Offers EXCEPT ![t] = None]
    BY <1>4, <1>6, <1>8, OfferFalls
  <2>2. Invitations!Withdraw(t)
    BY <1>3, <2>1 DEF Invitations!Withdraw, Invitations!hosts, Places, Issued, Offers, Given,
                      Origins, Homes, Letters, Bearers
  <2> QED BY <2>2 DEF Invitations!Next
<1> QED BY <1>7, <1>8

LEMMA MapsRemoveNode ==
  ASSUME EnrollInv, NEW n \in Nodes, RemoveNode(n)
  PROVE  Invitations!Expel(n)
<1>1. NodesStay /\ UNCHANGED <<req, agent>>
  BY TablesStay DEF EnrollInv
<1>2. /\ node[n].at = "live" /\ node'[n].at = "gone"
      /\ \A m \in Nodes \ {n} : node'[m] = node[m]
      /\ UNCHANGED <<site, token>>
  BY DEF RemoveNode, EnrollInv, TypeInv, TypeOK
<1>3. UNCHANGED <<Places, Issued, Offers>>
  BY <1>1, <1>2, RequestsMapped DEF Places, Issued
<1>4. Homes[n] # None /\ Homes' = [Homes EXCEPT ![n] = None]
  <2>1. HomeOf(n) \in Sites /\ None \notin Sites
    BY <1>2, ProvisioningAssumption DEF HomeOf, EnrollInv, SiteInv, ProvisioningAssumption
  <2>2. HomeOf(n)' = None /\ \A m \in Nodes \ {n} : HomeOf(m)' = HomeOf(m)
    BY <1>2 DEF HomeOf
  <2> QED BY <2>1, <2>2 DEF Homes
<1> QED BY <1>1, <1>3, <1>4, AdministerMapped
           DEF Invitations!Expel, Invitations!hosts, Places, Issued, Offers, Given, Origins,
               Homes, Letters, Bearers

-----------------------------------------------------------------------------
(***************************************************************************)
(* The requests.                                                           *)
(***************************************************************************)
LEMMA MapsPassed ==
  ASSUME EnrollInv, NEW r \in Requests, Passed(r)
  PROVE  UNCHANGED Invitations!vars
<1>1. /\ req[r].at = "sent" /\ req'[r].at = "checked" /\ req'[r].token = req[r].token
      /\ \A q \in Requests \ {r} : req'[q] = req[q]
      /\ token[req[r].token].at = "live"
      /\ UNCHANGED <<site, token, node, agent>>
  BY PassedEffect DEF EnrollInv, Passed
<1>2. UNCHANGED <<Places, Issued, Origins, Homes, Given, Bearers>>
  BY <1>1, TablesMapped, HostsMapped DEF Holds
<1>3. Letters' = Letters
  <2>1. \A q \in Requests : (req'[q].at = "created" <=> req[q].at = "created")
                            /\ (req[q].at = "created" => req'[q] = req[q])
    BY <1>1
  <2> QED BY <2>1 DEF Letters, Answered
<1>4. Offers' = Offers
  <2>1. ASSUME NEW t \in Tokens
        PROVE  Stands(t)' <=> Stands(t)
    BY <1>1 DEF Stands
  <2> QED BY <1>1, <2>1 DEF Offers, OfferOf
<1> QED BY <1>2, <1>3, <1>4, Mapped

LEMMA MapsCommitted ==
  ASSUME EnrollInv, NEW r \in Requests, NEW n \in Nodes, Committed(r, n)
  PROVE  Invitations!Next
<1> PICK t \in Tokens : t = req[r].token
  BY CommittedEffect DEF EnrollInv
<1>1. /\ token'[t].at = "gone" /\ token'[t].site = token[t].site
      /\ \A u \in Tokens \ {t} : token'[u] = token[u]
      /\ node'[n].at = "live" /\ node'[n].site = token[t].site /\ node'[n].token = t
      /\ \A m \in Nodes \ {n} : node'[m] = node[m]
      /\ req'[r].at = "created" /\ req'[r].node = n
      /\ \A q \in Requests \ {r} : req'[q] = req[q]
  BY CommittedEffect DEF EnrollInv
<1>2. /\ req[r].at = "checked" /\ site[token[t].site] = "live" /\ node[n].at = "unborn"
      /\ UNCHANGED <<site, agent>>
  BY DEF Committed
<1>3. /\ UNCHANGED <<Places, Given, Bearers>>
      /\ Issued' = Issued
  <2>1. token[t].at # "unborn"
    BY <1>2 DEF EnrollInv, SiteInv
  <2> QED BY <1>1, <1>2, <2>1, HostsMapped DEF Places, Issued, Holds
<1>4. Offers[t] = token[t].site /\ Offers[t] # None
  BY <1>2, OfferedSite DEF EnrollInv, OfferOf, Stands
<1>5. Offers' = [Offers EXCEPT ![t] = None]
  <2>1. ~ Stands(t)'
    \* No other request is working on the token.
    <3>1. ASSUME NEW q \in Requests, req'[q].at = "checked"
          PROVE  req'[q].token # t
      <4>1. q # r /\ req'[q] = req[q]
        BY <1>1, <3>1
      <4> QED BY <1>2, <3>1, <4>1 DEF EnrollInv, UseInv
    <3> QED BY <1>1, <3>1 DEF Stands
  <2>2. OfferOf(t)' = None
    BY <2>1 DEF OfferOf
  <2>3. ASSUME NEW u \in Tokens \ {t}
        PROVE  OfferOf(u)' = OfferOf(u)
    <3>1. Stands(u)' <=> Stands(u)
      BY <1>1, <1>2 DEF Stands
    <3> QED BY <1>1, <1>2, <3>1 DEF OfferOf
  <2> QED BY <2>2, <2>3 DEF Offers
<1>6. Origins[n] = None /\ Origins' = [Origins EXCEPT ![n] = t]
  BY <1>1, <1>2 DEF Origins, EnrollInv, UnbornBare
<1>7. Homes' = [Homes EXCEPT ![n] = Offers[t]]
  <2>1. HomeOf(n)' = Offers[t]
    BY <1>1, <1>4 DEF HomeOf
  <2>2. \A m \in Nodes \ {n} : HomeOf(m)' = HomeOf(m)
    BY <1>1 DEF HomeOf
  <2> QED BY <2>1, <2>2 DEF Homes
<1>8. Letters' = Letters \cup {n}
  <2>1. Answered(n)'
    BY <1>1 DEF Answered
  <2>2. \A m \in Nodes \ {n} : Answered(m)' <=> Answered(m)
    BY <1>1, <1>2 DEF Answered
  <2> QED BY <2>1, <2>2 DEF Letters
<1>9. Invitations!Enroll(t, n)
  BY <1>3, <1>4, <1>5, <1>6, <1>7, <1>8
     DEF Invitations!Enroll, Invitations!hosts, Places, Issued, Offers, Given, Origins,
         Homes, Letters, Bearers
<1> QED BY <1>9 DEF Invitations!Next

\* A request ends, or a new one takes its place, and no host gets or loses anything: an
\* answer goes astray, or the invitation it was working on no longer stands.
LEMMA MapsEnded ==
  ASSUME EnrollInv, NEW r \in Requests, req'[r].at \notin {"checked", "created"},
         \A q \in Requests \ {r} : req'[q] = req[q],
         UNCHANGED <<site, token, node>>,
         \A a \in Agents : agent'[a].token = agent[a].token /\ Holds(a)' = Holds(a)
  PROVE  [Invitations!Next]_Invitations!vars
<1>1. UNCHANGED <<Places, Issued, Origins, Homes, Given, Bearers>>
  BY TablesMapped, HostsMapped
<1>2. CASE req[r].at = "created"
  <2> PICK n \in Nodes : n = req[r].node
    BY <1>2 DEF EnrollInv, TypeInv, RequestsName
  <2>1. Offers' = Offers
    <3>1. \A t \in Tokens : Stands(t)' <=> Stands(t)
      BY <1>2 DEF Stands
    <3> QED BY <3>1 DEF Offers, OfferOf
  <2>2. Answered(n) /\ ~ Answered(n)'
    <3>1. \A q \in Requests \ {r} : ~ (req[q].at = "created" /\ req[q].node = n)
      BY <1>2 DEF EnrollInv, IdentityInv, CreatedAlone
    <3> QED BY <1>2, <3>1 DEF Answered
  <2>3. \A m \in Nodes \ {n} : Answered(m)' <=> Answered(m)
    BY <1>2 DEF Answered
  <2>4. n \in Letters /\ Letters' = Letters \ {n}
    BY <2>2, <2>3 DEF Letters
  <2>5. Invitations!GoAstray(n)
    BY <1>1, <2>1, <2>4 DEF Invitations!GoAstray, Invitations!hub, Invitations!hosts, Places,
                            Issued, Offers, Given, Origins, Homes, Letters, Bearers
  <2> QED BY <2>5 DEF Invitations!Next
<1>3. CASE req[r].at # "created"
  <2>1. Letters' = Letters
    BY <1>3 DEF Letters, Answered
  <2>2. CASE Offers' = Offers
    BY <1>1, <2>1, <2>2, Mapped
  <2>3. CASE Offers' # Offers
    <3>1. PICK t \in Tokens : OfferOf(t)' # OfferOf(t)
      BY <2>3 DEF Offers
    <3>2. Stands(t) /\ ~ Stands(t)'
      BY <3>1 DEF OfferOf, Stands
    <3>3. req[r].at = "checked" /\ req[r].token = t
      BY <3>2 DEF Stands
    <3>4. \A u \in Tokens \ {t} : OfferOf(u)' = OfferOf(u)
      <4>1. \A u \in Tokens \ {t} : Stands(u)' <=> Stands(u)
        BY <3>3 DEF Stands
      <4> QED BY <4>1 DEF OfferOf
    <3>5. OfferOf(t)' = None
      BY <3>2 DEF OfferOf
    <3>6. Offers[t] # None /\ Offers' = [Offers EXCEPT ![t] = None]
      BY <3>1, <3>4, <3>5, OfferFalls
    <3>7. Invitations!Withdraw(t)
      BY <1>1, <2>1, <3>6 DEF Invitations!Withdraw, Invitations!hosts, Places, Issued, Offers,
                              Given, Origins, Homes, Letters, Bearers
    <3> QED BY <3>7 DEF Invitations!Next
  <2> QED BY <2>2, <2>3
<1> QED BY <1>2, <1>3

-----------------------------------------------------------------------------
(***************************************************************************)
(* The hosts.                                                              *)
(***************************************************************************)
LEMMA MapsInstall ==
  ASSUME EnrollInv, NEW a \in Agents, NEW t \in Tokens, Install(a, t)
  PROVE  Invitations!Give(a, t)
<1>1. /\ agent[a].token = None /\ agent'[a].token = t
      /\ agent'[a].jwt = agent[a].jwt /\ agent'[a].file = agent[a].file
      /\ \A b \in Agents \ {a} : agent'[b] = agent[b]
      /\ UNCHANGED <<site, token, node, req>>
  BY InstallEffect DEF EnrollInv, Install
<1>2. UNCHANGED <<Places, Issued, Origins, Homes, Letters, Offers>>
  BY <1>1, TablesMapped, RequestsMapped
<1>3. t \in Issued
  BY DEF Issued, Install
<1>4. Bearers' = Bearers
  <2>1. \A b \in Agents : Holds(b)' = Holds(b)
    BY <1>1 DEF Holds
  <2> QED BY <2>1 DEF Bearers
<1>5. Given[a] = None /\ Given' = [Given EXCEPT ![a] = t]
  BY <1>1 DEF Given
<1> QED BY <1>2, <1>3, <1>4, <1>5
           DEF Invitations!Give, Invitations!hub, Places, Issued, Offers, Given, Origins,
               Homes, Letters, Bearers

\* What an agent loses is all it had: it holds one node at most.
LEMMA MapsAgent ==
  ASSUME EnrollInv, NEW a \in Agents,
         Resume(a) \/ Save(a) \/ SaveFail(a) \/ Timeout(a) \/ Crash(a)
  PROVE  [Invitations!Next]_Invitations!vars
<1>1. AgentsForget
  BY AgentOnly DEF EnrollInv
<1>2. /\ UNCHANGED <<site, token, node, req>>
      /\ \E new : agent' = [agent EXCEPT ![a] = new]
  <2>1. UNCHANGED <<site, token, node, req>>
    BY DEF Resume, Save, SaveFail, Timeout, Crash
  <2>2. CASE Resume(a)
    BY <2>1, <2>2 DEF Resume
  <2>3. CASE Save(a)
    BY <2>1, <2>3 DEF Save
  <2>4. CASE SaveFail(a)
    BY <2>1, <2>4 DEF SaveFail
  <2>5. CASE Timeout(a)
    BY <2>1, <2>5 DEF Timeout
  <2>6. CASE Crash(a)
    BY <2>1, <2>6 DEF Crash
  <2> QED BY <2>2, <2>3, <2>4, <2>5, <2>6
<1>3. \A b \in Agents \ {a} : agent'[b] = agent[b]
  BY <1>2 DEF EnrollInv, TypeInv, TypeOK
<1>4. UNCHANGED <<Places, Issued, Origins, Homes, Letters, Offers>>
  BY <1>2, TablesMapped, RequestsMapped
<1>5. Given' = Given
  BY <1>1 DEF AgentsForget, Given
<1>6. \A b \in Agents \ {a} : Holds(b)' = Holds(b)
  BY <1>3 DEF Holds
<1>7. CASE Holds(a)' = Holds(a)
  <2>1. Bearers' = Bearers
    BY <1>6, <1>7 DEF Bearers
  <2> QED BY <1>4, <1>5, <2>1, Mapped
<1>8. CASE Holds(a)' # Holds(a)
  <2>1. Holds(a)' = {} /\ Holds(a) # {}
    <3>1. Holds(a)' \subseteq Holds(a)
      BY <1>1 DEF AgentsForget
    <3>2. \A m, n \in Holds(a) : m = n
      BY DEF EnrollInv, HoldsOne
    <3> QED BY <1>8, <3>1, <3>2
  <2>2. Bearers[a] # {} /\ Bearers' = [Bearers EXCEPT ![a] = {}]
    BY <1>6, <2>1 DEF Bearers
  <2>3. Invitations!Forget(a)
    BY <1>4, <1>5, <2>2 DEF Invitations!Forget, Invitations!hub, Places, Issued, Offers, Given,
                            Origins, Homes, Letters, Bearers
  <2> QED BY <2>3 DEF Invitations!Next
<1> QED BY <1>7, <1>8

\* An answer is read by the host whose token made the node, which holds none yet.
LEMMA MapsRegistered ==
  ASSUME EnrollInv, NEW a \in Agents, Registered(a)
  PROVE  Invitations!Next
<1> PICK r \in Requests : r = agent[a].waiting
  BY RegisteredEffect DEF EnrollInv
<1> PICK n \in Nodes : n = req[r].node
  BY RegisteredEffect DEF EnrollInv
<1>1. /\ req[r].at = "created" /\ req'[r].at = "idle"
      /\ \A q \in Requests \ {r} : req'[q] = req[q]
      /\ agent'[a].token = agent[a].token
      /\ agent'[a].jwt = n /\ agent'[a].file = agent[a].file
      /\ \A b \in Agents \ {a} : agent'[b] = agent[b]
  BY RegisteredEffect DEF EnrollInv
<1>2. /\ UNCHANGED <<site, token, node>>
      /\ agent[a].run = "registering"
  BY DEF Registered
<1>3. UNCHANGED <<Places, Issued, Origins, Homes>>
  BY <1>2, TablesMapped
<1>4. Offers' = Offers
  <2>1. \A t \in Tokens : Stands(t)' <=> Stands(t)
    BY <1>1, <1>2 DEF Stands
  <2> QED BY <1>2, <2>1 DEF Offers, OfferOf
<1>5. n \in Letters /\ Letters' = Letters \ {n}
  <2>1. \A q \in Requests \ {r} : ~ (req[q].at = "created" /\ req[q].node = n)
    BY <1>1 DEF EnrollInv, IdentityInv, CreatedAlone
  <2>2. Answered(n) /\ ~ Answered(n)'
    BY <1>1, <2>1 DEF Answered
  <2>3. \A m \in Nodes \ {n} : Answered(m)' <=> Answered(m)
    BY <1>1 DEF Answered
  <2> QED BY <2>2, <2>3 DEF Letters
<1>6. Given' = Given
  BY <1>1 DEF Given
<1>7. Origins[n] = Given[a]
  <2>1. node[n].token = req[r].token
    BY <1>1 DEF EnrollInv, IdentityInv, CreatedOwn
  <2>2. req[r].token = agent[a].token
    BY <1>1 DEF EnrollInv, IdentityInv, WaitsOwn, UnderWay
  <2> QED BY <2>1, <2>2 DEF Origins, Given
<1>8. Bearers[a] = {} /\ Bearers' = [Bearers EXCEPT ![a] = {n}]
  <2>1. agent[a].jwt = None /\ agent[a].file = None
    BY <1>2 DEF EnrollInv, StrandInv, HoldsInTurn
  <2>2. n # None
    BY ProvisioningAssumption DEF ProvisioningAssumption
  <2>3. Holds(a) = {} /\ Holds(a)' = {n}
    BY <1>1, <2>1, <2>2 DEF Holds
  <2>4. \A b \in Agents \ {a} : Holds(b)' = Holds(b)
    BY <1>1 DEF Holds
  <2> QED BY <2>3, <2>4 DEF Bearers
<1>9. Invitations!Arrive(n, a)
  BY <1>3, <1>4, <1>5, <1>6, <1>7, <1>8
     DEF Invitations!Arrive, Invitations!hub, Places, Issued, Offers, Given, Origins, Homes,
         Letters, Bearers
<1> QED BY <1>9 DEF Invitations!Next

-----------------------------------------------------------------------------
LEMMA MapsAdminister ==
  ASSUME EnrollInv, Administer
  PROVE  [Invitations!Next]_Invitations!vars
<1>1. ASSUME NEW s \in Sites, CreateSite(s) \/ DeleteSite(s)
      PROVE  Invitations!Next
  BY <1>1, MapsCreateSite, MapsDeleteSite DEF Invitations!Next
<1>2. ASSUME NEW t \in Tokens, NEW s \in Sites, CreateToken(t, s)
      PROVE  Invitations!Next
  BY <1>2, MapsCreateToken DEF Invitations!Next
<1>3. ASSUME NEW a \in Agents, NEW t \in Tokens, Install(a, t)
      PROVE  Invitations!Next
  BY <1>3, MapsInstall DEF Invitations!Next
<1>4. ASSUME NEW n \in Nodes, RemoveNode(n)
      PROVE  Invitations!Next
  BY <1>4, MapsRemoveNode DEF Invitations!Next
<1> QED BY <1>1, <1>2, <1>3, <1>4, MapsToken DEF Administer

LEMMA MapsRequest ==
  ASSUME EnrollInv, NEW r \in Requests, Handle(r) \/ Fail(r) \/ Lose(r)
  PROVE  [Invitations!Next]_Invitations!vars
<1>0. TypeInv
  BY DEF EnrollInv
<1>1. CASE Refused(r) \/ Fail(r) \/ Lose(r)
  <2>1. /\ req'[r].at \notin {"checked", "created"}
        /\ \A q \in Requests \ {r} : req'[q] = req[q]
    BY <1>0, <1>1, RefusedEffect, FreedEffect DEF Refused, Fail, Refuse, Lose
  <2>2. UNCHANGED <<site, token, node, agent>>
    BY <1>1 DEF Refused, Fail, Lose
  <2>3. \A a \in Agents : agent'[a].token = agent[a].token /\ Holds(a)' = Holds(a)
    BY <2>2 DEF Holds
  <2> QED BY <2>1, <2>2, <2>3, MapsEnded
<1>2. CASE Passed(r)
  BY <1>2, MapsPassed
<1>3. ASSUME NEW n \in Nodes, Committed(r, n)
      PROVE  [Invitations!Next]_Invitations!vars
  BY <1>3, MapsCommitted
<1> QED BY <1>1, <1>2, <1>3, HandleCases

LEMMA MapsRun ==
  ASSUME EnrollInv, NEW a \in Agents, Run(a) \/ Timeout(a) \/ SaveFail(a) \/ Crash(a)
  PROVE  [Invitations!Next]_Invitations!vars
<1>0. TypeInv
  BY DEF EnrollInv
<1>1. ASSUME NEW r \in Requests, Start(a, r)
      PROVE  [Invitations!Next]_Invitations!vars
  <2>1. /\ req'[r].at = "sent" /\ \A q \in Requests \ {r} : req'[q] = req[q]
        /\ agent'[a].token = agent[a].token /\ agent'[a].jwt = agent[a].jwt
        /\ agent'[a].file = agent[a].file
        /\ \A b \in Agents \ {a} : agent'[b] = agent[b]
    BY <1>0, <1>1, StartedEffect
  <2>2. UNCHANGED <<site, token, node>>
    BY <1>1 DEF Start
  <2>3. \A b \in Agents : agent'[b].token = agent[b].token /\ Holds(b)' = Holds(b)
    BY <2>1 DEF Holds
  <2> QED BY <2>1, <2>2, <2>3, MapsEnded
<1>2. CASE Rejected(a)
  <2> PICK r \in Requests : r = agent[a].waiting
    BY <1>0, <1>2, WaitingIsRequest DEF Rejected
  <2>1. req'[r].at = "idle" /\ \A q \in Requests \ {r} : req'[q] = req[q]
    BY <1>0, <1>2, FreedEffect DEF Rejected
  <2>2. UNCHANGED <<site, token, node>>
    BY <1>2 DEF Rejected
  <2>3. \A b \in Agents : /\ agent'[b].token = agent[b].token
                          /\ agent'[b].jwt = agent[b].jwt /\ agent'[b].file = agent[b].file
    <3>1. agent' = [agent EXCEPT ![a] = [@ EXCEPT !.run = "failed", !.waiting = None]]
      BY <1>2 DEF Rejected
    <3>2. agent \in [Agents -> AgentType]
      BY <1>0 DEF TypeInv, TypeOK, AgentType
    <3> QED BY <3>1, <3>2 DEF AgentType
  <2>4. \A b \in Agents : agent'[b].token = agent[b].token /\ Holds(b)' = Holds(b)
    BY <2>3 DEF Holds
  <2> QED BY <2>1, <2>2, <2>4, MapsEnded
<1>3. CASE Registered(a)
  BY <1>3, MapsRegistered
<1> QED BY <1>1, <1>2, <1>3, MapsAgent DEF Run

\* Provisioning implements Enrollment when the hub works on one registration of a token at a
\* time: whatever is lost, fails, crashes or is removed meanwhile, an invitation enrolls one
\* node, at a site that exists, and the node's identity reaches at most one host, which had
\* this invitation (agents.py:88-136, sites.py:70-76, api.go:121-143).
THEOREM SerialEnrolls == ~ Overlap => (Spec => EnrollsByInvitation)
<1> SUFFICES ASSUME ~ Overlap PROVE Spec => EnrollsByInvitation
  OBVIOUS
<1>1. Init => EnrollInv /\ Invitations!Init
  BY EnrollInit, MappedInit
<1>2. EnrollInv /\ [Next]_vars => EnrollInv'
  BY EnrollStep
<1>3. EnrollInv /\ [Next]_vars => [Invitations!Next]_Invitations!vars
  <2>1. CASE UNCHANGED vars
    <3>1. \A a \in Agents : agent'[a].token = agent[a].token /\ Holds(a)' = Holds(a)
      BY <2>1 DEF vars, Holds
    <3> QED BY <2>1, <3>1, TablesMapped, HostsMapped, RequestsMapped, Mapped DEF vars
  <2>2. ASSUME EnrollInv, Next
        PROVE  [Invitations!Next]_Invitations!vars
    BY <2>2, MapsAdminister, MapsRequest, MapsRun DEF Next
  <2> QED BY <2>1, <2>2
<1> QED BY <1>1, <1>2, <1>3, PTL DEF Spec, EnrollsByInvitation, Invitations!Spec
=============================================================================
