------------------------------ MODULE Enrollment ------------------------------
(***************************************************************************)
(* What provisioning promises, without requests, handlers, state files or  *)
(* restarts.  A registration token is an invitation to a site: it enrolls  *)
(* one node, at that site, in one step, while the site exists and the      *)
(* invitation stands.  The identity of the node goes out in one letter,    *)
(* which arrives at most once, at a host that was given this invitation    *)
(* and is no node yet.  Provisioning implements this specification when    *)
(* the hub works on one registration of a token at a time.                 *)
(***************************************************************************)
CONSTANTS Sites, Tokens, Nodes, Agents, None

VARIABLES places,   \* the sites there are
          issued,   \* the invitations that were ever made out
          offer,    \* the site to which an invitation that stands is one
          given,    \* the invitation that a host was given
          origin,   \* the invitation by which a node was enrolled
          home,     \* the site of a node that has not been removed
          letters,  \* the nodes whose identity is on its way
          bears     \* the nodes as which a host can act: at most one

hub == <<places, issued, offer, home>>
hosts == <<given, bears>>
vars == <<hub, origin, letters, hosts>>

Init ==
  /\ places = {} /\ issued = {} /\ letters = {}
  /\ offer = [t \in Tokens |-> None]
  /\ given = [a \in Agents |-> None]
  /\ origin = [n \in Nodes |-> None]
  /\ home = [n \in Nodes |-> None]
  /\ bears = [a \in Agents |-> {}]

Open(s) ==
  /\ s \notin places
  /\ places' = places \cup {s}
  /\ UNCHANGED <<issued, offer, home, origin, letters, hosts>>

\* With the site go its nodes and the invitations to it, one that is being used included.
Close(s) ==
  /\ s \in places
  /\ places' = places \ {s}
  /\ offer' = [t \in Tokens |-> IF offer[t] = s THEN None ELSE offer[t]]
  /\ home' = [n \in Nodes |-> IF home[n] = s THEN None ELSE home[n]]
  /\ UNCHANGED <<issued, origin, letters, hosts>>

Offer(t, s) ==
  /\ t \notin issued /\ s \in places
  /\ issued' = issued \cup {t}
  /\ offer' = [offer EXCEPT ![t] = s]
  /\ UNCHANGED <<places, home, origin, letters, hosts>>

Withdraw(t) ==
  /\ offer[t] # None
  /\ offer' = [offer EXCEPT ![t] = None]
  /\ UNCHANGED <<places, issued, home, origin, letters, hosts>>

Give(a, t) ==
  /\ given[a] = None /\ t \in issued
  /\ given' = [given EXCEPT ![a] = t]
  /\ UNCHANGED <<hub, origin, letters, bears>>

Enroll(t, n) ==
  /\ offer[t] # None /\ origin[n] = None
  /\ offer' = [offer EXCEPT ![t] = None]
  /\ origin' = [origin EXCEPT ![n] = t]
  /\ home' = [home EXCEPT ![n] = offer[t]]
  /\ letters' = letters \cup {n}
  /\ UNCHANGED <<places, issued, hosts>>

Expel(n) ==
  /\ home[n] # None
  /\ home' = [home EXCEPT ![n] = None]
  /\ UNCHANGED <<places, issued, offer, origin, letters, hosts>>

GoAstray(n) ==
  /\ n \in letters
  /\ letters' = letters \ {n}
  /\ UNCHANGED <<hub, origin, hosts>>

Arrive(n, a) ==
  /\ n \in letters
  /\ origin[n] = given[a] /\ bears[a] = {}
  /\ letters' = letters \ {n}
  /\ bears' = [bears EXCEPT ![a] = {n}]
  /\ UNCHANGED <<hub, origin, given>>

\* The host stops before it has written down who it is.
Forget(a) ==
  /\ bears[a] # {}
  /\ bears' = [bears EXCEPT ![a] = {}]
  /\ UNCHANGED <<hub, origin, letters, given>>

Next ==
  \/ \E s \in Sites : Open(s) \/ Close(s)
  \/ \E t \in Tokens : \/ \E s \in Sites : Offer(t, s)
                       \/ Withdraw(t)
                       \/ \E n \in Nodes : Enroll(t, n)
                       \/ \E a \in Agents : Give(a, t)
  \/ \E n \in Nodes : Expel(n) \/ GoAstray(n) \/ \E a \in Agents : Arrive(n, a)
  \/ \E a \in Agents : Forget(a)

Spec == Init /\ [][Next]_vars
=============================================================================
