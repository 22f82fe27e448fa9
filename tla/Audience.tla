------------------------------- MODULE Audience -------------------------------
(***************************************************************************)
(* What the live stream of a site promises, without its list, the          *)
(* positions in it or the endpoints.  A dashboard that listens and has not *)
(* left is taken off by nobody.  A broadcast reaches a listener at most    *)
(* once, in any order; it may end when every listener has been reached, or *)
(* one was passed over for each that it reached and that is gone.          *)
(* SiteStream implements this specification.                               *)
(***************************************************************************)
EXTENDS Naturals, FiniteSets

CONSTANTS Sockets, Broadcasts

VARIABLES listeners,  \* the dashboards that are sent events
          present,    \* the dashboards that have not left
          running,    \* the broadcasts under way
          reached     \* whom each of them has got to

vars == <<listeners, present, running, reached>>

Init ==
  /\ listeners = {}
  /\ present = {}
  /\ running = {}
  /\ reached = [b \in Broadcasts |-> {}]

Join(s) ==
  /\ s \notin listeners
  /\ \A b \in Broadcasts : s \notin reached[b]
  /\ listeners' = listeners \cup {s}
  /\ present' = present \cup {s}
  /\ UNCHANGED <<running, reached>>

Leave(s) ==
  /\ s \in present
  /\ present' = present \ {s}
  /\ UNCHANGED <<listeners, running, reached>>

\* It is noticed that a dashboard has left.
Drop(s) ==
  /\ s \in listeners \ present
  /\ listeners' = listeners \ {s}
  /\ UNCHANGED <<present, running, reached>>

Begin(b) ==
  /\ b \notin running
  /\ running' = running \cup {b}
  /\ UNCHANGED <<listeners, present, reached>>

Reach(b, s) ==
  /\ b \in running
  /\ s \in listeners \ reached[b]
  /\ reached' = [reached EXCEPT ![b] = @ \cup {s}]
  /\ UNCHANGED <<listeners, present, running>>

\* The end of a broadcast, which may drop some of those that it found to have left.
End(b) ==
  /\ b \in running
  /\ Cardinality(listeners \ reached[b]) <= Cardinality(reached[b] \ listeners)
  /\ \E gone \in SUBSET (reached[b] \ present) : listeners' = listeners \ gone
  /\ running' = running \ {b}
  /\ reached' = [reached EXCEPT ![b] = {}]
  /\ UNCHANGED present

Next ==
  \/ \E s \in Sockets : Join(s) \/ Leave(s) \/ Drop(s)
  \/ \E b \in Broadcasts : Begin(b) \/ End(b) \/ \E s \in Sockets : Reach(b, s)

Spec == Init /\ [][Next]_vars
=============================================================================
