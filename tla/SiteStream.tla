----------------------------- MODULE SiteStream -----------------------------
(***************************************************************************)
(* The live stream of a site (websockets.py): the dashboards connected to  *)
(* it, a list in the memory of the hub, and the broadcasts of its events,  *)
(* each a task of its own that walks down the list by index and waits at   *)
(* every send, while dashboards come and go and change the list.           *)
(*                                                                         *)
(* An operator introduced by "Variant:" is the definition below it with    *)
(* one mistake in it; it is in no next-state relation.                     *)
(***************************************************************************)
EXTENDS Naturals, SequencesExt

CONSTANTS Sockets,    \* the connections there can be at one time
          Broadcasts  \* the broadcasts that can be under way at one time

VARIABLES active,  \* active_connections of the site, a sequence
          socket,  \* what has become of each connection
          cast     \* the broadcasts

vars == <<active, socket, cast>>

\* free: not in use; open; gone: the client has left, the endpoint has yet to notice; failed:
\* the endpoint has ended with an exception that it does not catch.
States == {"free", "open", "gone", "failed"}

\* next: the iterator's index; sent, dead: the sockets it has sent to, and dead_sockets.
Cast == [on : BOOLEAN, next : Nat, sent : SUBSET Sockets, dead : SUBSET Sockets]

TypeOK ==
  /\ active \in Seq(Sockets) /\ IsInjective(active)
  /\ socket \in [Sockets -> States]
  /\ cast \in [Broadcasts -> Cast]

NoCast == [on |-> FALSE, next |-> 1, sent |-> {}, dead |-> {}]

Init ==
  /\ active = <<>>
  /\ socket = [s \in Sockets |-> "free"]
  /\ cast = [b \in Broadcasts |-> NoCast]

\* The sockets that a broadcast has dealt with, and the positions it has passed.
Handled(b) == cast[b].sent \cup cast[b].dead
Passed(b) == {i \in DOMAIN active : i < cast[b].next}

\* The list without some of its sockets, the others in the order they had: list.remove, once
\* for each.  The place of a position that is kept is the number of those kept up to it.
Kept(list, gone) == {i \in DOMAIN list : list[i] \notin gone}
Place(list, gone, i) == Cardinality({j \in Kept(list, gone) : j <= i})
Without(list, gone) ==
  [k \in 1..Cardinality(Kept(list, gone)) |->
     list[CHOOSE i \in Kept(list, gone) : Place(list, gone, i) = k]]

(***************************************************************************)
(* The endpoint of a connection.                                           *)
(***************************************************************************)

\* Variant: a new connection is put first.
ConnectFirst(s) ==
  /\ socket[s] = "free"
  /\ \A b \in Broadcasts : s \notin Handled(b)
  /\ socket' = [socket EXCEPT ![s] = "open"]
  /\ active' = <<s>> \o active
  /\ UNCHANGED cast

\* The handshake has been accepted.  (A socket that a broadcast still refers to is not used
\* again: a connection is a new object.)
Connect(s) ==
  /\ socket[s] = "free"
  /\ \A b \in Broadcasts : s \notin Handled(b)
  /\ socket' = [socket EXCEPT ![s] = "open"]
  /\ active' = Append(active, s)
  /\ UNCHANGED cast

\* The client closes the connection, or is lost.
Close(s) ==
  /\ socket[s] = "open"
  /\ socket' = [socket EXCEPT ![s] = "gone"]
  /\ UNCHANGED <<active, cast>>

\* Variant: the endpoint ends without a word to the list.
DisconnectOnly(s) ==
  /\ socket[s] = "gone"
  /\ socket' = [socket EXCEPT ![s] = "free"]
  /\ UNCHANGED <<active, cast>>

\* WebSocketDisconnect: the endpoint takes the connection off the list, if it is still there.
Disconnect(s) ==
  /\ socket[s] = "gone"
  /\ socket' = [socket EXCEPT ![s] = "free"]
  /\ active' = Without(active, {s})
  /\ UNCHANGED cast

\* The endpoint ends with another exception, say at a frame that is not text: the server
\* closes the connection, which stays on the list.
EndpointFails(s) ==
  /\ socket[s] = "open"
  /\ socket' = [socket EXCEPT ![s] = "failed"]
  /\ UNCHANGED <<active, cast>>

(***************************************************************************)
(* A broadcast.                                                            *)
(***************************************************************************)
Broadcast(b) ==
  /\ ~ cast[b].on
  /\ cast' = [cast EXCEPT ![b].on = TRUE]
  /\ UNCHANGED <<active, socket>>

\* What send_text can come to: a message to a client that has left can still be buffered.
Succeeds(s) == socket[s] \in {"open", "gone"}
Raises(s) == socket[s] \in {"gone", "failed"}

\* Variant: a dead socket is taken off the list on the spot.
SendAndRemove(b) ==
  /\ cast[b].on /\ cast[b].next \in DOMAIN active
  /\ LET s == active[cast[b].next]
     IN \/ /\ Succeeds(s)
           /\ cast' = [cast EXCEPT ![b].next = @ + 1, ![b].sent = @ \cup {s}]
           /\ UNCHANGED active
        \/ /\ Raises(s)
           /\ cast' = [cast EXCEPT ![b].next = @ + 1]
           /\ active' = Without(active, {s})
  /\ UNCHANGED socket

\* The next connection of the list, as it is by now, is sent the message.
Send(b) ==
  /\ cast[b].on /\ cast[b].next \in DOMAIN active
  /\ LET s == active[cast[b].next]
     IN \/ /\ Succeeds(s)
           /\ cast' = [cast EXCEPT ![b].next = @ + 1, ![b].sent = @ \cup {s}]
        \/ /\ Raises(s)
           /\ cast' = [cast EXCEPT ![b].next = @ + 1, ![b].dead = @ \cup {s}]
  /\ UNCHANGED <<active, socket>>

Over(b) == cast[b].on /\ cast[b].next \notin DOMAIN active

Released(gone) ==
  [s \in Sockets |-> IF s \in gone /\ socket[s] = "failed" THEN "free" ELSE socket[s]]

\* Variant: the dead sockets stay on the list.
FinishKeeping(b) ==
  /\ Over(b)
  /\ cast' = [cast EXCEPT ![b] = NoCast]
  /\ UNCHANGED <<active, socket>>

\* Variant: as many sockets are taken off the front of the list as are dead.
FinishFront(b) ==
  LET gone == {active[i] : i \in {i \in DOMAIN active : i <= Cardinality(cast[b].dead)}}
  IN /\ Over(b)
     /\ active' = Without(active, gone)
     /\ socket' = Released(gone)
     /\ cast' = [cast EXCEPT ![b] = NoCast]

\* The end of the list: the dead sockets that are still on it are taken off.
Finish(b) ==
  /\ Over(b)
  /\ active' = Without(active, cast[b].dead)
  /\ socket' = Released(cast[b].dead)
  /\ cast' = [cast EXCEPT ![b] = NoCast]

Next ==
  \/ \E s \in Sockets : Connect(s) \/ Close(s) \/ Disconnect(s) \/ EndpointFails(s)
  \/ \E b \in Broadcasts : Broadcast(b) \/ Send(b) \/ Finish(b)

Spec == Init /\ [][Next]_vars

(***************************************************************************)
(* Fairness: the event loop resumes every endpoint and broadcast; a send   *)
(* ends, if only because the server pings its clients.                     *)
(***************************************************************************)
Fairness ==
  /\ \A s \in Sockets : WF_vars(Disconnect(s))
  /\ \A b \in Broadcasts : WF_vars(Send(b) \/ Finish(b))

FairSpec == Spec /\ Fairness

-----------------------------------------------------------------------------
\* However the list changes under a broadcast, no dashboard gets an event twice: what it has
\* ahead of it, it has not sent to yet (websockets.py:29-31).
SentOnce ==
  \A b \in Broadcasts : cast[b].on =>
    \A i \in DOMAIN active \ Passed(b) : active[i] \notin Handled(b)

\* A broadcast passes over a dashboard only when one that it had sent to has left the list:
\* it misses no more dashboards than that (websockets.py:29-37).
MissesBounded ==
  \A b \in Broadcasts : cast[b].on =>
    Cardinality({i \in Passed(b) : active[i] \notin Handled(b)})
      <= Cardinality(Handled(b) \ ToSet(active))

\* No broadcast takes a dashboard off the list that is still connected
\* (websockets.py:16-24, 36-37).
ConnectedStaysListed ==
  \A s \in Sockets : socket[s] = "open" => s \in ToSet(active)

\* The list and the walks along it implement an audience: broadcasts that reach whoever
\* listens, once, in whatever order, and end with no more left out than have gone
\* (websockets.py:14-37).
Stream == INSTANCE Audience WITH
  listeners <- ToSet(active),
  present <- {s \in Sockets : socket[s] = "open"},
  running <- {b \in Broadcasts : cast[b].on},
  reached <- [b \in Broadcasts |-> Handled(b)]

ServesAudience == Stream!Spec

\* A connection whose endpoint failed leaves the list if broadcasts go on, although a
\* broadcast can pass over it (websockets.py:29-37, 61-66).
BroadcastsGoOn == []<><<\E b \in Broadcasts : Broadcast(b)>>_vars
FailedLeaves ==
  BroadcastsGoOn => \A s \in Sockets : socket[s] = "failed" ~> socket[s] # "failed"
=============================================================================
