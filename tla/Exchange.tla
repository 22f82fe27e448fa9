------------------------------ MODULE Exchange ------------------------------
(***************************************************************************)
(* The heartbeat exchanges between one edge agent and the hub: what        *)
(* travels on the wire, and what a FastAPI handler of the hub remembers    *)
(* between two awaits.  A token is represented by its `jti`; the node row  *)
(* the handler read is reduced to the `pending_command` column, the only   *)
(* column of the row it uses again after the authentication.               *)
(***************************************************************************)
CONSTANTS Jtis,      \* identifiers the hub can put in a token (uuid4)
          NoJti,     \* None: a NULL column, an absent command, no usable token
          Handlers   \* exchanges of this agent that can be open at one time

ASSUME NoJtiAssumption == NoJti \notin Jtis

VARIABLE hb          \* hb[h] is the state of exchange h

\* A NULL-able column holding a jti.
OptJti == Jtis \cup {NoJti}

(***************************************************************************)
(* "sent": the request is on its way or waits in the hub.  "consolidating" *)
(* and "serving": the handler has read the node row and is going to commit *)
(* (agents.py:69 and :258).  The last three are the responses, on their    *)
(* way back: 200, 401, and any other outcome.                              *)
(***************************************************************************)
Responses == {"ok", "unauthorized", "error"}
Stages == {"idle", "sent", "consolidating", "serving"} \cup Responses

ExchangeType == [at : Stages, jti : OptJti, command : OptJti]

Idle == [at |-> "idle", jti |-> NoJti, command |-> NoJti]

\* Exchange h has the given response on its way back, carrying no command.
Answer(h, response) ==
  hb' = [hb EXCEPT ![h] = [@ EXCEPT !.at = response, !.command = NoJti]]

\* The network drops the request or the response of exchange h.
Lose(h) ==
  /\ hb[h].at \in {"sent"} \cup Responses
  /\ hb' = [hb EXCEPT ![h] = Idle]

(***************************************************************************)
(* Exchange h ends in a status that is neither 200 nor 401, or in a body   *)
(* the agent cannot decode: an exception in the handler, whose session     *)
(* rolls back, the rate limit or a 502 of nginx, before or after the       *)
(* handler has committed.                                                  *)
(***************************************************************************)
Fail(h) ==
  /\ hb[h].at \in Stages \ {"idle", "error"}
  /\ Answer(h, "error")
=============================================================================
