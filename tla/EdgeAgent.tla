------------------------------ MODULE EdgeAgent ------------------------------
(***************************************************************************)
(* The agent process (edge-agent): its heartbeat loop, the token in memory *)
(* and in the state file, the count of consecutive 401s, and the process   *)
(* supervisor that restarts it.  The node has been registered: the         *)
(* registration token of the configuration has been used up.  As in        *)
(* HubCredentials, an operator introduced by "Variant:" is not used.       *)
(***************************************************************************)
EXTENDS Exchange, Naturals

CONSTANTS max401Attempts,  \* 401s in a row that the agent takes for a revocation
          NoHandler,       \* the agent waits for no response
          DiskFaults,      \* writing the state file can fail
          AlwaysRestart    \* the supervisor restarts a process that exited with 0

ASSUME AgentAssumption ==
  /\ max401Attempts \in Nat \ {0}
  /\ NoHandler \notin Handlers
  /\ DiskFaults \in BOOLEAN
  /\ AlwaysRestart \in BOOLEAN

VARIABLES agent,     \* the process and its state file
          held       \* history: every jti the agent has had in memory

agentVars == <<agent, held>>

(***************************************************************************)
(* "up": in the heartbeat loop.  "saving" and "writing": in saveState,     *)
(* before and after os.WriteFile has truncated the file.  "registering":   *)
(* in Init, with no usable state file.  "down": killed, or exited with 1   *)
(* through log.Fatalf.  "revoked": exited with 0 after ErrRevoked.         *)
(***************************************************************************)
Running == {"up", "saving", "writing"}

Counts == 0 .. max401Attempts - 1

AgentState ==
  [run : Running \cup {"registering", "down", "revoked"},
   jwt : OptJti,
   file : OptJti,                 \* NoJti: missing, empty or cut short
   consecutive401s : Counts,
   waiting : Handlers \cup {NoHandler}]

AgentTypeOK ==
  /\ agent \in AgentState
  /\ held \subseteq Jtis

\* Register has just stored the token j in memory and on disk.
AgentInit(j) ==
  /\ agent = [run |-> "up", jwt |-> j, file |-> j,
              consecutive401s |-> 0, waiting |-> NoHandler]
  /\ held = {j}

\* SendHeartbeat, the request.  A response nobody waits for frees its exchange.
Send(h) ==
  /\ agent.run = "up" /\ agent.waiting = NoHandler
  /\ hb[h].at \in {"idle"} \cup Responses
  /\ hb' = [hb EXCEPT ![h] = [at |-> "sent", jti |-> agent.jwt, command |-> NoJti]]
  /\ agent' = [agent EXCEPT !.waiting = h]
  /\ UNCHANGED held

\* The client's timeout.  The hub goes on with the request.
Timeout ==
  /\ agent.run = "up" /\ agent.waiting # NoHandler
  /\ agent' = [agent EXCEPT !.waiting = NoHandler]
  /\ UNCHANGED <<hb, held>>

\* The agent takes the response of the exchange it waits for.
Take(h, response) ==
  /\ agent.run = "up" /\ agent.waiting = h
  /\ hb[h].at = response
  /\ hb' = [hb EXCEPT ![h] = Idle]

\* Variant: one attempt too many before giving up.
ReceiveUnauthorizedLate(h) ==
  /\ Take(h, "unauthorized")
  /\ agent' = IF agent.consecutive401s + 1 <= max401Attempts
              THEN [agent EXCEPT !.consecutive401s = @ + 1, !.waiting = NoHandler]
              ELSE [agent EXCEPT !.consecutive401s = 0, !.waiting = NoHandler,
                                 !.run = "revoked"]
  /\ UNCHANGED held

\* Variant: the attempts are never counted up.
ReceiveUnauthorizedForgotten(h) ==
  /\ Take(h, "unauthorized")
  /\ agent' = IF agent.consecutive401s + 1 < max401Attempts
              THEN [agent EXCEPT !.waiting = NoHandler]
              ELSE [agent EXCEPT !.waiting = NoHandler, !.run = "revoked"]
  /\ UNCHANGED held

\* 401: back off, or give up at the last attempt.
ReceiveUnauthorized(h) ==
  /\ Take(h, "unauthorized")
  /\ agent' = IF agent.consecutive401s + 1 < max401Attempts
              THEN [agent EXCEPT !.consecutive401s = @ + 1, !.waiting = NoHandler]
              ELSE [agent EXCEPT !.consecutive401s = 0, !.waiting = NoHandler,
                                 !.run = "revoked"]
  /\ UNCHANGED held

\* Variant: any failed heartbeat counts as a 401.
ReceiveErrorCounted(h) ==
  /\ Take(h, "error")
  /\ agent' = IF agent.consecutive401s + 1 < max401Attempts
              THEN [agent EXCEPT !.consecutive401s = @ + 1, !.waiting = NoHandler]
              ELSE [agent EXCEPT !.consecutive401s = 0, !.waiting = NoHandler,
                                 !.run = "revoked"]
  /\ UNCHANGED held

ReceiveError(h) ==
  /\ Take(h, "error")
  /\ agent' = [agent EXCEPT !.consecutive401s = 0, !.waiting = NoHandler]
  /\ UNCHANGED held

\* Variant: the new token is not saved.
ReceiveOkUnsaved(h) ==
  /\ Take(h, "ok")
  /\ LET token == hb[h].command IN
       /\ agent' = [agent EXCEPT !.consecutive401s = 0, !.waiting = NoHandler,
                                 !.jwt = IF token = NoJti THEN @ ELSE token]
       /\ held' = held \cup ({token} \ {NoJti})

\* 200: the token of an update_jwt command replaces the one in memory first.
ReceiveOk(h) ==
  /\ Take(h, "ok")
  /\ LET token == hb[h].command IN
       \/ /\ token = NoJti
          /\ agent' = [agent EXCEPT !.consecutive401s = 0, !.waiting = NoHandler]
          /\ UNCHANGED held
       \/ /\ token # NoJti
          /\ agent' = [agent EXCEPT !.consecutive401s = 0, !.waiting = NoHandler,
                                    !.jwt = token, !.run = "saving"]
          /\ held' = held \cup {token}

\* saveState: os.WriteFile truncates the state file, then writes it.  An error
\* is logged and the agent goes on with what is on disk.
SaveTruncate ==
  /\ agent.run = "saving"
  /\ agent' = [agent EXCEPT !.run = "writing", !.file = NoJti]
  /\ UNCHANGED <<hb, held>>

SaveWrite ==
  /\ agent.run = "writing"
  /\ agent' = [agent EXCEPT !.run = "up", !.file = agent.jwt]
  /\ UNCHANGED <<hb, held>>

SaveFail ==
  /\ DiskFaults /\ agent.run \in {"saving", "writing"}
  /\ agent' = [agent EXCEPT !.run = "up"]
  /\ UNCHANGED <<hb, held>>

\* The process is killed at any point.
Crash ==
  /\ agent.run \in Running \cup {"registering"}
  /\ agent' = [agent EXCEPT !.run = "down", !.jwt = NoJti,
                            !.consecutive401s = 0, !.waiting = NoHandler]
  /\ UNCHANGED <<hb, held>>

\* Every supervisor starts the agent again after a kill and after log.Fatalf, some
\* after an exit with 0 too: main, and Init with what the state file holds.
Restart ==
  /\ agent.run = "down" \/ (AlwaysRestart /\ agent.run = "revoked")
  /\ agent' = [agent EXCEPT !.run = IF agent.file = NoJti THEN "registering" ELSE "up",
                            !.jwt = agent.file]
  /\ UNCHANGED <<hb, held>>

\* Register fails, since the registration token is used up: log.Fatalf.
RegisterRefused ==
  /\ agent.run = "registering"
  /\ agent' = [agent EXCEPT !.run = "down"]
  /\ UNCHANGED <<hb, held>>

\* No token in memory or on disk: nothing but Restart and RegisterRefused is left.
Stranded == agent.file = NoJti /\ agent.run \notin Running
=============================================================================
