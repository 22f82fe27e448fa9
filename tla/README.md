# Edge Hub: verification project

Edge Hub is a control plane for a fleet of edge nodes.  The *hub*
(`src/edge-hub-app/backend`, FastAPI over PostgreSQL) keeps sites, registration
tokens, nodes and their heartbeats; an *agent* (`src/edge-agent`, Go) runs on each
node, registers once, and then sends heartbeats, over which the hub also hands out
commands.  This directory holds TLA+ models of the parts that carry state between
steps, the TLC configurations that check them and the TLAPS proofs about them.

In the text and the modules, file names such as `agents.py` stand for
`edge-hub-app/backend/app/api/routes/agents.py`, `nodes.py` for the routes next to
it, `offline_detector.py` for `app/services/offline_detector.py`, `api.go` for
`edge-agent/internal/client/api.go`.

## 1. Inventory

| Component | State it keeps | Operations | Modelled |
|---|---|---|---|
| Heartbeat authentication and token rotation (`agents.py` get_current_node, heartbeat; `nodes.py` renew-jwt, delete) | `active_jti`, `pending_jti`, `pending_command` of a node row | authenticate, consolidate, hand out the command, renew, remove | `HubCredentials` |
| Agent (`api.go`, `main.go`) and its supervisor (systemd, Docker, Kubernetes) | token in memory, `edgehub-state.json`, `consecutive401s` | register, resume, heartbeat, take a new token, save, give up, restart | `EdgeAgent` (loop), `Provisioning` (registration) |
| Offline detection (`offline_detector.py`, heartbeat handler) | `status`, `offline_cycles`, `offline_alert_sent`, `last_seen` | detector cycle, reset by a heartbeat, decide and dispatch notifications | `NodeHealth` |
| Provisioning (`sites.py`, `tokens.py`, `agents.py` register) | sites, registration tokens, nodes | create and delete sites and tokens, register | `Provisioning` |
| Webhooks (`alert_engine.py`, the tasks that call it) | a queue of alerts in a running task | start with a batch, post to each webhook up to three times, go on with the next alert | `AlertDelivery` |
| Metric alerts (heartbeat handler) | `last_alert_timestamps` | alert at a threshold, 60 minutes of cooldown, write the dictionary back | `MetricAlerts` |
| WebSocket stream (`websockets.py`) | the open connections of each site, a list | connect, disconnect, broadcast | `SiteStream` |
| Retention (`heartbeat_cleanup.py`) | heartbeat rows | insert, delete old rows in batches of 5000, delete with a node | `Retention` |
| Administrator session (`auth.py`, `security.py`) | a signed cookie | log in, log out, check | no: stateless |
| Queries and PATCH routes | descriptive columns | read, overwrite | no: nothing else reads them |
| Collectors, configuration, dashboard | none across heartbeats | gather, show | no |

How they interact.  Every HTTP request of the hub has a database session of its own:
it reads rows, awaits, and commits; the default isolation is READ COMMITTED, and an
UPDATE writes only the columns whose value the handler changed.  Any other request,
or the detector, can commit between a handler's read and its commit.  The agent talks
to the hub only by registrations and heartbeats, one at a time, each given up after
10 s while the hub may still be working on it.  Notifications and broadcasts are started
as tasks in the hub's memory after the commit that decided on them.  The cleanup shares
with the rest only the heartbeat rows.

What is hard: the read-then-commit window of every handler; a request that outlives
its client; a response that carries a command and is lost; a crash of the agent in
`saveState`; restarts by a supervisor; the detector and the heartbeat handler writing
the same row; a database flag committed before the action it stands for; a dictionary
that is copied, changed and written back whole; a list that changes under the loop that
walks down it; a loop that takes a short batch for the last one.  The list, with its
lines, is `hazards` in `PROJECT.json`.

## 2. Modules

**`Exchange`** – the heartbeat exchanges between an agent and the hub.  `hb[h]` is one
HTTP request with its handler: `sent`, then `consolidating` (the handler is about to
commit in `get_current_node`) or `serving` (about to commit in `heartbeat`), then a
response.  `Lose` and `Fail` are the network and the errors of the server.

**`HubCredentials`** – one node row and the handlers that use it.  `AuthActive`,
`AuthPending` and `AuthReject` are the branches of `get_current_node`; `Consolidate`
is its commit; `Serve` the commit of the heartbeat handler and its response;
`RenewCheck` and `RenewCommit` the two halves of `renew_node_jwt`; `RemoveNode` also
stands for the removal of the node's site.  A handler keeps the `pending_command` of
the row object it read (`expire_on_commit=False`), which is the only column it uses
again.  A token is its `jti`; `dead` holds the tokens that no longer decode, because
they expired or because the hub restarted with another `JWT_SECRET_KEY`.

**`EdgeAgent`** – the process: `ReceiveUnauthorized`, `ReceiveError` and `ReceiveOk` are
the outcomes of `SendHeartbeat`; `SaveTruncate`, `SaveWrite` and `SaveFail` are the
steps of `saveState`; `Restart` is `main` and `Init` run by the supervisor after a kill or
an exit with 1 (`AlwaysRestart` adds exits with 0, and so tells systemd's `on-failure` from
Docker's `unless-stopped` and a Deployment).  Without a usable state file it goes on to
register, and `RegisterRefused` is the `log.Fatalf` that follows, since the registration
token is used up; the supervisor restarts that as well, so that a `Stranded` agent goes
round for ever.  Backoff times are left to the interleaving.

**`TokenRotation`** – the three composed, with fairness and all properties.
**`TokenRotationProofs`** – its theorems.

**`RollingCredential`** – the abstract specification of the rotation: a current
credential, at most one successor, what the agent bears and what it has in store.
`Rolling` in `TokenRotation` maps `exists`, `node.active`, `node.pending`, `agent.file`
and `issued` to its variables, and `Bearer`, the token in memory of a running agent or the
one a restart would load.  `RenewCommit` is `Issue`, `ReceiveOk` with a token `Adopt`,
`SaveTruncate` and `SaveWrite` are `Erase` and `Store`, `Crash` is `Recall`,
`Consolidate` is `Advance`, `RemoveNode` is `Withdraw`; all else stutters.
**`NodeHealth`** – the health columns of several nodes, the heartbeat handlers
(`HeartbeatRead`, `HeartbeatCommit`, `HeartbeatFail`) and the detector's cycle
(`DetectorRead`, `DetectorCommit`, `DetectorFail`, `DetectorDispatch`).  `Heard` and
`Missed` say what their UPDATEs leave in the row, given the row read and the row
found.  Time is reduced to `silent`, the nodes whose `last_seen` is older than the
threshold.  `last` is a history variable.  **`NodeHealthProofs`** – its theorems.

**`NodeAlerts`** – the abstract specification of the notifications: the nodes there are, those
last reported offline, and an outbox.  `Alerts` in `NodeHealth` maps `table`, the flags of its
rows, and the background tasks together with what a cycle has collected (`Collected`) to its
variables.  `DetectorCommit` is `Report`, a `HeartbeatCommit` that has read the flag up is
`Recover`, `Notify` is `Post`, `RemoveNode` is `Remove`, `HubCrash` is `HubStops`; all else
stutters, `DetectorDispatch` included, which only moves the alerts from one half of the outbox
to the other.

**`Provisioning`** – sites, registration tokens, node rows, the register handler
(`SelectToken`, `Register`) and the agent from its installation until its token is in
its file.  `mishap` is a history variable.

**`Enrollment`** – the abstract specification of provisioning: sites, invitations, nodes, the
letter with which a node's identity goes out, and the node a host can act as.
`Invitations` in `Provisioning` maps the requests away: an invitation stands (`Stands`) while
its token is valid, or in the hands of a request that has found it valid; a letter is a
created request; a host can act as what it has in memory or on disk (`Holds`).  `Register` is
`Enroll`, `Registered` is `Arrive`, `Lose`, `Fail` and a `Start` that takes the place of an
answer nobody reads are `GoAstray`, `Crash` and `SaveFail` before the end of the save are
`Forget`.  `DeleteToken` and `ExpireToken` are `Withdraw`, unless a request has passed the
check; then it is the end of that request that withdraws what it did not use.
**`ProvisioningProofs`**, **`ProvisioningIdentityProofs`**,
**`ProvisioningEnrollmentProofs`** – the theorems, each module on top of the one before.

**`AlertDelivery`** – the tasks in the memory of the hub that send alerts: the background
tasks of one heartbeat request, which Starlette runs one after the other, and the
detector's `_process_alerts_with_delay`.  `Start` is `add_task` or `create_task` with the
webhooks of each alert's site as read by then, `Dispatch` the `gather` over those of the first, `Accepted` and `Refused`
what becomes of one attempt in a `send_*` coroutine (all six have the same shape),
`Proceed` the next alert of the queue.  `owed` is a history variable.

**`MetricAlerts`** – the metric part of the heartbeat handler, for one node: `Begin` reads
`last_alert_timestamps` and `now` and decides, `Commit` writes the copy and gives the alerts
out, `Abandon` is a failed commit.  A timestamp is its age in ticks, up to `Cooldown`.
`last` and `apart` are history variables: the age of each metric's last alert, and the time
since two handlers were open together.

**`Alerting`** – the two composed, with the recovery alert of a heartbeat and the batches of
the detector as further sources, and fairness.  **`AlertingProofs`** – its theorems.

**`SiteStream`** – the list of connections of one site, the endpoint of each connection
(`Connect`, `Disconnect`, `EndpointFails`) and broadcasts (`Broadcast`, `Send`, `Finish`) that
walk down the list by index, as Python's list iterator does, and wait at every send.
`Without` is `list.remove`, written with the rank of each position that stays, so that proofs
can reason about it.

**`Audience`** – the abstract specification of the stream: a set of listeners, and of each
broadcast whom it has reached.  `Stream` in `SiteStream` maps the list to the set of its
elements.  `Connect` is `Join`, `Close` and `EndpointFails` are `Leave`, `Disconnect` is
`Drop`, `Broadcast`, `Send` and `Finish` are `Begin`, `Reach` and `End`; the guard of `End`
says what a broadcast owes its listeners although the list has moved under it.
**`SiteStreamProofs`** – the theorems of both.

**`Retention`** – the heartbeat rows: `Heartbeat` inserts one, `RemoveNode` deletes those of
a node, and a cleanup cycle is `Begin` (which fixes `limit_date`), then `Select` and `Delete`
in turn, the two halves of one DELETE with a subselect.  **`RetentionProofs`** – its theorems.

**`MC...`** – the modules TLC runs: symmetry sets, and constants a `.cfg` cannot write down.

The operators introduced as "Variant:" are the definition that follows them with one
plausible mistake.  No specification uses them; each shows that some property would
notice the mistake (`mutants` in `PROJECT.json`).

## 3. Runs

| Run | Checks | Instance | Shows |
|---|---|---|---|
| `rotation_serial` | `TypeOK`, `AgentAccepted`, `NoFalseRevocation`, `SerialInv`, `RotatedOutForGood`, `OnlyAKillLocksOut`, `RollsCredential`, `RevocationStops`, `RenewalProgresses` | 3 tokens, 1 exchange, 1 renewal, key lost at restarts, only failures restarted, fair | while heartbeats and renewals do not overlap, the jti of a running agent is one of the row's two, and only a kill in the middle of the write of the state file leaves an agent with none of them; the rotation implements `RollingCredential`; a removed node's agent stops for good, unless such a kill has made it go round; a queued command is fetched, an acknowledged token consolidated |
| `rotation_overlap` | `ActiveAcknowledged`, `Provenance` | 3 tokens, 2 exchanges, 2 renewals, disk faults | what still holds when they do overlap |
| `health` | `TypeOK`, `AlertsPaired`, `CountsToThree`, `AlertsInTurn`, `SilentNodeReported`, `RecoveryReported` | 2 nodes, 1 handler, hub crashes, fair | offline and recovery decisions alternate, and no notification goes out without its decision (`NodeAlerts`); the count stops at three; a silent node is flagged whatever happens to the rest of its batch; a flagged one recovers |
| `provisioning` | `TypeOK`, `SingleUse`, `OwnIdentity`, `SiteOwnsAll`, `NothingStranded`, `EnrollsByInvitation` | 2 sites, 2 tokens, 2 nodes, 2 agents, 3 requests | a token makes one node, the right one, or a fault is to blame; provisioning implements `Enrollment` |
| `alerting` | `TypeOK`, `NothingSkipped`, `AlertsRemembered`, `CooldownNotExtended`, `TasksEnd`, `CooldownRespected` | 2 metrics, 2 handlers, cooldown of 2 ticks, 1 task, 2 channels, 3 attempts, fair | a task works off all its alerts and ends; no cooldown is put off, and none is broken but in the one that follows an overlap |
| `site_stream` | `TypeOK`, `SentOnce`, `MissesBounded`, `ConnectedStaysListed`, `ServesAudience`, `FailedLeaves` | 3 connections, 2 broadcasts, fair | no event is sent to a dashboard twice; one is passed over only for one that left; only dead ones leave the list, and they do; the stream implements `Audience` |
| `retention` | `TypeOK`, `CycleCleans`, `CycleEnds`, `OldRowsGo` | 2 nodes, 4 rows, batches of 2, fair | every cycle ends; it leaves an old row only if a removal hit its batch; every old row goes in the end |
| `renewal_race` | `AgentAccepted` violated | 2 renewals | finding 1 |
| `renewal_wedged` | `RenewalConsumed` violated | serial, fair | finding 2 |
| `single_use` | `SingleUse` violated | 1 agent, 2 requests, overlapping | finding 3 |
| `silent_stays_online` | `SilentNodeOffline` violated | 1 node, fair | finding 4 |
| `revoked_restarted` | `RevocationStops` violated | every exit restarted, fair | finding 5 |

### Findings

1. Two renewals that both pass the check of `pending_jti` (`nodes.py:70`) replace each
   other's pending token; the agent may already hold the first one.
2. The command is cleared when the response is built (`agents.py:256`).  If the response
   is lost, `pending_jti` stays set, the renewal is never delivered again, and every new
   one is answered 429 although heartbeats go on.
3. Two registrations that are under way at once both use the same token
   (`agents.py:88-117`); an agent that times out and restarts is enough.
4. A detector cycle that overtakes a heartbeat flags the alert and leaves `status` at
   `online`; the node is not selected any more, however long it stays silent.
5. The compose file restarts the agent after a revocation (`docker-compose.yml:23`), and
   its state file is still there; nothing in the agent removes it, although
   `docs/openapi.json:421` says that it "deletes its local state file and halts".

More disagreements that no run of its own shows.  An agent that is killed between the
truncation of its state file and the end of the write (`api.go:94`) is locked out for good
while the hub waits for its new token: the restart finds no usable file, says "proceeding with
a new registration" (`api.go:71`), is refused because the registration token is used up
(`agents.py:95-99, 117`), exits with 1, and is restarted every 10 s for ever
(`install-linux.sh:184-185`); after the removal of its node it goes on in the same way.
`OnlyAKillLocksOut` and `RevocationStops` name it as the one exception.  A disk that is full
does the same damage later: the error is logged (`api.go:227-228`), and a restart loads the
token on disk, which the hub may have retired.  `renewal_race` with
`Handlers = {h1, h2}` and `Renewals = {r1}` shows a heartbeat the agent gave up on that
consolidates a pending token after a later one (`agents.py:65`), which violates both
`AgentAccepted` and `RotatedOutForGood`.  `health` with `Overlap = TRUE` and two
handlers shows two heartbeats that both announce the same recovery (`agents.py:184`),
which violates `AlertsPaired`.  `CooldownRespected` without its last disjunct fails in
`alerting`: two overlapping heartbeats repeat an alert, or lose each other's entry so
that the next one does (`agents.py:226`).  `CycleCleans` without `~ disturbed` fails in
`retention`: after the removal of a node a short batch is not the last one, against the
comment at `heartbeat_cleanup.py:40`; the rows wait for the cycle of the next day.
`offline_alert_sent` is committed before the alert exists in memory
(`offline_detector.py:57-66`), so that a hub that stops in between leaves it up for a
notification nobody sends, where `docs/openapi.json:989` says that it "has been
dispatched".  And the code sets `status` to `offline` at the first missed cycle
(`offline_detector.py:43`), where `docs/index.html:1214` and `docs/openapi.json:985` say
the third; the models follow the code.  A registration token that is deleted or expires
between its check and the commit (`agents.py:95-125`) still makes a node, which is why
`Enrollment` withdraws an invitation only when no request is using it.  And a heartbeat that
read `offline_cycles` as 0 does not write the column, so that a missed cycle counted in
between stays counted and the next outage is announced after fewer than three, where
`docs/openapi.json:988` says that a recovery resets it to 0; `CountsToThree` says where the
count ends, and nothing of where it starts.

### Bounds

* Three tokens are two rotations in a row, the least in which a retired token could come
  back; the state space is finite because a jti is never issued twice.
* One exchange and one renewal at a time is the *serial* case; two of each is the least
  in which they overlap, and every hazard listed is between two.
* `max401Attempts` is the code's 3.
* Two nodes are the least for one to spoil the other's batch.  `offline_cycles` has no
  bound in the model: `CountsToThree` is what bounds it.
* Two tokens, nodes and agents are the least for identities to be mixed up; three
  requests leave room for one that nobody waits for any more.
* A cooldown of 2 ticks is the least with an age between fresh and over; two handlers the
  least that overlap, and two metrics the least of which one can be lost while the other is
  written.  3 attempts are the code's, two channels its Discord and Slack; a site has both
  webhooks or none, and the two nodes of a batch can be of different sites (one channel alone
  adds nothing: the two of an alert only meet where the task goes on).  One task
  at a time is enough for what is said of each task; tasks share nothing.
* Three connections are the least in which one leaves from before a broadcast's position
  while another is still ahead; two broadcasts make each other's dead sockets leave.
* Four rows and batches of two: two full batches and then an empty one.  Row ids and
  connections are reused once nothing refers to them; a removed node does not come back.
* Deadlock is checked except where the system may stop: `health` and `provisioning` reach
  states in which every node, or every site and token, has been removed and nothing is
  left to do.

Symmetry is used in safety runs only.

### Fairness

`TokenRotation`: weak fairness of each handler (the event loop resumes it), of the agent's
receive steps, of sending (the ticker), of the client's 10 s timeout, of the steps of
`saveState`, of the supervisor's restart and of the refusal of a new registration.  The network, the administrator and faults
are under no obligation; `FaultsEnd` is a hypothesis of the liveness properties that need
it.

`NodeHealth`: weak fairness of the detector's loop (it catches every exception and sleeps),
of the handlers and of the background tasks, and strong fairness of `DetectorCommit`: the
commit of the detector does not fail for ever when it could succeed again and again.
`Provisioning` has safety properties only.

`Alerting`: weak fairness of every task and of the answer to every post, which comes or
times out after 5 s; which answer it is, is open.  `SiteStream`: weak fairness of every
broadcast, since a send to a client that does not read ends when the server's ping goes
unanswered, and of an endpoint whose client has left; dashboards are under no obligation,
and that events go on happening is a hypothesis of `FailedLeaves`.  `Retention`: weak
fairness of the steps of the task, which catches every exception and goes on a day later;
that failures end is a hypothesis of `OldRowsGo`.

## 4. Proofs

The proofs hold for every value of the constants, and assume what the modules assume of
their constants and nothing else.  Liveness, which needs fairness and `ENABLED`, stays with
TLC; so do statements that need induction over data.  No module declares a `RECURSIVE`
operator.

### Rotation

`TokenRotationProofs` proves, for every set of tokens, exchanges and renewals and every
value of `max401Attempts`:

* `TypeCorrect`, the type invariant, which includes the bound of the 401 counter;
* `ProvenanceInvariant` and `ActiveIsAcknowledged`, with no assumption on overlap;
* under `Serial` (at most one exchange and one renewal at a time, no disk faults)
  `SerialInvariant`, and from it `SerialAccepted`, `SerialOnlyAKillLocksOut`,
  `SerialNoFalseRevocation` and `SerialRotatedOut`.

`Provenance` is inductive relative to `TypeOK`: whatever is stale, a token used anywhere
was issued, and what a handler authenticated with, the agent has had.  `SerialInv` adds
what a serial execution maintains while the node exists: the queued command is the pending
token and unknown to the agent (`Queue`), the row each handler read is still the row
(`Handling`), once the pending token has been presented it is all the agent has
(`Presented`), and memory, file and counter agree (`Possession`).  Without `Presented`, for
one, a restart could bring back a token that consolidation is about to retire.

`AgentAccepted` speaks of the jti only.  A running agent may hold a token that has expired, or
that was signed with a key the hub has lost; its jti is still in the row, and three 401s end
it, which is what `NoFalseRevocation` excepts.  Of an agent that does not run `AgentAccepted`
says nothing: `SerialOnlyAKillLocksOut` does, and follows from `Possession`, by which a file
is empty in a running agent only while it is being written.

`SerialRollsCredential` is the refinement: under `Serial`, `Spec` implies
`RollsCredential`.  `InitMaps` maps the initial states, `StepMaps` every step; `Presented`
is what makes a consolidation an `Advance`, `Queue` a renewal an `Issue`, and `Possession`
the steps of `saveState` an `Erase` and a `Store`.

### Health

`NodeHealthProofs` proves `TypeCorrect` for every execution, and, when the heartbeats of a
node do not overlap (`~ Overlap`), `SerialAlertsPaired` and `SerialCountsToThree`.
`AlertsPaired` says nothing of the rows that the detector and a handler have read but not
yet written back, so that it is not inductive.  `AlertInv` adds it: a node has at most one
handler past its read (`OneOpen`, the only part that needs `~ Overlap`), a flag that a
handler has seen up is up until that handler commits (`SeenUp`), and one that the detector
has seen down is down until the detector commits (`SeenDown`).  Each is kept because only
the heartbeat lowers the flag and only the detector raises it.

`SerialAlertsInTurn` is the refinement: when heartbeats do not overlap, `Spec` implies
`AlertsInTurn`.  The same two parts carry it: `SeenUp` makes a recovery one of a node that is
reported (`AlertsHeard`), `SeenDown` an offline alert one of a node that is not
(`AlertsDetected`).

When heartbeats do overlap, `OutagesReportedOnce` is what is left: an outage is not announced
again before a recovery has been.  Of the invariant only the half about the detector remains
(`SeenUnflagged`), and it is enough.  No run has this case, because the count of missed cycles
is unbounded then: a second heartbeat that lowers the flag without having seen the count
leaves the count at three.

### Provisioning

* `ProvisioningProofs`: `TypeCorrect`; `SitesOwnAll`, from `SiteInv`, which also says that
  tokens and nodes carry a site, that of an admitted request's token included; and
  `SerialSingleUse`, from `UseInv`: the token of a node is gone, and the token of an admitted
  request has made no node and belongs to no other admitted request.  The last part is what
  `~ Overlap` is for; finding 3 is its absence.
* `ProvisioningIdentityProofs`: `OwnIdentities`, with overlapping registrations too.
  `IdentityInv` adds to `OwnIdentity` that an answer under way names a node made from the
  token of its request and that no agent holds yet, and that an agent waits for a request
  of its own only.
* `NothingIsStranded`, in the same module, again with no assumption on overlap.
  `StrandInv` adds that the token of every node and request was given to some agent, that an
  agent without a mishap whose token is not shared waits for the only request that is under
  way with it, and that it holds no node before its registration is answered.
* `ProvisioningEnrollmentProofs`: `SerialEnrolls`, the refinement: under `~ Overlap`, `Spec`
  implies `EnrollsByInvitation`.  Its invariant is all of the above and three facts more: a
  node has no token before it is made (`UnbornBare`), an agent holds at most one node
  (`HoldsOne`), and no token is older than its site (`SitesFirst`).  There is a lemma for each
  kind of step.  `UseInv` makes the end of a request the end of its invitation, since no other
  request works on the token; `CreatedAlone`, of `IdentityInv`, makes a lost answer the only
  letter of its node; `HoldsInTurn`, of `StrandInv`, makes the host that an answer arrives at
  one that is no node yet.

### Alerts

`AlertingProofs`: all safety properties of the run `alerting`, for any finite set of
metrics, any handlers, tasks and channels, and every `Cooldown` and `Retries`.

* `CooldownIsNotExtended`, `AlertsAreRemembered` and `CooldownIsRespected` come from
  `CooldownInv`.  The properties speak of the row; what keeps them is what is known of the
  copies that open handlers are going to write.  `Known(ages)` says of the row, and of such
  a copy, that it has the last alert of each metric or that this alert is no younger than
  the last overlap; `BeatInv` adds that a copy has no entry younger than the last alert,
  apart from those of the alerts it goes with, and that those are due.  A commit keeps
  this for the other open handlers because there being one is an overlap: `apart` is 0,
  and the copies need know of nothing.
* `TypeCorrect` and `NothingIsSkipped` come from `DeliveryInv`: types, `NothingSkipped` as it
  stands, and that a coroutine that is still open has an attempt left, without which the
  bound of the attempts is not inductive.

### Retention

`RetentionProofs`: `TypeCorrect`, which includes that no row outlives its node, and
`CyclesClean`.  `CycleCleans` looks at the end of a cycle; `BatchInv` says of the batch
before it that it is full or all that is left, and, while nothing interferes, still in the
table.

### Stream

`SiteStreamProofs`, for any sets of connections and broadcasts: `TypeCorrect`, which includes
that no connection is on the list twice, `EventsAreSentOnce`, `ConnectedAreListed`,
`MissesAreBounded`, and `ListServesAudience`, the refinement.

The module first proves of `Without` that it keeps the elements that stay, each once and in
the order they had (`PlaceProperties`, `PlaceTaken`, `WithoutProperties`), by counting
positions and without induction.  `StreamInv` then says of every broadcast that it has dealt
with as many connections as it has passed positions, that none of them lies ahead of it, and
that none of those it found dead is open.  The second part is `SentOnce`; the first gives
`MissesBounded` by counting: where `next - 1` positions are passed and `next - 1` connections
dealt with, the positions passed over are as many as the connections that have left.  It is
inductive because a connection that leaves only brings others closer to the front
(`Place(list, gone, i) <= i`), and one that joins does so at the end.

### What stays with TLC

The liveness properties `RevocationStops`, `RenewalProgresses`, `SilentNodeReported`,
`RecoveryReported`, `TasksEnd`, `FailedLeaves`, `CycleEnds` and `OldRowsGo`, and the findings.
Every other property of a passing run is the property of a theorem.

## 5. Plan

1. *Done*: `Exchange`, `HubCredentials`, `EdgeAgent`, `TokenRotation`; `NodeHealth`;
   `Provisioning`; `AlertDelivery`, `MetricAlerts`, `Alerting`; `SiteStream`; `Retention`;
   proofs of all their safety properties.
2. *Done*: the abstract specifications `RollingCredential`, `NodeAlerts`, `Enrollment` and
   `Audience`, and proofs that they are implemented.
3. An abstract specification of a queue of deliveries, with `AlertDelivery` shown to implement
   it; theorems about the abstract specifications themselves.

## 6. Not modelled, and why

Formats (JWT, JSON, SQL text), HTTP status codes beyond the classes the agent tells
apart, the wording of notifications, the lengths of pauses (half a second between the
alerts of a batch, `Retry-After`, backoff: two batches of the detector can be sent at the
same time, so the pause does not bound the rate over all of them), the check of the cookie before a
connection is accepted, the collectors' figures, the dashboard, and routes
that only read.  `jwt_expires_at` is written and never used in a decision.  PostgreSQL is
modelled as the handlers see it: a commit is atomic, an UPDATE or INSERT for a removed row
fails, a DELETE for one does nothing.
