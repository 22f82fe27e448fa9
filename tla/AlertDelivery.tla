---------------------------- MODULE AlertDelivery ----------------------------
(***************************************************************************)
(* The alert engine (alert_engine.py) and the tasks that call it: the      *)
(* background tasks of a heartbeat request and the detector's              *)
(* _process_alerts_with_delay.  Either is a queue of alerts in the memory  *)
(* of the hub, worked off one alert after the other; an alert is posted to *)
(* the webhooks of its site at the same time, to each up to Retries times. *)
(*                                                                         *)
(* A post is accepted (2xx) or refused: 429, any other status, an error of *)
(* the connection or a timeout.  A refusal only differs in how long the    *)
(* coroutine sleeps before it tries again, which is left to the            *)
(* interleaving, and in what it logs.                                      *)
(*                                                                         *)
(* An operator introduced by "Variant:" is the definition below it with    *)
(* one mistake in it; it is in no next-state relation.                     *)
(***************************************************************************)
EXTENDS Naturals, SequencesExt

CONSTANTS Tasks,     \* tasks that can be under way at one time
          Alerts,    \* what an alert says
          Channels,  \* discord and slack
          Retries    \* the parameter retries of the send_* functions

ASSUME DeliveryAssumption == Retries \in Nat \ {0}

VARIABLES task,  \* the tasks
          owed   \* history: the alerts of each task not yet accepted or given up

deliveryVars == <<task, owed>>

\* urls: the webhooks of the site that each alert is about; open: the channels whose
\* send_* coroutine has not returned; tries: its attempts.
Task == [queue : Seq(Alerts), urls : [Alerts -> SUBSET Channels],
         open : SUBSET Channels, tries : [Channels -> 0..Retries]]

DeliveryTypeOK ==
  /\ task \in [Tasks -> Task]
  /\ owed \in [Tasks -> SUBSET (Alerts \X Channels)]

\* dispatch_* of the first alert: one coroutine for each webhook of the site.
Dispatch(alerts, urls) ==
  [queue |-> alerts, urls |-> urls,
   open |-> IF alerts = <<>> THEN {} ELSE urls[Head(alerts)],
   tries |-> [c \in Channels |-> 0]]

Ended == Dispatch(<<>>, [a \in Alerts |-> {}])

DeliveryInit ==
  /\ task = [t \in Tasks |-> Ended]
  /\ owed = [t \in Tasks |-> {}]

Busy(t) == task[t].queue # <<>>

\* A task starts with the alerts decided on and their sites' webhooks as they were read;
\* a change of a site (PATCH) reaches later tasks only.
Start(t, alerts, urls) ==
  /\ ~ Busy(t)
  /\ task' = [task EXCEPT ![t] = Dispatch(alerts, urls)]
  /\ owed' = [owed EXCEPT ![t] = {job \in ToSet(alerts) \X Channels :
                                       job[2] \in urls[job[1]]}]

Settled(t, c) == owed' = [owed EXCEPT ![t] = @ \ {<<Head(task[t].queue), c>>}]

\* The post is accepted: send_* returns.
Accepted(t, c) ==
  /\ c \in task[t].open
  /\ task' = [task EXCEPT ![t].open = @ \ {c}]
  /\ Settled(t, c)

\* Variant: a refusal ends the attempts.
RefusedOnce(t, c) ==
  /\ c \in task[t].open
  /\ task' = [task EXCEPT ![t].open = @ \ {c}]
  /\ IF task[t].tries[c] + 1 = Retries THEN Settled(t, c) ELSE UNCHANGED owed

\* Variant: one attempt too many.
RefusedTooOften(t, c) ==
  /\ c \in task[t].open
  /\ task' = [task EXCEPT ![t].tries[c] = @ + 1,
                          ![t].open = IF task[t].tries[c] = Retries THEN @ \ {c} ELSE @]
  /\ IF task[t].tries[c] = Retries THEN Settled(t, c) ELSE UNCHANGED owed

\* Variant: after the last attempt they are counted from the start again.
RefusedForever(t, c) ==
  /\ c \in task[t].open
  /\ task' = [task EXCEPT ![t].tries[c] = (@ + 1) % Retries]
  /\ UNCHANGED owed

\* It is refused: send_* tries again, or gives up after the last attempt.
Refused(t, c) ==
  LET last == task[t].tries[c] + 1 = Retries
  IN /\ c \in task[t].open
     /\ task' = [task EXCEPT ![t].tries[c] = @ + 1,
                             ![t].open = IF last THEN @ \ {c} ELSE @]
     /\ IF last THEN Settled(t, c) ELSE UNCHANGED owed

\* gather has returned: the task goes on with the next alert, the detector's after a pause.
Proceed(t) ==
  /\ Busy(t)
  /\ task[t].open = {}
  /\ task' = [task EXCEPT ![t] = IF Len(@.queue) = 1 THEN Ended
                                 ELSE Dispatch(Tail(@.queue), @.urls)]
  /\ UNCHANGED owed

\* The hub stops: its tasks exist no more.
TasksLost ==
  /\ task' = [t \in Tasks |-> Ended]
  /\ owed' = [t \in Tasks |-> {}]

DeliveryStep(t) == Proceed(t) \/ \E c \in Channels : Accepted(t, c) \/ Refused(t, c)

-----------------------------------------------------------------------------
\* The attempts on one channel never cost an alert the other channel, nor the alerts
\* behind it: what a task owes is still ahead of it or being sent, until it is accepted
\* or refused Retries times (alert_engine.py:68-75, offline_detector.py:73-81).
NothingSkipped ==
  \A t \in Tasks, a \in Alerts, c \in Channels : <<a, c>> \in owed[t] =>
    /\ Busy(t)
    /\ c \in task[t].urls[a]
    /\ \/ a \in ToSet(Tail(task[t].queue))
       \/ a = Head(task[t].queue) /\ c \in task[t].open
=============================================================================
