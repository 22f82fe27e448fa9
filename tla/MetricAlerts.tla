---------------------------- MODULE MetricAlerts ----------------------------
(***************************************************************************)
(* The metric alerts of one node (agents.py): the heartbeat handler alerts *)
(* on a metric over its threshold unless it did so less than               *)
(* COOLDOWN_MINUTES ago.  When is kept in the column last_alert_timestamps, *)
(* one JSON object for all metrics, which a handler reads, copies and      *)
(* writes back whole in a later step.                                      *)
(*                                                                         *)
(* A timestamp is modelled by its age in ticks, up to Cooldown: an entry   *)
(* as old as that is as good as none.  Reading the row and taking `now`    *)
(* are one step.                                                           *)
(*                                                                         *)
(* An operator introduced by "Variant:" is the definition below it with    *)
(* one mistake in it; it is in no next-state relation.                     *)
(***************************************************************************)
EXTENDS Naturals, FiniteSets

CONSTANTS Metrics,
          Handlers,  \* heartbeat requests of the node that can be open at one time
          Cooldown   \* COOLDOWN_MINUTES, in ticks

ASSUME MetricAssumption == Cooldown \in Nat \ {0}

VARIABLES stamps,  \* the ages of the entries of last_alert_timestamps
          beat,    \* the heartbeat handlers
          last,    \* history: the age of the last alert of each metric
          apart    \* history: the ticks since two handlers were open together

metricVars == <<stamps, beat, last, apart>>

Age == 0..Cooldown
Ages == [Metrics -> Age]

\* alerts: alerts_to_send; copy: new_timestamps; written: whether it goes into the column.
Beat == [open : BOOLEAN, alerts : SUBSET Metrics, copy : Ages, written : BOOLEAN]

MetricTypeOK ==
  /\ stamps \in Ages
  /\ beat \in [Handlers -> Beat]
  /\ last \in Ages
  /\ apart \in Age

NoEntries == [m \in Metrics |-> Cooldown]
NoBeat == [open |-> FALSE, alerts |-> {}, copy |-> NoEntries, written |-> FALSE]

MetricInit ==
  /\ stamps = NoEntries
  /\ beat = [h \in Handlers |-> NoBeat]
  /\ last = NoEntries
  /\ apart = Cooldown

\* The metrics over their thresholds with no entry, or one whose cooldown is over.
ToSend(high, ages) == {m \in high : ages[m] >= Cooldown}

Stamped(ages, alerted) == [m \in Metrics |-> IF m \in alerted THEN 0 ELSE ages[m]]

\* Variant: the new dictionary starts out empty.
DecideAfresh(high, ages) ==
  LET alerts == ToSend(high, ages)
  IN [open |-> TRUE, alerts |-> alerts,
      copy |-> Stamped(NoEntries, alerts), written |-> alerts # {}]

\* Variant: a metric is stamped whenever it is over its threshold.
DecideStamped(high, ages) ==
  [open |-> TRUE, alerts |-> ToSend(high, ages),
   copy |-> Stamped(ages, high), written |-> TRUE]

\* What the handler decides, given the entries it has read.
Decide(high, ages) ==
  LET alerts == ToSend(high, ages)
  IN [open |-> TRUE, alerts |-> alerts,
      copy |-> IF alerts = {} THEN NoEntries ELSE Stamped(ages, alerts),
      written |-> alerts # {}]

\* A heartbeat has been authenticated; `high` are the metrics over their thresholds.
Begin(h, high) ==
  /\ ~ beat[h].open
  /\ beat' = [beat EXCEPT ![h] = Decide(high, stamps)]
  /\ apart' = IF \E g \in Handlers : beat[g].open THEN 0 ELSE apart
  /\ UNCHANGED <<stamps, last>>

LastAfter(h) ==
  [m \in Metrics |-> IF m \in beat[h].alerts /\ beat[h].copy[m] < last[m]
                     THEN beat[h].copy[m] ELSE last[m]]

\* The commit, after which the alerts are handed to background tasks.
Commit(h) ==
  /\ beat[h].open
  /\ stamps' = IF beat[h].written THEN beat[h].copy ELSE stamps
  /\ last' = LastAfter(h)
  /\ beat' = [beat EXCEPT ![h] = NoBeat]
  /\ UNCHANGED apart

\* Variant: the alerts are on their way although the commit fails.
AbandonSent(h) ==
  /\ beat[h].open
  /\ last' = LastAfter(h)
  /\ beat' = [beat EXCEPT ![h] = NoBeat]
  /\ UNCHANGED <<stamps, apart>>

\* The commit fails: no timestamp is written and no alert sent.
Abandon(h) ==
  /\ beat[h].open
  /\ beat' = [beat EXCEPT ![h] = NoBeat]
  /\ UNCHANGED <<stamps, last, apart>>

\* The hub stops with requests open.
BeatsLost ==
  /\ beat' = [h \in Handlers |-> NoBeat]
  /\ UNCHANGED <<stamps, last, apart>>

Older(age) == IF age < Cooldown THEN age + 1 ELSE age
AllOlder(ages) == [m \in Metrics |-> Older(ages[m])]
Together == \E g, h \in Handlers : g # h /\ beat[g].open /\ beat[h].open

Tick ==
  /\ stamps' = AllOlder(stamps)
  /\ last' = AllOlder(last)
  /\ beat' = [h \in Handlers |-> [beat[h] EXCEPT !.copy = AllOlder(@)]]
  /\ apart' = IF Together THEN apart ELSE Older(apart)

MetricNext ==
  \/ \E h \in Handlers : \/ \E high \in SUBSET Metrics : Begin(h, high)
                         \/ Commit(h) \/ Abandon(h)
  \/ BeatsLost \/ Tick

MetricSpec == MetricInit /\ [][MetricNext]_metricVars

-----------------------------------------------------------------------------
\* Two heartbeats that overlap can overwrite each other's entries, for no longer than a
\* cooldown after they were open together: otherwise the row knows of every alert that was
\* given out (agents.py:202-228).
AlertsRemembered ==
  apart = Cooldown => \A m \in Metrics : stamps[m] <= last[m]

\* The row never claims a more recent alert than was given out, however heartbeats overlap
\* and commits fail: nothing puts off the end of a cooldown, and a metric that stays over
\* its threshold is alerted on again (agents.py:213-228, 258).
CooldownNotExtended == \A m \in Metrics : stamps[m] >= last[m]

\* So an alert is not repeated within its cooldown, except in the cooldown that follows an
\* overlap (agents.py:209-226).
CooldownRespected ==
  [][\A m \in Metrics : last'[m] < last[m] => last[m] = Cooldown \/ apart < Cooldown]_metricVars
=============================================================================
