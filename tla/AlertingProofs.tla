--------------------------- MODULE AlertingProofs ---------------------------
(***************************************************************************)
(* Theorems about Alerting, for every set of metrics, handlers, tasks and  *)
(* channels, every Cooldown and every number of Retries.                   *)
(***************************************************************************)
EXTENDS Alerting, FiniteSetTheorems, SequenceTheorems, TLAPS

-----------------------------------------------------------------------------
(***************************************************************************)
(* Ages.                                                                   *)
(***************************************************************************)
LEMMA AgeFacts ==
  /\ Cooldown \in Nat \ {0} /\ 0 \in Age /\ Cooldown \in Age
  /\ NoEntries \in Ages
  /\ \A a \in Age : a \in Nat /\ a <= Cooldown
BY MetricAssumption DEF MetricAssumption, Age, Ages, NoEntries

LEMMA OlderFacts ==
  ASSUME NEW a \in Age
  PROVE  Older(a) \in Age /\ a <= Older(a)
BY MetricAssumption DEF MetricAssumption, Age, Older

LEMMA OlderMonotone ==
  ASSUME NEW a \in Age, NEW b \in Age, a <= b
  PROVE  Older(a) <= Older(b)
BY MetricAssumption DEF MetricAssumption, Age, Older

LEMMA StampedAges ==
  ASSUME NEW ages \in Ages, NEW alerts \in SUBSET Metrics
  PROVE  Stamped(ages, alerts) \in Ages
BY AgeFacts DEF Stamped, Ages

LEMMA AllOlderAges ==
  ASSUME NEW ages \in Ages
  PROVE  /\ AllOlder(ages) \in Ages
         /\ \A m \in Metrics : AllOlder(ages)[m] = Older(ages[m])
BY OlderFacts DEF AllOlder, Ages

\* What a handler that has begun keeps.
LEMMA DecideFacts ==
  ASSUME NEW high \in SUBSET Metrics, NEW ages \in Ages
  PROVE  LET b == Decide(high, ages)
         IN /\ b \in Beat /\ b.open
            /\ b.written <=> b.alerts # {}
            /\ \A m \in b.alerts : ages[m] >= Cooldown /\ b.copy[m] = 0
            /\ b.written => \A m \in Metrics \ b.alerts : b.copy[m] = ages[m]
<1> DEFINE alerts == ToSend(high, ages)
           copy == IF alerts = {} THEN NoEntries ELSE Stamped(ages, alerts)
<1>1. alerts \in SUBSET Metrics /\ \A m \in alerts : ages[m] >= Cooldown
  BY DEF ToSend
<1>2. copy \in Ages
  BY <1>1, StampedAges, AgeFacts
<1>3. alerts # {} => \A m \in Metrics : copy[m] = IF m \in alerts THEN 0 ELSE ages[m]
  BY <1>1 DEF Stamped
<1>4. Decide(high, ages) =
        [open |-> TRUE, alerts |-> alerts, copy |-> copy, written |-> alerts # {}]
  BY DEF Decide
<1> HIDE DEF alerts, copy
<1>5. Decide(high, ages) \in Beat
  BY <1>1, <1>2, <1>4 DEF Beat
<1>6. Decide(high, ages).alerts = alerts /\ Decide(high, ages).copy = copy
  BY <1>4
<1>7. Decide(high, ages).open = TRUE /\ Decide(high, ages).written = (alerts # {})
  BY <1>4
<1> QED BY <1>1, <1>3, <1>5, <1>6, <1>7

LEMMA NoBeatFacts ==
  /\ NoBeat \in Beat
  /\ ~ NoBeat.open /\ NoBeat.alerts = {} /\ ~ NoBeat.written
BY AgeFacts DEF NoBeat, Beat

LEMMA LastAfterFacts ==
  ASSUME MetricTypeOK, NEW h \in Handlers
  PROVE  /\ LastAfter(h) \in Ages
         /\ \A m \in Metrics :
              /\ LastAfter(h)[m] <= last[m]
              /\ m \in beat[h].alerts => LastAfter(h)[m] <= beat[h].copy[m]
              /\ LastAfter(h)[m] # last[m] =>
                   m \in beat[h].alerts /\ LastAfter(h)[m] = beat[h].copy[m]
<1>1. last \in Ages /\ beat[h].copy \in Ages
  BY DEF MetricTypeOK, Beat
<1>2. \A m \in Metrics : last[m] \in Nat /\ beat[h].copy[m] \in Nat
  BY <1>1, AgeFacts DEF Ages
<1>3. \A m \in Metrics :
        LastAfter(h)[m] = IF m \in beat[h].alerts /\ beat[h].copy[m] < last[m]
                          THEN beat[h].copy[m] ELSE last[m]
  BY DEF LastAfter
<1>4. LastAfter(h) \in Ages
  BY <1>1 DEF LastAfter, Ages
<1> QED BY <1>2, <1>3, <1>4

-----------------------------------------------------------------------------
(***************************************************************************)
(* Types.                                                                  *)
(***************************************************************************)
LEMMA MetricTypes ==
  ASSUME MetricTypeOK, [MetricNext]_metricVars
  PROVE  MetricTypeOK'
<1>1. ASSUME NEW h \in Handlers, NEW high \in SUBSET Metrics, Begin(h, high)
      PROVE  MetricTypeOK'
  <2>1. Decide(high, stamps) \in Beat
    BY DecideFacts DEF MetricTypeOK
  <2>2. beat' \in [Handlers -> Beat]
    BY <1>1, <2>1 DEF Begin, MetricTypeOK
  <2>3. apart' \in Age
    BY <1>1, AgeFacts DEF Begin, MetricTypeOK
  <2> QED BY <1>1, <2>2, <2>3 DEF Begin, MetricTypeOK
<1>2. ASSUME NEW h \in Handlers, Commit(h)
      PROVE  MetricTypeOK'
  <2>1. stamps' \in Ages
    BY <1>2 DEF Commit, MetricTypeOK, Beat
  <2>2. last' \in Ages
    BY <1>2, LastAfterFacts DEF Commit
  <2>3. beat' \in [Handlers -> Beat]
    BY <1>2, NoBeatFacts DEF Commit, MetricTypeOK
  <2> QED BY <1>2, <2>1, <2>2, <2>3 DEF Commit, MetricTypeOK
<1>3. ASSUME NEW h \in Handlers, Abandon(h)
      PROVE  MetricTypeOK'
  BY <1>3, NoBeatFacts DEF Abandon, MetricTypeOK
<1>4. CASE BeatsLost
  BY <1>4, NoBeatFacts DEF BeatsLost, MetricTypeOK
<1>5. CASE Tick
  <2>1. stamps' \in Ages /\ last' \in Ages
    BY <1>5, AllOlderAges DEF Tick, MetricTypeOK
  <2>2. apart' \in Age
    BY <1>5, OlderFacts DEF Tick, MetricTypeOK
  <2>3. ASSUME NEW h \in Handlers
        PROVE  [beat[h] EXCEPT !.copy = AllOlder(@)] \in Beat
    BY AllOlderAges DEF MetricTypeOK, Beat
  <2>4. beat' \in [Handlers -> Beat]
    BY <1>5, <2>3 DEF Tick
  <2> QED BY <2>1, <2>2, <2>4 DEF MetricTypeOK
<1>6. CASE UNCHANGED metricVars
  BY <1>6 DEF metricVars, MetricTypeOK
<1> QED BY <1>1, <1>2, <1>3, <1>4, <1>5, <1>6 DEF MetricNext

-----------------------------------------------------------------------------
(***************************************************************************)
(* The cooldowns.  Known(ages) says of a dictionary that it knows of the   *)
(* last alert of every metric, or that this alert is not younger than the  *)
(* last overlap.  It holds of the row and of what an open handler will     *)
(* write; two open handlers are an overlap, under which it says nothing.   *)
(***************************************************************************)
Known(ages) == \A m \in Metrics : ages[m] <= last[m] \/ apart <= last[m]

BeatInv(b) ==
  /\ b.alerts # {} => b.written
  /\ b.written => Known(b.copy) /\ \A m \in Metrics \ b.alerts : last[m] <= b.copy[m]
  /\ \A m \in b.alerts : apart <= last[m]

Idle(b) == b.alerts = {} /\ ~ b.written

CooldownInv ==
  /\ CooldownNotExtended
  /\ Known(stamps)
  /\ Together => apart = 0
  /\ \A h \in Handlers : beat[h].open \/ Idle(beat[h])
  /\ \A h \in Handlers : BeatInv(beat[h])

LEMMA NoBeatInv == BeatInv(NoBeat) /\ Idle(NoBeat)
BY NoBeatFacts DEF BeatInv, Idle

LEMMA CooldownInitial ==
  ASSUME MetricInit
  PROVE  CooldownInv
<1>1. \A m \in Metrics : stamps[m] = Cooldown /\ last[m] = Cooldown /\ apart = Cooldown
  BY DEF MetricInit, NoEntries
<1>2. \A h \in Handlers : beat[h] = NoBeat
  BY DEF MetricInit
<1> QED
  BY <1>1, <1>2, NoBeatInv, NoBeatFacts, AgeFacts
     DEF CooldownInv, CooldownNotExtended, Known, Together

LEMMA ClosedInv ==
  ASSUME NEW h \in Handlers, Idle(beat[h])'
  PROVE  BeatInv(beat[h])'
BY DEF Idle, BeatInv

\* A handler that a step leaves alone, when no age grows but that of the last overlap falls.
LEMMA OpenInv ==
  ASSUME MetricTypeOK, NEW h \in Handlers, BeatInv(beat[h]), beat'[h] = beat[h],
         \A m \in Metrics : last'[m] \in Nat /\ last'[m] <= last[m],
         apart' \in Nat /\ apart' <= apart,
         apart' = 0 \/ last' = last
  PROVE  BeatInv(beat[h])'
<1>1. beat[h].alerts \subseteq Metrics /\ \A m \in Metrics : beat[h].copy[m] \in Nat
  BY AgeFacts DEF MetricTypeOK, Beat, Ages
<1>2. \A m \in Metrics : last[m] \in Nat
  BY AgeFacts DEF MetricTypeOK, Ages
<1>3. apart \in Nat
  BY AgeFacts DEF MetricTypeOK
<1>4. \A m \in Metrics : apart <= last[m] => apart' <= last'[m]
  BY <1>2, <1>3
<1>5. ASSUME beat[h].written, NEW m \in Metrics
      PROVE  /\ beat[h].copy[m] <= last'[m] \/ apart' <= last'[m]
             /\ m \notin beat[h].alerts => last'[m] <= beat[h].copy[m]
  <2>1. /\ beat[h].copy[m] <= last[m] \/ apart <= last[m]
        /\ m \notin beat[h].alerts => last[m] <= beat[h].copy[m]
    BY <1>5 DEF BeatInv, Known
  <2>2. last'[m] = last[m] \/ apart' <= last'[m]
    BY <1>5
  <2> QED BY <1>1, <1>2, <1>4, <2>1, <2>2
<1>6. \A m \in beat[h].alerts : apart' <= last'[m]
  BY <1>1, <1>4 DEF BeatInv
<1> QED BY <1>5, <1>6 DEF BeatInv, Known

LEMMA CooldownBegin ==
  ASSUME MetricTypeOK, CooldownInv, NEW h \in Handlers, NEW high \in SUBSET Metrics,
         Begin(h, high)
  PROVE  CooldownInv'
<1>1. /\ stamps' = stamps /\ last' = last
      /\ apart' = IF \E g \in Handlers : beat[g].open THEN 0 ELSE apart
  BY DEF Begin
<1>2. /\ stamps \in Ages
      /\ \A m \in Metrics : stamps[m] \in Nat /\ last[m] \in Nat /\ last[m] <= stamps[m]
  BY AgeFacts DEF MetricTypeOK, Ages, CooldownInv, CooldownNotExtended
<1>3. apart \in Nat /\ apart <= Cooldown
  BY AgeFacts DEF MetricTypeOK
<1>4. apart' \in Nat /\ apart' <= apart
  BY <1>1, <1>3
<1>5. beat'[h] = Decide(high, stamps) /\ \A g \in Handlers : g # h => beat'[g] = beat[g]
  BY DEF Begin, MetricTypeOK
<1>6. \A m \in Metrics : stamps[m] <= last'[m] \/ apart' <= last'[m]
  BY <1>1, <1>2, <1>3, <1>4 DEF CooldownInv, Known
<1>7. /\ beat'[h].open /\ (beat'[h].written <=> beat'[h].alerts # {})
      /\ beat'[h].alerts \subseteq Metrics
      /\ \A m \in beat'[h].alerts : stamps[m] >= Cooldown /\ beat'[h].copy[m] = 0
      /\ beat'[h].written =>
           \A m \in Metrics \ beat'[h].alerts : beat'[h].copy[m] = stamps[m]
  <2> DEFINE new == Decide(high, stamps)
  <2>1. /\ new.open /\ (new.written <=> new.alerts # {})
        /\ \A m \in new.alerts : stamps[m] >= Cooldown /\ new.copy[m] = 0
        /\ new.written => \A m \in Metrics \ new.alerts : new.copy[m] = stamps[m]
    BY <1>2, DecideFacts
  <2>2. new.alerts \subseteq Metrics
    BY <1>2, DecideFacts DEF Beat
  <2>3. beat'[h] = new
    BY <1>5
  <2> HIDE DEF new
  <2> QED BY <2>1, <2>2, <2>3
<1>8. BeatInv(beat[h])'
  <2>1. ASSUME NEW m \in beat'[h].alerts
        PROVE  apart' <= last'[m]
    <3>1. m \in Metrics /\ stamps[m] >= Cooldown
      BY <1>7
    <3>2. stamps[m] <= last'[m] \/ apart' <= last'[m]
      BY <1>6, <3>1
    <3> QED BY <1>1, <1>2, <1>3, <1>4, <3>1, <3>2, AgeFacts
  <2>2. ASSUME beat'[h].written, NEW m \in Metrics
        PROVE  /\ beat'[h].copy[m] <= last'[m] \/ apart' <= last'[m]
               /\ m \notin beat'[h].alerts => last'[m] <= beat'[h].copy[m]
    <3>1. CASE m \in beat'[h].alerts
      <4>1. beat'[h].copy[m] = 0
        BY <1>7, <3>1
      <4> QED BY <1>1, <1>2, <3>1, <4>1
    <3>2. CASE m \notin beat'[h].alerts
      <4>1. beat'[h].copy[m] = stamps[m]
        BY <1>7, <2>2, <3>2
      <4> QED BY <1>1, <1>2, <1>6, <4>1
    <3> QED BY <3>1, <3>2
  <2>3. beat'[h].alerts # {} => beat'[h].written
    BY <1>7
  <2>4. beat'[h].written =>
          \A m \in Metrics : beat'[h].copy[m] <= last'[m] \/ apart' <= last'[m]
    BY <2>2
  <2>5. beat'[h].written =>
          \A m \in Metrics \ beat'[h].alerts : last'[m] <= beat'[h].copy[m]
    BY <2>2
  <2> QED BY <2>1, <2>3, <2>4, <2>5 DEF BeatInv, Known
<1>9. ASSUME NEW g \in Handlers, g # h
      PROVE  BeatInv(beat[g])'
  BY <1>1, <1>2, <1>4, <1>5, <1>9, OpenInv DEF CooldownInv
<1>10. Together' => apart' = 0
  <2>1. ASSUME NEW f \in Handlers, NEW g \in Handlers, f # g, beat'[f].open, beat'[g].open
        PROVE  \E k \in Handlers : beat[k].open
    BY <1>5, <2>1
  <2> QED BY <1>1, <2>1 DEF Together
<1>11. Known(stamps)' /\ CooldownNotExtended'
  BY <1>1, <1>6 DEF CooldownInv, CooldownNotExtended, Known
<1>12. \A g \in Handlers : beat'[g].open \/ Idle(beat[g])'
  BY <1>5, <1>7 DEF CooldownInv
<1>13. \A g \in Handlers : BeatInv(beat[g])'
  BY <1>8, <1>9
<1> QED BY <1>10, <1>11, <1>12, <1>13 DEF CooldownInv

LEMMA CooldownCommit ==
  ASSUME MetricTypeOK, CooldownInv, NEW h \in Handlers, Commit(h)
  PROVE  CooldownInv'
<1>1. /\ stamps' = IF beat[h].written THEN beat[h].copy ELSE stamps
      /\ last' = LastAfter(h) /\ apart' = apart
      /\ beat[h].open
  BY DEF Commit
<1>2. /\ beat'[h] = NoBeat
      /\ \A g \in Handlers : g # h => beat'[g] = beat[g]
  BY DEF Commit, MetricTypeOK
<1>3. \A m \in Metrics : /\ stamps[m] \in Nat /\ last[m] \in Nat /\ last'[m] \in Nat
                         /\ beat[h].copy[m] \in Nat
  BY <1>1, LastAfterFacts, AgeFacts DEF MetricTypeOK, Ages, Beat
<1>4. \A m \in Metrics :
        /\ last'[m] <= last[m]
        /\ m \in beat[h].alerts => last'[m] <= beat[h].copy[m]
        /\ last'[m] # last[m] => m \in beat[h].alerts /\ last'[m] = beat[h].copy[m]
  BY <1>1, LastAfterFacts
<1>5. apart \in Nat
  BY AgeFacts DEF MetricTypeOK
<1>6. BeatInv(beat[h])
  BY DEF CooldownInv
<1>7. ASSUME NEW m \in Metrics
      PROVE  /\ stamps'[m] >= last'[m]
             /\ stamps'[m] <= last'[m] \/ apart' <= last'[m]
  <2>1. CASE beat[h].written
    <3>1. stamps'[m] = beat[h].copy[m]
      BY <1>1, <2>1
    <3>2. beat[h].copy[m] <= last[m] \/ apart <= last[m]
      BY <1>6, <2>1 DEF BeatInv, Known
    <3>3. m \notin beat[h].alerts => last[m] <= beat[h].copy[m]
      BY <1>6, <2>1 DEF BeatInv
    <3> QED BY <1>1, <1>3, <1>4, <1>5, <3>1, <3>2, <3>3
  <2>2. CASE ~ beat[h].written
    <3>1. stamps'[m] = stamps[m]
      BY <1>1, <2>2
    <3>2. last'[m] = last[m]
      BY <1>4, <1>6, <2>2 DEF BeatInv
    <3>3. stamps[m] >= last[m] /\ (stamps[m] <= last[m] \/ apart <= last[m])
      BY DEF CooldownInv, CooldownNotExtended, Known
    <3> QED BY <1>1, <3>1, <3>2, <3>3
  <2> QED BY <2>1, <2>2
<1>8. ASSUME NEW g \in Handlers, g # h
      PROVE  BeatInv(beat[g])'
  <2>1. CASE beat[g].open
    <3>1. Together
      BY <1>1, <1>8, <2>1 DEF Together
    <3>2. apart' = 0
      BY <1>1, <3>1 DEF CooldownInv
    <3> QED BY <1>1, <1>2, <1>3, <1>4, <1>5, <1>8, <3>2, OpenInv DEF CooldownInv
  <2>2. CASE ~ beat[g].open
    BY <1>2, <1>8, <2>2, ClosedInv DEF CooldownInv
  <2> QED BY <2>1, <2>2
<1>9. Idle(beat[h])' /\ ~ beat'[h].open
  BY <1>2, NoBeatFacts DEF Idle
<1>10. \A g \in Handlers : BeatInv(beat[g])'
  BY <1>8, <1>9, ClosedInv
<1>11. \A g \in Handlers : beat'[g].open \/ Idle(beat[g])'
  BY <1>2, <1>9 DEF CooldownInv, Idle
<1>12. Together' => Together
  BY <1>2, NoBeatFacts DEF Together
<1> QED BY <1>1, <1>7, <1>10, <1>11, <1>12 DEF CooldownInv, CooldownNotExtended, Known

LEMMA CooldownTick ==
  ASSUME MetricTypeOK, CooldownInv, Tick
  PROVE  CooldownInv'
<1>1. /\ stamps \in Ages /\ last \in Ages /\ apart \in Age
      /\ \A h \in Handlers : beat[h] \in Beat
  BY DEF MetricTypeOK
<1>2. \A m \in Metrics : stamps'[m] = Older(stamps[m]) /\ last'[m] = Older(last[m])
  BY <1>1, AllOlderAges DEF Tick
<1>3. apart' = apart \/ apart' = Older(apart)
  BY DEF Tick
<1>4. /\ \A m \in Metrics : stamps[m] \in Age /\ last[m] \in Age
      /\ \A m \in Metrics : stamps'[m] \in Age /\ last'[m] \in Age
      /\ apart' \in Age
  BY <1>1, <1>2, <1>3, OlderFacts DEF Ages
<1>5. \A a, b \in Age : a <= b => Older(a) <= Older(b) /\ a <= Older(b)
  BY OlderMonotone, MetricAssumption DEF MetricAssumption, Age, Older
<1>6. \A m \in Metrics : apart <= last[m] => apart' <= last'[m]
  BY <1>1, <1>2, <1>3, <1>4, <1>5
<1>7. \A m \in Metrics : stamps'[m] >= last'[m]
  BY <1>2, <1>4, <1>5 DEF CooldownInv, CooldownNotExtended
<1>8. \A m \in Metrics : stamps'[m] <= last'[m] \/ apart' <= last'[m]
  BY <1>2, <1>4, <1>5, <1>6 DEF CooldownInv, Known
<1>9. ASSUME NEW h \in Handlers
      PROVE  BeatInv(beat[h])' /\ (beat'[h].open \/ Idle(beat[h])')
             /\ beat'[h].open = beat[h].open
  <2>1. beat'[h] = [beat[h] EXCEPT !.copy = AllOlder(@)]
    BY DEF Tick
  <2>2. beat'[h].alerts = beat[h].alerts /\ beat'[h].copy = AllOlder(beat[h].copy)
    BY <1>1, <2>1 DEF Beat
  <2>3. beat'[h].open = beat[h].open
    BY <1>1, <2>1 DEF Beat
  <2>4. beat'[h].written = beat[h].written
    BY <1>1, <2>1 DEF Beat
  <2>5. beat[h].alerts \subseteq Metrics /\ beat[h].copy \in Ages
    BY <1>1 DEF Beat
  <2>6. \A m \in Metrics : beat[h].copy[m] \in Age /\ beat'[h].copy[m] = Older(beat[h].copy[m])
    BY <2>2, <2>5, AllOlderAges DEF Ages
  <2>7. BeatInv(beat[h])
    BY DEF CooldownInv
  <2>8. \A m \in beat'[h].alerts : apart' <= last'[m]
    BY <1>6, <2>2, <2>5, <2>7 DEF BeatInv
  <2>9. ASSUME beat'[h].written, NEW m \in Metrics
        PROVE  /\ beat'[h].copy[m] <= last'[m] \/ apart' <= last'[m]
               /\ m \notin beat'[h].alerts => last'[m] <= beat'[h].copy[m]
    <3>1. /\ beat[h].copy[m] <= last[m] \/ apart <= last[m]
          /\ m \notin beat[h].alerts => last[m] <= beat[h].copy[m]
      BY <2>4, <2>7, <2>9 DEF BeatInv, Known
    <3> QED BY <1>2, <1>4, <1>5, <1>6, <2>2, <2>6, <3>1
  <2>10. BeatInv(beat[h])'
    BY <2>2, <2>4, <2>7, <2>8, <2>9 DEF BeatInv, Known
  <2>11. beat'[h].open \/ Idle(beat[h])'
    BY <2>2, <2>3, <2>4 DEF CooldownInv, Idle
  <2> QED BY <2>3, <2>10, <2>11
<1>10. Together' <=> Together
  BY <1>9 DEF Together
<1>11. Together' => apart' = 0
  BY <1>10 DEF Tick, CooldownInv
<1> QED BY <1>7, <1>8, <1>9, <1>11 DEF CooldownInv, CooldownNotExtended, Known

LEMMA CooldownInductive ==
  ASSUME MetricTypeOK, CooldownInv, [MetricNext]_metricVars
  PROVE  CooldownInv'
<1>1. ASSUME NEW h \in Handlers, Abandon(h)
      PROVE  CooldownInv'
  <2>1. UNCHANGED <<stamps, last, apart>>
    BY <1>1 DEF Abandon
  <2>2. beat'[h] = NoBeat /\ \A g \in Handlers : g # h => beat'[g] = beat[g]
    BY <1>1 DEF Abandon, MetricTypeOK
  <2>3. Idle(beat[h])' /\ ~ beat'[h].open
    BY <2>2, NoBeatFacts DEF Idle
  <2>4. \A g \in Handlers : BeatInv(beat[g])'
    BY <2>1, <2>2, <2>3, ClosedInv DEF CooldownInv, BeatInv, Known
  <2>5. /\ \A g \in Handlers : beat'[g].open \/ Idle(beat[g])'
        /\ Together' => Together
    BY <2>2, <2>3 DEF CooldownInv, Together, Idle
  <2> QED BY <2>1, <2>4, <2>5 DEF CooldownInv, CooldownNotExtended, Known
<1>2. CASE BeatsLost
  <2>1. UNCHANGED <<stamps, last, apart>> /\ \A h \in Handlers : beat'[h] = NoBeat
    BY <1>2 DEF BeatsLost
  <2>2. \A h \in Handlers : Idle(beat[h])' /\ ~ beat'[h].open
    BY <2>1, NoBeatFacts DEF Idle
  <2>3. \A h \in Handlers : BeatInv(beat[h])'
    BY <2>2, ClosedInv
  <2> QED BY <2>1, <2>2, <2>3
             DEF CooldownInv, CooldownNotExtended, Known, Together
<1>3. CASE UNCHANGED metricVars
  BY <1>3 DEF metricVars, CooldownInv, CooldownNotExtended, Known, Together, BeatInv
<1> QED
  BY <1>1, <1>2, <1>3, CooldownBegin, CooldownCommit, CooldownTick DEF MetricNext

-----------------------------------------------------------------------------
(***************************************************************************)
(* What follows for the composition.                                       *)
(***************************************************************************)
LEMMA MetricStep ==
  ASSUME [Next]_vars
  PROVE  [MetricNext]_metricVars
BY DEF Next, vars, MetricNext, HeartbeatCommit, DetectorBatch, HubStops

LEMMA CooldownsKept == Spec => [](MetricTypeOK /\ CooldownInv)
<1>1. Init => MetricTypeOK /\ CooldownInv
  BY AgeFacts, NoBeatFacts, CooldownInitial DEF Init, MetricInit, MetricTypeOK
<1>2. MetricTypeOK /\ CooldownInv /\ [Next]_vars => (MetricTypeOK /\ CooldownInv)'
  BY MetricStep, MetricTypes, CooldownInductive
<1> QED BY <1>1, <1>2, PTL DEF Spec

\* The row never claims a more recent alert than was given out.
THEOREM CooldownIsNotExtended == Spec => []CooldownNotExtended
<1>1. CooldownInv => CooldownNotExtended
  BY DEF CooldownInv
<1> QED BY <1>1, CooldownsKept, PTL

\* A cooldown after the last overlap, the row knows of every alert that was given out.
THEOREM AlertsAreRemembered == Spec => []AlertsRemembered
<1>1. MetricTypeOK /\ CooldownInv => AlertsRemembered
  <2>1. SUFFICES ASSUME MetricTypeOK, CooldownInv, apart = Cooldown, NEW m \in Metrics
                 PROVE  stamps[m] <= last[m]
    BY DEF AlertsRemembered
  <2>2. stamps[m] \in Nat /\ last[m] \in Nat /\ stamps[m] <= Cooldown /\ Cooldown \in Nat
    BY <2>1, AgeFacts DEF MetricTypeOK, Ages
  <2>3. stamps[m] <= last[m] \/ apart <= last[m]
    BY <2>1 DEF CooldownInv, Known
  <2> QED BY <2>1, <2>2, <2>3
<1> QED BY <1>1, CooldownsKept, PTL

\* No alert is repeated within its cooldown, except in the one that follows an overlap.
THEOREM CooldownIsRespected == Spec => CooldownRespected
<1> DEFINE Respected ==
      \A m \in Metrics : last'[m] < last[m] => last[m] = Cooldown \/ apart < Cooldown
<1>1. MetricTypeOK /\ CooldownInv /\ [Next]_vars => [Respected]_metricVars
  <2>1. SUFFICES ASSUME MetricTypeOK, CooldownInv, [MetricNext]_metricVars,
                        NEW m \in Metrics, last'[m] < last[m]
                 PROVE  last[m] = Cooldown \/ apart < Cooldown
    BY MetricStep
  <2>2. last[m] \in Nat /\ last[m] <= Cooldown /\ apart \in Nat /\ Cooldown \in Nat
    BY <2>1, AgeFacts DEF MetricTypeOK, Ages
  <2>3. ASSUME NEW h \in Handlers, Commit(h)
        PROVE  last[m] = Cooldown \/ apart < Cooldown
    <3>1. m \in beat[h].alerts
      BY <2>1, <2>2, <2>3, LastAfterFacts DEF Commit
    <3>2. apart <= last[m]
      BY <2>1, <3>1 DEF CooldownInv, BeatInv
    <3> QED BY <2>2, <3>2
  <2>4. CASE last' = last
    BY <2>1, <2>2, <2>4
  <2>5. CASE Tick
    <3>1. last \in Ages /\ last[m] \in Age
      BY <2>1 DEF MetricTypeOK, Ages
    <3>2. last'[m] = Older(last[m])
      BY <2>5, <3>1, AllOlderAges DEF Tick
    <3>3. Older(last[m]) \in Nat /\ last[m] <= Older(last[m])
      BY <3>1, OlderFacts, AgeFacts
    <3> QED BY <2>1, <2>2, <3>2, <3>3
  <2>6. last' = last \/ Tick \/ \E h \in Handlers : Commit(h)
    BY <2>1 DEF MetricNext, metricVars, Begin, Abandon, BeatsLost
  <2> QED BY <2>3, <2>4, <2>5, <2>6
<1> QED BY <1>1, CooldownsKept, PTL DEF Spec, CooldownRespected

-----------------------------------------------------------------------------
(***************************************************************************)
(* The deliveries.                                                         *)
(***************************************************************************)
LEMMA HeadOrTail ==
  ASSUME NEW s \in Seq(Alerts), s # <<>>
  PROVE  /\ Head(s) \in Alerts /\ Tail(s) \in Seq(Alerts)
         /\ Len(s) = 1 => ToSet(Tail(s)) = {}
         /\ \A a \in ToSet(s) : a = Head(s) \/ a \in ToSet(Tail(s))
<1>1. /\ Head(s) \in Alerts /\ Tail(s) \in Seq(Alerts)
      /\ Len(Tail(s)) = Len(s) - 1
      /\ \A i \in 1..Len(Tail(s)) : Tail(s)[i] = s[i + 1]
  BY HeadTailProperties
<1>2. Len(s) \in Nat /\ DOMAIN s = 1..Len(s) /\ Head(s) = s[1]
  OBVIOUS
<1>3. DOMAIN Tail(s) = 1..(Len(s) - 1)
  BY <1>1
<1>4. ASSUME NEW i \in 1..Len(s), i # 1
      PROVE  s[i] \in ToSet(Tail(s))
  <2>1. i - 1 \in DOMAIN Tail(s) /\ (i - 1) + 1 = i
    BY <1>2, <1>3, <1>4
  <2>2. Tail(s)[i - 1] = s[i]
    BY <1>1, <1>2, <1>3, <2>1
  <2> QED BY <2>1, <2>2 DEF ToSet
<1>5. Len(s) = 1 => ToSet(Tail(s)) = {}
  BY <1>3 DEF ToSet
<1>6. ASSUME NEW a \in ToSet(s)
      PROVE  a = Head(s) \/ a \in ToSet(Tail(s))
  <2>1. PICK i \in 1..Len(s) : a = s[i]
    BY <1>2, <1>6 DEF ToSet
  <2> QED BY <1>2, <1>4, <2>1
<1> QED BY <1>1, <1>5, <1>6

LEMMA QueueType ==
  ASSUME NEW alerts \in SUBSET Metrics, NEW recovery \in {<<>>, <<Recovery>>}
  PROVE  recovery \o SetToSeq(alerts) \in Seq(Alerts)
<1>1. IsFiniteSet(alerts)
  BY AlertingAssumption, FS_Subset DEF AlertingAssumption
<1>2. Cardinality(alerts) \in Nat /\ ExistsBijection(1..Cardinality(alerts), alerts)
  BY <1>1, FS_CardinalityType
<1>3. PICK f \in [1..Cardinality(alerts) -> alerts] : IsInjective(f)
  BY <1>2 DEF ExistsBijection, Bijection, Injection
<1>4. SetToSeq(alerts) \in [1..Cardinality(alerts) -> alerts]
  BY <1>3 DEF SetToSeq
<1>5. alerts \subseteq Alerts /\ Recovery \in Alerts
  BY AlertingAssumption DEF AlertingAssumption
<1>6. SetToSeq(alerts) \in Seq(Alerts)
  <2>1. SetToSeq(alerts) \in Seq(alerts)
    BY <1>2, <1>4, SeqDef
  <2> QED BY <1>5, <2>1, SeqMonotonic
<1>7. recovery \in Seq(Alerts)
  <2>1. <<>> \in Seq(Alerts)
    BY EmptySeq
  <2>2. <<Recovery>> \in Seq(Alerts)
    BY <1>5
  <2> QED BY <2>1, <2>2
<1> QED BY <1>6, <1>7, ConcatProperties

LEMMA ToSetType ==
  ASSUME NEW s \in Seq(Alerts)
  PROVE  ToSet(s) \subseteq Alerts
BY DEF ToSet

LEMMA DispatchFacts ==
  ASSUME NEW alerts \in Seq(Alerts), NEW urls \in [Alerts -> SUBSET Channels]
  PROVE  /\ Dispatch(alerts, urls) \in Task
         /\ Dispatch(alerts, urls).queue = alerts
         /\ Dispatch(alerts, urls).urls = urls
         /\ alerts = <<>> => Dispatch(alerts, urls).open = {}
         /\ alerts # <<>> => Dispatch(alerts, urls).open = urls[Head(alerts)]
         /\ \A c \in Channels : Dispatch(alerts, urls).tries[c] < Retries
<1>1. 0 \in 0..Retries /\ 0 < Retries
  BY DeliveryAssumption DEF DeliveryAssumption
<1>2. alerts # <<>> => Head(alerts) \in Alerts
  BY HeadTailProperties
<1>3. (IF alerts = <<>> THEN {} ELSE urls[Head(alerts)]) \in SUBSET Channels
  BY <1>2
<1> QED BY <1>1, <1>3 DEF Dispatch, Task

LEMMA EndedFacts == Ended \in Task /\ Ended.queue = <<>> /\ Ended.open = {}
<1>1. <<>> \in Seq(Alerts) /\ [a \in Alerts |-> {}] \in [Alerts -> SUBSET Channels]
  OBVIOUS
<1> QED BY <1>1, DispatchFacts DEF Ended

\* A coroutine that is open has an attempt left.
AttemptLeft(k) == \A c \in k.open : k.tries[c] < Retries

\* What a task owes is in its queue, and was not sent yet.
Ahead(k, debt) ==
  \A a \in Alerts, c \in Channels : <<a, c>> \in debt =>
    /\ k.queue # <<>>
    /\ c \in k.urls[a]
    /\ \/ a \in ToSet(Tail(k.queue))
       \/ a = Head(k.queue) /\ c \in k.open

DeliveryInv ==
  /\ DeliveryTypeOK
  /\ \A t \in Tasks : AttemptLeft(task[t]) /\ Ahead(task[t], owed[t])

\* A step of one task leaves the others as they are.
LEMMA OneTask ==
  ASSUME DeliveryInv, NEW t \in Tasks,
         task' \in [Tasks -> Task], owed' \in [Tasks -> SUBSET (Alerts \X Channels)],
         \A u \in Tasks : u # t => task'[u] = task[u] /\ owed'[u] = owed[u],
         \A c \in task'[t].open : task'[t].tries[c] < Retries,
         \A a \in Alerts, c \in Channels : <<a, c>> \in owed'[t] =>
           /\ task'[t].queue # <<>>
           /\ c \in task'[t].urls[a]
           /\ \/ a \in ToSet(Tail(task'[t].queue))
              \/ a = Head(task'[t].queue) /\ c \in task'[t].open
  PROVE  DeliveryInv'
<1>1. DeliveryTypeOK'
  BY DEF DeliveryTypeOK
<1>2. AttemptLeft(task[t])'
  BY DEF AttemptLeft
<1>3. Ahead(task[t], owed[t])'
  BY DEF Ahead
<1>4. ASSUME NEW u \in Tasks, u # t
      PROVE  AttemptLeft(task[u])' /\ Ahead(task[u], owed[u])'
  BY <1>4 DEF DeliveryInv, AttemptLeft, Ahead
<1> QED BY <1>1, <1>2, <1>3, <1>4 DEF DeliveryInv

LEMMA StartInv ==
  ASSUME DeliveryInv, NEW t \in Tasks, NEW alerts \in Seq(Alerts),
         NEW urls \in [Alerts -> SUBSET Channels], Start(t, alerts, urls)
  PROVE  DeliveryInv'
<1>1. /\ task' = [task EXCEPT ![t] = Dispatch(alerts, urls)]
      /\ owed' = [owed EXCEPT ![t] = {job \in ToSet(alerts) \X Channels :
                                         job[2] \in urls[job[1]]}]
  BY DEF Start
<1>2. task' \in [Tasks -> Task]
  BY <1>1, DispatchFacts DEF DeliveryInv, DeliveryTypeOK
<1>3. owed' \in [Tasks -> SUBSET (Alerts \X Channels)]
  BY <1>1, ToSetType DEF DeliveryInv, DeliveryTypeOK
<1>4. \A u \in Tasks : u # t => task'[u] = task[u] /\ owed'[u] = owed[u]
  BY <1>1 DEF DeliveryInv, DeliveryTypeOK
<1>5. /\ task'[t].queue = alerts /\ task'[t].urls = urls
      /\ task'[t].open \subseteq Channels
      /\ alerts # <<>> => task'[t].open = urls[Head(alerts)]
      /\ \A c \in Channels : task'[t].tries[c] < Retries
  BY <1>1, DispatchFacts DEF DeliveryInv, DeliveryTypeOK, Task
<1>6. owed'[t] = {job \in ToSet(alerts) \X Channels : job[2] \in urls[job[1]]}
  BY <1>1 DEF DeliveryInv, DeliveryTypeOK
<1>7. ASSUME NEW a \in Alerts, NEW c \in Channels, <<a, c>> \in owed'[t]
      PROVE  /\ alerts # <<>> /\ c \in urls[a]
             /\ a \in ToSet(Tail(alerts)) \/ a = Head(alerts)
  <2>1. a \in ToSet(alerts) /\ c \in urls[a]
    BY <1>6, <1>7
  <2>2. alerts # <<>>
    BY <2>1 DEF ToSet
  <2> QED BY <2>1, <2>2, HeadOrTail
<1> QED BY <1>2, <1>3, <1>4, <1>5, <1>7, OneTask

LEMMA ProceedInv ==
  ASSUME DeliveryInv, NEW t \in Tasks, Proceed(t)
  PROVE  DeliveryInv'
<1> DEFINE alerts == task[t].queue
           urls == task[t].urls
<1>1. /\ alerts # <<>> /\ task[t].open = {} /\ owed' = owed
      /\ task' = [task EXCEPT ![t] = IF Len(alerts) = 1 THEN Ended
                                     ELSE Dispatch(Tail(alerts), urls)]
  BY DEF Proceed, Busy
<1>2. task \in [Tasks -> Task] /\ owed \in [Tasks -> SUBSET (Alerts \X Channels)]
  BY DEF DeliveryInv, DeliveryTypeOK
<1>3. alerts \in Seq(Alerts) /\ urls \in [Alerts -> SUBSET Channels]
  BY <1>2 DEF Task
<1> HIDE DEF alerts, urls
<1>4. Tail(alerts) \in Seq(Alerts) /\ (Len(alerts) = 1 => ToSet(Tail(alerts)) = {})
  BY <1>1, <1>3, HeadOrTail
<1>5. Len(alerts) # 1 => Tail(alerts) # <<>>
  <2>1. Len(Tail(alerts)) = Len(alerts) - 1 /\ Len(alerts) \in Nat
    BY <1>1, <1>3, HeadTailProperties, LenProperties
  <2>2. Tail(alerts) = <<>> => Len(Tail(alerts)) = 0
    BY EmptySeq
  <2>3. Len(Tail(alerts)) = 0 => Len(alerts) = 1
    BY <2>1
  <2> QED BY <2>2, <2>3
<1>6. task' \in [Tasks -> Task]
  BY <1>1, <1>2, <1>3, <1>4, DispatchFacts, EndedFacts
<1>7. \A a \in Alerts, c \in Channels : <<a, c>> \in owed'[t] =>
        a \in ToSet(Tail(alerts)) /\ c \in urls[a]
  BY <1>1 DEF DeliveryInv, Ahead, alerts, urls
<1>8. CASE Len(alerts) = 1
  <2>1. task'[t] = Ended
    BY <1>1, <1>2, <1>8
  <2>2. task'[t].open = {}
    BY <2>1, EndedFacts
  <2> QED BY <1>1, <1>2, <1>4, <1>6, <1>7, <1>8, <2>2, OneTask
<1>9. CASE Len(alerts) # 1
  <2>1. task'[t] = Dispatch(Tail(alerts), urls)
    BY <1>1, <1>2, <1>9
  <2>4. /\ Dispatch(Tail(alerts), urls).queue = Tail(alerts)
        /\ Dispatch(Tail(alerts), urls).urls = urls
        /\ Dispatch(Tail(alerts), urls).open = urls[Head(Tail(alerts))]
        /\ \A c \in Channels : Dispatch(Tail(alerts), urls).tries[c] < Retries
    BY <1>3, <1>4, <1>5, <1>9, DispatchFacts
  <2>2. /\ task'[t].queue = Tail(alerts) /\ task'[t].urls = urls
        /\ task'[t].open = urls[Head(Tail(alerts))]
        /\ \A c \in Channels : task'[t].tries[c] < Retries
    BY <2>1, <2>4
  <2>3. \A a \in ToSet(Tail(alerts)) :
          a = Head(Tail(alerts)) \/ a \in ToSet(Tail(Tail(alerts)))
    BY <1>4, <1>5, <1>9, HeadOrTail
  <2>5. \A c \in task'[t].open : task'[t].tries[c] < Retries
    BY <1>6, <2>2 DEF Task
  <2>6. ASSUME NEW a \in Alerts, NEW c \in Channels, <<a, c>> \in owed'[t]
        PROVE  /\ task'[t].queue # <<>>
               /\ c \in task'[t].urls[a]
               /\ \/ a \in ToSet(Tail(task'[t].queue))
                  \/ a = Head(task'[t].queue) /\ c \in task'[t].open
    BY <1>5, <1>7, <1>9, <2>2, <2>3, <2>6
  <2> QED BY <1>1, <1>2, <1>6, <2>5, <2>6, OneTask
<1> QED BY <1>8, <1>9

\* A post is answered: the coroutine returns, or has one attempt less.
LEMMA PostInv ==
  ASSUME DeliveryInv, NEW t \in Tasks, NEW c \in Channels, Accepted(t, c) \/ Refused(t, c)
  PROVE  DeliveryInv'
<1>1. task \in [Tasks -> Task] /\ owed \in [Tasks -> SUBSET (Alerts \X Channels)]
  BY DEF DeliveryInv, DeliveryTypeOK
<1>2. /\ task[t].queue \in Seq(Alerts) /\ task[t].urls \in [Alerts -> SUBSET Channels]
      /\ task[t].open \subseteq Channels /\ task[t].tries \in [Channels -> 0..Retries]
  BY <1>1 DEF Task
<1>3. /\ \A d \in task[t].open : task[t].tries[d] < Retries
      /\ \A a \in Alerts, d \in Channels : <<a, d>> \in owed[t] =>
           /\ task[t].queue # <<>> /\ d \in task[t].urls[a]
           /\ \/ a \in ToSet(Tail(task[t].queue))
              \/ a = Head(task[t].queue) /\ d \in task[t].open
  BY DEF DeliveryInv, AttemptLeft, Ahead
<1>4. Retries \in Nat \ {0}
  BY DeliveryAssumption DEF DeliveryAssumption
<1> DEFINE Same == /\ task'[t].queue = task[t].queue /\ task'[t].urls = task[t].urls
                   /\ task' \in [Tasks -> Task]
                   /\ \A u \in Tasks : u # t => task'[u] = task[u]
           Returned == /\ task'[t].open = task[t].open \ {c}
                       /\ \A d \in Channels \ {c} : task'[t].tries[d] = task[t].tries[d]
                       /\ Settled(t, c)
           Again == /\ task'[t].open = task[t].open
                    /\ \A d \in task[t].open : task'[t].tries[d] < Retries
                    /\ owed' = owed
<1>5. ASSUME Accepted(t, c)
      PROVE  Same /\ Returned
  <2>1. task' = [task EXCEPT ![t].open = @ \ {c}] /\ Settled(t, c)
    BY <1>5 DEF Accepted
  <2>2. [task[t] EXCEPT !.open = @ \ {c}] \in Task
    BY <1>1 DEF Task
  <2>3. /\ task'[t] = [task[t] EXCEPT !.open = @ \ {c}]
        /\ \A u \in Tasks : u # t => task'[u] = task[u]
        /\ task' \in [Tasks -> Task]
    BY <1>1, <2>1, <2>2
  <2>4. /\ task'[t].queue = task[t].queue /\ task'[t].urls = task[t].urls
        /\ task'[t].open = task[t].open \ {c} /\ task'[t].tries = task[t].tries
    BY <1>1, <2>3 DEF Task
  <2> QED BY <2>1, <2>3, <2>4
<1>6. ASSUME Refused(t, c)
      PROVE  Same /\ (Returned \/ Again)
  <2> DEFINE n == task[t].tries[c] + 1
             tries == [task[t].tries EXCEPT ![c] = n]
             refused == [task[t] EXCEPT !.tries = tries]
  <2>1. c \in task[t].open /\ n \in 0..Retries
    BY <1>2, <1>3, <1>4, <1>6 DEF Refused
  <2>2. tries \in [Channels -> 0..Retries]
    BY <1>2, <2>1
  <2>3. /\ \A d \in Channels \ {c} : tries[d] = task[t].tries[d]
        /\ n # Retries => \A d \in task[t].open : tries[d] < Retries
    BY <1>2, <1>3, <1>4, <2>1
  <2>4. task' = [task EXCEPT ![t] =
                   IF n = Retries THEN [refused EXCEPT !.open = @ \ {c}] ELSE refused]
    BY <1>1, <1>6 DEF Refused, Task
  <2> HIDE DEF tries
  <2>5. /\ refused \in Task /\ refused.queue = task[t].queue
        /\ refused.urls = task[t].urls /\ refused.open = task[t].open
        /\ refused.tries = tries
    BY <1>1, <2>2 DEF Task
  <2> HIDE DEF refused, n
  <2>6. CASE n = Retries
    <3>1. task'[t] = [refused EXCEPT !.open = @ \ {c}]
      BY <1>1, <2>4, <2>6
    <3>2. /\ task'[t] \in Task /\ task'[t].queue = task[t].queue
          /\ task'[t].urls = task[t].urls /\ task'[t].open = task[t].open \ {c}
          /\ task'[t].tries = tries
      BY <2>5, <3>1 DEF Task
    <3>3. task' \in [Tasks -> Task] /\ \A u \in Tasks : u # t => task'[u] = task[u]
      BY <1>1, <2>4, <3>2
    <3>4. Settled(t, c)
      BY <1>6, <2>6 DEF Refused, n
    <3> QED BY <2>3, <3>2, <3>3, <3>4
  <2>7. CASE n # Retries
    <3>1. task'[t] = refused
      BY <1>1, <2>4, <2>7
    <3>2. task' \in [Tasks -> Task] /\ \A u \in Tasks : u # t => task'[u] = task[u]
      BY <1>1, <2>4, <2>5, <2>7
    <3>3. owed' = owed
      BY <1>6, <2>7 DEF Refused, n
    <3> QED BY <2>3, <2>5, <2>7, <3>1, <3>2, <3>3
  <2> QED BY <2>6, <2>7
<1>7. Same /\ (Returned \/ Again)
  BY <1>5, <1>6
<1>8. CASE Returned
  <2>1. owed' = [owed EXCEPT ![t] = @ \ {<<Head(task[t].queue), c>>}]
    BY <1>8 DEF Settled
  <2>2. /\ owed' \in [Tasks -> SUBSET (Alerts \X Channels)]
        /\ \A u \in Tasks : u # t => owed'[u] = owed[u]
        /\ owed'[t] = owed[t] \ {<<Head(task[t].queue), c>>}
    BY <1>1, <2>1
  <2>3. \A d \in task'[t].open : task'[t].tries[d] < Retries
    BY <1>2, <1>3, <1>8
  <2>4. ASSUME NEW a \in Alerts, NEW d \in Channels, <<a, d>> \in owed'[t]
        PROVE  /\ task'[t].queue # <<>> /\ d \in task'[t].urls[a]
               /\ \/ a \in ToSet(Tail(task'[t].queue))
                  \/ a = Head(task'[t].queue) /\ d \in task'[t].open
    BY <1>3, <1>7, <1>8, <2>2, <2>4
  <2> QED BY <1>7, <2>2, <2>3, <2>4, OneTask
<1>9. CASE Again
  <2>1. \A a \in Alerts, d \in Channels : <<a, d>> \in owed'[t] =>
          /\ task'[t].queue # <<>> /\ d \in task'[t].urls[a]
          /\ \/ a \in ToSet(Tail(task'[t].queue))
             \/ a = Head(task'[t].queue) /\ d \in task'[t].open
    BY <1>3, <1>7, <1>9
  <2> QED BY <1>1, <1>7, <1>9, <2>1, OneTask
<1> QED BY <1>7, <1>8, <1>9

LEMMA DeliveryInitial ==
  ASSUME DeliveryInit
  PROVE  DeliveryInv
<1>1. DeliveryTypeOK
  BY EndedFacts DEF DeliveryInit, DeliveryTypeOK
<1>2. \A t \in Tasks : task[t].open = {} /\ owed[t] = {}
  BY EndedFacts DEF DeliveryInit
<1> QED BY <1>1, <1>2 DEF DeliveryInv, AttemptLeft, Ahead

LEMMA DeliveryInductive ==
  ASSUME MetricTypeOK, DeliveryInv, [Next]_vars
  PROVE  DeliveryInv'
<1>1. CASE UNCHANGED deliveryVars
  BY <1>1 DEF deliveryVars, DeliveryInv, DeliveryTypeOK, AttemptLeft, Ahead
<1>2. ASSUME NEW h \in Handlers, HeartbeatCommit(h)
      PROVE  DeliveryInv'
  <2>1. beat[h].alerts \in SUBSET Metrics
    BY <1>2 DEF MetricTypeOK, Beat
  <2>2. PICK recovery \in {<<>>, <<Recovery>>}, urls \in Webhooks :
          LET queue == recovery \o SetToSeq(beat[h].alerts)
          IN IF queue = <<>> THEN UNCHANGED deliveryVars
                             ELSE \E t \in Tasks :
                                    Start(t, queue, [a \in Alerts |-> urls])
    BY <1>2 DEF HeartbeatCommit
  <2>3. /\ recovery \o SetToSeq(beat[h].alerts) \in Seq(Alerts)
        /\ [a \in Alerts |-> urls] \in [Alerts -> SUBSET Channels]
    BY <2>1, QueueType, AlertingAssumption DEF AlertingAssumption
  <2> QED BY <1>1, <2>2, <2>3, StartInv
<1>3. CASE DetectorBatch
  <2>1. PICK t \in Tasks, urls \in [ToSet(OfflineBatch) -> Webhooks] :
          Start(t, OfflineBatch,
                [a \in Alerts |-> IF a \in ToSet(OfflineBatch) THEN urls[a] ELSE {}])
    BY <1>3 DEF DetectorBatch
  <2>2. /\ OfflineBatch \in Seq(Alerts)
        /\ [a \in Alerts |-> IF a \in ToSet(OfflineBatch) THEN urls[a] ELSE {}]
             \in [Alerts -> SUBSET Channels]
    BY AlertingAssumption DEF AlertingAssumption
  <2> QED BY <2>1, <2>2, StartInv
<1>4. ASSUME NEW t \in Tasks, DeliveryStep(t)
      PROVE  DeliveryInv'
  BY <1>4, ProceedInv, PostInv DEF DeliveryStep
<1>5. CASE TasksLost
  <2>1. /\ task' \in [Tasks -> Task] /\ owed' \in [Tasks -> SUBSET (Alerts \X Channels)]
        /\ \A t \in Tasks : task'[t].open = {} /\ owed'[t] = {}
    BY <1>5, EndedFacts DEF TasksLost
  <2> QED BY <2>1 DEF DeliveryInv, DeliveryTypeOK, AttemptLeft, Ahead
<1> QED BY <1>1, <1>2, <1>3, <1>4, <1>5 DEF Next, vars, HubStops

LEMMA DeliveriesKept == Spec => [](MetricTypeOK /\ DeliveryInv)
<1>1. Init => MetricTypeOK /\ DeliveryInv
  BY AgeFacts, NoBeatFacts, DeliveryInitial DEF Init, MetricInit, MetricTypeOK
<1>2. MetricTypeOK /\ DeliveryInv /\ [Next]_vars => (MetricTypeOK /\ DeliveryInv)'
  BY MetricStep, MetricTypes, DeliveryInductive
<1> QED BY <1>1, <1>2, PTL DEF Spec

\* Type correctness; among it, that no channel is tried more than Retries times.
THEOREM TypeCorrect == Spec => []TypeOK
<1>1. MetricTypeOK /\ DeliveryInv => TypeOK
  BY DEF DeliveryInv, TypeOK
<1> QED BY <1>1, DeliveriesKept, PTL

\* What a task owes is still ahead of it or being sent.
THEOREM NothingIsSkipped == Spec => []NothingSkipped
<1>1. DeliveryInv => NothingSkipped
  BY DEF DeliveryInv, Ahead, NothingSkipped, Busy
<1> QED BY <1>1, DeliveriesKept, PTL
=============================================================================
