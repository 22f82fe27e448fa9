-------------------------- MODULE NodeHealthProofs --------------------------
(***************************************************************************)
(* Theorems about NodeHealth, for every value of its constants.            *)
(***************************************************************************)
EXTENDS NodeHealth, TLAPS

-----------------------------------------------------------------------------
(***************************************************************************)
(* Types.                                                                  *)
(***************************************************************************)
HandlerType == [node : Nodes \cup {NoNode}, read : Columns]
CycleType == [at : {"idle", "read", "committed"}, batch : SUBSET Nodes,
              read : [Nodes -> Columns]]

LEMMA RegisteredColumns ==
  /\ Registered \in Columns
  /\ Registered.offline_cycles = 0 /\ Registered.offline_alert_sent = FALSE
BY DEF Registered, Columns

LEMMA AsleepType == Asleep \in CycleType /\ Asleep.at = "idle"
BY RegisteredColumns DEF Asleep, CycleType

LEMMA ClosedType == Closed \in HandlerType /\ Closed.node = NoNode
BY RegisteredColumns DEF Closed, HandlerType

\* The row after a heartbeat's UPDATE.
LEMMA HeardColumns ==
  ASSUME NEW read \in Columns, NEW now \in Columns
  PROVE  LET new == Heard(read, now)
         IN /\ new \in Columns
            /\ new.offline_cycles \in {0, now.offline_cycles}
            /\ read.offline_cycles = now.offline_cycles => new.offline_cycles = 0
            /\ read.offline_alert_sent => ~ new.offline_alert_sent
            /\ ~ read.offline_alert_sent =>
                 new.offline_alert_sent = now.offline_alert_sent
BY DEF Heard, Columns

\* The row after the detector's UPDATE, when the flag was and is down.
LEMMA MissedColumns ==
  ASSUME NEW read \in Columns, NEW now \in Columns
  PROVE  Missed(read, now) \in Columns
BY DEF Missed, Columns, Due

LEMMA MissedCount ==
  ASSUME NEW read \in Columns, NEW now \in Columns,
         read.offline_cycles <= 2, ~ now.offline_alert_sent
  PROVE  LET new == Missed(read, now)
         IN /\ new.offline_cycles <= 3
            /\ new.offline_cycles = 3 => new.offline_alert_sent
            /\ new.offline_alert_sent <=> Due(read)
<1> DEFINE new == Missed(read, now)
<1>1. new.offline_cycles = read.offline_cycles + 1
  BY DEF Missed
<1>2. new.offline_alert_sent <=> Due(read)
  BY DEF Missed
<1>3. read.offline_cycles \in Nat
  BY DEF Columns
<1>4. read.offline_cycles + 1 = 3 => Due(read)
  BY <1>3 DEF Due
<1>5. new.offline_cycles <= 3
  BY <1>1, <1>3
<1>6. new.offline_cycles = 3 => new.offline_alert_sent
  BY <1>1, <1>2, <1>4
<1> QED BY <1>2, <1>5, <1>6

LEMMA AfterType ==
  ASSUME NEW before \in Kinds \cup {"repeated"}, NEW kind \in Kinds
  PROVE  After(before, kind) \in Kinds \cup {"repeated"}
BY DEF After

\* Types are kept, handler by handler.
LEMMA HandlerTypes ==
  ASSUME TypeOK, NEW h \in Handlers,
         (\E n \in Nodes : HeartbeatRead(h, n)) \/ HeartbeatCommit(h) \/ HeartbeatFail(h)
  PROVE  TypeOK'
<1>0. /\ row \in [Nodes -> Columns] /\ hb \in [Handlers -> HandlerType]
      /\ last \in [Nodes -> Kinds \cup {"repeated"}]
      /\ "recovery" \in Kinds
  BY DEF TypeOK, HandlerType, Kinds
<1>1. ASSUME NEW n \in Nodes, HeartbeatRead(h, n)
      PROVE  TypeOK'
  <2>1. [node |-> n, read |-> row[n]] \in HandlerType
    BY <1>0 DEF HandlerType
  <2>2. hb' \in [Handlers -> HandlerType]
    BY <1>0, <1>1, <2>1 DEF HeartbeatRead
  <2> QED BY <1>1, <2>2 DEF TypeOK, HeartbeatRead, HandlerType
<1>2. CASE HeartbeatCommit(h)
  <2> DEFINE n == hb[h].node
             recovered == IF hb[h].read.offline_alert_sent
                          THEN {<<n, "recovery">>} ELSE {}
  <2>1. n \in Nodes /\ hb[h].read \in Columns /\ recovered \subseteq Nodes \X Kinds
    BY <1>0, <1>2 DEF HeartbeatCommit, TypeOK, HandlerType
  <2>2. row' \in [Nodes -> Columns]
    BY <1>0, <1>2, <2>1, HeardColumns DEF HeartbeatCommit
  <2>3. last' \in [Nodes -> Kinds \cup {"repeated"}]
    BY <1>0, <1>2, <2>1, AfterType DEF HeartbeatCommit
  <2>4. hb' \in [Handlers -> HandlerType]
    BY <1>0, <1>2, ClosedType DEF HeartbeatCommit
  <2>5. /\ table' = table /\ detector' = detector /\ silent' = silent \ {n}
        /\ tasks' = tasks \cup recovered
    BY <1>2 DEF HeartbeatCommit
  <2> HIDE DEF recovered
  <2> QED BY <2>1, <2>2, <2>3, <2>4, <2>5 DEF TypeOK, HandlerType
<1>3. CASE HeartbeatFail(h)
  <2>1. hb' \in [Handlers -> HandlerType]
    BY <1>0, <1>3, ClosedType DEF HeartbeatFail
  <2> QED BY <1>3, <2>1 DEF TypeOK, HeartbeatFail, HandlerType
<1> QED BY <1>1, <1>2, <1>3

LEMMA DetectorTypes ==
  ASSUME TypeOK, DetectorStep
  PROVE  TypeOK'
<1>0. /\ row \in [Nodes -> Columns] /\ detector \in CycleType
      /\ last \in [Nodes -> Kinds \cup {"repeated"}]
      /\ "offline" \in Kinds
  BY DEF TypeOK, CycleType, Kinds
<1>1. CASE DetectorRead
  <2>1. Overdue \in SUBSET Nodes
    BY DEF Overdue, TypeOK
  <2>2. [n \in Nodes |-> IF n \in Overdue THEN row[n] ELSE Registered]
          \in [Nodes -> Columns]
    BY <1>0, RegisteredColumns
  <2>3. detector' \in CycleType
    BY <1>1, <2>1, <2>2 DEF DetectorRead, CycleType
  <2> QED BY <1>1, <2>3 DEF TypeOK, DetectorRead, CycleType
<1>2. CASE DetectorCommit
  <2> DEFINE written == detector.batch \cap table
             due == {n \in detector.batch : Due(detector.read[n])}
  <2>1. due \subseteq Nodes /\ detector.read \in [Nodes -> Columns]
    BY <1>0 DEF CycleType
  <2>2. row' \in [Nodes -> Columns]
    BY <1>0, <1>2, <2>1, MissedColumns DEF DetectorCommit
  <2>3. last' \in [Nodes -> Kinds \cup {"repeated"}]
    BY <1>0, <1>2, AfterType DEF DetectorCommit
  <2>4. [Asleep EXCEPT !.at = "committed", !.batch = due] \in CycleType
    BY <2>1, AsleepType DEF CycleType
  <2>5. detector' \in CycleType
    BY <1>2, <2>4, AsleepType DEF DetectorCommit
  <2>6. UNCHANGED <<table, silent, hb, tasks>>
    BY <1>2 DEF DetectorCommit
  <2> QED BY <2>2, <2>3, <2>5, <2>6 DEF TypeOK, CycleType
<1>3. CASE DetectorFail
  BY <1>3, AsleepType DEF TypeOK, DetectorFail, CycleType
<1>4. CASE DetectorDispatch
  <2>1. tasks' \subseteq Nodes \X Kinds
    BY <1>0, <1>4 DEF DetectorDispatch, TypeOK, CycleType
  <2> QED BY <1>4, <2>1, AsleepType DEF TypeOK, DetectorDispatch, CycleType
<1> QED BY <1>1, <1>2, <1>3, <1>4 DEF DetectorStep

LEMMA OtherTypes ==
  ASSUME TypeOK,
         \/ \E n \in Nodes, kind \in Kinds : Notify(n, kind)
         \/ \E n \in Nodes : FallSilent(n) \/ RemoveNode(n)
         \/ HubCrash
  PROVE  TypeOK'
<1>1. ASSUME NEW n \in Nodes, NEW kind \in Kinds, Notify(n, kind)
      PROVE  TypeOK'
  BY <1>1 DEF TypeOK, Notify
<1>2. ASSUME NEW n \in Nodes, FallSilent(n)
      PROVE  TypeOK'
  BY <1>2 DEF TypeOK, FallSilent
<1>3. ASSUME NEW n \in Nodes, RemoveNode(n)
      PROVE  TypeOK'
  <2>1. row' \in [Nodes -> Columns]
    BY <1>3, RegisteredColumns DEF TypeOK, RemoveNode
  <2>2. last' \in [Nodes -> Kinds \cup {"repeated"}]
    BY <1>3 DEF TypeOK, RemoveNode, Kinds
  <2> QED BY <1>3, <2>1, <2>2 DEF TypeOK, RemoveNode
<1>4. CASE HubCrash
  <2>1. hb' \in [Handlers -> HandlerType] /\ detector' \in CycleType
    BY <1>4, ClosedType, AsleepType DEF HubCrash
  <2> QED BY <1>4, <2>1 DEF TypeOK, HubCrash, HandlerType, CycleType
<1> QED BY <1>1, <1>2, <1>3, <1>4

LEMMA TypeInit == Init => TypeOK
BY RegisteredColumns, AsleepType, ClosedType DEF Init, TypeOK, Kinds, HandlerType, CycleType

LEMMA TypeStep == TypeOK /\ [Next]_vars => TypeOK'
<1> SUFFICES ASSUME TypeOK, [Next]_vars PROVE TypeOK'
  OBVIOUS
<1>1. CASE Next
  BY <1>1, HandlerTypes, DetectorTypes, OtherTypes DEF Next
<1>2. CASE UNCHANGED vars
  BY <1>2 DEF vars, TypeOK
<1> QED BY <1>1, <1>2

\* The rows, the handlers' and the detector's copies of them, and the alerts are
\* always of the kinds the schema and the code give them (node.py:31-37,
\* agents.py:176-190, offline_detector.py:26-57).
THEOREM TypeCorrect == Spec => []TypeOK
BY TypeInit, TypeStep, PTL DEF Spec

-----------------------------------------------------------------------------
(***************************************************************************)
(* Notifications.  What a handler or the detector has read of a row stays  *)
(* true where it matters: the flag that a handler has seen up stays up     *)
(* until its commit, for the detector leaves the row alone and no second   *)
(* heartbeat of the node is open; the flag that the detector has seen down *)
(* stays down until its commit, for heartbeats only clear it.              *)
(***************************************************************************)
OneOpen ==
  \A g, h \in Handlers : hb[g].node = hb[h].node /\ hb[g].node # NoNode => g = h

SeenUp ==
  \A h \in Handlers :
    hb[h].node \in table /\ hb[h].read.offline_alert_sent =>
      /\ row[hb[h].node].offline_alert_sent
      /\ row[hb[h].node].offline_cycles = hb[h].read.offline_cycles

SeenDown ==
  detector.at = "read" =>
    \A n \in detector.batch \cap table :
      /\ ~ row[n].offline_alert_sent
      /\ detector.read[n].offline_cycles <= 2

AlertInv == AlertsPaired /\ CountsToThree /\ OneOpen /\ SeenUp /\ SeenDown

LEMMA AlertInit == Init => AlertInv
<1> SUFFICES ASSUME Init PROVE AlertInv
  OBVIOUS
<1>1. \A n \in Nodes : /\ row[n].offline_cycles = 0
                       /\ row[n].offline_alert_sent = FALSE
                       /\ last[n] = "recovery"
  BY RegisteredColumns DEF Init
<1>2. \A h \in Handlers : hb[h].node = NoNode
  BY ClosedType DEF Init
<1>3. detector.at = "idle" /\ table = Nodes
  BY AsleepType DEF Init
<1>4. NoNode \notin Nodes
  BY HealthAssumption DEF HealthAssumption
<1>5. AlertsPaired
  BY <1>1, <1>3 DEF AlertsPaired
<1>6. CountsToThree
  <2>0. \A n \in Nodes : row[n].offline_cycles = 0
    BY <1>1
  <2>1. ASSUME NEW n \in Nodes
        PROVE  row[n].offline_cycles <= 3 /\ row[n].offline_cycles # 3
    <3> DEFINE cycles == row[n].offline_cycles
    <3>1. cycles = 0
      BY <2>0
    <3> HIDE DEF cycles
    <3>2. cycles <= 3 /\ cycles # 3
      BY <3>1
    <3> QED BY <3>2 DEF cycles
  <2> QED BY <1>3, <2>1 DEF CountsToThree
<1> QED BY <1>2, <1>3, <1>4, <1>5, <1>6 DEF AlertInv, OneOpen, SeenUp, SeenDown

\* A row that a heartbeat has just been written to.
LEMMA AlertCommit ==
  ASSUME TypeOK, AlertInv, NEW h \in Handlers, HeartbeatCommit(h)
  PROVE  AlertInv'
<1> DEFINE n == hb[h].node
           read == hb[h].read
           new == Heard(read, row[n])
<1>0. NoNode \notin table /\ table \subseteq Nodes
  BY HealthAssumption DEF HealthAssumption, TypeOK
<1>1. n \in table /\ n \in Nodes /\ read \in Columns /\ row[n] \in Columns
  BY <1>0 DEF HeartbeatCommit, TypeOK
<1>2. /\ table' = table /\ detector' = detector
      /\ row' = [row EXCEPT ![n] = new] /\ hb' = [hb EXCEPT ![h] = Closed]
      /\ last' = [last EXCEPT ![n] = IF ~ read.offline_alert_sent THEN @
                                     ELSE After(@, "recovery")]
  <2>1. (IF read.offline_alert_sent THEN {<<n, "recovery">>} ELSE {}) = {}
          <=> ~ read.offline_alert_sent
    OBVIOUS
  <2> QED BY <2>1 DEF HeartbeatCommit
<1>3. /\ row'[n] = new /\ \A m \in Nodes \ {n} : row'[m] = row[m] /\ last'[m] = last[m]
      /\ ~ read.offline_alert_sent => last'[n] = last[n]
      /\ read.offline_alert_sent => last'[n] = After(last[n], "recovery")
      /\ hb'[h].node = NoNode /\ \A g \in Handlers \ {h} : hb'[g] = hb[g]
  BY <1>1, <1>2, ClosedType DEF TypeOK
<1>4. /\ new.offline_cycles \in {0, row[n].offline_cycles}
      /\ read.offline_cycles = row[n].offline_cycles => new.offline_cycles = 0
      /\ read.offline_alert_sent => ~ new.offline_alert_sent
      /\ ~ read.offline_alert_sent =>
           new.offline_alert_sent = row[n].offline_alert_sent
  BY <1>1, HeardColumns
<1>5. read.offline_alert_sent =>
        /\ row[n].offline_alert_sent /\ row[n].offline_cycles = read.offline_cycles
        /\ last[n] = "offline"
  BY <1>1 DEF AlertInv, SeenUp, AlertsPaired
<1> HIDE DEF new
<1>6. AlertsPaired'
  <2>1. last'[n] = IF row'[n].offline_alert_sent THEN "offline" ELSE "recovery"
    <3>1. CASE read.offline_alert_sent
      BY <1>3, <1>4, <1>5, <3>1 DEF After
    <3>2. CASE ~ read.offline_alert_sent
      BY <1>1, <1>3, <1>4, <3>2 DEF AlertInv, AlertsPaired
    <3> QED BY <3>1, <3>2
  <2> QED BY <1>0, <1>2, <1>3, <2>1 DEF AlertInv, AlertsPaired
<1>7. CountsToThree'
  <2>1. row'[n].offline_cycles <= 3 /\ (row'[n].offline_cycles = 3
                                        => row'[n].offline_alert_sent)
    <3>1. row[n].offline_cycles <= 3 /\ (row[n].offline_cycles = 3
                                          => row[n].offline_alert_sent)
      BY <1>1 DEF AlertInv, CountsToThree
    <3>2. CASE read.offline_alert_sent
      BY <1>3, <1>4, <1>5, <3>2
    <3>3. CASE ~ read.offline_alert_sent
      BY <1>3, <1>4, <3>1, <3>3
    <3> QED BY <3>2, <3>3
  <2> QED BY <1>0, <1>2, <1>3, <2>1 DEF AlertInv, CountsToThree
<1>8. OneOpen'
  BY <1>3 DEF AlertInv, OneOpen
<1>9. SeenUp'
  <2> SUFFICES ASSUME NEW g \in Handlers, hb'[g].node \in table,
                      hb'[g].read.offline_alert_sent
               PROVE  /\ row'[hb'[g].node].offline_alert_sent
                      /\ row'[hb'[g].node].offline_cycles = hb'[g].read.offline_cycles
    BY <1>2 DEF SeenUp
  <2>1. g # h /\ hb'[g] = hb[g]
    BY <1>0, <1>3
  <2>2. hb[g].node # n
    BY <1>0, <1>1, <2>1 DEF AlertInv, OneOpen
  <2>3. row'[hb[g].node] = row[hb[g].node]
    BY <1>0, <1>3, <2>1, <2>2
  <2> QED BY <2>1, <2>3 DEF AlertInv, SeenUp
<1>10. SeenDown'
  <2> SUFFICES ASSUME detector.at = "read", NEW m \in detector.batch \cap table
               PROVE  ~ row'[m].offline_alert_sent
                      /\ detector.read[m].offline_cycles <= 2
    BY <1>2 DEF SeenDown
  <2>1. ~ row[m].offline_alert_sent /\ detector.read[m].offline_cycles <= 2
    BY DEF AlertInv, SeenDown
  <2>2. CASE m = n
    BY <1>3, <1>4, <1>5, <2>1, <2>2
  <2>3. CASE m # n
    BY <1>0, <1>3, <2>1, <2>3
  <2> QED BY <2>2, <2>3
<1> QED BY <1>6, <1>7, <1>8, <1>9, <1>10 DEF AlertInv

LEMMA AlertRead ==
  ASSUME ~ Overlap, TypeOK, AlertInv, NEW h \in Handlers, NEW n \in Nodes,
         HeartbeatRead(h, n)
  PROVE  AlertInv'
<1>1. /\ hb'[h].node = n /\ hb'[h].read = row[n]
      /\ \A g \in Handlers \ {h} : hb'[g] = hb[g]
  BY DEF TypeOK, HeartbeatRead
<1>2. /\ \A g \in Handlers : hb[g].node # n
      /\ UNCHANGED <<table, row, detector, last>>
  BY DEF HeartbeatRead
<1>3. OneOpen'
  BY <1>1, <1>2 DEF AlertInv, OneOpen
<1>4. SeenUp'
  <2> SUFFICES ASSUME NEW g \in Handlers, hb'[g].node \in table,
                      hb'[g].read.offline_alert_sent
               PROVE  /\ row[hb'[g].node].offline_alert_sent
                      /\ row[hb'[g].node].offline_cycles = hb'[g].read.offline_cycles
    BY <1>2 DEF SeenUp
  <2>1. CASE g = h
    BY <1>1, <2>1
  <2>2. CASE g # h
    BY <1>1, <2>2 DEF AlertInv, SeenUp
  <2> QED BY <2>1, <2>2
<1>5. AlertsPaired' /\ CountsToThree' /\ SeenDown'
  BY <1>2 DEF AlertInv, AlertsPaired, CountsToThree, SeenDown
<1> QED BY <1>3, <1>4, <1>5 DEF AlertInv

\* A step that leaves the rows alone, except of a node it removes, and closes handlers or
\* ends the detector's cycle.
LEMMA AlertQuiet ==
  ASSUME TypeOK, AlertInv, table' \subseteq table,
         \A n \in table' : row'[n] = row[n] /\ last'[n] = last[n],
         \A h \in Handlers : hb'[h] = hb[h] \/ hb'[h].node = NoNode,
         detector' = detector \/ detector'.at # "read"
  PROVE  AlertInv'
<1>0. NoNode \notin table /\ table \subseteq Nodes
  BY HealthAssumption DEF HealthAssumption, TypeOK
<1>1. AlertsPaired'
  BY DEF AlertInv, AlertsPaired
<1>2. CountsToThree'
  BY DEF AlertInv, CountsToThree
<1>3. OneOpen'
  <2> SUFFICES ASSUME NEW g \in Handlers, NEW h \in Handlers,
                      hb'[g].node = hb'[h].node, hb'[g].node # NoNode
               PROVE  g = h
    BY DEF OneOpen
  <2>1. hb'[g] = hb[g] /\ hb'[h] = hb[h]
    OBVIOUS
  <2> QED BY <2>1 DEF AlertInv, OneOpen
<1>4. SeenUp'
  <2> SUFFICES ASSUME NEW g \in Handlers, hb'[g].node \in table',
                      hb'[g].read.offline_alert_sent
               PROVE  /\ row'[hb'[g].node].offline_alert_sent
                      /\ row'[hb'[g].node].offline_cycles = hb'[g].read.offline_cycles
    BY DEF SeenUp
  <2>1. hb'[g] = hb[g] /\ hb[g].node \in table
    BY <1>0
  <2>2. row'[hb[g].node] = row[hb[g].node]
    BY <2>1
  <2> QED BY <2>1, <2>2 DEF AlertInv, SeenUp
<1>5. SeenDown'
  <2> SUFFICES ASSUME detector'.at = "read", NEW n \in detector'.batch \cap table'
               PROVE  ~ row'[n].offline_alert_sent /\ detector'.read[n].offline_cycles <= 2
    BY DEF SeenDown
  <2>1. detector' = detector /\ n \in detector.batch \cap table
    OBVIOUS
  <2>2. row'[n] = row[n]
    OBVIOUS
  <2> QED BY <2>1, <2>2 DEF AlertInv, SeenDown
<1> QED BY <1>1, <1>2, <1>3, <1>4, <1>5 DEF AlertInv

LEMMA AlertDetect ==
  ASSUME TypeOK, AlertInv, DetectorRead
  PROVE  AlertInv'
<1>1. /\ detector' = [at |-> "read", batch |-> Overdue,
                      read |-> [n \in Nodes |-> IF n \in Overdue THEN row[n]
                                                                 ELSE Registered]]
      /\ UNCHANGED <<table, row, hb, last>>
  BY DEF DetectorRead
<1>2. SeenDown'
  <2> SUFFICES ASSUME NEW n \in Overdue
               PROVE  ~ row[n].offline_alert_sent /\ row[n].offline_cycles <= 2
    BY <1>1 DEF SeenDown, Overdue, TypeOK
  <2>1. n \in table /\ ~ row[n].offline_alert_sent
    BY DEF Overdue
  <2>2. row[n].offline_cycles <= 3 /\ row[n].offline_cycles # 3
    BY <2>1 DEF AlertInv, CountsToThree
  <2>3. row[n].offline_cycles \in Nat
    BY <2>1 DEF TypeOK, Columns
  <2> QED BY <2>1, <2>2, <2>3
<1>3. AlertsPaired' /\ CountsToThree' /\ OneOpen' /\ SeenUp'
  BY <1>1 DEF AlertInv, AlertsPaired, CountsToThree, OneOpen, SeenUp
<1> QED BY <1>2, <1>3 DEF AlertInv

LEMMA AlertDetected ==
  ASSUME TypeOK, AlertInv, DetectorCommit
  PROVE  AlertInv'
<1> DEFINE written == detector.batch \cap table
           due == {n \in detector.batch : Due(detector.read[n])}
           new(n) == Missed(detector.read[n], row[n])
<1>0. /\ table \subseteq Nodes /\ row \in [Nodes -> Columns]
      /\ detector.read \in [Nodes -> Columns]
  BY DEF TypeOK
<1>1. /\ table' = table /\ hb' = hb /\ detector.at = "read"
      /\ row' = [n \in Nodes |-> IF n \in written THEN new(n) ELSE row[n]]
      /\ last' = [n \in Nodes |-> IF n \in due \cap written
                                  THEN After(last[n], "offline") ELSE last[n]]
      /\ detector' = IF due = {} THEN Asleep
                     ELSE [Asleep EXCEPT !.at = "committed", !.batch = due]
  BY DEF DetectorCommit
<1>2. detector'.at # "read"
  BY <1>1, AsleepType DEF Asleep
<1>3. ASSUME NEW n \in written
      PROVE  /\ ~ row[n].offline_alert_sent /\ last[n] = "recovery"
             /\ new(n).offline_cycles <= 3
             /\ new(n).offline_cycles = 3 => new(n).offline_alert_sent
             /\ new(n).offline_alert_sent <=> n \in due
  <2>1. ~ row[n].offline_alert_sent /\ detector.read[n].offline_cycles <= 2
    BY <1>1 DEF AlertInv, SeenDown
  <2>2. last[n] = "recovery"
    BY <2>1 DEF AlertInv, AlertsPaired
  <2>3. detector.read[n] \in Columns /\ row[n] \in Columns
    BY <1>0
  <2> HIDE DEF new
  <2>4. /\ new(n).offline_cycles <= 3
        /\ new(n).offline_cycles = 3 => new(n).offline_alert_sent
        /\ new(n).offline_alert_sent <=> Due(detector.read[n])
    BY <2>1, <2>3, MissedCount DEF new
  <2> QED BY <2>1, <2>2, <2>4
<1>4. \A n \in table : n \notin written => row'[n] = row[n] /\ last'[n] = last[n]
  BY <1>0, <1>1
<1>5. \A n \in written : /\ row'[n] = new(n)
                         /\ n \in due => last'[n] = After(last[n], "offline")
                         /\ n \notin due => last'[n] = last[n]
  BY <1>0, <1>1
<1> HIDE DEF new, due
<1>6. AlertsPaired'
  <2> SUFFICES ASSUME NEW n \in table
               PROVE  last'[n] = IF row'[n].offline_alert_sent THEN "offline"
                                                              ELSE "recovery"
    BY <1>1 DEF AlertsPaired
  <2>1. CASE n \in written
    BY <1>3, <1>5, <2>1 DEF After
  <2>2. CASE n \notin written
    BY <1>4, <2>2 DEF AlertInv, AlertsPaired
  <2> QED BY <2>1, <2>2
<1>7. CountsToThree'
  <2> SUFFICES ASSUME NEW n \in table
               PROVE  /\ row'[n].offline_cycles <= 3
                      /\ row'[n].offline_cycles = 3 => row'[n].offline_alert_sent
    BY <1>1 DEF CountsToThree
  <2>1. CASE n \in written
    BY <1>3, <1>5, <2>1
  <2>2. CASE n \notin written
    BY <1>4, <2>2 DEF AlertInv, CountsToThree
  <2> QED BY <2>1, <2>2
<1>8. OneOpen'
  BY <1>1 DEF AlertInv, OneOpen
<1>9. SeenUp'
  <2> SUFFICES ASSUME NEW h \in Handlers, hb[h].node \in table,
                      hb[h].read.offline_alert_sent
               PROVE  /\ row'[hb[h].node].offline_alert_sent
                      /\ row'[hb[h].node].offline_cycles = hb[h].read.offline_cycles
    BY <1>1 DEF SeenUp
  <2>1. /\ row[hb[h].node].offline_alert_sent
        /\ row[hb[h].node].offline_cycles = hb[h].read.offline_cycles
    BY DEF AlertInv, SeenUp
  <2>2. hb[h].node \notin written
    BY <1>3, <2>1
  <2> QED BY <1>4, <2>1, <2>2
<1>10. SeenDown'
  BY <1>2 DEF SeenDown
<1> QED BY <1>6, <1>7, <1>8, <1>9, <1>10 DEF AlertInv

LEMMA AlertStep ==
  ASSUME ~ Overlap, TypeOK, AlertInv, [Next]_vars
  PROVE  AlertInv'
<1>1. ASSUME NEW h \in Handlers, HeartbeatFail(h)
      PROVE  AlertInv'
  <2>1. \A g \in Handlers : hb'[g] = hb[g] \/ hb'[g].node = NoNode
    BY <1>1, ClosedType DEF HeartbeatFail, TypeOK
  <2> QED BY <1>1, <2>1, AlertQuiet DEF HeartbeatFail
<1>2. CASE DetectorFail \/ DetectorDispatch
  <2>1. detector'.at # "read"
    BY <1>2, AsleepType DEF DetectorFail, DetectorDispatch
  <2> QED BY <1>2, <2>1, AlertQuiet DEF DetectorFail, DetectorDispatch
<1>3. ASSUME UNCHANGED <<table, row, hb, detector, last>>
      PROVE  AlertInv'
  BY <1>3, AlertQuiet
<1>4. ASSUME NEW n \in Nodes, RemoveNode(n)
      PROVE  AlertInv'
  <2>1. \A m \in table' : row'[m] = row[m] /\ last'[m] = last[m]
    BY <1>4 DEF RemoveNode, TypeOK
  <2> QED BY <1>4, <2>1, AlertQuiet DEF RemoveNode
<1>5. CASE HubCrash
  <2>1. detector'.at # "read" /\ \A h \in Handlers : hb'[h].node = NoNode
    BY <1>5, AsleepType, ClosedType DEF HubCrash
  <2> QED BY <1>5, <2>1, AlertQuiet DEF HubCrash
<1>6. CASE UNCHANGED vars
  BY <1>3, <1>6 DEF vars
<1>7. CASE Next
  BY <1>1, <1>2, <1>3, <1>4, <1>5, <1>7, AlertCommit, AlertRead, AlertDetect, AlertDetected
     DEF Next, DetectorStep, Notify, FallSilent
<1> QED BY <1>6, <1>7

LEMMA AlertAlways == ~ Overlap => (Spec => []AlertInv)
<1> SUFFICES ASSUME ~ Overlap PROVE Spec => []AlertInv
  OBVIOUS
<1>1. Init => TypeOK /\ AlertInv
  BY TypeInit, AlertInit
<1>2. TypeOK /\ AlertInv /\ [Next]_vars => (TypeOK /\ AlertInv)'
  BY TypeStep, AlertStep
<1> QED BY <1>1, <1>2, PTL DEF Spec

\* Unless two heartbeats of one node are open together, offline and recovery
\* notifications alternate, and the flag says which was decided on last, however the
\* handlers and the detector interleave (agents.py:180-190, offline_detector.py:30-54).
THEOREM SerialAlertsPaired == ~ Overlap => (Spec => []AlertsPaired)
<1>1. AlertInv => AlertsPaired
  BY DEF AlertInv
<1> QED BY <1>1, AlertAlways, PTL

\* Under the same condition the count of missed cycles stops at three, the alert flagged
\* (offline_detector.py:46-50, agents.py:183-190).
THEOREM SerialCountsToThree == ~ Overlap => (Spec => []CountsToThree)
<1>1. AlertInv => CountsToThree
  BY DEF AlertInv
<1> QED BY <1>1, AlertAlways, PTL

-----------------------------------------------------------------------------
(***************************************************************************)
(* What is left when heartbeats of one node do overlap: a recovery can be  *)
(* announced twice, an outage cannot.  Only the detector raises the flag,  *)
(* so that one it has seen down is down when it commits, whatever the      *)
(* heartbeats have done meanwhile.                                         *)
(***************************************************************************)
OutagesOnce == \A n \in table : row[n].offline_alert_sent <=> last[n] = "offline"

SeenUnflagged ==
  detector.at = "read" =>
    \A n \in detector.batch \cap table : ~ row[n].offline_alert_sent

OutageInv == OutagesOnce /\ SeenUnflagged

LEMMA OutageInit == Init => OutageInv
<1> SUFFICES ASSUME Init PROVE OutageInv
  OBVIOUS
<1>1. \A n \in Nodes : row[n].offline_alert_sent = FALSE /\ last[n] = "recovery"
  BY RegisteredColumns DEF Init
<1>2. detector.at = "idle" /\ table = Nodes
  BY AsleepType DEF Init
<1> QED BY <1>1, <1>2 DEF OutageInv, OutagesOnce, SeenUnflagged

LEMMA OutageCommit ==
  ASSUME TypeOK, OutageInv, NEW h \in Handlers, HeartbeatCommit(h)
  PROVE  OutageInv'
<1>0. table \subseteq Nodes /\ hb[h].node \in table
  BY DEF HeartbeatCommit, TypeOK
<1> PICK n \in Nodes : n = hb[h].node
  BY <1>0
<1> DEFINE read == hb[h].read
           new == Heard(read, row[n])
<1>1. n \in table /\ read \in Columns /\ row[n] \in Columns
  BY <1>0 DEF TypeOK
<1>2. /\ table' = table /\ detector' = detector /\ row' = [row EXCEPT ![n] = new]
      /\ last' = [last EXCEPT ![n] = IF ~ read.offline_alert_sent THEN @
                                     ELSE After(@, "recovery")]
  <2>1. (IF read.offline_alert_sent THEN {<<n, "recovery">>} ELSE {}) = {}
          <=> ~ read.offline_alert_sent
    OBVIOUS
  <2> QED BY <2>1 DEF HeartbeatCommit
<1>3. /\ row'[n] = new
      /\ \A m \in Nodes \ {n} : row'[m] = row[m] /\ last'[m] = last[m]
      /\ ~ read.offline_alert_sent => last'[n] = last[n]
      /\ read.offline_alert_sent => last'[n] = After(last[n], "recovery")
  BY <1>1, <1>2 DEF TypeOK
<1>4. /\ read.offline_alert_sent => ~ new.offline_alert_sent
      /\ ~ read.offline_alert_sent =>
           new.offline_alert_sent = row[n].offline_alert_sent
  BY <1>1, HeardColumns
<1> HIDE DEF new
<1>5. CASE read.offline_alert_sent
  <2>1. ~ row'[n].offline_alert_sent /\ last'[n] # "offline"
    BY <1>3, <1>4, <1>5 DEF After
  <2> QED BY <1>0, <1>2, <1>3, <2>1 DEF OutageInv, OutagesOnce, SeenUnflagged
<1>6. CASE ~ read.offline_alert_sent
  <2>1. row'[n].offline_alert_sent = row[n].offline_alert_sent /\ last'[n] = last[n]
    BY <1>3, <1>4, <1>6
  <2> QED BY <1>0, <1>2, <1>3, <2>1 DEF OutageInv, OutagesOnce, SeenUnflagged
<1> QED BY <1>5, <1>6

LEMMA OutageDetected ==
  ASSUME TypeOK, OutageInv, DetectorCommit
  PROVE  OutageInv'
<1> DEFINE written == detector.batch \cap table
           due == {n \in detector.batch : Due(detector.read[n])}
           new(n) == Missed(detector.read[n], row[n])
<1>0. table \subseteq Nodes /\ row \in [Nodes -> Columns]
  BY DEF TypeOK
<1>1. /\ table' = table /\ detector.at = "read"
      /\ row' = [n \in Nodes |-> IF n \in written THEN new(n) ELSE row[n]]
      /\ last' = [n \in Nodes |-> IF n \in due \cap written
                                  THEN After(last[n], "offline") ELSE last[n]]
      /\ detector' = IF due = {} THEN Asleep
                     ELSE [Asleep EXCEPT !.at = "committed", !.batch = due]
  BY DEF DetectorCommit
<1>2. detector'.at # "read"
  BY <1>1, AsleepType DEF Asleep
<1>3. ASSUME NEW n \in written
      PROVE  /\ ~ row[n].offline_alert_sent /\ last[n] # "offline"
             /\ new(n).offline_alert_sent <=> n \in due
  <2>1. ~ row[n].offline_alert_sent /\ last[n] # "offline"
    BY <1>1 DEF OutageInv, OutagesOnce, SeenUnflagged
  <2>2. new(n).offline_alert_sent = (Due(detector.read[n]) \/ row[n].offline_alert_sent)
    BY DEF Missed
  <2> HIDE DEF new
  <2> QED BY <2>1, <2>2
<1>4. \A n \in table : n \notin written => row'[n] = row[n] /\ last'[n] = last[n]
  BY <1>0, <1>1
<1>5. \A n \in written : /\ row'[n] = new(n)
                         /\ n \in due => last'[n] = After(last[n], "offline")
                         /\ n \notin due => last'[n] = last[n]
  BY <1>0, <1>1
<1> HIDE DEF new, due
<1>6. OutagesOnce'
  <2> SUFFICES ASSUME NEW n \in table
               PROVE  row'[n].offline_alert_sent <=> last'[n] = "offline"
    BY <1>1 DEF OutagesOnce
  <2>1. CASE n \in written
    BY <1>3, <1>5, <2>1 DEF After
  <2>2. CASE n \notin written
    BY <1>4, <2>2 DEF OutageInv, OutagesOnce
  <2> QED BY <2>1, <2>2
<1> QED BY <1>2, <1>6 DEF OutageInv, SeenUnflagged

LEMMA OutageStep ==
  ASSUME TypeOK, OutageInv, [Next]_vars
  PROVE  OutageInv'
<1>0. table \subseteq Nodes
  BY DEF TypeOK
<1>1. ASSUME table' \subseteq table,
             \A n \in table' : row'[n] = row[n] /\ last'[n] = last[n],
             detector' = detector \/ detector'.at # "read"
      PROVE  OutageInv'
  BY <1>1 DEF OutageInv, OutagesOnce, SeenUnflagged
<1>2. CASE DetectorRead
  <2>1. /\ detector'.batch = Overdue /\ UNCHANGED <<table, row, last>>
    BY <1>2 DEF DetectorRead
  <2> QED BY <2>1 DEF OutageInv, OutagesOnce, SeenUnflagged, Overdue
<1>3. CASE DetectorFail \/ DetectorDispatch
  <2>1. detector'.at # "read"
    BY <1>3, AsleepType DEF DetectorFail, DetectorDispatch
  <2> QED BY <1>1, <1>3, <2>1 DEF DetectorFail, DetectorDispatch
<1>4. ASSUME UNCHANGED <<table, row, detector, last>>
      PROVE  OutageInv'
  BY <1>1, <1>4
<1>5. ASSUME NEW n \in Nodes, RemoveNode(n)
      PROVE  OutageInv'
  BY <1>0, <1>1, <1>5 DEF RemoveNode, TypeOK
<1>6. CASE HubCrash
  <2>1. detector'.at # "read"
    BY <1>6, AsleepType DEF HubCrash
  <2> QED BY <1>1, <1>6, <2>1 DEF HubCrash
<1>7. CASE Next
  BY <1>2, <1>3, <1>4, <1>5, <1>6, <1>7, OutageCommit, OutageDetected
     DEF Next, DetectorStep, HeartbeatRead, HeartbeatFail, Notify, FallSilent
<1> QED BY <1>4, <1>7 DEF vars

\* An outage is not announced again before its end has been, and the flag says whether one
\* has been announced last, however many heartbeats of a node overlap
\* (offline_detector.py:30-54, agents.py:180-190).
THEOREM OutagesReportedOnce == Spec => []OutagesOnce
<1>1. Init => TypeOK /\ OutageInv
  BY TypeInit, OutageInit
<1>2. TypeOK /\ OutageInv /\ [Next]_vars => (TypeOK /\ OutageInv)'
  BY TypeStep, OutageStep
<1>3. OutageInv => OutagesOnce
  BY DEF OutageInv
<1> QED BY <1>1, <1>2, <1>3, PTL DEF Spec

-----------------------------------------------------------------------------
(***************************************************************************)
(* The notifications are those of NodeAlerts: every step is one of its     *)
(* steps, or a stutter.  SeenUp makes a recovery that of a reported node,  *)
(* SeenDown an offline alert that of a node that is not.                   *)
(***************************************************************************)
Flagged == {n \in table : row[n].offline_alert_sent}
Outbox == tasks \cup Collected

LEMMA AlertsInit == Init => Alerts!Init
<1> SUFFICES ASSUME Init PROVE Alerts!Init
  OBVIOUS
<1>1. \A n \in Nodes : row[n] = Registered
  BY DEF Init
<1>2. Flagged = {}
  BY <1>1, RegisteredColumns DEF Init, Flagged
<1>3. Outbox = {}
  BY AsleepType DEF Init, Outbox, Collected
<1> QED BY <1>2, <1>3 DEF Init, Alerts!Init, Flagged, Outbox

\* What none of the notifications is concerned with.
LEMMA AlertsUnchanged ==
  ASSUME UNCHANGED <<table, Flagged, Outbox>>
  PROVE  UNCHANGED Alerts!vars
BY DEF Alerts!vars, Flagged, Outbox

\* A heartbeat that has read the flag up lowers it and adds a recovery; any other leaves
\* both alone.
LEMMA AlertsHeard ==
  ASSUME TypeOK, AlertInv, NEW h \in Handlers, HeartbeatCommit(h)
  PROVE  [Alerts!Next]_Alerts!vars
<1>0. table \subseteq Nodes /\ hb[h].node \in table
  BY DEF HeartbeatCommit, TypeOK
<1> PICK n \in Nodes : n = hb[h].node
  BY <1>0
<1> DEFINE read == hb[h].read
           new == Heard(read, row[n])
<1>1. n \in table /\ read \in Columns /\ row[n] \in Columns
  BY <1>0 DEF TypeOK
<1>2. /\ table' = table /\ detector' = detector
      /\ row' = [row EXCEPT ![n] = new]
      /\ tasks' = tasks \cup IF read.offline_alert_sent THEN {<<n, "recovery">>} ELSE {}
  BY DEF HeartbeatCommit
<1>3. row'[n] = new /\ \A m \in Nodes \ {n} : row'[m] = row[m]
  BY <1>1, <1>2 DEF TypeOK
<1>4. /\ read.offline_alert_sent => ~ new.offline_alert_sent
      /\ ~ read.offline_alert_sent => new.offline_alert_sent = row[n].offline_alert_sent
  BY <1>1, HeardColumns
<1>5. Collected' = Collected
  BY <1>2 DEF Collected
<1> HIDE DEF new
<1>6. CASE read.offline_alert_sent
  <2>1. n \in Flagged
    BY <1>1, <1>6 DEF AlertInv, SeenUp, Flagged
  <2>2. Flagged' = Flagged \ {n}
    BY <1>0, <1>2, <1>3, <1>4, <1>6 DEF Flagged
  <2>3. Outbox' = Outbox \cup {<<n, "recovery">>}
    BY <1>2, <1>5, <1>6 DEF Outbox
  <2>4. Alerts!Recover(n)
    BY <1>2, <2>1, <2>2, <2>3 DEF Alerts!Recover, Flagged, Outbox
  <2> QED BY <1>1, <2>4 DEF Alerts!Next
<1>7. CASE ~ read.offline_alert_sent
  <2>1. Flagged' = Flagged
    BY <1>0, <1>2, <1>3, <1>4, <1>7 DEF Flagged
  <2>2. Outbox' = Outbox
    BY <1>2, <1>5, <1>7 DEF Outbox
  <2> QED BY <1>2, <2>1, <2>2, AlertsUnchanged
<1> QED BY <1>6, <1>7

\* A cycle raises the flags of the nodes that are due, which are down, and collects their
\* alerts, with those of nodes removed since the cycle has read them.
LEMMA AlertsDetected ==
  ASSUME TypeOK, AlertInv, DetectorCommit
  PROVE  Alerts!Report
<1> DEFINE written == detector.batch \cap table
           due == {n \in detector.batch : Due(detector.read[n])}
           down == due \cap table
           removed == due \ table
           new(n) == Missed(detector.read[n], row[n])
<1>0. /\ table \subseteq Nodes /\ row \in [Nodes -> Columns]
      /\ detector.batch \subseteq Nodes /\ detector.read \in [Nodes -> Columns]
  BY DEF TypeOK
<1>1. /\ table' = table /\ tasks' = tasks /\ detector.at = "read"
      /\ row' = [n \in Nodes |-> IF n \in written THEN new(n) ELSE row[n]]
      /\ detector' = IF due = {} THEN Asleep
                     ELSE [Asleep EXCEPT !.at = "committed", !.batch = due]
  BY DEF DetectorCommit
<1>2. ASSUME NEW n \in written
      PROVE  ~ row[n].offline_alert_sent /\ (new(n).offline_alert_sent <=> n \in due)
  <2>1. ~ row[n].offline_alert_sent /\ detector.read[n].offline_cycles <= 2
    BY <1>1 DEF AlertInv, SeenDown
  <2>2. detector.read[n] \in Columns /\ row[n] \in Columns
    BY <1>0
  <2> HIDE DEF new
  <2>3. new(n).offline_alert_sent <=> Due(detector.read[n])
    BY <2>1, <2>2, MissedCount DEF new
  <2> QED BY <2>1, <2>3
<1>3. /\ \A n \in table : n \notin written => row'[n] = row[n]
      /\ \A n \in written : row'[n] = new(n)
  BY <1>0, <1>1
<1>4. Collected = {} /\ Collected' = due \X {"offline"}
  <2>1. CASE due = {}
    BY <1>1, <2>1, AsleepType DEF Collected
  <2>2. CASE due # {}
    <3>1. detector'.at = "committed" /\ detector'.batch = due
      BY <1>1, <2>2 DEF Asleep
    <3> QED BY <1>1, <3>1 DEF Collected
  <2> QED BY <2>1, <2>2
<1> HIDE DEF new
<1>5. Flagged' = Flagged \cup down
  <2>1. ASSUME NEW n \in table
        PROVE  row'[n].offline_alert_sent <=> (row[n].offline_alert_sent \/ n \in due)
    <3>1. CASE n \in written
      BY <1>2, <1>3, <3>1
    <3>2. CASE n \notin written
      BY <1>3, <3>2
    <3> QED BY <3>1, <3>2
  <2> HIDE DEF due
  <2> QED BY <1>1, <2>1 DEF Flagged
<1>6. down \in SUBSET (table \ Flagged)
  BY <1>2 DEF Flagged
<1>7. removed \in SUBSET (Nodes \ table)
  BY <1>0
<1>8. Outbox' = Outbox \cup ((down \cup removed) \X {"offline"})
  <2>1. down \cup removed = due
    OBVIOUS
  <2> QED BY <1>1, <1>4, <2>1 DEF Outbox
<1> QED BY <1>1, <1>5, <1>6, <1>7, <1>8 DEF Alerts!Report, Flagged, Outbox

LEMMA AlertsStep ==
  ASSUME TypeOK, AlertInv, [Next]_vars
  PROVE  [Alerts!Next]_Alerts!vars
<1>1. ASSUME NEW h \in Handlers, HeartbeatCommit(h) PROVE [Alerts!Next]_Alerts!vars
  BY <1>1, AlertsHeard
<1>2. CASE DetectorCommit
  BY <1>2, AlertsDetected DEF Alerts!Next
<1>3. CASE DetectorRead \/ DetectorFail
  <2>1. Collected = {} /\ Collected' = {}
    BY <1>3, AsleepType DEF DetectorRead, DetectorFail, Collected
  <2> QED BY <1>3, <2>1, AlertsUnchanged DEF DetectorRead, DetectorFail, Flagged, Outbox
<1>4. CASE DetectorDispatch
  <2>1. Outbox' = Outbox
    BY <1>4, AsleepType DEF DetectorDispatch, Outbox, Collected
  <2> QED BY <1>4, <2>1, AlertsUnchanged DEF DetectorDispatch, Flagged
<1>5. ASSUME NEW n \in Nodes, NEW kind \in Kinds, Notify(n, kind)
      PROVE  [Alerts!Next]_Alerts!vars
  <2>1. UNCHANGED <<table, Flagged, Collected>> /\ tasks' = tasks \ {<<n, kind>>}
    BY <1>5 DEF Notify, Flagged, Collected
  <2>2. CASE <<n, kind>> \in Collected
    BY <1>5, <2>1, <2>2, AlertsUnchanged DEF Outbox, Notify
  <2>3. CASE <<n, kind>> \notin Collected
    <3>1. Outbox' = Outbox \ {<<n, kind>>} /\ <<n, kind>> \in Outbox
      BY <1>5, <2>1, <2>3 DEF Outbox, Notify
    <3>2. Alerts!Post(<<n, kind>>)
      BY <2>1, <3>1 DEF Alerts!Post, Flagged, Outbox
    <3>3. <<n, kind>> \in Nodes \X {"offline", "recovery"}
      BY DEF Kinds
    <3> QED BY <3>2, <3>3 DEF Alerts!Next
  <2> QED BY <2>2, <2>3
<1>6. ASSUME NEW n \in Nodes, RemoveNode(n) PROVE [Alerts!Next]_Alerts!vars
  <2>1. n \in table /\ table' = table \ {n} /\ \A m \in table' : row'[m] = row[m]
    BY <1>6 DEF RemoveNode, TypeOK
  <2>2. Flagged' = Flagged \ {n}
    BY <2>1 DEF Flagged
  <2>3. Outbox' = Outbox
    BY <1>6 DEF RemoveNode, Outbox, Collected
  <2>4. Alerts!Remove(n)
    BY <2>1, <2>2, <2>3 DEF Alerts!Remove, Flagged, Outbox
  <2> QED BY <2>4 DEF Alerts!Next
<1>7. CASE HubCrash
  <2>1. Outbox' = {} /\ UNCHANGED <<table, Flagged>>
    BY <1>7, AsleepType DEF HubCrash, Outbox, Collected, Flagged
  <2>2. Alerts!HubStops
    BY <2>1 DEF Alerts!HubStops, Flagged, Outbox
  <2> QED BY <2>2 DEF Alerts!Next
<1>8. ASSUME UNCHANGED <<table, row, detector, tasks>> PROVE [Alerts!Next]_Alerts!vars
  BY <1>8, AlertsUnchanged DEF Flagged, Outbox, Collected
<1>9. CASE UNCHANGED vars
  BY <1>8, <1>9 DEF vars
<1>10. CASE Next
  BY <1>1, <1>2, <1>3, <1>4, <1>5, <1>6, <1>7, <1>8, <1>10
     DEF Next, DetectorStep, HeartbeatRead, HeartbeatFail, FallSilent
<1> QED BY <1>9, <1>10

\* Unless two heartbeats of one node are open together, whoever reads the notifications
\* sees those of NodeAlerts: in turn for each node, each decided on in the table, none
\* posted more often than that (agents.py:180-190, offline_detector.py:30-66).
THEOREM SerialAlertsInTurn == ~ Overlap => (Spec => AlertsInTurn)
<1> SUFFICES ASSUME ~ Overlap PROVE Spec => AlertsInTurn
  OBVIOUS
<1>1. TypeOK /\ AlertInv /\ [Next]_vars => [Alerts!Next]_Alerts!vars
  BY AlertsStep
<1> QED BY <1>1, AlertsInit, TypeCorrect, AlertAlways, PTL DEF Spec, AlertsInTurn, Alerts!Spec
=============================================================================
