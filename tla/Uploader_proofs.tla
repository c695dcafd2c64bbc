--------------------------- MODULE Uploader_proofs ---------------------------
(***************************************************************************)
(* Theorems about the uploader, for every batch limit, number of attempts, *)
(* number of simultaneous tasks and number of readings.                    *)
(*                                                                         *)
(* The argument: a batch is a prefix of telemetry.db when it is read, so   *)
(* every older reading is in it or has left the table.  That stays true of *)
(* the batch however late it arrives, because readings are committed in    *)
(* order; and a union of such batches, which is what the cloud holds, has  *)
(* the same property.  This is also what makes the cloud's copy the feed   *)
(* that CloudFeed promises.                                                *)
(***************************************************************************)
EXTENDS Uploader, FiniteSetTheorems, TLAPS

\* Every older reading is in the set too, or has left the table.
Gapless(readings) ==
  /\ readings \subseteq Ever
  /\ \A n \in readings, m \in Ever : m < n => m \in readings \cup skipped

HistoryInv == expired \cup cut \subseteq skipped
BatchInv == \A t \in Tasks : Gapless(task[t].batch)
QueueInv == \A payload \in outq : Gapless(payload)

IInv ==
  /\ TypeOK /\ AckedIsDeliveredOrQueued
  /\ HistoryInv /\ BatchInv /\ QueueInv /\ Gapless(cloud)

-----------------------------------------------------------------------------
(* Steps of one task *)

\* A task that moves on keeps its batch, and the others keep everything.
LEMMA GoesEffect ==
  ASSUME task \in [Tasks -> TaskState], \A u \in Tasks : task[u].tries < MaxTries,
         NEW t \in Tasks, NEW pc \in Pc, NEW tries \in Nat, tries < MaxTries,
         Goes(t, pc, tries)
  PROVE  /\ task' \in [Tasks -> TaskState]
         /\ \A u \in Tasks : task'[u].tries < MaxTries
         /\ \A u \in Tasks : task'[u].batch = task[u].batch
  BY DEF Goes, TaskState

\* A task that ends carries nothing any more.
LEMMA EndsEffect ==
  ASSUME task \in [Tasks -> TaskState], \A u \in Tasks : task[u].tries < MaxTries,
         acked \subseteq Nat,
         NEW t \in Tasks, NEW uploaded, Ends(t, uploaded)
  PROVE  /\ task' \in [Tasks -> TaskState]
         /\ \A u \in Tasks : task'[u].tries < MaxTries
         /\ \A u \in Tasks : task'[u].batch \in {{}, task[u].batch}
         /\ acked' \in {acked, acked \cup task[t].batch}
         /\ acked' \subseteq Nat
  <1>1. MaxTries \in Nat /\ MaxTries > 0
    BY UploaderAssumption
  <1>2. Idle \in TaskState /\ Idle.tries = 0 /\ Idle.batch = {}
    BY DEF Idle, TaskState, Pc
  <1>3. task[t].batch \subseteq Nat
    BY DEF TaskState
  <1> QED
    BY <1>1, <1>2, <1>3 DEF Ends

\* When the process ends, what was on its way arrives or does not.
LEMMA ProcessEndsEffect ==
  ASSUME TypeOK, ProcessEnds
  PROVE  /\ task' = [t \in Tasks |-> Idle] /\ outq' = {} /\ acked' = {}
         /\ \E arrived \in SUBSET (outq \cup {task[t].batch : t \in Tasks}) :
               cloud' = cloud \cup UNION arrived
         /\ cloud' \subseteq Nat
  <1>1. PICK arrived \in SUBSET (outq \cup {task[t].batch : t \in {u \in Tasks : task[u].pc = "https"}}) :
               cloud' = cloud \cup UNION arrived
    BY DEF ProcessEnds
  <1>2. arrived \in SUBSET (outq \cup {task[t].batch : t \in Tasks})
    BY <1>1
  <1>3. \A t \in Tasks : task[t].batch \subseteq Nat
    BY DEF TypeOK, TaskState
  <1>4. \A payload \in arrived : payload \subseteq Nat
    BY <1>2, <1>3 DEF TypeOK, MqttTypeOK
  <1>5. UNION arrived \subseteq Nat
    BY <1>4
  <1> QED
    BY <1>1, <1>2, <1>5 DEF ProcessEnds, FreshClient, TypeOK, MqttTypeOK

-----------------------------------------------------------------------------
(* Type correctness: what is not the MQTT client's first *)

ServiceTypeOK ==
  /\ table \subseteq Nat /\ expired \subseteq Nat /\ cut \subseteq Nat
  /\ running \in BOOLEAN
  /\ phase \in {"off", "init", "run"}
  /\ task \in [Tasks -> TaskState]
  /\ \A t \in Tasks : task[t].tries < MaxTries
  /\ acked \subseteq Nat /\ skipped \subseteq Nat
  /\ phase # "run" => \A t \in Tasks : task[t] = Idle

LEMMA IdleType == Idle \in TaskState /\ Idle.tries < MaxTries /\ Idle.batch = {}
  BY UploaderAssumption DEF Idle, TaskState, Pc

LEMMA TypeInit == Init => TypeOK
  BY IdleType DEF Init, TableInit, MqttInit, TypeOK, MqttTypeOK

LEMMA TypeProcessEnds ==
  ASSUME TypeOK, ProcessEnds, net' = net, certs' = certs,
         table' \subseteq Nat, expired' \subseteq Nat, cut' \subseteq Nat, skipped' \subseteq Nat
  PROVE  TypeOK'
  <1>1. task' = [t \in Tasks |-> Idle] /\ outq' = {} /\ acked' = {} /\ cloud' \subseteq Nat
    BY ProcessEndsEffect
  <1>2. task' \in [Tasks -> TaskState] /\ \A t \in Tasks : task'[t] = Idle /\ task'[t].tries < MaxTries
    BY <1>1, IdleType
  <1>3. MqttTypeOK'
    BY <1>1 DEF ProcessEnds, FreshClient, TypeOK, MqttTypeOK
  <1>4. ServiceTypeOK'
    BY <1>1, <1>2 DEF ProcessEnds, ServiceTypeOK
  <1> QED
    BY <1>3, <1>4 DEF TypeOK, ServiceTypeOK

\* The services' own steps, but for those that end the process.
LEMMA TypeService ==
  ASSUME TypeOK, Start \/ Started \/ Signal
  PROVE  TypeOK'
  <1>1. MqttTypeOK'
    <2>1. CASE ConnectBegins
      BY <2>1 DEF ConnectBegins, TypeOK, MqttTypeOK
    <2>2. CASE ConnectFails
      BY <2>2 DEF ConnectFails, TypeOK, MqttTypeOK
    <2>3. CASE UNCHANGED mqttVars
      BY <2>3 DEF mqttVars, session, TypeOK, MqttTypeOK
    <2> QED
      BY <2>1, <2>2, <2>3 DEF Start, Started, Signal
  <1>2. ServiceTypeOK'
    BY DEF Start, Started, Signal, tableVars, TypeOK, ServiceTypeOK
  <1> QED
    BY <1>1, <1>2 DEF TypeOK, ServiceTypeOK

LEMMA TypeSpawn ==
  ASSUME TypeOK, NEW t \in Tasks, Spawn(t)
  PROVE  TypeOK'
  <1>1. Window(table) \subseteq Nat
    BY DEF Window, TypeOK
  <1>2. task' \in [Tasks -> TaskState]
    BY <1>1 DEF Spawn, TaskState, Pc, TypeOK
  <1>3. \A u \in Tasks : task'[u].tries < MaxTries
    BY DEF Spawn, TaskState, TypeOK
  <1>4. MqttTypeOK'
    BY DEF Spawn, mqttVars, session, TypeOK, MqttTypeOK
  <1>5. ServiceTypeOK'
    BY <1>2, <1>3 DEF Spawn, tableVars, TypeOK, ServiceTypeOK
  <1> QED
    BY <1>4, <1>5 DEF TypeOK, ServiceTypeOK

\* A step of a task happens in the loop, where tasks exist, and leaves
\* telemetry.db and the loop alone.
LEMMA TaskFrame ==
  ASSUME TypeOK, NEW t \in Tasks, TaskStep(t)
  PROVE  /\ phase = "run"
         /\ UNCHANGED <<table, expired, cut, phase, running, skipped,
                       net, certs, sock, connected>>
  <1> USE DEF TaskStep, EnsureConnected, ConnectReturns, PublishRefused, Publish, PublishFails,
              MayPublish, HttpsAccepted, HttpsRefused, HttpsFails
  <1>1. task[t].pc # "idle"
    OBVIOUS
  <1>2. phase = "run"
    BY <1>1 DEF TypeOK, Idle
  <1>3. UNCHANGED <<table, expired, cut, phase, running, skipped>>
    BY DEF Rest, tableVars
  <1>4. UNCHANGED <<net, certs, sock, connected>>
    BY DEF Rest, mqttVars, session, ConnectBegins, ConnectFails, PublishSucceeds, PublishErrs, Queue
  <1> QED
    BY <1>2, <1>3, <1>4

\* What a step of a task can do to the tasks, the queue and the cloud.
LEMMA TaskEffect ==
  ASSUME TypeOK, NEW t \in Tasks, TaskStep(t)
  PROVE  /\ task' \in [Tasks -> TaskState]
         /\ \A u \in Tasks : task'[u].tries < MaxTries
         /\ \A u \in Tasks : task'[u].batch \in {{}, task[u].batch}
         /\ outq' \in {outq, outq \cup {task[t].batch}}
         /\ cloud' \in {cloud, cloud \cup task[t].batch}
         /\ \/ acked' = acked
            \/ /\ acked' = acked \cup task[t].batch
               /\ task[t].batch \subseteq cloud' \cup UNION outq'
  <1>1. /\ task \in [Tasks -> TaskState] /\ \A u \in Tasks : task[u].tries < MaxTries
        /\ acked \subseteq Nat
        /\ task[t].tries \in Nat
        /\ 0 < MaxTries /\ MaxTries \in Nat
    BY UploaderAssumption DEF TaskState, TypeOK
  <1>2. CASE EnsureConnected(t)
    BY <1>1, <1>2, GoesEffect
       DEF EnsureConnected, ConnectBegins, ConnectFails, mqttVars, session, Pc
  <1>3. CASE ConnectReturns(t)
    BY <1>1, <1>3, GoesEffect DEF ConnectReturns, mqttVars, session, Pc
  <1>4. CASE PublishRefused(t)
    BY <1>1, <1>4, GoesEffect DEF PublishRefused, mqttVars, session, Pc
  <1>5. CASE Publish(t)
    <2>1. outq' = outq \cup {task[t].batch} /\ cloud' = cloud
      BY <1>5 DEF Publish, PublishSucceeds, Queue
    <2>2. task[t].batch \subseteq UNION outq'
      BY <2>1
    <2> QED
      BY <1>1, <1>5, <2>1, <2>2, EndsEffect DEF Publish
  <1>6. CASE PublishFails(t)
    <2>1. outq' = outq \cup {task[t].batch} /\ cloud' = cloud
      BY <1>6 DEF PublishFails, PublishErrs, Queue
    <2> QED
      BY <1>1, <1>6, <2>1, GoesEffect DEF PublishFails, Pc
  <1>7. CASE HttpsAccepted(t)
    BY <1>1, <1>7, EndsEffect DEF HttpsAccepted
  <1>8. CASE HttpsRefused(t)
    <2>1. acked' = acked
      BY <1>8 DEF HttpsRefused, Ends
    <2> QED
      BY <1>1, <1>8, <2>1, EndsEffect DEF HttpsRefused, mqttVars, session
  <1>9. CASE HttpsFails(t)
    <2>1. outq' = outq /\ cloud' \in {cloud, cloud \cup task[t].batch} /\ acked' = acked
      BY <1>9 DEF HttpsFails, HttpsRetry, Ends
    <2>2. CASE task[t].tries + 1 < MaxTries
      <3>1. Goes(t, "https", task[t].tries + 1)
        BY <1>9, <2>2 DEF HttpsFails, HttpsRetry
      <3> QED
        BY <1>1, <2>1, <2>2, <3>1, GoesEffect DEF Pc
    <2>3. CASE ~(task[t].tries + 1 < MaxTries)
      <3>1. Ends(t, FALSE)
        BY <1>9, <2>3 DEF HttpsFails, HttpsRetry
      <3> QED
        BY <1>1, <2>1, <3>1, EndsEffect
    <2> QED
      BY <2>2, <2>3
  <1> QED
    BY <1>2, <1>3, <1>4, <1>5, <1>6, <1>7, <1>8, <1>9 DEF TaskStep

LEMMA TypeTask ==
  ASSUME TypeOK, NEW t \in Tasks, TaskStep(t)
  PROVE  TypeOK'
  <1>1. task[t].batch \subseteq Nat
    BY DEF TypeOK, TaskState
  <1>2. ConnectBegins \/ ConnectFails \/ UNCHANGED <<tls, thread>>
    BY DEF TaskStep, EnsureConnected, ConnectReturns, PublishRefused, Publish, PublishFails,
           HttpsAccepted, HttpsRefused, HttpsFails, PublishSucceeds, PublishErrs, Queue,
           mqttVars, session
  <1>3. MqttTypeOK'
    <2>1. outq' \subseteq SUBSET Nat /\ cloud' \subseteq Nat
      <3>1. outq' \in {outq, outq \cup {task[t].batch}}
            /\ cloud' \in {cloud, cloud \cup task[t].batch}
        BY TaskEffect
      <3> QED
        BY <1>1, <3>1 DEF TypeOK, MqttTypeOK
    <2>2. CASE ConnectBegins
      BY <2>1, <2>2 DEF ConnectBegins, TypeOK, MqttTypeOK
    <2>3. CASE ConnectFails
      BY <2>1, <2>3 DEF ConnectFails, TypeOK, MqttTypeOK
    <2>4. CASE UNCHANGED <<tls, thread>>
      BY <2>1, <2>4, TaskFrame DEF TypeOK, MqttTypeOK
    <2> QED
      BY <1>2, <2>2, <2>3, <2>4
  <1>4. ServiceTypeOK'
    BY <1>1, TaskFrame, TaskEffect DEF TypeOK, ServiceTypeOK
  <1> QED
    BY <1>3, <1>4 DEF TypeOK, ServiceTypeOK

LEMMA TypeNetwork ==
  ASSUME TypeOK, NetworkStep
  PROVE  TypeOK'
  <1>1. ServiceTypeOK'
    BY DEF NetworkStep, tableVars, TypeOK, ServiceTypeOK
  <1>2. MqttTypeOK'
    <2> USE DEF TypeOK, MqttTypeOK
    <2>1. CASE NetChanges
      BY <2>1 DEF NetChanges, session
    <2>2. CASE SessionUp
      BY <2>2 DEF SessionUp
    <2>3. CASE SessionDown
      BY <2>3 DEF SessionDown
    <2>4. CASE OnDisconnect
      BY <2>4 DEF OnDisconnect
    <2>5. ASSUME NEW payload \in outq, Deliver(payload)
          PROVE  MqttTypeOK'
      BY <2>5 DEF Deliver, session
    <2>6. ASSUME NEW payload \in outq, DeliverUnacked(payload)
          PROVE  MqttTypeOK'
      BY <2>6 DEF DeliverUnacked
    <2>7. CASE CertsInstalled
      BY <2>7 DEF CertsInstalled, session
    <2> QED
      BY <2>1, <2>2, <2>3, <2>4, <2>5, <2>6, <2>7 DEF NetworkStep, MqttStep, PahoStep
  <1> QED
    BY <1>1, <1>2 DEF TypeOK, ServiceTypeOK

\* Every variable keeps its type, whatever the tasks, the network thread, the
\* acquisition service and the power do.
THEOREM TypeCorrect == Spec => []TypeOK
  <1>1. TypeOK /\ [Next]_vars => TypeOK'
    <2> SUFFICES ASSUME TypeOK, [Next]_vars PROVE TypeOK'
      OBVIOUS
    <2>1. CASE Start \/ Started \/ Signal
      BY <2>1, TypeService
    <2>2. CASE Shutdown \/ Kill
      BY <2>2, TypeProcessEnds DEF Shutdown, Kill, tableVars, TypeOK
    <2>3. ASSUME NEW t \in Tasks, Spawn(t) PROVE TypeOK'
      BY <2>3, TypeSpawn
    <2>4. ASSUME NEW t \in Tasks, TaskStep(t) PROVE TypeOK'
      BY <2>4, TypeTask
    <2>5. CASE NetworkStep
      BY <2>5, TypeNetwork
    <2>6. ASSUME Others, Commit \/ PowerCut
          PROVE  /\ table' \subseteq Nat /\ expired' \subseteq Nat
                 /\ cut' \subseteq Nat /\ skipped' \subseteq Nat
      BY <2>6 DEF Others, Commit, PowerCut, TypeOK
    <2>7. CASE AcquisitionCommits
      <3>1. MqttTypeOK'
        BY <2>7 DEF AcquisitionCommits, mqttVars, session, TypeOK, MqttTypeOK
      <3>2. ServiceTypeOK'
        BY <2>6, <2>7 DEF AcquisitionCommits, TypeOK, ServiceTypeOK
      <3> QED
        BY <3>1, <3>2 DEF TypeOK, ServiceTypeOK
    <2>8. CASE PowerLoss
      BY <2>6, <2>8, TypeProcessEnds DEF PowerLoss
    <2>9. CASE UNCHANGED vars
      BY <2>9 DEF vars, tableVars, mqttVars, session, TypeOK, MqttTypeOK
    <2> QED
      BY <2>1, <2>2, <2>3, <2>4, <2>5, <2>7, <2>8, <2>9 DEF Next, ServiceStep
  <1> QED
    BY TypeInit, <1>1, PTL DEF Spec

-----------------------------------------------------------------------------
(* No gaps *)

\* A commit adds nothing but newer readings, and a power loss none.
LEMMA GaplessTable ==
  ASSUME TypeOK, HistoryInv, Others, Commit \/ PowerCut
  PROVE  /\ Ever \subseteq Ever'
         /\ \A m \in Ever' \ Ever, old \in Ever : old < m
         /\ HistoryInv'
         /\ skipped \subseteq skipped'
  <1>1. CASE Commit
    BY <1>1 DEF Commit, Others, Ever, HistoryInv
  <1>2. CASE PowerCut
    BY <1>2 DEF PowerCut, Others, Ever, HistoryInv
  <1> QED
    BY <1>1, <1>2

LEMMA GaplessTableKept ==
  ASSUME TypeOK, HistoryInv, Others, Commit \/ PowerCut,
         NEW readings, Gapless(readings)
  PROVE  Gapless(readings)'
  <1>1. Ever \subseteq Nat /\ Ever' \subseteq Nat
    BY DEF TypeOK, Ever, Others, Commit, PowerCut
  <1>2. readings \subseteq Ever'
    BY GaplessTable DEF Gapless
  <1>3. ASSUME NEW n \in readings, NEW m \in Ever', m < n
        PROVE  m \in readings \cup skipped'
    <2>1. n \in Ever /\ n \in Nat /\ m \in Nat
      BY <1>1 DEF Gapless
    <2>2. m \in Ever
      <3> SUFFICES ASSUME m \notin Ever PROVE FALSE
        OBVIOUS
      <3>1. n < m
        BY <2>1, GaplessTable
      <3> QED
        BY <1>3, <2>1, <3>1
    <2>3. m \in readings \cup skipped
      BY <1>3, <2>2 DEF Gapless
    <2> QED
      BY <2>3, GaplessTable
  <1> QED
    BY <1>2, <1>3 DEF Gapless

\* Batches add up.
LEMMA GaplessUnion ==
  ASSUME NEW payloads, \A payload \in payloads : Gapless(payload)
  PROVE  Gapless(UNION payloads)
  BY DEF Gapless

LEMMA GaplessCup ==
  ASSUME NEW one, NEW two, Gapless(one), Gapless(two)
  PROVE  Gapless(one \cup two)
  BY DEF Gapless

LEMMA GaplessNone == Gapless({})
  BY DEF Gapless

\* The oldest rows of the table, up to any limit, are gapless.
LEMMA WindowGapless ==
  ASSUME TypeOK, HistoryInv
  PROVE  Gapless(Window(table))
  <1>1. Window(table) \subseteq Ever
    BY DEF Window, Ever
  <1>2. ASSUME NEW n \in Window(table), NEW m \in Ever, m < n
        PROVE  m \in Window(table) \cup skipped
    <2>1. CASE m \in table
      <3> DEFINE below(k) == {r \in table : r < k}
      <3>1. n \in Nat /\ m \in Nat /\ table \subseteq Nat
        BY <2>1 DEF Window, TypeOK
      <3>2. below(n) \subseteq 0 .. n
        <4>1. \A r \in table : r < n => r \in 0 .. n
          BY <3>1
        <4> QED
          BY <4>1 DEF below
      <3>3. IsFiniteSet(below(n))
        <4>1. IsFiniteSet(0 .. n)
          BY <3>1, FS_Interval
        <4> QED
          BY <3>2, <4>1, FS_Subset
      <3>4. below(m) \subseteq below(n)
        <4>1. \A r \in table : r < m => r < n
          BY <1>2, <3>1
        <4> QED
          BY <4>1 DEF below
      <3>5. /\ Cardinality(below(m)) <= Cardinality(below(n))
            /\ Cardinality(below(m)) \in Nat /\ Cardinality(below(n)) \in Nat
        BY <3>3, <3>4, FS_Subset, FS_CardinalityType
      <3>6. Cardinality(below(n)) < BatchLimit
        BY DEF Window, below
      <3>7. Cardinality(below(m)) < BatchLimit
        BY <3>5, <3>6, UploaderAssumption
      <3> QED
        BY <2>1, <3>7 DEF Window, below
    <2>2. CASE m \notin table
      BY <2>2 DEF Ever, HistoryInv
    <2> QED
      BY <2>1, <2>2
  <1> QED
    BY <1>1, <1>2 DEF Gapless

\* What arrives when the process ends was gapless on its way.
LEMMA ProcessEndsGapless ==
  ASSUME TypeOK, ProcessEnds, BatchInv, QueueInv, Gapless(cloud)
  PROVE  /\ Gapless(cloud')
         /\ outq' = {} /\ acked' = {} /\ \A t \in Tasks : task'[t].batch = {}
  <1>1. PICK arrived \in SUBSET (outq \cup {task[t].batch : t \in Tasks}) :
               cloud' = cloud \cup UNION arrived
    BY ProcessEndsEffect
  <1>2. \A payload \in arrived : Gapless(payload)
    BY <1>1 DEF BatchInv, QueueInv
  <1>3. Gapless(cloud')
    BY <1>1, <1>2, GaplessUnion, GaplessCup
  <1>4. \A t \in Tasks : task'[t].batch = {}
    BY ProcessEndsEffect, IdleType
  <1> QED
    BY <1>3, <1>4, ProcessEndsEffect

LEMMA InvInit == Init => IInv
  BY TypeInit, IdleType
     DEF Init, TableInit, MqttInit, IInv, AckedIsDeliveredOrQueued,
         HistoryInv, BatchInv, QueueInv, Gapless, Ever

\* A step of a task sends its batch, keeps it or drops it.
LEMMA InvTask ==
  ASSUME IInv, NEW t \in Tasks, TaskStep(t), TypeOK'
  PROVE  IInv'
  <1>1. UNCHANGED <<table, expired, cut, skipped>>
    BY TaskFrame DEF IInv
  <1>2. HistoryInv' /\ Ever' = Ever
    BY <1>1 DEF IInv, HistoryInv, Ever
  <1>3. Gapless(task[t].batch)
    BY DEF IInv, BatchInv
  <1>4. /\ \A u \in Tasks : task'[u].batch \in {{}, task[u].batch}
        /\ outq' \in {outq, outq \cup {task[t].batch}}
        /\ cloud' \in {cloud, cloud \cup task[t].batch}
        /\ \/ acked' = acked
           \/ /\ acked' = acked \cup task[t].batch
              /\ task[t].batch \subseteq cloud' \cup UNION outq'
    BY TaskEffect DEF IInv
  <1>5. BatchInv'
    BY <1>1, <1>2, <1>4 DEF IInv, BatchInv, Gapless
  <1>6. QueueInv'
    BY <1>1, <1>2, <1>3, <1>4 DEF IInv, QueueInv, Gapless
  <1>7. Gapless(cloud)'
    BY <1>1, <1>2, <1>3, <1>4 DEF IInv, Gapless
  <1>8. cloud \cup UNION outq \subseteq cloud' \cup UNION outq'
    BY <1>4
  <1>9. AckedIsDeliveredOrQueued'
    BY <1>4, <1>8 DEF IInv, AckedIsDeliveredOrQueued
  <1> QED
    BY <1>2, <1>5, <1>6, <1>7, <1>9 DEF IInv

\* The network moves messages from paho's queue to the cloud.
LEMMA InvNetwork ==
  ASSUME IInv, NetworkStep, TypeOK'
  PROVE  IInv'
  <1>1. UNCHANGED <<table, expired, cut, skipped, task, acked>>
    BY DEF NetworkStep, tableVars
  <1>2. HistoryInv' /\ Ever' = Ever
    BY <1>1 DEF IInv, HistoryInv, Ever
  <1>3. \E payload \in outq \cup {{}} :
           /\ outq' \in {outq, outq \ {payload}}
           /\ cloud' = cloud \cup payload
    <2>1. ASSUME NEW payload \in outq, Deliver(payload) \/ DeliverUnacked(payload)
          PROVE  /\ outq' \in {outq, outq \ {payload}}
                 /\ cloud' = cloud \cup payload
      BY <2>1 DEF Deliver, DeliverUnacked
    <2>2. CASE NetChanges \/ CertsInstalled \/ SessionUp \/ SessionDown \/ OnDisconnect
      <3>1. outq' = outq /\ cloud' = cloud \cup {}
        BY <2>2 DEF NetChanges, CertsInstalled, SessionUp, SessionDown, OnDisconnect
      <3> QED
        BY <3>1
    <2> QED
      BY <2>1, <2>2 DEF NetworkStep, MqttStep, PahoStep
  <1>4. PICK payload \in outq \cup {{}} :
           /\ outq' \in {outq, outq \ {payload}}
           /\ cloud' = cloud \cup payload
    BY <1>3
  <1>5. Gapless(payload)
    BY GaplessNone DEF IInv, QueueInv
  <1>6. BatchInv'
    BY <1>1, <1>2 DEF IInv, BatchInv, Gapless
  <1>7. QueueInv'
    BY <1>1, <1>2, <1>4 DEF IInv, QueueInv, Gapless
  <1>8. Gapless(cloud)'
    BY <1>1, <1>2, <1>4, <1>5 DEF IInv, Gapless
  <1>9. cloud \cup UNION outq \subseteq cloud' \cup UNION outq'
    BY <1>4
  <1>10. AckedIsDeliveredOrQueued'
    BY <1>1, <1>9 DEF IInv, AckedIsDeliveredOrQueued
  <1> QED
    BY <1>2, <1>6, <1>7, <1>8, <1>10 DEF IInv


\* The table changes under what is on its way and what has arrived.
LEMMA GaplessThere ==
  ASSUME IInv, Others, Commit \/ PowerCut
  PROVE  /\ \A readings \in SUBSET Ever :
              Gapless(readings) =>
                /\ readings \subseteq Ever'
                /\ \A n \in readings, m \in Ever' : m < n => m \in readings \cup skipped'
         /\ HistoryInv'
  <1>1. TypeOK /\ HistoryInv
    BY DEF IInv
  <1>2. ASSUME NEW readings \in SUBSET Ever, Gapless(readings)
        PROVE  /\ readings \subseteq Ever'
               /\ \A n \in readings, m \in Ever' : m < n => m \in readings \cup skipped'
    <2>1. Gapless(readings)'
      BY <1>1, <1>2, GaplessTableKept
    <2> QED
      BY <2>1 DEF Gapless
  <1> QED
    BY <1>1, <1>2, GaplessTable

LEMMA InvCommit ==
  ASSUME IInv, AcquisitionCommits, TypeOK'
  PROVE  IInv'
  <1>1. UNCHANGED <<outq, cloud, task, acked>>
    BY DEF AcquisitionCommits, mqttVars
  <1>2. Others /\ Commit
    BY DEF AcquisitionCommits
  <1>3. HistoryInv'
    BY <1>2, GaplessThere
  <1>4. BatchInv'
    BY <1>1, <1>2, GaplessThere DEF IInv, BatchInv, Gapless
  <1>5. QueueInv'
    BY <1>1, <1>2, GaplessThere DEF IInv, QueueInv, Gapless
  <1>6. Gapless(cloud)'
    BY <1>1, <1>2, GaplessThere DEF IInv, Gapless
  <1>7. AckedIsDeliveredOrQueued'
    BY <1>1 DEF IInv, AckedIsDeliveredOrQueued
  <1> QED
    BY <1>3, <1>4, <1>5, <1>6, <1>7 DEF IInv

\* The process ends, with or without a power loss.
LEMMA InvProcessEnds ==
  ASSUME IInv, ProcessEnds, TypeOK',
         \/ UNCHANGED <<table, expired, cut, skipped>>
         \/ Others /\ PowerCut
  PROVE  IInv'
  <1>1. /\ Gapless(cloud')
        /\ outq' = {} /\ acked' = {} /\ \A t \in Tasks : task'[t].batch = {}
    BY ProcessEndsGapless DEF IInv
  <1>2. BatchInv' /\ QueueInv' /\ AckedIsDeliveredOrQueued'
    BY <1>1 DEF BatchInv, QueueInv, Gapless, AckedIsDeliveredOrQueued
  <1>3. CASE UNCHANGED <<table, expired, cut, skipped>>
    <2>1. HistoryInv' /\ Ever' = Ever
      BY <1>3 DEF IInv, HistoryInv, Ever
    <2>2. Gapless(cloud)'
      BY <1>1, <1>3, <2>1 DEF Gapless
    <2> QED
      BY <1>2, <2>1, <2>2 DEF IInv
  <1>4. CASE Others /\ PowerCut
    <2>1. HistoryInv'
      BY <1>4, GaplessThere
    <2>2. Gapless(cloud)'
      BY <1>1, <1>4, GaplessThere DEF Gapless
    <2> QED
      BY <1>2, <2>1, <2>2 DEF IInv
  <1> QED
    BY <1>3, <1>4

LEMMA InvSpawn ==
  ASSUME IInv, NEW t \in Tasks, Spawn(t), TypeOK'
  PROVE  IInv'
  <1>1. UNCHANGED <<table, expired, cut, skipped, outq, cloud, acked>>
    BY DEF Spawn, tableVars, mqttVars
  <1>2. HistoryInv' /\ Ever' = Ever
    BY <1>1 DEF IInv, HistoryInv, Ever
  <1>3. Gapless(Window(table))
    BY WindowGapless DEF IInv
  <1>4. \A u \in Tasks : task'[u].batch \in {Window(table), task[u].batch}
    BY DEF Spawn, IInv, TypeOK, TaskState
  <1>5. BatchInv'
    BY <1>1, <1>2, <1>3, <1>4 DEF IInv, BatchInv, Gapless
  <1>6. QueueInv' /\ Gapless(cloud)' /\ AckedIsDeliveredOrQueued'
    BY <1>1, <1>2 DEF IInv, QueueInv, Gapless, AckedIsDeliveredOrQueued
  <1> QED
    BY <1>2, <1>5, <1>6 DEF IInv

\* Steps that touch neither the readings nor what carries them.
LEMMA InvIdle ==
  ASSUME IInv, TypeOK',
         UNCHANGED <<table, expired, cut, skipped, outq, cloud, task, acked>>
  PROVE  IInv'
  <1>1. HistoryInv' /\ Ever' = Ever
    BY DEF IInv, HistoryInv, Ever
  <1> QED
    BY <1>1 DEF IInv, BatchInv, QueueInv, Gapless, AckedIsDeliveredOrQueued

LEMMA InvStep ==
  ASSUME IInv, [Next]_vars, TypeOK'
  PROVE  IInv'
  <1>1. CASE Start \/ Started \/ Signal \/ UNCHANGED vars
    BY <1>1, InvIdle
       DEF Start, Started, Signal, ConnectBegins, ConnectFails, vars, tableVars, mqttVars
  <1>2. CASE Shutdown \/ Kill
    BY <1>2, InvProcessEnds DEF Shutdown, Kill, tableVars
  <1>3. ASSUME NEW t \in Tasks, Spawn(t) PROVE IInv'
    BY <1>3, InvSpawn
  <1>4. ASSUME NEW t \in Tasks, TaskStep(t) PROVE IInv'
    BY <1>4, InvTask
  <1>5. CASE NetworkStep
    BY <1>5, InvNetwork
  <1>6. CASE AcquisitionCommits
    BY <1>6, InvCommit
  <1>7. CASE PowerLoss
    BY <1>7, InvProcessEnds DEF PowerLoss
  <1> QED
    BY <1>1, <1>2, <1>3, <1>4, <1>5, <1>6, <1>7 DEF Next, ServiceStep

\* The invariant the other results rest on: a batch, a message in paho's
\* queue and the cloud hold, with a reading, every older one that has not
\* left the table.
THEOREM InvariantCorrect == Spec => []IInv
  BY InvInit, InvStep, TypeCorrect, PTL DEF Spec

\* Whatever the interleaving of uploads, re-sends, restarts, clean-ups and
\* power losses, the cloud never holds a reading while an older one is
\* missing that has been in telemetry.db all the time.
THEOREM NoGaps == Spec => []CloudHasNoGaps
  <1>1. IInv => CloudHasNoGaps
    BY DEF IInv, Gapless, CloudHasNoGaps
  <1> QED
    BY <1>1, InvariantCorrect, PTL

\* A reading counted as uploaded is in the cloud or still in paho's queue.
THEOREM AckedIsSafe == Spec => []AckedIsDeliveredOrQueued
  <1>1. IInv => AckedIsDeliveredOrQueued
    BY DEF IInv
  <1> QED
    BY <1>1, InvariantCorrect, PTL

-----------------------------------------------------------------------------
(* The promise to the readers of the cloud *)

\* What has arrived stays, and nothing arrives while the table grows.
LEMMA CloudGrows ==
  ASSUME [Next]_vars
  PROVE  /\ cloud \subseteq cloud'
         /\ \/ UNCHANGED <<tableVars, skipped>>
            \/ AcquisitionCommits /\ cloud' = cloud
            \/ PowerLoss
  <1>1. ASSUME NEW t \in Tasks, Spawn(t) \/ TaskStep(t)
        PROVE  UNCHANGED <<tableVars, skipped>> /\ cloud \subseteq cloud'
    <2>1. CASE Spawn(t)
      BY <2>1 DEF Spawn, mqttVars
    <2>2. CASE EnsureConnected(t) \/ ConnectReturns(t) \/ PublishRefused(t) \/ HttpsRefused(t)
      BY <2>2 DEF EnsureConnected, ConnectReturns, PublishRefused, HttpsRefused,
                  ConnectBegins, ConnectFails, Rest, mqttVars
    <2>3. CASE Publish(t) \/ PublishFails(t)
      BY <2>3 DEF Publish, PublishFails, PublishSucceeds, PublishErrs, Queue, Rest
    <2>4. CASE HttpsAccepted(t) \/ HttpsFails(t)
      BY <2>4 DEF HttpsAccepted, HttpsFails, Rest
    <2> QED
      BY <1>1, <2>1, <2>2, <2>3, <2>4 DEF TaskStep
  <1>2. CASE Start \/ Started \/ Signal \/ UNCHANGED vars
    BY <1>2 DEF Start, Started, Signal, ConnectBegins, ConnectFails, vars, mqttVars
  <1>3. CASE Shutdown \/ Kill
    BY <1>3 DEF Shutdown, Kill, ProcessEnds
  <1>4. CASE NetworkStep
    BY <1>4 DEF NetworkStep, MqttStep, PahoStep, NetChanges, CertsInstalled, SessionUp,
                SessionDown, OnDisconnect, Deliver, DeliverUnacked
  <1>5. CASE AcquisitionCommits
    BY <1>5 DEF AcquisitionCommits, mqttVars
  <1>6. CASE PowerLoss
    BY <1>6 DEF PowerLoss, ProcessEnds
  <1> QED
    BY <1>1, <1>2, <1>3, <1>4, <1>5, <1>6 DEF Next, ServiceStep

LEMMA FeedStep ==
  ASSUME IInv, IInv', [Next]_vars
  PROVE  Feed!FeedNext
  <1>1. /\ Feed!tableVars = tableVars /\ Feed!tableVars' = tableVars'
        /\ Feed!Ever = Ever /\ (Feed!Commit <=> Commit) /\ (Feed!PowerCut <=> PowerCut)
    BY DEF Feed!tableVars, tableVars, Feed!Ever, Ever, Feed!Commit, Commit,
           Feed!PowerCut, PowerCut
  <1>2. /\ cloud \subseteq cloud'
        /\ \/ UNCHANGED <<tableVars, skipped>>
           \/ AcquisitionCommits /\ cloud' = cloud
           \/ PowerLoss
    BY CloudGrows
  <1>3. Feed!TableStep
    BY <1>1, <1>2 DEF AcquisitionCommits, PowerLoss, Others, tableVars,
                      Feed!TableStep, Feed!TableNext
  <1>4. Ever \subseteq Ever' /\ (Ever' = Ever \/ cloud' = cloud)
    BY <1>2 DEF AcquisitionCommits, Commit, PowerLoss, PowerCut, tableVars, Ever
  <1>5. Gapless(cloud) /\ Gapless(cloud)'
    BY DEF IInv
  <1>6. cloud' \subseteq Ever
    BY <1>4, <1>5 DEF Gapless
  <1>7. \A n \in cloud', m \in Ever : m < n => m \in cloud' \cup skipped'
    BY <1>4, <1>5 DEF Gapless
  <1>8. Feed!Arrives
    BY <1>1, <1>2, <1>6, <1>7 DEF Feed!Arrives
  <1> QED
    BY <1>3, <1>8 DEF Feed!FeedNext

\* ImplementsFeed: whatever the uploads, the MQTT client, restarts and the power
\* do, the cloud's copy only grows, with committed readings, older ones first.
THEOREM FeedIsImplemented == Spec => ImplementsFeed
  <1>1. Init => Feed!FeedInit
    BY DEF Init, MqttInit, TableInit, Feed!FeedInit, Feed!TableInit
  <1>2. IInv /\ IInv' /\ [Next]_vars => [Feed!FeedNext]_(Feed!feedVars)
    BY FeedStep
  <1> QED
    BY <1>1, <1>2, InvariantCorrect, PTL DEF Spec, ImplementsFeed, Feed!FeedSpec
=============================================================================
