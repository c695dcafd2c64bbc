------------------------------ MODULE Uploader ------------------------------
(***************************************************************************)
(* The uploader service (uploader/meterhub_uploader/main.py) with its HTTPS *)
(* fallback (common/meterhub_common/https_uploader.py), composed with the  *)
(* MQTT client (module MqttClient) and with telemetry.db as the            *)
(* acquisition service changes it (module TelemetryTable, which module     *)
(* Acquisition implements).                                                *)
(*                                                                         *)
(* Every ten seconds run() reads the oldest rows and starts an asyncio     *)
(* task to upload them, whether or not earlier tasks have ended.  A task   *)
(*                                                                         *)
(*    start -> [connecting] -> publish -> (MQTT failed) https -> end       *)
(*                                                                         *)
(* gives way to the others at its awaits only.                             *)
(*                                                                         *)
(*   phase    run(): "off" (no process), "init" (the first MQTT connect),  *)
(*            "run" (the loop)                                             *)
(*   running  self.running                                                 *)
(*   task     the slots of self.running_tasks: where a task is, the        *)
(*            readings it carries, the attempts its transport has made     *)
(*   acked    readings this process has counted as uploaded                *)
(*   skipped  history: readings that ever left the table                   *)
(***************************************************************************)
EXTENDS TelemetryTable, MqttClient

CONSTANTS
  BatchLimit,   \* limit of _fetch_readings: 100
  MaxTries,     \* len(BACKOFF_MS) of both transports: 3
  \* Bounds of the model only.
  Tasks,        \* upload tasks that exist at once
  MaxReadings   \* readings the acquisition service takes

ASSUME UploaderAssumption ==
  /\ BatchLimit \in Nat \ {0} /\ MaxTries \in Nat \ {0}
  /\ MaxReadings \in Nat

VARIABLES phase, running, task, acked, skipped

vars == <<tableVars, mqttVars, phase, running, task, acked, skipped>>

Pc == {"idle", "start", "connecting", "publish", "https"}
TaskState == [pc : Pc, batch : SUBSET Nat, tries : Nat]
Idle == [pc |-> "idle", batch |-> {}, tries |-> 0]

Init ==
  /\ TableInit /\ MqttInit
  /\ phase = "off" /\ running = FALSE
  /\ task = [t \in Tasks |-> Idle]
  /\ acked = {} /\ skipped = {}

\* A task moves on, with its batch.
Goes(t, pc, tries) ==
  task' = [task EXCEPT ![t].pc = pc, ![t].tries = tries]

\* _upload_batch returns.  Success only counts: no row is marked or deleted.
Ends(t, uploaded) ==
  /\ task' = [task EXCEPT ![t] = Idle]
  /\ acked' = IF uploaded THEN acked \cup task[t].batch ELSE acked

\* What a step of a task leaves alone.
Rest == UNCHANGED <<tableVars, phase, running, skipped>>

-----------------------------------------------------------------------------
(* run() *)

\* The uploader starts; run() calls connect() and waits for it.
Start ==
  /\ phase = "off"
  /\ running' = TRUE
  /\ \/ ConnectBegins /\ phase' = "init"
     \/ ConnectFails /\ phase' = "run"
  /\ UNCHANGED <<tableVars, task, acked, skipped>>

\* The first connect() returns: connected, or ten seconds are over.
Started ==
  /\ phase = "init"
  /\ phase' = "run"
  /\ UNCHANGED <<tableVars, mqttVars, running, task, acked, skipped>>

\* Mutant of Window: ORDER BY id DESC.
NewestRows(rows) ==
  {n \in rows : Cardinality({m \in rows : m > n}) < BatchLimit}

\* Mutant of Window: LIMIT with an OFFSET of one row.
OffsetRows(rows) ==
  {n \in rows : Cardinality({m \in rows : m < n}) \in 1 .. BatchLimit}

\* SELECT ... ORDER BY id ASC LIMIT: the oldest rows of telemetry.db.
Window(rows) == {n \in rows : Cardinality({m \in rows : m < n}) < BatchLimit}

Spawn(t) ==
  /\ phase = "run" /\ running
  /\ table # {} /\ task[t] = Idle
  /\ task' = [task EXCEPT ![t].pc = "start", ![t].batch = Window(table)]
  /\ UNCHANGED <<tableVars, mqttVars, phase, running, acked, skipped>>

Signal ==
  /\ phase # "off" /\ running
  /\ running' = FALSE
  /\ UNCHANGED <<tableVars, mqttVars, phase, task, acked, skipped>>

\* The process ends.  Messages and requests on their way may still arrive.
ProcessEnds ==
  LET inFlight == outq \cup {task[t].batch : t \in {u \in Tasks : task[u].pc = "https"}}
  IN /\ \E arrived \in SUBSET inFlight : cloud' = cloud \cup UNION arrived
     /\ FreshClient
     /\ phase' = "off" /\ running' = FALSE
     /\ task' = [t \in Tasks |-> Idle]
     /\ acked' = {}

\* The loop is left: the tasks are cancelled (CancelledError passes their
\* `except Exception'), and the clients and databases are closed.
Shutdown ==
  /\ phase = "run" /\ ~running
  /\ ProcessEnds
  /\ UNCHANGED <<tableVars, net, certs, skipped>>

Kill ==
  /\ phase # "off"
  /\ ProcessEnds
  /\ UNCHANGED <<tableVars, net, certs, skipped>>

-----------------------------------------------------------------------------
(* _upload_mqtt *)

\* Mutant of EnsureConnected: a task that cannot connect gives up.
ConnectsOrGivesUp(t) ==
  /\ task[t].pc = "start"
  /\ \/ connected /\ Goes(t, "publish", 0) /\ UNCHANGED <<mqttVars, acked>>
     \/ ~connected /\ ConnectBegins /\ Goes(t, "connecting", 0) /\ UNCHANGED acked
     \/ ~connected /\ ConnectFails /\ Ends(t, FALSE)
  /\ Rest

\* `if not self.mqtt_client.connected: await self.mqtt_client.connect()'
EnsureConnected(t) ==
  /\ task[t].pc = "start"
  /\ \/ connected /\ Goes(t, "publish", 0) /\ UNCHANGED mqttVars
     \/ ~connected /\ ConnectBegins /\ Goes(t, "connecting", 0)
     \/ ~connected /\ ConnectFails /\ Goes(t, "https", 0)
  /\ Rest /\ UNCHANGED acked

\* connect() returns, after a connection or after ten seconds.
ConnectReturns(t) ==
  /\ task[t].pc = "connecting"
  /\ Goes(t, IF connected THEN "publish" ELSE "https", 0)
  /\ Rest /\ UNCHANGED <<mqttVars, acked>>

\* publish() checks `connected' once, before its attempts.
PublishRefused(t) ==
  /\ task[t].pc = "publish" /\ task[t].tries = 0 /\ ~connected
  /\ Goes(t, "https", 0)
  /\ Rest /\ UNCHANGED <<mqttVars, acked>>

MayPublish(t) ==
  /\ task[t].pc = "publish"
  /\ task[t].tries > 0 \/ connected

Publish(t) ==
  /\ MayPublish(t) /\ PublishSucceeds(task[t].batch)
  /\ Ends(t, TRUE)
  /\ Rest

\* The attempts are the for loop of publish(); then HTTPS has its turn.
PublishFails(t) ==
  /\ MayPublish(t) /\ PublishErrs(task[t].batch)
  /\ IF task[t].tries + 1 < MaxTries
       THEN Goes(t, "publish", task[t].tries + 1)
       ELSE Goes(t, "https", 0)
  /\ Rest /\ UNCHANGED acked

-----------------------------------------------------------------------------
(* _upload_https: one action per outcome of a POST *)

\* 200, 201 or 202, with a JSON body.
HttpsAccepted(t) ==
  /\ task[t].pc = "https"
  /\ cloud' = cloud \cup task[t].batch
  /\ Ends(t, TRUE)
  /\ Rest /\ UNCHANGED <<net, certs, session, outq>>

\* Mutant of HttpsRefused: any reply counts as an upload.
HttpsRefusedIsSuccess(t) ==
  /\ task[t].pc = "https"
  /\ Ends(t, TRUE)
  /\ Rest /\ UNCHANGED mqttVars

\* 401, 413, a TLS error, or no session: no further attempt.
HttpsRefused(t) ==
  /\ task[t].pc = "https"
  /\ Ends(t, FALSE)
  /\ Rest /\ UNCHANGED mqttVars

\* Mutant of HttpsRetry: after the last attempt the count starts over.
HttpsRetryForever(t) ==
  /\ Goes(t, "https", (task[t].tries + 1) % MaxTries) /\ UNCHANGED acked

\* Mutant of HttpsRetry: one attempt too many.
HttpsRetryOnceMore(t) ==
  IF task[t].tries < MaxTries
    THEN Goes(t, "https", task[t].tries + 1) /\ UNCHANGED acked
    ELSE Ends(t, FALSE)

\* An attempt is over without an answer that settles it.
HttpsRetry(t) ==
  IF task[t].tries + 1 < MaxTries
    THEN Goes(t, "https", task[t].tries + 1) /\ UNCHANGED acked
    ELSE Ends(t, FALSE)

\* A timeout, a connection error, another status, a body that is not JSON:
\* the cloud may have taken the readings all the same.
HttpsFails(t) ==
  /\ task[t].pc = "https"
  /\ cloud' \in {cloud, cloud \cup task[t].batch}
  /\ HttpsRetry(t)
  /\ Rest /\ UNCHANGED <<net, certs, session, outq>>

-----------------------------------------------------------------------------
(* telemetry.db, as the acquisition service and the power change it *)

Others ==
  /\ table' \in SUBSET (1 .. MaxReadings)
  /\ skipped' = skipped \cup (table \ table')

AcquisitionCommits ==
  /\ Others /\ Commit
  /\ UNCHANGED <<mqttVars, phase, running, task, acked>>

PowerLoss ==
  /\ Others /\ PowerCut
  /\ ProcessEnds
  /\ UNCHANGED <<net, certs>>

-----------------------------------------------------------------------------

TaskStep(t) ==
  \/ EnsureConnected(t) \/ ConnectReturns(t)
  \/ PublishRefused(t) \/ Publish(t) \/ PublishFails(t)
  \/ HttpsAccepted(t) \/ HttpsRefused(t) \/ HttpsFails(t)

ServiceStep ==
  \/ Start \/ Started \/ Signal \/ Shutdown \/ Kill
  \/ \E t \in Tasks : Spawn(t) \/ TaskStep(t)

NetworkStep ==
  /\ MqttStep
  /\ UNCHANGED <<tableVars, phase, running, task, acked, skipped>>

Next == ServiceStep \/ NetworkStep \/ AcquisitionCommits \/ PowerLoss

Spec == Init /\ [][Next]_vars

\* What the scheduling gives.  asyncio and paho's thread keep running what
\* can run, and the loop comes round again and again; the keepalive ends a
\* session whose broker cannot be reached, and a broker that is asked for
\* long enough takes a message.  Nothing is assumed of the HTTPS endpoint,
\* the network, signals, kills, power or the acquisition service.
FairSpec ==
  /\ Spec
  /\ WF_vars(Started) /\ WF_vars(Shutdown)
  /\ \A t \in Tasks : SF_vars(Spawn(t)) /\ WF_vars(TaskStep(t))
  /\ WF_vars(NetworkStep /\ SessionUp)
  /\ WF_vars(NetworkStep /\ OnDisconnect)
  /\ WF_vars(NetworkStep /\ SessionDown /\ ~net)
  /\ \A payload \in SUBSET (1 .. MaxReadings) :
        SF_vars(NetworkStep /\ Deliver(payload))

-----------------------------------------------------------------------------
(* Properties *)

\* The variables keep their types, tasks exist in the loop only, and no
\* session is up without the network thread.
TypeOK ==
  /\ MqttTypeOK
  /\ table \subseteq Nat /\ expired \subseteq Nat /\ cut \subseteq Nat
  /\ running \in BOOLEAN
  /\ phase \in {"off", "init", "run"}
  /\ task \in [Tasks -> TaskState]
  /\ \A t \in Tasks : task[t].tries < MaxTries
  /\ acked \subseteq Nat /\ skipped \subseteq Nat
  /\ phase # "run" => \A t \in Tasks : task[t] = Idle

\* Uploads overlap, are retried and re-sent by three parties, yet the cloud
\* never holds a reading while an older one is missing, unless that one left
\* telemetry.db first.
CloudHasNoGaps ==
  \A n \in cloud, m \in Ever : m < n => m \in cloud \cup skipped

\* Overlapping tasks, paho's queue, restarts and power losses together change
\* the cloud only as CloudFeed allows: nothing is taken back, nothing arrives
\* that was not committed (main.py:186 reads committed rows), and nothing
\* arrives ahead of an older reading that is still in telemetry.db.
Feed == INSTANCE CloudFeed WITH received <- cloud
ImplementsFeed == Feed!FeedSpec

\* What this process counts as uploaded is in the cloud, or in paho's queue
\* and so lost if the process ends: `True' is not yet delivery.
AckedIsDeliveredOrQueued == acked \subseteq cloud \cup UNION outq

\* The HTTPS endpoint accepts a batch it is sent again and again.
EndpointAnswers == \A t \in Tasks : SF_vars(HttpsAccepted(t))

\* If the HTTPS endpoint answers, a reading that stays among the oldest rows
\* while the service runs reaches the cloud, whatever the MQTT client does.
WindowGetsThrough ==
  EndpointAnswers => \A n \in 1 .. MaxReadings :
    <>[](phase = "run" /\ running /\ n \in Window(table)) => <>(n \in cloud)

\* Every upload task ends, though nobody ever answers: the wait for a
\* connection and the attempts of both transports are bounded.
TasksEnd == \A t \in Tasks : task[t] # Idle ~> task[t] = Idle

\* docs/ARCHITECTURE.md:334, "Uploader catches up on queue": while the
\* service runs and is answered, every reading in telemetry.db reaches the
\* cloud.
CatchesUp ==
  EndpointAnswers => \A n \in 1 .. MaxReadings :
    <>[](phase = "run" /\ running /\ n \in table) => <>(n \in cloud)

\* aws_mqtt_client.py:6, "auto-reconnect": with readings to upload, its
\* certificates and a broker that stays reachable, the client is connected
\* in the end.
MqttReconnects ==
  <>[](phase = "run" /\ running /\ table # {} /\ certs /\ net) => []<>connected
=============================================================================
