# TLA+ models of the MeterHub gateway

MeterHub turns a Raspberry Pi Zero into a gateway between an electricity meter
(Modbus RTU) and a cloud (MQTT, HTTPS).  This directory holds TLA+ models of its
services, the configurations that check them with TLC, and proofs checked with
TLAPS.  Paths of code and documents below are relative to the repository's root.

## The system

| Part | State it keeps | Operations | Talks to |
|---|---|---|---|
| Acquisition service, `acquisition/meterhub_acq/main.py` | `running`, `read_count`, one connection to each database | poll, store, clean up, sleep, shut down | Modbus client (calls), both databases |
| SQLite databases, `common/meterhub_common/sqlite_db.py` | `telemetry.db` (WAL, NORMAL): rows of readings; `state.db` (WAL, FULL): one row `billing_state` | insert, delete old, replace billing, commit, checkpoint | the disk; read by the uploader |
| Uploader service, `uploader/meterhub_uploader/main.py` | `running`, `running_tasks`, counters | fetch, start an upload task, MQTT then HTTPS, heartbeat, shut down | `telemetry.db`, MQTT client, HTTPS uploader |
| MQTT client, `common/meterhub_common/aws_mqtt_client.py` | `connected`, a paho client with its own thread, session and queue | connect, publish with three attempts, callbacks | broker |
| HTTPS uploader, `common/meterhub_common/https_uploader.py` | an aiohttp session | POST with three attempts | cloud |
| OTA manager, `ota/meterhub_ota_manager/__init__.py` | `current_state`, the downloaded file | full update, commit, rollback, pause and resume services | boot manager, systemd, cloud |
| Boot manager, `common/meterhub_common/mender_boot_manager.py` | none; the U-Boot environment and two partitions are its state | read, stage, commit, roll back, write an image, reboot | bootloader (not in the repository) |
| Modbus client, `common/meterhub_common/modbus_client.py` | `connected`, a cache of registers | connect, read with retries, scale | pymodbus, which owns the port and reopens it |
| Meter tester, `installer_ui/meterhub_ui/meter_tester.py` | none: a client per probe | test a connection; scan baud rates, slave ids, devices | Modbus client, on the device the acquisition service uses |
| Installer UI, `installer_ui/meterhub_ui/app.py` | provisioning step and status, configuration in memory and in a file | next step, reset, save, load, connect a network, test the meter, control services | systemd, network manager, meter tester |
| Network manager, `installer_ui/meterhub_ui/network_manager.py` | none; NetworkManager's and wpa_supplicant's stores | connect, scan, status | `nmcli`, `wpa_cli`, `iwlist` |
| systemd units, `*/meterhub-*.service` | start counters, watchdog timers | start, stop, restart, kill | all services |
| Performance package, `performance/` | queues, caches, a connection pool | batch, flush, cache | nothing: no service imports it |
| Others: image signer, meter profiles, QR codes, client SDK, build manager | none on the device | pure functions, schemas, build scripts | - |

What makes them hard:

- **crash and restart**: every service is killed by systemd, the watchdog or the
  power, in the middle of anything.  An orderly stop is a kill more often than
  not: the acquisition loop looks at its flag after a sleep of 60 seconds, and
  systemd sends SIGKILL after 30.
- **two databases, two transactions** for one reading, with different durability.
- **overlapping uploads**: a task every ten seconds that may take minutes, over a
  client whose own thread queues, re-sends and reconnects.
- **one device, two processes**: the acquisition service and the meter tester open
  the same serial port and know nothing of each other.
- **overlapping requests** that truncate, write and read one configuration file in
  threads, while commands stop the whole event loop.
- **stale views**: `connected`, the wall clock of a board without an RTC, the
  U-Boot environment as opposed to the partition the machine runs from.
- **results that are ignored**: commits without rollback, `fw_setenv`, `shutdown`,
  `systemctl`, `wpa_cli`.

## Modules

| Module | Models | Role |
|---|---|---|
| `TelemetryTable` | what `telemetry.db` promises its readers | abstract specification |
| `Acquisition` | acquisition service and both databases | implements `TelemetryTable` |
| `MqttClient` | `AWSIoTMQTTClient` over paho 1.6 | component of `Uploader` |
| `CloudFeed` | what the cloud may rely on, given the table | abstract specification |
| `Uploader` | uploader service, HTTPS uploader; composes `MqttClient` and `TelemetryTable` | implements `CloudFeed` |
| `Gateway` | `Acquisition` and `Uploader` on one machine, with one power supply | composition, proved only |
| `AbPartitions` | what updating through two partitions promises | abstract specification |
| `OtaUpdate` | OTA manager, boot manager, U-Boot environment, bootloader | implements `AbPartitions` |
| `ModbusClient` | `ModbusRTUClient` over pymodbus, for any number of processes | component of `MeterBus` |
| `MeterBus` | `_poll_meter` and the meter tester, each with a client; composes `ModbusClient` | the serial line |
| `NetworkManager` | the commands of a connect request, the iwlist scan | component of `Installer` |
| `Installer` | requests to the installer UI; composes `NetworkManager` | provisioning |
| `LruCache`, `ConnectionPool`, `QueryBatch` | helpers of the performance package | components of `Performance` |
| `Performance` | the three side by side | performance helpers |
| `MCMeterBus`, `MCInstaller`, `MCPerformance` | values and symmetry a configuration cannot write | TLC |
| `*_proofs` | theorems about the module before the underscore | TLAPS |

`Acquisition` and `Uploader` meet at `telemetry.db`.  TLC checks them apart:
`Acquisition` implements `TelemetryTable`, and `Uploader` lets the table change as
`TelemetryTable` allows, so what holds of `Uploader` holds next to any acquisition
service that keeps that promise.  That the two fit is proved in `Gateway_proofs`:
in `Gateway` the table is the one `Acquisition` writes, either service may step
between any two steps of the other, and a power loss ends both at once.  The
product is too large for a configured run (with two readings, one task and a
clock of two values it has five million states); its parts are all checked.

### Acquisition

A reading is its number in `readings`; its row, the billing record and the
uploader's batch hold that number.  One action per database transaction, since
each commits alone and the service is one asyncio task: `PollOk`/`PollFails`
(`_poll_meter`), `InsertReading`/`InsertFails` and `UpdateBilling`/`BillingFails`
(`_store_reading`), `Cleanup`/`CleanupFails`, `Wake` (the sleep and the loop's
condition), `Shutdown`, and from outside `Start`, `Signal`, `Kill`, `Checkpoint`,
`PowerLoss`, `ClockAdvances`.

- `telemetry.db` is a list of versions.  In WAL mode with `synchronous=NORMAL`
  SQLite syncs at checkpoints, so a power loss leaves the last synced contents or
  those of any commit since.  `state.db` uses FULL: a commit is durable.
- A failing statement or commit leaves the service's transaction open with or
  without its change (`working`), and the next commit takes it along: the code
  never calls `rollback()`.
- The clock may come back behind after a power loss, and jumps forward.
- A new reading needs the meter's register to be at least the last one
  (`LastKwh`): meters count up.  This is an assumption about the meter, and the
  energy half of `BillingNeverRegresses` depends on it.

### MqttClient and Uploader

`Spawn` is a round of `run()`: a batch of the oldest rows for a new task.  A
task's program counter follows `_upload_batch`: `EnsureConnected`,
`ConnectReturns`, `PublishRefused`, `Publish`, `PublishFails`, then the outcomes of
a POST, `HttpsAccepted`, `HttpsRefused`, `HttpsFails`.  Each action runs to the
task's next await.  paho's thread has the actions of `MqttStep`, which come
between any two of them: the session comes up and goes down, the callbacks follow,
queued messages are delivered, or taken by a broker whose PUBACK is lost and so
sent again.  `ConnectFails` includes what paho 1.6.1 does at the second
`tls_set_context`: it raises, and `connect()` returns False at once.
`ProcessEnds` lets any subset of what was on its way arrive.

Messages are sets of readings, so a queue of paho is a set of sets: two equal
payloads of it differ in nothing the properties see.  The certificates may be
installed while the service runs; until then `set_tls` raises before paho has a
context, so a later `connect()` of a task can still be the first to get through.
The heartbeat is left out: QoS 0, its result is not used.

### OtaUpdate

Each `fw_setenv` is an action that succeeds, fails, or times out with or without
its write (`SetEnv`), and power may fail between any two.  `BeginUpdate` to `Reboot`
is `perform_full_update`; a failing step goes to `ResumeServices`.
`CommitUpdate`, `CommitClears` and `CommitCounts` are `commit_update`, which the
device's startup calls after a boot (`docs/PHASE_5_OTA_STRATEGY.md:36-46`; the
caller is not in the repository).  `Boot` is the bootloader as that document
describes it (lines 118-130): try the staged partition while `bootcount` is below
three, then fall back.  An image is good (it boots), bad, or partial; the
verification tells neither good from bad, and the manifest is taken to carry
the hash or the signature that reveal a corrupt download.

### ModbusClient and MeterBus

Everything a client keeps is a function of the process that holds it: the service
and the tester.  `connected` is the code's flag, `port` what pymodbus holds.  The
flag is not cleared when the adapter goes: `Unplug` makes the port `lost`, pymodbus'
own task reopens it (`Reopens`), and until then every read fails.  A second process
cannot open a port the first has open (`ConnectRefused`); it can get in while the
first has lost it.  A read succeeds only if the meter answers at the client's
setting; it may fail whenever something else is wrong, another process on the line
included.  A wrong frame is never taken for an answer: pymodbus checks its CRC and
the device id.

`TryConnects` to `BackoffEnds` are `_read_with_retry`: three attempts and, after the
first two, the sleeps of `BACKOFF_MS`; `RegisterDone` is the end of `read_register` and
the loop of `read_all_registers`.  `spent` adds up what exchanges and sleeps take.
`PollBegins` to `PollEnds` are `_poll_meter`; `ServiceRestarts` is a stop or a kill with
the start after it, at any moment.  The tester's four scans differ in the settings
they go through (`FirstOf`, `MoreToProbe`), in the registers they read (`Depth`), and
in that the slave-id scan stops at the first hit.  A setting stands for a baud rate,
a slave id or a device, and `Answers` is where the meter is.  The fifth mode, `with`,
is the client used as a context manager, whose `__aenter__` ignores a failed
`connect()`.

`Raw` and `Decode` are the integer branches of `_read_raw_register` and
`_apply_scaling`, with the number of values of a word as a parameter.

### NetworkManager and Installer

A handler of the UI runs until an await that really suspends.  Only file
operations do (aiofiles, in a thread); `update_provisioning` is awaited but never
suspends, so the wizard's handlers are one action each.  A save is `SaveOpens`
(the file is truncated), `SaveFlushes` (its text is written, by `close`), `SaveEnds`
(memory, then the wizard); `SaveFails` is a full disk.  A load is `LoadReads` and
`LoadEnds`.  The file is the configuration it begins with and its length: the text
of a shorter configuration over a longer one leaves a tail, and `json.loads` refuses
it (`Parsed`).

`NetBegins` to `WpaConnects` are the commands of a connect request.  Each is a
`subprocess.run` in an async function, so between the first and the last no other
handler continues (`Blocked`), though threads do.  (Other endpoints run commands
too, `app.py:117`; connect requests are the longest and stand for them.)
`nmcli connection delete` takes the name of a connection, which may be to another
network than the one of that name, so `NmDeletes` may lose any one connection.

The program never calls fsync, so the file has two contents: `file`, which every
process reads, and `disk`, what the kernel wrote back last (`WriteBack`, at any
time).  `Restart` is a crash of the process or `systemctl restart` of the UI through
its own endpoint: the wizard and the memory start anew, `file` stays.  `PowerLoss`
leaves `disk`, which may be an older configuration or the empty file.  NetworkManager
writes its own connections and is taken to do so durably.

`ScanIwlist` goes through the lines of a scan as `_scan_iwlist` does (`ParseLine`,
`ParseLines`), and answers nothing if one of them raises (`Broken`).  `Printed` is
the order in which iwlist prints a cell for the drivers of the device: frequency,
quality or level, and only then the ESSID.  `ListedLate` and `CellsListed` say what
comes of the cells, without a loop.
`FreqToChannel`, `FrequencyMhz`, `SignalStrength` and
`SignalRatio` are the conversions, a frequency being a number of thousandths.

### LruCache, ConnectionPool, QueryBatch and Performance

No service imports the performance package, so nothing here is composed with the
rest; a behaviour of `Performance` exercises one helper.  The three caches are the
same code: `_access_times` by the wall clock, which `ClockBack` steps back; `older`
remembers in which order the keys were really used.

The pool creates a lock and never takes it, and its connections may cross threads
(`check_same_thread=False`), so every operation on the list, on the set and on a
connection is an action: in `get_connection` the test (`GetTests`), the creation
(`GetCreates`, `GetFails`) or the pop (`GetPops`, `GetFindsNone`: IndexError), and
the entry in `_in_use`; in `return_connection` the two tests, the removal
(`ReturnRemoves`, with its KeyError), the append or the close; in `clear` each round
of the loop, which goes by an index into a list that others change
(`ClearFetches`, `ClearCloses`), and the two that empty.  One such operation of
CPython is atomic.  A connection is what `id()` gives: the id of one that nobody
refers to is given again.  `doomed`, `escaped` and `late` are histories for the
properties.
Callers give back what they got, once.  A batch that fails keeps what was executed
and forgets the rest (`BatchFails`).

## Runs

| Run | Checks | Result |
|---|---|---|
| `acquisition` | `TypeOK`, `BillingBacked`, `BillingNeverRegresses`, `NoSilentLoss`, `ImplementsTable` | hold |
| `acquisition_power_loss` | `PowerLosesOneReading` | violated |
| `uploader` | `TypeOK`, `CloudHasNoGaps`, `AckedIsDeliveredOrQueued`, `ImplementsFeed` | hold |
| `uploader_live` | `WindowGetsThrough`, `TasksEnd` | hold |
| `uploader_catches_up` | `CatchesUp` | violated |
| `uploader_reconnects` | `MqttReconnects` | violated |
| `ota_update` | `TypeOK`, `ActiveBootable`, `CommitsWhatRuns`, `ImplementsAb`, `BootEnds` | hold |
| `ota_inactive` | `InstallsToInactive` | violated |
| `ota_services` | `ServicesComeBack` | violated |
| `meter_bus` | `TypeOK`, `ReadingBounded`, `NeverStranded`, `PortReleased`, `ScanSound`, `DecodedInTwosComplement`, `ScanComplete`, `TestReturns`, `ReadingsResume` | hold |
| `installer` | `TypeOK`, `Agreement`, `WizardConsistent`, `WifiDecoded`, `ScanListsCells`, `NmTrueIsSaved`, `RequestsEnd` | hold |
| `performance` | `TypeOK`, `CacheBounded`, `NotShared`, `NeverMoreThanUsers`, `HeldIsOpen`, `NoneLost`, `OnceInOrder`, `EvictsOldest` | hold |

What they show:

- **Billing.**  `BillingBacked`: the record stands for a reading that was committed
  to `telemetry.db`, whatever fails or is killed between the two transactions.
  `BillingNeverRegresses`: it never goes back to an earlier reading or a smaller
  total, although old inserts are committed late.
- **Telemetry.**  `NoSilentLoss`: a committed row goes by expiry or by a power loss
  that takes unsynced commits, never otherwise.  `ImplementsTable`: rows are added
  in the order of their readings even when a failed insert commits with the next
  one, and power losses take a suffix.  `PowerLosesOneReading` is what
  `docs/specifications/PRODUCTION_SPEC.md:213` says ("Can lose last minute"), and
  it is wrong: NORMAL does not sync at commits.
- **Upload.**  `CloudHasNoGaps`: although tasks overlap, retry, and paho re-sends,
  the cloud has no reading with an older one missing that was in the table all
  the time, because every batch is the oldest rows.  `AckedIsDeliveredOrQueued` says
  what a counted upload is worth: delivered, or still in a queue that a restart
  empties.  `ImplementsFeed`: of the table and the cloud together nothing else can
  be seen than that rows come and go as `TelemetryTable` says and that the cloud's
  copy grows by committed readings, older ones first.  `WindowGetsThrough` and `TasksEnd` hold thanks to HTTPS.  `CatchesUp`
  does not: rows are not removed after an upload, so the oldest batch is sent
  again and again, and readings behind it wait until retention removes it.
  `MqttReconnects` fails on the second `connect()`.
- **Updates.**  `ActiveBootable`, `CommitsWhatRuns` and `BootEnds` hold under every
  cut between two environment writes, if the environment can be read, and so does
  `ImplementsAb`: the partition to fall back to is never written to, and it changes
  only to the one the device has come up from.  When
  `fw_printenv` fails, `_get_active_partition` answers A; with
  `EnvReadable = FALSE` TLC finds an image written over an active B.
  `InstallsToInactive` fails after a commit that did not happen: the running
  partition then is not `mender_boot_part`, and `stage_image` picks it.
  `ServicesComeBack` fails when the reboot does.
- **Serial line.**  A client whose flag is stale is not stranded
  (`NeverStranded`): pymodbus holds the port or is reopening it, so once the adapter
  and the meter are back and no test runs, every poll gives a reading again
  (`ReadingsResume`).  A test always ends (`TestReturns`) and leaves no port behind
  (`PortReleased`).  A scan names only settings at which the meter is (`ScanSound`),
  and all it should, unless something disturbed it (`ScanComplete`); a service that
  polls meanwhile is such a disturbance.  `ReadingBounded` gives the longest a
  reading can take: per register three timeouts and the first two sleeps.  The
  third entry of `BACKOFF_MS`, 2000 ms, is never slept, unlike what
  `docs/project/PHASE_1_COMPLETE.md:152` lists; the 13 registers of the Schneider
  profile can take about 48 seconds, under one timestamp and a polling interval of 60.
- **Provisioning.**  `Agreement`: a configuration acknowledged to a save that met no
  other request on its way is in the file and is what is served, until the next save
  begins, whatever fails in between and wherever the process ends.  A power cut is
  another matter: the acknowledgement does not wait for the disk, so the promise
  holds through it only if the kernel wrote the file back before; otherwise the device
  comes up with the configuration before, or with an empty file and none.  The other
  condition is needed too: two saves that overlap can leave a file that does not parse,
  a save that fails or a crash in the middle of one loses the old configuration, and a
  load that began before a save
  puts the old one back in memory.  `WizardConsistent` holds although each save
  returns the wizard to "in progress"; the converse of its second part does not
  (a save after completion leaves step 5 in progress), and a wizard completes
  without any configuration when its steps are just clicked through.
- **Wi-Fi.**  A True from `nmcli` stands for a saved connection (`NmTrueIsSaved`);
  after a refusal the request goes on with `wpa_cli`, whose results nobody reads, and
  is answered True even for a wrong password, with the old connection deleted: that
  nothing brings it back is no property, since no document promises it.  Requests end
  although every command stops the event loop (`RequestsEnd`).  Channels and strengths
  come out right (`WifiDecoded`) except channel 14.  `ScanListsCells` says what the
  fallback to iwlist is worth: no name is lost, whatever cells there are, but a network
  begins at a line that iwlist prints last, so an "Unknown" comes first and the
  strength, channel and band of each cell stand under the name before it; and one line
  that cannot be taken apart costs the whole list.
- **Performance helpers.**  Without its lock the pool still gives no connection to
  two users (`NotShared`).  It does give closed ones, by one window: a connection
  that a `clear()` has fetched and another thread then takes out of the list before
  it is emptied (`HeldIsOpen` says there is no other way).  It can outgrow `pool_size`,
  by no more than its users, though others return connections while one is being
  created (`NeverMoreThanUsers`).  It forgets to close a connection only if that was
  given back while a `clear()` was at work (`NoneLost`).  `EvictsOldest` holds while the clock is never stepped back.
  A batch that fails executes nothing twice and nothing out of order
  (`OnceInOrder`), and does forget queries.

### Bounds

| Constant | Code | Runs | Why it is enough |
|---|---|---|---|
| `CleanupEvery` | 60 | 2 | clean-ups that run and rounds without |
| `Retention` | 7 days | 0 steps of the clock | readings on either side of the cut-off, and one on it |
| `MaxReadings` (acquisition) | - | 3 | one stuck in an open transaction, one committed after it, one expired |
| `MaxClock`, `MaxKwh` | - | 2, 1 | a clock that steps forward and back; totals that grow or stay |
| `BatchLimit` | 100 | 1 | with two readings, a queue longer than a batch |
| `MaxTries` | 3 | 2 | a first and a last attempt |
| `Tasks` | unbounded | 2, 1 for liveness | one upload overtaking another |
| `MaxQueued` | - | 2 | a duplicate behind a newer message |
| `MaxBoots` | 3 | 3 | the code's value |
| `NumRegs` | 13 | 2 | a critical register and one before it, each with its own retries |
| `Backoff`, `Timeout`, `Delays` | 100, 500, 2000 ms; 1000 ms | 1, 2, 4; 1; {1} | entries that differ; every exchange takes the longest time |
| `NumSettings`, `Answers` | 6 baud rates, 32 ids | 3, the last two | a miss before a hit and a hit after it |
| `LastStep` | 5 | 2 | a first, a middle and a last step; the proof holds for any |
| `Requests` | unbounded | 2 | a save against a save, a load, a connect request |
| `Configs`, `Size` | - | 2 of lengths 1 and 2 | a longer text under a shorter one, a partly written one |
| `SSIDs` | - | 2 | the network asked for and another; in a scan, two networks or one twice |
| cells of a scan (in `ScanListsCells`) | - | up to 2, values -60 and 5180, each line as it should be or broken | a cell with one before it and one with one after; the proof has no bound |
| `Keys`, `CacheSize` | -, 10 or 20 | 3, 2 | a full cache and a key that is not in it |
| `MaxClock` | - | 8 | every key used more than once, after a step back too |
| `Threads`, `PoolSize` | -, 3 | 3, 1 | two threads that see the same room, and a third that clears |
| `Conns`, `MaxClears` | - | 4, 1 | one connection for each thread and one the pool is left with; two `clear()` at once are in the proof |
| `MaxQueries` | 50 a batch | 4 | two batches of two, the first failing at either |

`MaxClock` of `Performance` and `MaxClears`, `MaxQueries` are guards of `Ticks`,
`ClearBegins` and `AddQuery`; the proofs hold for every value of them.

Run `performance` uses the symmetry of the threads and of the connections, which
its module tells apart nowhere; it checks no liveness.
`Tasks` are not symmetric in the configurations: the symmetry would be sound for
the safety run only, which does not need it.  `MaxQueued` bounds the size of paho's
queue as a guard of `Queue`; batches of one of two readings make two messages at
most, so it blocks nothing.  Deadlock is checked in every
run.

### Fairness

`Uploader!FairSpec`: asyncio and paho's thread keep running what can run (weak
fairness of tasks, `Started`, `Shutdown`, callbacks); `Spawn` is strongly fair
because the loop comes round every ten seconds whatever the tasks do; a message
that can be delivered again and again is delivered.  The network, signals, kills,
power and the acquisition service are free.  That the HTTPS endpoint accepts what
is sent to it again and again is not part of the specification but a premise of
`WindowGetsThrough` and `CatchesUp` (`EndpointAnswers`): without it no reading need
ever arrive, and with it `TasksEnd` would not test the bounded attempts.
`OtaUpdate!FairSpec`: the bootloader and a running manager go on, and a reboot that
is asked for again and again works.
`MeterBus!FairSpec`: the event loops of both processes run (weak fairness of
`ServiceStep` and of `TesterStep`), and pymodbus reopens a lost port as long as no
other process has it.  The line, the service's restarts and the beginning of scans
are free; that the line stays up in the end is a premise of `ReadingsResume`.
`Installer!FairSpec`: strong fairness of each request, since commands of other
requests stop the event loop again and again but each ends by its timeout, and
asyncio's queue is first in, first out.  `Performance` states safety only.

## Proofs

For all values of the constants that satisfy the named assumptions:

| Theorem | States |
|---|---|
| `Acquisition_proofs`: `TypeCorrect`, `BillingIsBacked`, `BillingIsMonotone`, `NothingSilentlyLost` | the properties of run `acquisition` |
| `Acquisition_proofs`: `TableIsImplemented` | `Spec => Table!TableSpec`, the refinement |
| `Uploader_proofs`: `TypeCorrect`, `NoGaps`, `AckedIsSafe` | the invariants of run `uploader` |
| `Uploader_proofs`: `FeedIsImplemented` | `Spec => Feed!FeedSpec`, the refinement |
| `Gateway_proofs`: `AcquisitionRuns`, `UploaderRuns`, `CloudIsFed` | `GatewaySpec` implies `Acquisition`'s `Spec`, `Uploader`'s `Spec` and `CloudFeed`'s |
| `Gateway_proofs`: `OnlyMeasuredIsUploaded`, `BillingReachesCloud` | what relates the two services: the cloud holds readings the meter gave, and has the billed one before any later one unless that left the table |
| `OtaUpdate_proofs`: `TypeCorrect`, `CommitsAreOfWhatRuns` | safety of run `ota_update`, without any condition |
| `OtaUpdate_proofs`: `NeverBricked`, `AbIsImplemented` | `ActiveBootable` and the refinement `Ab!AbSpec`, if `EnvReadable = TRUE` |
| `MeterBus_proofs`: `TypeCorrect`, `NoClientStranded`, `TestsReleasePort`, `ScansAreSound`, `ScansAreComplete`, `ReadingsAreBounded`, `ReadingsDecoded` | the safety of run `meter_bus` |
| `MeterBus_proofs`: `WordsDecoded` | `Decode` is two's complement for words of any even number of values |
| `NetworkManager_proofs`: `CellsAreListed` | `CellsListed` for any number of cells, with any names and numbers, broken lines included |
| `Installer_proofs`: `TypeCorrect`, `AcknowledgedIsServed`, `WizardIsConsistent`, `NmTrueMeansSaved`, `WifiIsDecoded`, `ScannedCellsListed` | the safety of run `installer` |
| `Performance_proofs`: `TypeCorrect`, `CachesAreBounded`, `OldestEvicted`, `ConnectionsNotShared`, `HeldConnectionsOpen`, `PoolIsBounded`, `NoConnectionLost`, `BatchesInOrder` | the properties of run `performance` |

Every invariant and every action property of the passing runs is proved, and so
are all three refinements.

The inductive invariants and why they are needed:

- `Acquisition`: the properties speak of the current rows, but a power loss brings
  back any version and a commit the whole of `working`.  The invariant therefore
  bounds every version and `working` by what was ever committed, orders them (each
  differs from the next by newer readings and by expired ones), and places the
  reading in hand after all of them.
- `Uploader`: the cloud is gapless because everything on its way to it is.  The
  invariant says so of each task's batch and each message of paho's queue, and
  that what left the table is recorded in `skipped`.  The refinement adds that no
  step both changes the table and brings readings into the cloud but a power loss,
  which adds no rows (`CloudGrows`).
- `Gateway`: a step of `Acquisition` that is no power loss shows readers one commit
  or nothing (`CommitsOnly`), a power loss is `TelemetryTable`'s (`PowerCuts`), and
  there are never more than `MaxReadings` readings; that is all `Uploader` assumes
  of the table.  The assumptions on `Uploader`'s constants are hypotheses of these
  theorems.
- `OtaUpdate`: the target of a write is not active (`TargetNotActive`), and when a
  commit is decided, what is staged is what came up (`CommitsWhatBooted`).  The
  first needs an environment that can be read.  `CommitsWhatRuns` does not: that
  what is staged runs when a commit is decided (`RunsWhatIsStaged`) depends on no
  answer of `fw_printenv`.
- `MeterBus`: that the flag and the port agree needs where each caller is: nobody
  waits in `connect` with the flag set, and an idle tester has none (`PortInv`).  A
  sound scan needs more than its findings: a register of the probe at hand is
  `ok` only if its setting is in `Answers` (`SoundInv`).  A complete one needs that
  while nothing has disturbed the scan, its findings are those of the settings
  before the one at hand, and all registers of this one so far were read if the
  meter is there (`CompleteInv`).  The bound on a reading
  follows from a bound for every point of it: what finished registers can have
  taken, plus the attempts and sleeps of the present one (`SpentInv`).
- `Installer`: `Agreement` speaks of the end of a save, and its proof of its middle:
  while a save is alone the file is truncated and nobody else is on it, or it holds
  the save's text and every load under way has read that (`AloneInv`); the same of
  loads once it is acknowledged (`SafeInv`).  A power loss keeps it because it either
  ends the promise or changes nothing in the file.
- `NetworkManager`: `ParseLines` is a recursive function, and `CellsAreListed` is about
  any number of cells.  The induction is over a set of numbers of cells, by the
  library's theorem on minima in well-founded orders, which needs no operator
  parameter (`SetInduction`); the hypothesis is that after n cells, of three lines
  each, n networks are listed, each with the numbers of its cell, and the one at hand
  has the name of cell n and nothing else (`CellsRead`).
- `Performance`: that no two threads hold one connection is inductive with the types.
  That a closed one comes from one window only needs that the closed ones in the list
  are doomed, and that what a `clear()` is about to close, once in a thread's hands,
  was taken from under it (`ListOpen`, `HandsDoomed`).  Counting users, a thread is one
  from the moment it has found the list empty (`Users`), so a connection given back
  meanwhile does no harm.  That none is lost needs that what a `clear()` has passed in
  the list is closed or was appended since (`PassedInv`).  Evictions are
  of the oldest because access times order the keys as their uses do, as long
  as the clock was not stepped back (`AgeInv`).

Only model-checked: liveness under fairness (`WindowGetsThrough`, `TasksEnd`,
`BootEnds`, `TestReturns`, `ReadingsResume`, `RequestsEnd`), which is beyond this
prover's reach together with `ENABLED`.

## Not modelled

- **Supervision by systemd.**  Kills and restarts are actions of `Acquisition`,
  `Uploader`, `MeterBus` and `Installer`.  The timers are not: `WatchdogSec=60` for
  services that send no `WATCHDOG=1`, and restart limits of a few starts in five
  minutes, are values of three unit files whose meaning is systemd's.
- **Small differences** from the code that no property can tell: a row of a batch that
  cannot be parsed is skipped (`uploader/meterhub_uploader/main.py:216-219`), which no row
  the acquisition service writes with the shipped profiles is; paho reports success
  without a socket when twenty messages are in flight, `PublishSucceeds` only with one;
  power is not cut during the boot of a good image, with the boot count already
  raised (an image that fails raises it the same way); a probe reads up to eight preferred registers (`Depth` takes them all);
  `Connects` does not look at who else has the port, which only adds behaviours.
- **Uploader's heartbeat**: QoS 0, its result is not used, at most one is lost.
- **Two updates at once**: nothing in the repository starts one; `OtaUpdate` runs one
  at a time.
- **Modbus client**: the register cache (no caller enables it), floating-point
  registers, scale and offset.  The profiles it reads from are validated once, when
  loaded; a profile without `totalizer_kwh` or `instant_kw`, such as the flow meter's,
  makes every poll fail by `_poll_meter`'s own check, which `Critical` models.
- **Installer UI**: the endpoints that display something, the HTML page, the shutdown
  endpoint (it answers and does nothing) and the registration file, which nobody
  reads.  Of the network manager, the status queries and the `nmcli` scan, which
  splits one line into fields.
- **Performance package**: metrics, monitors, lazy importers, time-to-live caches
  and power settings.  Nothing imports them, and no step of theirs relies on state
  another one left.
- **Left out for good**: the image signer (cryptography; `OtaUpdate` uses its
  verdict), data models and meter profiles (schemas), QR codes (rendering), the client
  SDK (a stateless REST wrapper) and the build manager (scripts that run on a
  developer's machine).

What could come next: an abstract specification of the configuration store that
`Installer` implements for clients that wait for each answer; one of the serial
line for processes that open it in turn.
