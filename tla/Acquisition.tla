---------------------------- MODULE Acquisition ----------------------------
(***************************************************************************)
(* The acquisition service (acquisition/meterhub_acq/main.py) and the two  *)
(* SQLite databases it writes (common/meterhub_common/sqlite_db.py).       *)
(*                                                                         *)
(* The service is one asyncio task, so nothing runs between two of its     *)
(* awaits; what can come between is a kill, a power loss, a failing        *)
(* database call and the passage of time.  A round of its loop is          *)
(*                                                                         *)
(*    poll -> insert -> bill -> [clean] -> sleep -> poll ...               *)
(*                                                                         *)
(* with one action per database transaction, because each commits alone.   *)
(*                                                                         *)
(* Readings are numbered in the order they are taken: reading n is         *)
(* readings[n], and a database holds the numbers of its rows.              *)
(*                                                                         *)
(*   clock      datetime.utcnow(), in units of the model                   *)
(*   readings   every reading taken so far: when (at) and what (kwh)       *)
(*   pc         where the service is; "off" when no process runs           *)
(*   running    self.running                                               *)
(*   hand       the reading being stored, 0 when there is none             *)
(*   readCount  self.read_count                                            *)
(*   versions   telemetry.db: the committed contents a power loss may      *)
(*              leave, the last being the contents every process reads.    *)
(*              synchronous=NORMAL in WAL mode syncs at checkpoints only,  *)
(*              so each commit since the last checkpoint is a version.     *)
(*   working    telemetry.db as the service's own connection sees it;      *)
(*              differs from the last version in an open transaction       *)
(*   billing    state.db: the reading in billing_state, 0 for no row.      *)
(*              synchronous=FULL: a commit that returned is durable.       *)
(*   expired, cut   history: rows the clean-up removed, rows power losses  *)
(*              took back                                                  *)
(***************************************************************************)
EXTENDS Naturals, Sequences

CONSTANTS
  CleanupEvery,   \* rounds between clean-ups: 60 in run()
  Retention,      \* retention_days of TelemetryDatabase
  \* Bounds of the model only.
  MaxReadings, MaxClock, MaxKwh

ASSUME AcquisitionAssumption ==
  /\ CleanupEvery \in Nat \ {0}
  /\ Retention \in Nat
  /\ MaxReadings \in Nat /\ MaxClock \in Nat /\ MaxKwh \in Nat

VARIABLES clock, readings,
          pc, running, hand, readCount,
          versions, working, billing,
          expired, cut

ghostVars == <<expired, cut>>
vars == <<clock, readings, pc, running, hand, readCount,
          versions, working, billing, expired, cut>>

Reading == [at : Nat, kwh : Nat]
Pc == {"off", "poll", "insert", "bill", "clean", "sleep", "stop"}

\* What a SELECT on telemetry.db returns.
rows == versions[Len(versions)]

\* The version list after a commit; one that changes nothing adds no version.
Committed(contents) ==
  IF contents = rows THEN versions ELSE Append(versions, contents)

\* Everything up to the last commit has reached the disk.
Synced == <<rows>>

\* cleanup_old_readings: timestamp_utc < utcnow() - retention_days.
Old(n) == readings[n].at + Retention < clock

Init ==
  /\ clock = 0 /\ readings = <<>>
  /\ pc = "off" /\ running = FALSE /\ hand = 0 /\ readCount = 0
  /\ versions = <<{}>> /\ working = {} /\ billing = 0
  /\ expired = {} /\ cut = {}

-----------------------------------------------------------------------------
(* The wall clock and systemd *)

\* Time passes, or NTP steps a clock that was behind.
ClockAdvances ==
  /\ \E t \in clock + 1 .. MaxClock : clock' = t
  /\ UNCHANGED <<readings, pc, running, hand, readCount,
                 versions, working, billing, ghostVars>>

\* Mutant of Start: the schema set-up re-creates billing_state.
StartForgetsBilling ==
  /\ pc = "off"
  /\ pc' = "poll" /\ running' = TRUE /\ billing' = 0
  /\ UNCHANGED <<clock, readings, hand, readCount, versions, working, ghostVars>>

\* systemd starts the unit; the profile loads and both databases open.  A
\* start that fails leaves the process off and is not a step.
Start ==
  /\ pc = "off"
  /\ pc' = "poll" /\ running' = TRUE
  /\ UNCHANGED <<clock, readings, hand, readCount,
                 versions, working, billing, ghostVars>>

\* handle_signal: only a flag, read at the top of the loop.
Signal ==
  /\ pc # "off" /\ running
  /\ running' = FALSE
  /\ UNCHANGED <<clock, readings, pc, hand, readCount,
                 versions, working, billing, ghostVars>>

\* The process is gone, and with it everything it held in memory.
ProcessEnds ==
  /\ pc' = "off" /\ running' = FALSE
  /\ hand' = 0 /\ readCount' = 0

\* SIGKILL: TimeoutStopSec, the watchdog or the OOM killer.  What was
\* committed stays in the page cache; the open transaction is gone.
Kill ==
  /\ pc # "off"
  /\ ProcessEnds
  /\ working' = rows
  /\ UNCHANGED <<clock, readings, versions, billing, ghostVars>>

-----------------------------------------------------------------------------
(* _poll_meter *)

\* The meter's register only grows: a poll finds at least what the last found.
LastKwh == IF readings = <<>> THEN 0 ELSE readings[Len(readings)].kwh

PollOk ==
  /\ pc = "poll" /\ Len(readings) < MaxReadings
  /\ \E k \in LastKwh .. MaxKwh :
       readings' = Append(readings, [at |-> clock, kwh |-> k])
  /\ hand' = Len(readings) + 1
  /\ pc' = "insert"
  /\ UNCHANGED <<clock, running, readCount,
                 versions, working, billing, ghostVars>>

\* `if self.read_count % 60 == 0' follows every round, stored or not.
AfterStore(count) == IF count % CleanupEvery = 0 THEN "clean" ELSE "sleep"

\* Mutant of PollFails: `if reading' is dropped and None is stored.
PollFailsStoresNone ==
  /\ pc = "poll"
  /\ pc' = "insert"
  /\ UNCHANGED <<clock, readings, running, hand, readCount,
                 versions, working, billing, ghostVars>>

\* Mutant of PollFails: a failed poll answers with the last good reading.
PollFailsRepeats ==
  /\ pc = "poll" /\ readings # <<>>
  /\ hand' = Len(readings) /\ pc' = "insert"
  /\ UNCHANGED <<clock, readings, running, readCount,
                 versions, working, billing, ghostVars>>

\* Not connected, or a critical register is missing: None.
PollFails ==
  /\ pc = "poll"
  /\ pc' = AfterStore(readCount)
  /\ UNCHANGED <<clock, readings, running, hand, readCount,
                 versions, working, billing, ghostVars>>

-----------------------------------------------------------------------------
(* _store_reading: telemetry first, then billing, then the count *)

\* A commit takes with it whatever an earlier failed commit left open.
CommitTelemetry(contents) ==
  /\ working' = contents
  /\ versions' = Committed(contents)
  /\ expired' = expired \cup (rows \ contents)
  /\ cut' = cut

\* _store_reading returns, and the reading with it.
EndStore(count) ==
  /\ hand' = 0 /\ readCount' = count
  /\ pc' = AfterStore(count)

\* A failing statement leaves the open transaction as it was; a failing
\* commit leaves the statement's effect in it, unless SQLite rolled back.
\* The code itself never rolls back.
TelemetryFails(contents) ==
  /\ working' \in {working, contents, rows}
  /\ UNCHANGED <<versions, ghostVars>>

InsertReading ==
  /\ pc = "insert"
  /\ CommitTelemetry(working \cup {hand})
  /\ pc' = "bill"
  /\ UNCHANGED <<clock, readings, running, hand, readCount, billing>>

\* Mutant of InsertFails: the exception is swallowed before the billing update.
InsertFailsBills ==
  /\ pc = "insert"
  /\ TelemetryFails(working \cup {hand})
  /\ pc' = "bill"
  /\ UNCHANGED <<clock, readings, running, hand, readCount, billing>>

InsertFails ==
  /\ pc = "insert"
  /\ TelemetryFails(working \cup {hand})
  /\ EndStore(readCount)
  /\ UNCHANGED <<clock, readings, running, billing>>

UpdateBilling ==
  /\ pc = "bill"
  /\ billing' = hand
  /\ EndStore(readCount + 1)
  /\ UNCHANGED <<clock, readings, running, versions, working, ghostVars>>

\* What a failed REPLACE leaves open, the next REPLACE overwrites before it
\* commits, and no other connection sees it: it is not part of the state.
BillingFails ==
  /\ pc = "bill"
  /\ EndStore(readCount)
  /\ UNCHANGED <<clock, readings, running,
                 versions, working, billing, ghostVars>>

-----------------------------------------------------------------------------
(* _cleanup_databases, the sleep and shutdown *)

\* Mutant of Kept: the cut-off itself is deleted as well.
KeptOffByOne == {n \in working : readings[n].at + Retention > clock}

Kept == {n \in working : ~Old(n)}

Cleanup ==
  /\ pc = "clean"
  /\ CommitTelemetry(Kept)
  /\ pc' = "sleep"
  /\ UNCHANGED <<clock, readings, running, hand, readCount, billing>>

CleanupFails ==
  /\ pc = "clean"
  /\ TelemetryFails(Kept)
  /\ pc' = "sleep"
  /\ UNCHANGED <<clock, readings, running, hand, readCount, billing>>

\* The sleep ends and `while self.running' is evaluated.
Wake ==
  /\ pc = "sleep"
  /\ pc' = IF running THEN "poll" ELSE "stop"
  /\ UNCHANGED <<clock, readings, running, hand, readCount,
                 versions, working, billing, ghostVars>>

\* Both connections close: an open transaction is rolled back, and the
\* checkpoint is PASSIVE, so it may do nothing.
Shutdown ==
  /\ pc = "stop"
  /\ ProcessEnds
  /\ working' = rows
  /\ versions' \in {versions, Synced}
  /\ UNCHANGED <<clock, readings, billing, ghostVars>>

-----------------------------------------------------------------------------
(* What happens to telemetry.db from outside the service *)

\* SQLite's automatic checkpoint, or the uploader closing its connection.
Checkpoint ==
  /\ Len(versions) > 1
  /\ versions' = Synced
  /\ UNCHANGED <<clock, readings, pc, running, hand, readCount,
                 working, billing, ghostVars>>

\* Power fails and returns: SQLite recovers one of the versions.  There is
\* no RTC, so the clock may come back behind.
PowerLoss ==
  /\ \E i \in 1 .. Len(versions) :
       /\ versions' = <<versions[i]>>
       /\ working' = versions[i]
       /\ expired' = expired \ versions[i]
       /\ cut' = cut \cup (rows \ versions[i])
  /\ ProcessEnds
  /\ clock' \in 0 .. clock
  /\ UNCHANGED <<readings, billing>>

-----------------------------------------------------------------------------

Round == \/ PollOk \/ PollFails
         \/ InsertReading \/ InsertFails
         \/ UpdateBilling \/ BillingFails
         \/ Cleanup \/ CleanupFails
         \/ Wake \/ Shutdown

Outside == \/ ClockAdvances \/ Start \/ Signal \/ Kill
           \/ Checkpoint \/ PowerLoss

Next == Round \/ Outside

Spec == Init /\ [][Next]_vars

-----------------------------------------------------------------------------
(* Properties *)

\* The variables keep their types, and a reading is in hand exactly while it
\* is being stored.
TypeOK ==
  /\ clock \in Nat
  /\ readings \in Seq(Reading)
  /\ pc \in Pc /\ running \in BOOLEAN
  /\ hand \in 0 .. Len(readings) /\ readCount \in Nat
  /\ hand # 0 <=> pc \in {"insert", "bill"}
  /\ versions \in Seq(SUBSET (1 .. Len(readings))) /\ versions # <<>>
  /\ working \in SUBSET (1 .. Len(readings))
  /\ billing \in 0 .. Len(readings)
  /\ expired \in SUBSET (1 .. Len(readings))
  /\ cut \in SUBSET (1 .. Len(readings))

\* The billing record is never invented or ahead of the telemetry: its
\* reading was committed to telemetry.db first, and is there still unless
\* the clean-up or a power loss took it.
BillingBacked == billing \in {0} \cup rows \cup expired \cup cut

\* However the service is killed and restarted, whatever fails and is
\* committed late, billing_state never goes back to an earlier reading nor
\* to a smaller energy total.
BillingNeverRegresses ==
  [][/\ billing' >= billing
     /\ billing # 0 => readings'[billing'].kwh >= readings[billing].kwh]_vars

\* A committed reading leaves telemetry.db only once it is older than the
\* retention period, or because power failed before it was checkpointed.
NoSilentLoss ==
  [][\A n \in rows \ rows' :
        Old(n) \/ (pc' = "off" /\ n \notin versions[1])]_vars

\* docs/specifications/PRODUCTION_SPEC.md:213 says of telemetry.db "Can lose
\* last minute", one reading: a power loss takes at most one committed row.
PowerLosesOneReading == [][\A m, n \in cut' \ cut : m = n]_vars

\* Readers see telemetry.db change as TelemetryTable promises: new rows are
\* newer than all before them, and a power loss takes the newest rows only.
Table == INSTANCE TelemetryTable WITH table <- rows
ImplementsTable == Table!TableSpec
=============================================================================
