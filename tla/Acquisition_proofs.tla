------------------------- MODULE Acquisition_proofs -------------------------
(***************************************************************************)
(* Proofs about the acquisition service, for every value of the constants. *)
(*                                                                         *)
(* The argument.  New rows enter telemetry.db in the order the meter was   *)
(* read (WorkingIsNewer, HandIsNewest), so the versions a power loss can   *)
(* leave differ from the newest one by the newest rows and by removals     *)
(* that are not durable yet (VersionsKnown, VersionsSuffix,                *)
(* VersionsShrinkOnce).  What is missing from an open transaction has      *)
(* expired (DeletedIsOld).  Each of BillingBacked, BillingNeverRegresses,  *)
(* NoSilentLoss and the refinement of TelemetryTable follows from these.   *)
(***************************************************************************)
EXTENDS Acquisition, SequenceTheorems, TLAPS

\* Every reading ever committed to telemetry.db.
Ever == rows \cup expired \cup cut

\* What the open transaction adds is newer than all that was committed.
WorkingIsNewer == \A new \in working \ rows, old \in Ever : old < new

\* What the open transaction deletes is past the retention.
DeletedIsOld == \A n \in rows \ working : Old(n)

\* The reading being stored is the newest; before its insert it is in no table.
HandIsNewest ==
  /\ pc \in {"insert", "bill"} => hand = Len(readings)
  /\ pc = "insert" => \A old \in Ever \cup working : old < hand
  /\ pc = "bill" => hand \in rows

\* The meter's register never goes back between two readings.
MeterMonotone ==
  \A i, j \in 1 .. Len(readings) : i <= j => readings[i].kwh <= readings[j].kwh

\* A version holds nothing but rows that are there or have expired since...
VersionsKnown ==
  \A i \in 1 .. Len(versions) : versions[i] \subseteq rows \cup expired

\* ... what it lacks of the rows is newer than what it shares with them...
VersionsSuffix ==
  \A i \in 1 .. Len(versions) :
    \A lost \in rows \ versions[i], kept \in rows \cap versions[i] : kept < lost

\* ... and a durable row that is still there is in every version.
VersionsShrinkOnce ==
  \A i \in 1 .. Len(versions) : rows \cap versions[1] \subseteq versions[i]

\* The conjuncts that speak of telemetry.db alone.
TableInv ==
  WorkingIsNewer /\ VersionsKnown /\ VersionsSuffix /\ VersionsShrinkOnce

IInv ==
  /\ TypeOK /\ TableInv
  /\ DeletedIsOld /\ HandIsNewest /\ MeterMonotone
  /\ BillingBacked

-----------------------------------------------------------------------------
(* Type correctness *)

\* The rows are a version, whose type they have.
LEMMA RowsType ==
  ASSUME TypeOK
  PROVE  /\ Len(readings) \in Nat /\ 0 \in 0 .. Len(readings)
         /\ Len(versions) \in Nat \ {0}
         /\ rows \in SUBSET (1 .. Len(readings))
         /\ \A i \in 1 .. Len(versions) : versions[i] \in SUBSET (1 .. Len(readings))
<1>1. Len(versions) \in Nat \ {0} /\ Len(readings) \in Nat
  BY EmptySeq DEF TypeOK
<1>2. \A i \in 1 .. Len(versions) : versions[i] \in SUBSET (1 .. Len(readings))
  BY DEF TypeOK
<1> QED
  BY <1>1, <1>2 DEF rows

\* History speaks of readings that were taken; a reading is a time and a value.
LEMMA EverType ==
  ASSUME TypeOK
  PROVE  /\ Ever \cup working \subseteq 1 .. Len(readings)
         /\ \A n \in 1 .. Len(readings) :
              readings[n].at \in Nat /\ readings[n].kwh \in Nat
<1>1. Ever \cup working \subseteq 1 .. Len(readings)
  <2>1. rows \subseteq 1 .. Len(readings)
    BY RowsType
  <2> QED
    BY <2>1 DEF Ever, TypeOK
<1>2. \A n \in 1 .. Len(readings) : readings[n] \in Reading
  BY DEF TypeOK
<1> QED
  BY <1>1, <1>2 DEF Reading

\* What one transaction does to the committed contents.
LEMMA CommitRows ==
  ASSUME TypeOK, NEW contents \in SUBSET (1 .. Len(readings)),
         CommitTelemetry(contents)
  PROVE  /\ rows' = contents /\ working' = contents
         /\ expired' = expired \cup (rows \ contents) /\ cut' = cut
         /\ versions' \in Seq(SUBSET (1 .. Len(readings))) /\ versions' # <<>>
         /\ \A i \in 1 .. Len(versions') :
              \/ i \in 1 .. Len(versions) /\ versions'[i] = versions[i]
              \/ versions'[i] = contents
         /\ versions'[1] = versions[1]
<1> DEFINE T == SUBSET (1 .. Len(readings))
<1>1. versions \in Seq(T) /\ versions # <<>> /\ Len(versions) \in Nat \ {0}
  BY RowsType DEF TypeOK
<1>2. versions' = Committed(contents)
  BY DEF CommitTelemetry
<1>3. CASE contents = rows
  BY <1>1, <1>2, <1>3 DEF Committed, CommitTelemetry, rows
<1>4. CASE contents # rows
  <2>1. versions' = Append(versions, contents)
    BY <1>2, <1>4 DEF Committed
  <2>2. versions' \in Seq(T) /\ Len(versions') = Len(versions) + 1
    BY <1>1, <2>1
  <2>3. /\ \A i \in 1 .. Len(versions) : versions'[i] = versions[i]
        /\ versions'[Len(versions) + 1] = contents
    BY <1>1, <2>1
  <2> QED
    BY <1>1, <2>2, <2>3 DEF CommitTelemetry, rows
<1> QED
  BY <1>3, <1>4

\* The initial state is well typed.
LEMMA TypeInit == Init => TypeOK
<1> SUFFICES ASSUME Init PROVE TypeOK
  OBVIOUS
<1>1. versions \in Seq(SUBSET (1 .. Len(readings))) /\ versions # <<>>
  <2>1. {} \in SUBSET (1 .. Len(readings))
    OBVIOUS
  <2> QED
    BY <2>1 DEF Init
<1>2. readings \in Seq(Reading) /\ Len(readings) = 0
  BY DEF Init
<1>3. hand \in 0 .. Len(readings) /\ billing \in 0 .. Len(readings)
  BY <1>2 DEF Init
<1> QED
  BY <1>1, <1>2, <1>3 DEF Init, TypeOK, Pc

\* Every step keeps the types.
LEMMA TypeStep == TypeOK /\ [Next]_vars => TypeOK'
<1> SUFFICES ASSUME TypeOK, [Next]_vars PROVE TypeOK'
  OBVIOUS
<1> USE AcquisitionAssumption DEF ghostVars
<1>1. CASE ClockAdvances
  BY <1>1 DEF ClockAdvances, TypeOK
<1>2. CASE Start
  BY <1>2 DEF Start, TypeOK, Pc
<1>3. CASE Signal
  BY <1>3 DEF Signal, TypeOK
<1>4. CASE Kill
  <2>1. working' \in SUBSET (1 .. Len(readings))
    BY <1>4, RowsType DEF Kill
  <2> QED
    BY <1>4, <2>1, RowsType DEF Kill, ProcessEnds, TypeOK, Pc
<1>5. CASE PollOk
  <2>1. PICK k \in LastKwh .. MaxKwh :
          readings' = Append(readings, [at |-> clock, kwh |-> k])
    BY <1>5 DEF PollOk
  <2>2. LastKwh \in Nat
    <3>1. readings # <<>> => readings[Len(readings)] \in Reading
      BY EmptySeq DEF TypeOK
    <3> QED
      BY <3>1 DEF LastKwh, Reading
  <2>3. readings' \in Seq(Reading) /\ Len(readings') = Len(readings) + 1
    BY <2>1, <2>2 DEF TypeOK, Reading
  <2>4. SUBSET (1 .. Len(readings)) \subseteq SUBSET (1 .. Len(readings'))
    BY <2>3 DEF TypeOK
  <2>5. versions \in Seq(SUBSET (1 .. Len(readings')))
    BY <2>4, SeqMonotonic DEF TypeOK
  <2> QED
    BY <1>5, <2>3, <2>4, <2>5 DEF PollOk, TypeOK, Pc
<1>6. CASE PollFails
  BY <1>6 DEF PollFails, AfterStore, TypeOK, Pc
<1>7. CASE InsertReading
  <2>1. hand \in 1 .. Len(readings)
    BY <1>7 DEF InsertReading, TypeOK
  <2>2. working \cup {hand} \in SUBSET (1 .. Len(readings))
    BY <2>1 DEF TypeOK
  <2>3. expired' \in SUBSET (1 .. Len(readings))
    BY <1>7, <2>2, CommitRows, RowsType DEF InsertReading, TypeOK
  <2> QED
    BY <1>7, <2>2, <2>3, CommitRows DEF InsertReading, TypeOK, Pc
<1>8. CASE InsertFails
  <2>1. hand \in 1 .. Len(readings)
    BY <1>8 DEF InsertFails, TypeOK
  <2>2. working' \in SUBSET (1 .. Len(readings))
    BY <1>8, <2>1, RowsType DEF InsertFails, TelemetryFails, TypeOK
  <2> QED
    BY <1>8, <2>2 DEF InsertFails, TelemetryFails, EndStore, AfterStore, TypeOK, Pc
<1>9. CASE UpdateBilling
  BY <1>9 DEF UpdateBilling, EndStore, AfterStore, TypeOK, Pc
<1>10. CASE BillingFails
  BY <1>10 DEF BillingFails, EndStore, AfterStore, TypeOK, Pc
<1>11. CASE Cleanup
  <2>1. Kept \in SUBSET (1 .. Len(readings))
    BY DEF Kept, TypeOK
  <2>2. expired' \in SUBSET (1 .. Len(readings))
    BY <1>11, <2>1, CommitRows, RowsType DEF Cleanup, TypeOK
  <2> QED
    BY <1>11, <2>1, <2>2, CommitRows DEF Cleanup, TypeOK, Pc
<1>12. CASE CleanupFails
  BY <1>12, RowsType DEF CleanupFails, TelemetryFails, Kept, TypeOK, Pc
<1>13. CASE Wake
  BY <1>13 DEF Wake, TypeOK, Pc
<1>14. CASE Shutdown
  <2>1. Synced \in Seq(SUBSET (1 .. Len(readings))) /\ Synced # <<>>
    BY RowsType DEF Synced
  <2> QED
    BY <1>14, <2>1, RowsType DEF Shutdown, ProcessEnds, TypeOK, Pc
<1>15. CASE Checkpoint
  <2>1. Synced \in Seq(SUBSET (1 .. Len(readings))) /\ Synced # <<>>
    BY RowsType DEF Synced
  <2> QED
    BY <1>15, <2>1 DEF Checkpoint, TypeOK
<1>16. CASE PowerLoss
  <2>1. PICK i \in 1 .. Len(versions) :
          /\ versions' = <<versions[i]>> /\ working' = versions[i]
          /\ expired' = expired \ versions[i]
          /\ cut' = cut \cup (rows \ versions[i])
    BY <1>16 DEF PowerLoss
  <2>2. versions' \in Seq(SUBSET (1 .. Len(readings))) /\ versions' # <<>>
    BY <2>1, RowsType
  <2>3. /\ working' \in SUBSET (1 .. Len(readings))
        /\ expired' \in SUBSET (1 .. Len(readings))
        /\ cut' \in SUBSET (1 .. Len(readings))
    BY <2>1, RowsType DEF TypeOK
  <2>4. clock' \in Nat
    BY <1>16 DEF PowerLoss, TypeOK
  <2> QED
    BY <1>16, <2>2, <2>3, <2>4, RowsType DEF PowerLoss, ProcessEnds, TypeOK, Pc
<1>17. CASE UNCHANGED vars
  BY <1>17 DEF vars, TypeOK
<1> QED
  BY <1>1, <1>2, <1>3, <1>4, <1>5, <1>6, <1>7, <1>8, <1>9, <1>10, <1>11, <1>12,
     <1>13, <1>14, <1>15, <1>16, <1>17 DEF Next, Round, Outside

\* The types are an invariant of the service.
THEOREM TypeCorrect == Spec => []TypeOK
  BY TypeInit, TypeStep, PTL DEF Spec

-----------------------------------------------------------------------------
(* telemetry.db: its versions under a commit, a checkpoint and a power loss *)

\* A step that does not touch telemetry.db.
LEMMA TableUntouched ==
  ASSUME TableInv, UNCHANGED <<versions, working, expired, cut>>
  PROVE  TableInv' /\ rows' = rows /\ Ever' = Ever
  BY DEF TableInv, WorkingIsNewer, VersionsKnown, VersionsSuffix,
         VersionsShrinkOnce, Ever, rows

\* A step that only changes what the open transaction holds.
LEMMA WorkingChanges ==
  ASSUME TableInv, UNCHANGED <<versions, expired, cut>>,
         \A new \in working' \ rows, old \in Ever : old < new
  PROVE  TableInv' /\ rows' = rows /\ Ever' = Ever
  BY DEF TableInv, WorkingIsNewer, VersionsKnown, VersionsSuffix,
         VersionsShrinkOnce, Ever, rows

\* A commit of rows newer than all before, with any deletions.
LEMMA CommitKeepsTable ==
  ASSUME TypeOK, TableInv, NEW contents \in SUBSET (1 .. Len(readings)),
         CommitTelemetry(contents),
         \A new \in contents \ rows, old \in Ever : old < new
  PROVE  TableInv' /\ Ever' = Ever \cup contents
<1>1. /\ rows' = contents /\ working' = contents
      /\ expired' = expired \cup (rows \ contents) /\ cut' = cut
      /\ versions'[1] = versions[1] /\ Len(versions) \in Nat \ {0}
  BY CommitRows, RowsType
<1>2. ASSUME NEW i \in 1 .. Len(versions')
      PROVE  \/ i \in 1 .. Len(versions) /\ versions'[i] = versions[i]
             \/ versions'[i] = contents
  BY CommitRows
<1>3. Ever' = Ever \cup contents
  BY <1>1 DEF Ever
<1>4. \A n \in Ever : n \in Nat /\ ~(n < n)
  BY RowsType, EverType
<1>5. (rows \cup expired) \cap contents \subseteq rows
  BY <1>4 DEF Ever
<1>6. VersionsKnown'
  <2> SUFFICES ASSUME NEW i \in 1 .. Len(versions'), NEW n \in versions'[i]
               PROVE  n \in contents \cup expired'
    BY <1>1 DEF VersionsKnown
  <2> QED
    BY <1>1, <1>2 DEF VersionsKnown, TableInv
<1>7. VersionsSuffix'
  <2> SUFFICES ASSUME NEW i \in 1 .. Len(versions'),
                      NEW lost \in contents \ versions'[i],
                      NEW kept \in contents \cap versions'[i]
               PROVE  kept < lost
    BY <1>1 DEF VersionsSuffix
  <2>1. i \in 1 .. Len(versions) /\ versions'[i] = versions[i]
    BY <1>2
  <2>2. kept \in rows
    BY <2>1, <1>5 DEF TableInv, VersionsKnown
  <2>3. CASE lost \in rows
    BY <2>1, <2>2, <2>3 DEF TableInv, VersionsSuffix
  <2>4. CASE lost \notin rows
    BY <2>2, <2>4 DEF Ever
  <2> QED
    BY <2>3, <2>4
<1>8. VersionsShrinkOnce'
  <2> SUFFICES ASSUME NEW i \in 1 .. Len(versions'),
                      NEW n \in contents \cap versions[1]
               PROVE  n \in versions'[i]
    BY <1>1 DEF VersionsShrinkOnce
  <2>1. n \in rows
    BY <1>1, <1>5 DEF TableInv, VersionsKnown
  <2> QED
    BY <1>2, <2>1 DEF TableInv, VersionsShrinkOnce
<1>9. WorkingIsNewer'
  BY <1>1 DEF WorkingIsNewer
<1> QED
  BY <1>3, <1>6, <1>7, <1>8, <1>9 DEF TableInv

\* A checkpoint forgets the older versions.
LEMMA CheckpointKeepsTable ==
  ASSUME TypeOK, TableInv, versions' = Synced, UNCHANGED <<expired, cut>>,
         working' \in {working, rows}
  PROVE  TableInv' /\ rows' = rows /\ Ever' = Ever
<1>1. /\ rows' = rows /\ Len(versions') = 1 /\ versions'[1] = rows
  BY DEF Synced, rows
<1>2. Ever' = Ever
  BY <1>1 DEF Ever
<1> QED
  BY <1>1, <1>2 DEF TableInv, WorkingIsNewer, VersionsKnown, VersionsSuffix,
                    VersionsShrinkOnce

\* A power loss recovers a version, and no reading is forgotten by history.
LEMMA PowerLossKeepsTable ==
  ASSUME TypeOK, TableInv, NEW i \in 1 .. Len(versions),
         versions' = <<versions[i]>>, working' = versions[i],
         expired' = expired \ versions[i],
         cut' = cut \cup (rows \ versions[i])
  PROVE  TableInv' /\ rows' = versions[i] /\ Ever' = Ever
<1>1. /\ rows' = versions[i] /\ Len(versions') = 1
      /\ versions'[1] = versions[i]
  BY DEF rows
<1>2. versions[i] \subseteq rows \cup expired
  BY DEF TableInv, VersionsKnown
<1>3. Ever' = Ever
  BY <1>1, <1>2 DEF Ever
<1> QED
  BY <1>1, <1>3 DEF TableInv, WorkingIsNewer, VersionsKnown, VersionsSuffix,
                    VersionsShrinkOnce

-----------------------------------------------------------------------------
(* The inductive invariant *)

\* Every action keeps MeterMonotone: a poll finds at least LastKwh.
LEMMA MeterStep ==
  ASSUME TypeOK, MeterMonotone, [Next]_vars
  PROVE  MeterMonotone'
<1>1. CASE PollOk
  <2>1. PICK k \in LastKwh .. MaxKwh :
          readings' = Append(readings, [at |-> clock, kwh |-> k])
    BY <1>1 DEF PollOk
  <2>2. /\ Len(readings') = Len(readings) + 1 /\ Len(readings) \in Nat
        /\ \A i \in 1 .. Len(readings) : readings'[i] = readings[i]
        /\ readings'[Len(readings) + 1].kwh = k
    BY <2>1 DEF TypeOK
  <2>3. \A i \in 1 .. Len(readings) : readings[i].kwh \in Nat
    BY EverType
  <2>4. \A i \in 1 .. Len(readings) : readings[i].kwh <= LastKwh /\ LastKwh \in Nat
    BY <2>2, <2>3 DEF MeterMonotone, LastKwh, TypeOK
  <2>5. k \in Int /\ \A i \in 1 .. Len(readings) : readings[i].kwh <= k
    BY <2>3, <2>4, AcquisitionAssumption
  <2> QED
    BY <2>2, <2>3, <2>5 DEF MeterMonotone
<1>2. CASE ~PollOk
  <2>1. readings' = readings
    BY <1>2 DEF Next, Round, Outside, vars, ClockAdvances, Start, Signal, Kill,
       Checkpoint, PowerLoss, PollFails, InsertReading, InsertFails, UpdateBilling,
       BillingFails, Cleanup, CleanupFails, Wake, Shutdown
  <2> QED
    BY <2>1 DEF MeterMonotone
<1> QED
  BY <1>1, <1>2

\* The initial state satisfies the invariant.
LEMMA InvInit == Init => IInv
<1> SUFFICES ASSUME Init PROVE IInv
  OBVIOUS
<1>1. TypeOK
  BY TypeInit
<1>2. rows = {} /\ Ever = {} /\ Len(versions) = 1 /\ Len(readings) = 0
  BY DEF Init, rows, Ever
<1> QED
  BY <1>1, <1>2 DEF Init, IInv, TableInv, WorkingIsNewer, VersionsKnown,
     VersionsSuffix, VersionsShrinkOnce, DeletedIsOld, HandIsNewest,
     MeterMonotone, BillingBacked

\* Every step keeps the invariant.
LEMMA InvStep == IInv /\ [Next]_vars => IInv'
<1> SUFFICES ASSUME IInv, [Next]_vars PROVE IInv'
  OBVIOUS
<1> USE AcquisitionAssumption DEF ghostVars
<1>a. /\ TypeOK /\ TableInv /\ DeletedIsOld /\ HandIsNewest /\ MeterMonotone
      /\ BillingBacked
  BY DEF IInv
<1>b. TypeOK' /\ MeterMonotone'
  BY <1>a, TypeStep, MeterStep
<1>c. /\ Len(readings) \in Nat
      /\ Ever \cup working \subseteq 1 .. Len(readings)
      /\ \A n \in 1 .. Len(readings) : readings[n].at \in Nat
  BY <1>a, RowsType, EverType
\* Steps that leave telemetry.db, the readings and the clock alone.
<1>d. ASSUME UNCHANGED <<versions, working, expired, cut, readings, clock>>
      PROVE  TableInv' /\ DeletedIsOld' /\ rows' = rows /\ Ever' = Ever
  BY <1>a, <1>d, TableUntouched DEF DeletedIsOld, Old
<1>1. CASE ClockAdvances
  <2>1. TableInv' /\ rows' = rows /\ Ever' = Ever
    BY <1>1, <1>a, TableUntouched DEF ClockAdvances
  <2>2. DeletedIsOld'
    <3> SUFFICES ASSUME NEW n \in rows \ working PROVE Old(n)'
      BY <1>1, <2>1 DEF ClockAdvances, DeletedIsOld
    <3>1. clock \in Nat /\ clock' \in Nat /\ clock < clock'
      BY <1>1, <1>a DEF ClockAdvances, TypeOK
    <3>2. Old(n) /\ readings[n].at \in Nat
      BY <1>a, <1>c DEF DeletedIsOld, Ever
    <3> QED
      BY <1>1, <3>1, <3>2 DEF ClockAdvances, Old
  <2> QED
    BY <1>1, <1>a, <1>b, <2>1, <2>2
       DEF ClockAdvances, IInv, HandIsNewest, BillingBacked
<1>2. CASE Start
  BY <1>2, <1>a, <1>b, <1>d DEF Start, IInv, HandIsNewest, BillingBacked
<1>3. CASE Signal
  BY <1>3, <1>a, <1>b, <1>d DEF Signal, IInv, HandIsNewest, BillingBacked
<1>4. CASE Kill
  <2>1. TableInv' /\ rows' = rows /\ Ever' = Ever
    BY <1>4, <1>a, WorkingChanges DEF Kill
  <2> QED
    BY <1>4, <1>a, <1>b, <2>1
       DEF Kill, ProcessEnds, IInv, HandIsNewest, DeletedIsOld, BillingBacked
<1>5. CASE PollOk
  <2>1. TableInv' /\ rows' = rows /\ Ever' = Ever
    BY <1>5, <1>a, TableUntouched DEF PollOk
  <2>2. \A n \in 1 .. Len(readings) : readings'[n] = readings[n]
    BY <1>5, <1>a DEF PollOk, TypeOK
  <2>3. DeletedIsOld'
    BY <1>5, <1>a, <1>c, <2>1, <2>2 DEF PollOk, DeletedIsOld, Old, Ever
  <2>4. HandIsNewest'
    <3>1. Len(readings') = Len(readings) + 1 /\ hand' = Len(readings) + 1
      BY <1>5, <1>a DEF PollOk, TypeOK
    <3> QED
      BY <1>5, <1>c, <2>1, <3>1 DEF PollOk, HandIsNewest
  <2> QED
    BY <1>5, <1>a, <1>b, <2>1, <2>3, <2>4 DEF PollOk, IInv, BillingBacked
<1>6. CASE PollFails
  BY <1>6, <1>a, <1>b, <1>d
     DEF PollFails, AfterStore, IInv, HandIsNewest, BillingBacked
<1>7. CASE InsertReading
  <2> DEFINE contents == working \cup {hand}
  <2>1. hand \in 1 .. Len(readings) /\ hand = Len(readings)
    BY <1>7, <1>a DEF InsertReading, TypeOK, HandIsNewest
  <2>2. contents \in SUBSET (1 .. Len(readings)) /\ CommitTelemetry(contents)
    BY <1>7, <1>c, <2>1 DEF InsertReading
  <2>3. \A new \in contents \ rows, old \in Ever : old < new
    BY <1>7, <1>a DEF InsertReading, HandIsNewest, TableInv, WorkingIsNewer
  <2>4. TableInv' /\ Ever' = Ever \cup contents
    BY <1>a, <2>2, <2>3, CommitKeepsTable
  <2>5. rows' = contents /\ working' = contents
    BY <1>a, <2>2, CommitRows
  <2>6. BillingBacked'
    BY <1>7, <1>a, <2>4 DEF InsertReading, BillingBacked, Ever
  <2> QED
    BY <1>7, <1>b, <2>1, <2>4, <2>5, <2>6
       DEF InsertReading, IInv, HandIsNewest, DeletedIsOld
<1>8. CASE InsertFails
  <2>1. working' \in {working, working \cup {hand}, rows}
    BY <1>8 DEF InsertFails, TelemetryFails
  <2>2. \A new \in working' \ rows, old \in Ever : old < new
    BY <1>8, <1>a, <2>1
       DEF InsertFails, HandIsNewest, TableInv, WorkingIsNewer
  <2>3. TableInv' /\ rows' = rows /\ Ever' = Ever
    BY <1>8, <1>a, <2>2, WorkingChanges DEF InsertFails, TelemetryFails
  <2>4. DeletedIsOld'
    BY <1>8, <1>a, <2>1, <2>3 DEF InsertFails, DeletedIsOld, Old
  <2> QED
    BY <1>8, <1>a, <1>b, <2>3, <2>4
       DEF InsertFails, TelemetryFails, EndStore, AfterStore, IInv, HandIsNewest,
           BillingBacked
<1>9. CASE UpdateBilling
  <2>1. BillingBacked'
    BY <1>9, <1>a, <1>d DEF UpdateBilling, HandIsNewest, BillingBacked
  <2> QED
    BY <1>9, <1>a, <1>b, <1>d, <2>1
       DEF UpdateBilling, EndStore, AfterStore, IInv, HandIsNewest
<1>10. CASE BillingFails
  BY <1>10, <1>a, <1>b, <1>d
     DEF BillingFails, EndStore, AfterStore, IInv, HandIsNewest, BillingBacked
<1>11. CASE Cleanup
  <2>1. Kept \in SUBSET (1 .. Len(readings)) /\ CommitTelemetry(Kept)
    BY <1>11, <1>c DEF Cleanup, Kept
  <2>2. \A new \in Kept \ rows, old \in Ever : old < new
    BY <1>a DEF Kept, TableInv, WorkingIsNewer
  <2>3. TableInv' /\ Ever' = Ever \cup Kept
    BY <1>a, <2>1, <2>2, CommitKeepsTable
  <2>4. rows' = Kept /\ working' = Kept
    BY <1>a, <2>1, CommitRows
  <2>5. BillingBacked'
    BY <1>11, <1>a, <2>3 DEF Cleanup, BillingBacked, Ever
  <2> QED
    BY <1>11, <1>b, <2>3, <2>4, <2>5 DEF Cleanup, IInv, HandIsNewest, DeletedIsOld
<1>12. CASE CleanupFails
  <2>1. working' \in {working, Kept, rows}
    BY <1>12 DEF CleanupFails, TelemetryFails
  <2>2. \A new \in working' \ rows, old \in Ever : old < new
    BY <1>a, <2>1 DEF Kept, TableInv, WorkingIsNewer
  <2>3. TableInv' /\ rows' = rows /\ Ever' = Ever
    BY <1>12, <1>a, <2>2, WorkingChanges DEF CleanupFails, TelemetryFails
  <2>4. DeletedIsOld'
    BY <1>12, <1>a, <2>1, <2>3 DEF CleanupFails, DeletedIsOld, Old, Kept
  <2> QED
    BY <1>12, <1>a, <1>b, <2>3, <2>4
       DEF CleanupFails, TelemetryFails, IInv, HandIsNewest, BillingBacked
<1>13. CASE Wake
  BY <1>13, <1>a, <1>b, <1>d DEF Wake, IInv, HandIsNewest, BillingBacked
<1>14. CASE Shutdown
  <2>1. TableInv' /\ rows' = rows /\ Ever' = Ever
    BY <1>14, <1>a, WorkingChanges, CheckpointKeepsTable DEF Shutdown
  <2> QED
    BY <1>14, <1>a, <1>b, <2>1
       DEF Shutdown, ProcessEnds, IInv, HandIsNewest, DeletedIsOld, BillingBacked
<1>15. CASE Checkpoint
  <2>1. TableInv' /\ rows' = rows /\ Ever' = Ever
    BY <1>15, <1>a, CheckpointKeepsTable DEF Checkpoint
  <2> QED
    BY <1>15, <1>a, <1>b, <2>1
       DEF Checkpoint, IInv, HandIsNewest, DeletedIsOld, Old, BillingBacked
<1>16. CASE PowerLoss
  <2>1. PICK i \in 1 .. Len(versions) :
          /\ versions' = <<versions[i]>> /\ working' = versions[i]
          /\ expired' = expired \ versions[i]
          /\ cut' = cut \cup (rows \ versions[i])
    BY <1>16 DEF PowerLoss
  <2>2. TableInv' /\ rows' = versions[i] /\ Ever' = Ever
    BY <1>a, <2>1, PowerLossKeepsTable
  <2>3. BillingBacked'
    BY <1>16, <1>a, <2>2 DEF PowerLoss, BillingBacked, Ever
  <2> QED
    BY <1>16, <1>b, <2>1, <2>2, <2>3
       DEF PowerLoss, ProcessEnds, IInv, HandIsNewest, DeletedIsOld
<1>17. CASE UNCHANGED vars
  BY <1>17, <1>a, <1>b, <1>d DEF vars, IInv, HandIsNewest, BillingBacked
<1> QED
  BY <1>1, <1>2, <1>3, <1>4, <1>5, <1>6, <1>7, <1>8, <1>9, <1>10, <1>11, <1>12,
     <1>13, <1>14, <1>15, <1>16, <1>17 DEF Next, Round, Outside

\* The inductive invariant holds throughout.
THEOREM InvariantCorrect == Spec => []IInv
  BY InvInit, InvStep, PTL DEF Spec

-----------------------------------------------------------------------------
(* The properties *)

\* The billing record always names a reading that telemetry.db held first.
THEOREM BillingIsBacked == Spec => []BillingBacked
<1>1. IInv => BillingBacked
  BY DEF IInv
<1> QED
  BY <1>1, InvariantCorrect, PTL

\* Neither a crash, a failed commit nor a restart takes billing_state back.
THEOREM BillingIsMonotone == Spec => BillingNeverRegresses
<1>1. ASSUME IInv, [Next]_vars
      PROVE  [/\ billing' >= billing
              /\ billing # 0 => readings'[billing'].kwh >= readings[billing].kwh]_vars
  <2>1. /\ TypeOK /\ HandIsNewest /\ MeterMonotone /\ MeterMonotone'
        /\ billing \in 0 .. Len(readings) /\ Len(readings) \in Nat
    BY <1>1, MeterStep, RowsType DEF IInv, TypeOK
  <2>2. CASE UpdateBilling
    <3>1. billing' = Len(readings) /\ readings' = readings
      BY <2>1, <2>2 DEF UpdateBilling, HandIsNewest
    <3>2. billing # 0 => readings[billing].kwh <= readings[Len(readings)].kwh
      BY <2>1 DEF MeterMonotone
    <3>3. \A n \in 1 .. Len(readings) : readings[n].kwh \in Nat
      BY <2>1, EverType
    <3> QED
      BY <2>1, <3>1, <3>2, <3>3
  <2>3. CASE ~UpdateBilling
    <3>1. billing' = billing
      BY <1>1, <2>3 DEF Next, Round, Outside, vars, ClockAdvances, Start, Signal,
         Kill, Checkpoint, PowerLoss, PollOk, PollFails, InsertReading, InsertFails,
         BillingFails, Cleanup, CleanupFails, Wake, Shutdown
    <3>2. billing # 0 => readings'[billing] = readings[billing]
      <4>1. CASE PollOk
        BY <2>1, <4>1 DEF PollOk, TypeOK
      <4>2. CASE ~PollOk
        BY <1>1, <4>2 DEF Next, Round, Outside, vars, ClockAdvances, Start, Signal,
           Kill, Checkpoint, PowerLoss, PollFails, InsertReading, InsertFails,
           UpdateBilling, BillingFails, Cleanup, CleanupFails, Wake, Shutdown
      <4> QED
        BY <4>1, <4>2
    <3>3. billing # 0 => readings[billing].kwh \in Nat
      BY <2>1, EverType
    <3> QED
      BY <2>1, <3>1, <3>2, <3>3
  <2> QED
    BY <2>2, <2>3
<1> QED
  BY <1>1, InvariantCorrect, PTL DEF Spec, BillingNeverRegresses

\* Without a power loss, readers see one commit or nothing.
LEMMA CommitsOnly ==
  ASSUME IInv, \/ Round \/ ClockAdvances \/ Start \/ Signal \/ Kill \/ Checkpoint
               \/ UNCHANGED vars
  PROVE  Table!Commit \/ UNCHANGED Table!tableVars
<1>1. TypeOK /\ TableInv /\ HandIsNewest
  BY DEF IInv
<1>2. Table!Ever = Ever
  BY DEF Table!Ever, Ever
<1>3. ASSUME NEW contents \in SUBSET (1 .. Len(readings)),
             CommitTelemetry(contents),
             \A new \in contents \ rows, old \in Ever : old < new
      PROVE  Table!Commit
  <2>1. /\ rows' = contents /\ cut' = cut
        /\ expired' = expired \cup (rows \ contents)
    BY <1>1, <1>3, CommitRows
  <2>2. contents \subseteq Nat
    BY <1>1, RowsType
  <2> QED
    BY <1>2, <1>3, <2>1, <2>2 DEF Table!Commit
<1>4. CASE InsertReading
  <2>1. working \cup {hand} \in SUBSET (1 .. Len(readings))
    BY <1>1, <1>4, EverType DEF InsertReading, TypeOK
  <2>2. \A new \in (working \cup {hand}) \ rows, old \in Ever : old < new
    BY <1>1, <1>4 DEF InsertReading, HandIsNewest, TableInv, WorkingIsNewer
  <2> QED
    BY <1>3, <1>4, <2>1, <2>2 DEF InsertReading
<1>5. CASE Cleanup
  <2>1. Kept \in SUBSET (1 .. Len(readings))
    BY <1>1, EverType DEF Kept
  <2>2. \A new \in Kept \ rows, old \in Ever : old < new
    BY <1>1 DEF Kept, TableInv, WorkingIsNewer
  <2> QED
    BY <1>3, <1>5, <2>1, <2>2 DEF Cleanup
<1>6. CASE Shutdown \/ Checkpoint
  <2>1. versions' \in {versions, <<rows>>} /\ expired' = expired /\ cut' = cut
    BY <1>6 DEF Shutdown, Checkpoint, Synced, ghostVars
  <2>2. rows' = rows
    BY <2>1 DEF rows
  <2> QED
    BY <2>1, <2>2 DEF Table!tableVars
<1>7. CASE ~InsertReading /\ ~Cleanup /\ ~(Shutdown \/ Checkpoint)
  <2>1. versions' = versions /\ expired' = expired /\ cut' = cut
    BY <1>7 DEF Round, vars, ghostVars, ClockAdvances, Start,
       Signal, Kill, PollOk, PollFails, InsertFails, TelemetryFails, UpdateBilling,
       BillingFails, CleanupFails, Wake
  <2> QED
    BY <2>1 DEF Table!tableVars, rows
<1> QED
  BY <1>4, <1>5, <1>6, <1>7

\* A power loss takes back the newest rows only.
LEMMA PowerCuts ==
  ASSUME IInv, PowerLoss
  PROVE  Table!PowerCut
<1>1. PICK i \in 1 .. Len(versions) :
        /\ versions' = <<versions[i]>>
        /\ expired' = expired \ versions[i]
        /\ cut' = cut \cup (rows \ versions[i])
  BY DEF PowerLoss
<1>2. rows' = versions[i]
  BY <1>1 DEF rows
<1>3. versions[i] \subseteq rows \cup expired
  BY DEF IInv, TableInv, VersionsKnown
<1>4. \A lost \in rows \ versions[i], kept \in rows \cap versions[i] : kept < lost
  BY DEF IInv, TableInv, VersionsSuffix
<1> QED
  BY <1>1, <1>2, <1>3, <1>4 DEF Table!PowerCut

\* telemetry.db keeps the promise of TelemetryTable to those who read it.
THEOREM TableIsImplemented == Spec => ImplementsTable
<1>1. Init => Table!TableInit
  BY DEF Init, Table!TableInit, rows
<1>2. IInv /\ [Next]_vars => [Table!TableNext]_(Table!tableVars)
  BY CommitsOnly, PowerCuts DEF Next, Outside, Table!TableNext
<1> QED
  BY <1>1, <1>2, InvariantCorrect, PTL DEF Spec, ImplementsTable, Table!TableSpec

\* A committed reading is lost to age or to a power loss, never otherwise.
THEOREM NothingSilentlyLost == Spec => NoSilentLoss
<1>1. ASSUME IInv, [Next]_vars
      PROVE  [\A n \in rows \ rows' :
                Old(n) \/ (pc' = "off" /\ n \notin versions[1])]_vars
  <2> SUFFICES ASSUME NEW n \in rows \ rows'
               PROVE  Old(n) \/ (pc' = "off" /\ n \notin versions[1])
    OBVIOUS
  <2>1. TypeOK /\ TableInv /\ DeletedIsOld /\ HandIsNewest
    BY <1>1 DEF IInv
  <2>2. CASE InsertReading
    <3>1. working \cup {hand} \in SUBSET (1 .. Len(readings))
      BY <2>1, <2>2, EverType DEF InsertReading, TypeOK
    <3>2. rows' = working \cup {hand}
      BY <2>1, <2>2, <3>1, CommitRows DEF InsertReading
    <3> QED
      BY <2>1, <3>2 DEF DeletedIsOld
  <2>3. CASE Cleanup
    <3>1. Kept \in SUBSET (1 .. Len(readings))
      BY <2>1, EverType DEF Kept
    <3>2. rows' = Kept
      BY <2>1, <2>3, <3>1, CommitRows DEF Cleanup
    <3> QED
      BY <2>1, <3>2 DEF DeletedIsOld, Kept
  <2>4. CASE PowerLoss
    <3>1. PICK i \in 1 .. Len(versions) : versions' = <<versions[i]>>
      BY <2>4 DEF PowerLoss
    <3>2. rows' = versions[i]
      BY <3>1 DEF rows
    <3>3. n \notin versions[1]
      BY <2>1, <3>2 DEF TableInv, VersionsShrinkOnce
    <3> QED
      BY <2>4, <3>3 DEF PowerLoss, ProcessEnds
  <2>5. CASE Shutdown \/ Checkpoint
    <3>1. versions' \in {versions, <<rows>>}
      BY <2>5 DEF Shutdown, Checkpoint, Synced
    <3> QED
      BY <3>1 DEF rows
  <2>6. CASE /\ ~InsertReading /\ ~Cleanup /\ ~PowerLoss
             /\ ~(Shutdown \/ Checkpoint)
    <3>1. versions' = versions
      BY <1>1, <2>6 DEF Next, Round, Outside, vars, ClockAdvances, Start,
         Signal, Kill, PollOk, PollFails, InsertFails, TelemetryFails, UpdateBilling,
         BillingFails, CleanupFails, Wake
    <3> QED
      BY <3>1 DEF rows
  <2> QED
    BY <2>2, <2>3, <2>4, <2>5, <2>6
<1> QED
  BY <1>1, InvariantCorrect, PTL DEF Spec, NoSilentLoss
=============================================================================
