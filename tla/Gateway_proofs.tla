--------------------------- MODULE Gateway_proofs ---------------------------
(***************************************************************************)
(* Theorems about the two services together, for every value of their      *)
(* constants.                                                              *)
(*                                                                         *)
(* The argument.  A step of the gateway is a step of one service and none  *)
(* of the other, but for telemetry.db: a step of the acquisition service   *)
(* changes it as TelemetryTable allows, and that is how Uploader lets its  *)
(* table change.  So each service behaves as its own module says, and what *)
(* is proved of each holds of both; a property that relates them combines  *)
(* an invariant of one with an invariant of the other.                     *)
(*                                                                         *)
(* The assumptions Uploader and MqttClient make about their constants are  *)
(* hypotheses here.                                                        *)
(***************************************************************************)
EXTENDS Gateway, Acquisition_proofs

\* The acquisition service's invariant, and how far its readings go.
Bounded == Len(readings) <= MaxReadings
AcquisitionInv == IInv /\ Bounded

-----------------------------------------------------------------------------
(* The acquisition service does not notice the uploader *)

LEMMA AcquisitionStep == [GatewayNext]_gatewayVars => [Next]_vars
  BY DEF GatewayNext, AcquisitionMoves, UploaderMoves, PowerFails, gatewayVars,
         Next, Outside

\* What is proved of the acquisition service alone holds beside the uploader.
THEOREM AcquisitionRuns == GatewaySpec => Spec
  <1>1. GatewayInit => Init
    BY DEF GatewayInit
  <1> QED
    BY <1>1, AcquisitionStep, PTL DEF GatewaySpec, Spec

LEMMA ReadingsBounded == GatewaySpec => []AcquisitionInv
  <1>1. Init => Bounded
    BY AcquisitionAssumption DEF Init, Bounded
  <1>2. ASSUME IInv, Bounded, [Next]_vars
        PROVE  Bounded'
    <2>1. CASE PollOk
      <3>1. PICK k \in LastKwh .. MaxKwh :
              readings' = Append(readings, [at |-> clock, kwh |-> k])
        BY <2>1 DEF PollOk
      <3>2. Len(readings') = Len(readings) + 1 /\ Len(readings) \in Nat
        BY <1>2, <3>1 DEF IInv, TypeOK
      <3> QED
        BY <2>1, <3>2, AcquisitionAssumption DEF PollOk, Bounded
    <2>2. CASE ~PollOk
      <3>1. readings' = readings
        BY <1>2, <2>2
           DEF Next, Round, Outside, vars, ClockAdvances, Start, Signal, Kill, Checkpoint,
               PowerLoss, PollFails, InsertReading, InsertFails, UpdateBilling,
               BillingFails, Cleanup, CleanupFails, Wake, Shutdown
      <3> QED
        BY <1>2, <3>1 DEF Bounded
    <2> QED
      BY <2>1, <2>2
  <1> QED
    BY <1>1, <1>2, AcquisitionRuns, InvariantCorrect, PTL DEF Spec, AcquisitionInv

-----------------------------------------------------------------------------
(* The uploader's environment is the one it assumes *)

LEMMA SameCommits == (Table!Commit <=> U!Commit) /\ (Table!PowerCut <=> U!PowerCut)
  BY DEF Table!Commit, U!Commit, Table!Ever, U!Ever, Table!PowerCut, U!PowerCut

LEMMA UploaderStep ==
  ASSUME AcquisitionInv, AcquisitionInv', [GatewayNext]_gatewayVars
  PROVE  [U!Next]_(U!vars)
  <1> USE DEF AcquisitionInv
  <1>1. CASE UploaderMoves
    BY <1>1 DEF UploaderMoves, U!Next
  <1>2. rows' \in SUBSET (1 .. MaxReadings)
    <2>1. /\ versions' \in Seq(SUBSET (1 .. Len(readings'))) /\ versions' # <<>>
          /\ Len(readings') \in Nat
      BY DEF IInv, TypeOK
    <2>2. rows' \in SUBSET (1 .. Len(readings'))
      BY <2>1 DEF rows
    <2> QED
      BY <2>1, <2>2, AcquisitionAssumption DEF Bounded
  <1>3. CASE AcquisitionMoves \/ UNCHANGED gatewayVars
    <2>1. /\ Table!Commit \/ UNCHANGED Table!tableVars
          /\ UNCHANGED uploaderVars
      BY <1>3, CommitsOnly DEF AcquisitionMoves, gatewayVars
    <2>2. skipped' = skipped \cup (rows \ rows')
      BY <1>3 DEF AcquisitionMoves, Leaves, gatewayVars, vars, rows
    <2>3. CASE Table!Commit
      BY <1>2, <2>1, <2>2, <2>3, SameCommits
         DEF uploaderVars, U!Next, U!AcquisitionCommits, U!Others, U!mqttVars, U!session
    <2>4. CASE UNCHANGED Table!tableVars
      BY <2>1, <2>2, <2>4
         DEF uploaderVars, Table!tableVars, U!vars, U!tableVars, U!mqttVars, U!session
    <2> QED
      BY <2>1, <2>3, <2>4
  <1>4. CASE PowerFails
    <2>1. Table!PowerCut
      BY <1>4, PowerCuts DEF PowerFails
    <2> QED
      BY <1>2, <1>4, <2>1, SameCommits DEF PowerFails, Leaves, U!Next, U!PowerLoss, U!Others
  <1> QED
    BY <1>1, <1>3, <1>4 DEF GatewayNext

\* Beside the acquisition service the uploader behaves as Uploader says, whose
\* steps of the table are thereby no more than an abstraction of Acquisition's.
THEOREM UploaderRuns == GatewaySpec => U!Spec
  <1>1. GatewayInit => U!Init
    BY DEF GatewayInit
  <1> QED
    BY <1>1, UploaderStep, ReadingsBounded, PTL DEF GatewaySpec, U!Spec
-----------------------------------------------------------------------------
(* What is proved of the uploader holds beside the acquisition service *)

\* The uploader's inductive invariant, of Acquisition's telemetry.db.
LEMMA UploaderInvariant ==
  ASSUME U!UploaderAssumption, U!MqttAssumption
  PROVE  GatewaySpec => []U!IInv
  BY UploaderRuns, U!InvariantCorrect, PTL

\* So the cloud's copy is fed from Acquisition's telemetry.db as CloudFeed says.
THEOREM CloudIsFed ==
  ASSUME U!UploaderAssumption, U!MqttAssumption
  PROVE  GatewaySpec => U!ImplementsFeed
  BY UploaderRuns, U!FeedIsImplemented, PTL

\* Whatever is in the cloud, the meter gave (main.py:129 of the acquisition
\* service): it is uploaded from a table whose rows were polled, though the power
\* may have taken them back meanwhile.
THEOREM OnlyMeasuredIsUploaded ==
  ASSUME U!UploaderAssumption, U!MqttAssumption
  PROVE  GatewaySpec => []CloudIsMeasured
  <1>1. IInv /\ U!IInv => CloudIsMeasured
    <2> SUFFICES ASSUME IInv, U!IInv PROVE CloudIsMeasured
      OBVIOUS
    <2>1. cloud \subseteq U!Ever
      BY DEF U!IInv, U!Gapless
    <2>2. U!Ever \subseteq 1 .. Len(readings)
      BY EverType DEF U!Ever, Ever, IInv
    <2> QED
      BY <2>1, <2>2 DEF CloudIsMeasured
  <1> QED
    BY <1>1, AcquisitionRuns, InvariantCorrect, UploaderInvariant, PTL

\* The bill and the cloud agree: with a reading later than the billed one, the
\* cloud has the billed one, unless that left telemetry.db first.
THEOREM BillingReachesCloud ==
  ASSUME U!UploaderAssumption, U!MqttAssumption
  PROVE  GatewaySpec => []BilledIsUploaded
  <1>1. IInv /\ U!IInv => BilledIsUploaded
    <2> SUFFICES ASSUME IInv, U!IInv, NEW n \in cloud, billing # 0, billing < n
                 PROVE  billing \in cloud \cup skipped
      BY DEF BilledIsUploaded
    <2>1. billing \in U!Ever
      BY DEF IInv, BillingBacked, U!Ever
    <2> QED
      BY <2>1 DEF U!IInv, U!Gapless
  <1> QED
    BY <1>1, AcquisitionRuns, InvariantCorrect, UploaderInvariant, PTL
=============================================================================
