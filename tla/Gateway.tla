------------------------------ MODULE Gateway ------------------------------
(***************************************************************************)
(* The acquisition service and the uploader on one machine: two processes  *)
(* that meet at telemetry.db and at the plug.  Uploader lets its table     *)
(* change as TelemetryTable allows; here it is the table that Acquisition  *)
(* really writes, between any two steps of the uploader, and a loss of     *)
(* power ends both processes at once.                                      *)
(*                                                                         *)
(*   uploading   the uploader's self.running; its other variables have the *)
(*               names they have in Uploader                               *)
(***************************************************************************)
EXTENDS Acquisition

CONSTANTS BatchLimit, MaxTries, Tasks, MaxQueued

VARIABLES phase, uploading, task, acked, skipped,
          net, certs, tls, thread, sock, connected, outq, cloud

\* The uploader, and what is proved of it.
U == INSTANCE Uploader_proofs WITH table <- rows, running <- uploading

uploaderVars == <<phase, uploading, task, acked, net, certs, tls, thread, sock,
                  connected, outq, cloud>>
gatewayVars == <<vars, uploaderVars, skipped>>

GatewayInit == Init /\ U!Init

\* What has left telemetry.db with this step.
Leaves == skipped' = skipped \cup (rows \ rows')

AcquisitionMoves ==
  /\ UNCHANGED uploaderVars
  /\ Round \/ ClockAdvances \/ Start \/ Signal \/ Kill \/ Checkpoint
  /\ Leaves

UploaderMoves ==
  /\ UNCHANGED vars
  /\ U!ServiceStep \/ U!NetworkStep

PowerFails ==
  /\ PowerLoss /\ U!ProcessEnds
  /\ Leaves
  /\ UNCHANGED <<net, certs>>

GatewayNext == AcquisitionMoves \/ UploaderMoves \/ PowerFails

GatewaySpec == GatewayInit /\ [][GatewayNext]_gatewayVars

-----------------------------------------------------------------------------
(* Properties *)

\* Nothing is in the cloud that the meter did not give (main.py:129 of the
\* acquisition service), whatever either process does with its own steps.
CloudIsMeasured == cloud \subseteq 1 .. Len(readings)

\* The customer's bill and the cloud agree on what was measured: once the
\* cloud has a reading later than the billed one, it has the billed one too,
\* unless that left telemetry.db before it could be sent.
BilledIsUploaded ==
  \A n \in cloud : billing # 0 /\ billing < n => billing \in cloud \cup skipped
=============================================================================
