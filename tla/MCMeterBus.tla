----------------------------- MODULE MCMeterBus -----------------------------
(* Values of MeterBus's constants that a configuration cannot write.       *)
EXTENDS MeterBus

\* BACKOFF_MS = [100, 500, 2000], in units that keep them apart.
BackoffSteps == <<1, 2, 4>>
=============================================================================
