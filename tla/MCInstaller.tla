---------------------------- MODULE MCInstaller ----------------------------
(* Values of Installer's constants that a configuration cannot write.      *)
EXTENDS Installer, TLC

CONSTANTS short, long

ConfigSizes == (short :> 1) @@ (long :> 2)
=============================================================================
