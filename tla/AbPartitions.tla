---------------------------- MODULE AbPartitions ----------------------------
(***************************************************************************)
(* What updating through two partitions promises, whoever writes them and  *)
(* however an update is cut short: there is one partition the device can   *)
(* always fall back to.  It is never written to, and it changes in one way *)
(* only: to the partition the device has come up from.                     *)
(*                                                                         *)
(*   fallback   the partition to fall back to                              *)
(*   holds      what each partition holds                                  *)
(*   up         the partition the device runs from; None while it is down  *)
(***************************************************************************)
CONSTANTS
  Partitions,
  Images,      \* what a partition may hold
  Bootable,    \* the images that come up when they are started
  None         \* not a partition

VARIABLES fallback, holds, up

abVars == <<fallback, holds, up>>

\* As delivered: the image of the fallback has been seen to boot.
AbInit ==
  /\ fallback \in Partitions /\ holds \in [Partitions -> Images]
  /\ holds[fallback] \in Bootable
  /\ up = None

\* The bootloader finds an image that comes up.
ComesUp ==
  /\ up = None
  /\ up' \in {p \in Partitions : holds[p] \in Bootable}
  /\ UNCHANGED <<fallback, holds>>

\* A reboot or the loss of power.
Stops == up' = None /\ UNCHANGED <<fallback, holds>>

\* Part of an image, or all of it, is written.
Writes ==
  /\ up # None
  /\ \E p \in Partitions \ {fallback}, i \in Images : holds' = [holds EXCEPT ![p] = i]
  /\ UNCHANGED <<fallback, up>>

\* The device, running from a partition, decides to fall back to it.
Commits ==
  /\ up # None /\ holds[up] \in Bootable
  /\ fallback' = up
  /\ UNCHANGED <<holds, up>>

AbNext == ComesUp \/ Stops \/ Writes \/ Commits

AbSpec == AbInit /\ [][AbNext]_abVars
=============================================================================
