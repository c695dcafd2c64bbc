--------------------------- MODULE TelemetryTable ---------------------------
(***************************************************************************)
(* What telemetry.db promises to the processes that read it, whoever       *)
(* writes it.  Readings are numbered in the order the meter was read; the  *)
(* table's rowid order is that order, so `ORDER BY id' is numeric order.   *)
(*                                                                         *)
(*   table    the readings a SELECT returns                                *)
(*   expired  readings the retention clean-up has removed                  *)
(*   cut      readings a power loss has taken back after their commit      *)
(*                                                                         *)
(* The table changes in two ways only.  A commit adds readings newer than  *)
(* any before and may remove expired ones.  A power loss rolls the table   *)
(* back to an earlier commit: what it takes away is newer than everything  *)
(* it leaves, and a removal that was not yet durable is undone.            *)
(***************************************************************************)
EXTENDS Naturals

VARIABLES table, expired, cut

tableVars == <<table, expired, cut>>

\* Every reading that was ever committed.
Ever == table \cup expired \cup cut

TableInit == table = {} /\ expired = {} /\ cut = {}

\* One transaction of the acquisition service becomes visible.
Commit ==
  /\ table' \subseteq Nat
  /\ \A new \in table' \ table, old \in Ever : old < new
  /\ expired' = expired \cup (table \ table')
  /\ cut' = cut

\* The machine lost power: SQLite recovers some earlier commit.
PowerCut ==
  /\ table' \subseteq table \cup expired
  /\ \A lost \in table \ table', kept \in table \cap table' : kept < lost
  /\ expired' = expired \ table'
  /\ cut' = cut \cup (table \ table')

TableNext == Commit \/ PowerCut

TableSpec == TableInit /\ [][TableNext]_tableVars
=============================================================================
