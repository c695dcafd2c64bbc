----------------------------- MODULE CloudFeed -----------------------------
(***************************************************************************)
(* What the uploader promises to those who read the cloud's copy of        *)
(* telemetry.db: it only grows; it has nothing that telemetry.db has not   *)
(* committed; and whenever it has a reading it has the older ones, but for *)
(* those that left the table before they could be sent.  It may lag behind *)
(* for ever.                                                               *)
(*                                                                         *)
(*   received   the readings in the cloud                                  *)
(*   skipped    history: the readings that ever left the table             *)
(***************************************************************************)
EXTENDS TelemetryTable

VARIABLES skipped, received

feedVars == <<tableVars, skipped, received>>

FeedInit == TableInit /\ skipped = {} /\ received = {}

\* The table changes, or it does not.
TableStep == [TableNext]_tableVars /\ skipped' = skipped \cup (table \ table')

\* Readings arrive, or none.
Arrives ==
  /\ received \subseteq received' /\ received' \subseteq Ever
  /\ \A n \in received', m \in Ever : m < n => m \in received' \cup skipped'

FeedNext == TableStep /\ Arrives

FeedSpec == FeedInit /\ [][FeedNext]_feedVars
=============================================================================
