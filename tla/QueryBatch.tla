----------------------------- MODULE QueryBatch -----------------------------
(***************************************************************************)
(* BatchedDatabaseQueries (performance/uploader_optimizations.py): queries *)
(* are collected and executed together, each in its own transaction        *)
(* (isolation_level = None).                                               *)
(*                                                                         *)
(*   pending    _pending_queries                                           *)
(*   executed   the queries the database has executed, in order            *)
(*   added      queries added so far; a query is its number                *)
(***************************************************************************)
EXTENDS Integers, Sequences

CONSTANT MaxQueries

ASSUME BatchAssumption == MaxQueries \in Nat

VARIABLES pending, executed, added

batchVars == <<pending, executed, added>>

BatchInit == pending = <<>> /\ executed = <<>> /\ added = 0

AddQuery ==
  /\ added < MaxQueries /\ added' = added + 1
  /\ pending' = Append(pending, added')
  /\ UNCHANGED executed

ExecuteBatch ==
  /\ pending # <<>>
  /\ executed' = executed \o pending
  /\ pending' = <<>>
  /\ UNCHANGED added

\* Mutant of BatchFails: the queries are kept for the next batch.
BatchFailsKept ==
  /\ pending # <<>>
  /\ \E n \in 0 .. Len(pending) - 1 : executed' = executed \o SubSeq(pending, 1, n)
  /\ UNCHANGED <<pending, added>>

\* One query fails: those before it stay, those after it are forgotten.
BatchFails ==
  /\ pending # <<>>
  /\ \E n \in 0 .. Len(pending) - 1 : executed' = executed \o SubSeq(pending, 1, n)
  /\ pending' = <<>>
  /\ UNCHANGED added

ClearPending == pending' = <<>> /\ UNCHANGED <<executed, added>>

BatchStep == AddQuery \/ ExecuteBatch \/ BatchFails \/ ClearPending

BatchTypeOK ==
  /\ added \in 0 .. MaxQueries
  /\ pending \in Seq(1 .. added) /\ executed \in Seq(1 .. added)

\* Whatever batches fail at whatever query, no query is executed twice, and
\* none before one that was added earlier (uploader_optimizations.py:213).
OnceInOrder ==
  LET all == executed \o pending
  IN  \A i, j \in DOMAIN all : i < j => all[i] < all[j]
=============================================================================
