---------------------------- MODULE Performance ----------------------------
(***************************************************************************)
(* The helpers of the performance package that keep state others rely on.  *)
(* They share nothing, so a behaviour exercises one of them.               *)
(*                                                                         *)
(*   part   the helper that is exercised                                   *)
(***************************************************************************)
EXTENDS LruCache, ConnectionPool, QueryBatch

VARIABLE part

vars == <<lruVars, poolVars, batchVars, part>>

Parts == {"cache", "pool", "batch"}

Init == LruInit /\ PoolInit /\ BatchInit /\ part \in Parts

CacheUsed == part = "cache" /\ LruStep /\ UNCHANGED <<poolVars, batchVars, part>>
PoolUsed == part = "pool" /\ PoolStep /\ UNCHANGED <<lruVars, batchVars, part>>
BatchUsed == part = "batch" /\ BatchStep /\ UNCHANGED <<lruVars, poolVars, part>>

Next == CacheUsed \/ PoolUsed \/ BatchUsed

Spec == Init /\ [][Next]_vars

TypeOK == LruTypeOK /\ PoolTypeOK /\ BatchTypeOK /\ part \in Parts
=============================================================================
