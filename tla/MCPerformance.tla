--------------------------- MODULE MCPerformance ---------------------------
(* The threads of the pool are alike, and so are its connections.          *)
EXTENDS Performance

PoolSymmetry == Permutations(Threads) \cup Permutations(Conns)
=============================================================================
