\* Three keys in a cache of two; three threads on a pool of one, which
\* outgrows it when two of them see the room.
SPECIFICATION Spec
CONSTANTS
  Keys = {k1, k2, k3}
  CacheSize = 2
  MaxClock = 8
  Threads = {t1, t2, t3}
  PoolSize = 1
  Conns = {c1, c2, c3, c4}
  MaxClears = 1
  None = None
  MaxQueries = 4
SYMMETRY PoolSymmetry
INVARIANTS TypeOK CacheBounded NotShared NeverMoreThanUsers HeldIsOpen NoneLost OnceInOrder
PROPERTY EvictsOldest
