\* Two upload tasks at once and more readings than a batch holds: batches
\* arrive in any order, twice, or after their rows are gone.
SPECIFICATION Spec
CONSTANTS
  BatchLimit = 1
  MaxTries = 2
  Tasks = {t1, t2}
  MaxReadings = 2
  MaxQueued = 2
INVARIANTS TypeOK CloudHasNoGaps AckedIsDeliveredOrQueued
PROPERTY ImplementsFeed
