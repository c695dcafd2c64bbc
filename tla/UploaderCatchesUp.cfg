\* A queue longer than one batch.
SPECIFICATION FairSpec
CONSTANTS
  BatchLimit = 1
  MaxTries = 2
  Tasks = {t1}
  MaxReadings = 2
  MaxQueued = 2
PROPERTY CatchesUp
