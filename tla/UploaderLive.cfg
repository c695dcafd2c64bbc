SPECIFICATION FairSpec
CONSTANTS
  BatchLimit = 1
  MaxTries = 2
  Tasks = {t1}
  MaxReadings = 2
  MaxQueued = 2
PROPERTIES WindowGetsThrough TasksEnd
