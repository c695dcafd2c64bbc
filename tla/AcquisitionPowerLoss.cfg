\* The documented bound on what a power loss takes from telemetry.db.
SPECIFICATION Spec
CONSTANTS
  CleanupEvery = 60
  Retention = 7
  MaxReadings = 3
  MaxClock = 1
  MaxKwh = 0
PROPERTY PowerLosesOneReading
