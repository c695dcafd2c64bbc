\* The broker cannot be reached when the client first connects.
SPECIFICATION FairSpec
CONSTANTS
  BatchLimit = 1
  MaxTries = 2
  Tasks = {t1}
  MaxReadings = 1
  MaxQueued = 2
PROPERTY MqttReconnects
