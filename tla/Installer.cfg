\* Two requests at once, a short and a long configuration, two networks, and
\* restarts and power cuts at any point.
SPECIFICATION FairSpec
CONSTANTS
  Requests = {r1, r2}
  SSIDs = {home, site}
  Configs = {short, long}
  Size <- ConfigSizes
  short = short
  long = long
  LastStep = 2
  None = None
INVARIANTS TypeOK Agreement WizardConsistent WifiDecoded ScanListsCells
PROPERTIES NmTrueIsSaved RequestsEnd
