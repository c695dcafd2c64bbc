SPECIFICATION Spec
CONSTANTS
  MaxBoots = 3
  EnvReadable = TRUE
  StartsWork = FALSE
INVARIANT InstallsToInactive
