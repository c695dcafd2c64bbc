SPECIFICATION FairSpec
CONSTANTS
  MaxBoots = 3
  EnvReadable = TRUE
  StartsWork = TRUE
PROPERTY ServicesComeBack
