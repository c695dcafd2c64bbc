\* All the ways an update, a commit and a boot can be cut short, with an
\* environment that can be read.
SPECIFICATION FairSpec
CONSTANTS
  MaxBoots = 3
  EnvReadable = TRUE
  StartsWork = FALSE
INVARIANTS TypeOK ActiveBootable
PROPERTIES CommitsWhatRuns ImplementsAb BootEnds
