SPECIFICATION FairSpec
CONSTANTS
  UtilThreshold = 85
  VramHeadroom = 800
  Utils <- UtilsAround85
  Frees <- FreesAround800
  ModelSizes <- SizesTo130
  IntMax = 2147483647
INVARIANTS
  ListenerInformed
  WholeIfItFits
  OvercommitBounded
PROPERTIES
  FailStop
  Released
CHECK_DEADLOCK FALSE
