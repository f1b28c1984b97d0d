SPECIFICATION MCSpec
CONSTANTS
  MaxAttempts = 5
  MaxSignals = 2
  Daemons = {d1, d2, d3}
  Objects = 10
  Threads = {t1, t2}
  Windows = {1, 2}
  MaxNotes = 2
INVARIANTS
  NvmlBalanced
  ServerLeftOnlyByCrash
  VersionMeansComplete
  NeverCompleted
PROPERTIES
  SignalEnds
  OwnRow
CHECK_DEADLOCK FALSE
