SPECIFICATION FairSpec
CONSTANTS
  a = a b = b c = c d = d
  w1 = w1 w2 = w2 w3 = w3
  NoJob = NoJob
  Jobs <- FourJobs
  Ids = {1, 2, 3, 4}
  Workers = {w1, w2, w3}
  IdOf <- DistinctIds
  TypeOf <- MixedTypes
  PriorityOf <- MixedPriorities
  MaxQueueDepth = 3
  MaxConcurrent <- TwoLimits
INVARIANTS
  EachJobOnce
  LimitsRespected
  RunningIsExact
  NoDoubleSkip
  NoStrandedWork
PROPERTIES
  ImplementsDispatcher
  HighServed
  ClassServed
