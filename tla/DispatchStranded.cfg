SPECIFICATION FairSpec
CONSTANTS
  a = a b = b
  w1 = w1 w2 = w2
  NoJob = NoJob
  NoWorker = NoWorker
  Jobs = {a, b}
  Ids = {1, 2}
  Workers = {w1, w2}
  IdOf <- MCIdOf
  TypeOf <- MCTypeOf
  PriorityOf <- MCPriorityOf
  MaxQueueDepth = 2
  MaxConcurrent <- MCMaxConcurrent
  UtilThreshold = 85
  VramHeadroom = 800
  Utils = {70, 90}
  Frees = {800, 900}
  ModelSizes = {}
  IntMax = 2147483647
PROPERTIES
  DispatchedOnceAccepted
