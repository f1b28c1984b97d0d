SPECIFICATION MCSpec
CONSTANTS
  SpawnTries = 30
  AttemptsCap = 31
  MaxRequests = 4
  NoRequest = NoRequest
  ServerId = ServerId
  Requests = {r1, r2}
  TokenCounts = {0, 1, 2}
  MaxCloses = 2
CHECK_DEADLOCK FALSE
INVARIANTS
  GivesUpOnlyLate
  EveryEventSkipped
  NeverCalled
  CallbacksStay
  NothingArrivesInTime
PROPERTIES
  NoReconnectStorm
  Recovers
  SuccessIsReal
