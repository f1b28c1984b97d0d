SPECIFICATION MCSpec
CONSTANTS
  Queries = {q1, q2}
  Analyses = {a1}
  Nobody = Nobody
  HistoryLimit = 2
  MaxFetches = 4
  Processes = {p1, p2}
  Keys = {k1, k2}
  Values = {v1}
  Absent = absent
  Garbage = garbage
  MaxFaults = 2
SYMMETRY Symmetry
INVARIANTS
  AnswerMatchesQuery
  StuckOnlyAfterError
  HistoryIsLatest
  SettingsKept
  MemoryIsRight
  GarbageIsExplained
