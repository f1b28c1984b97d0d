SPECIFICATION Spec
CONSTANTS
  Fields <- SomeFields
  Columns = 2
  MaxRows = 2
  HeaderSize = 4
  Limit = 6
INVARIANTS
  RowsReadBack
  AlwaysAPrefix
  SplitAtLimit
CHECK_DEADLOCK FALSE
