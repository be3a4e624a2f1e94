SPECIFICATION LineSpec
CONSTANTS
  Callers = {fx}
  MaxCalls = 3
  MaxLines = 2
  None = none
INVARIANTS
  NoLeftovers
PROPERTIES
  ExecuteEnds
CHECK_DEADLOCK FALSE
