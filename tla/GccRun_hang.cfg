SPECIFICATION Spec
CONSTANTS
  Callers = {fx}
  MaxCalls = 1
  MaxLines = 1
  None = none
PROPERTIES
  ExecuteEnds
CHECK_DEADLOCK FALSE
