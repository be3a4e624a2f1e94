SPECIFICATION Spec
CONSTANTS
  Callers = {fx, compiling}
  MaxCalls = 3
  MaxLines = 1
  None = none
SYMMETRY Symmetry
CONSTRAINT LastAlone
INVARIANTS
  TypeOK
  OwnOutputAlone
CHECK_DEADLOCK FALSE
