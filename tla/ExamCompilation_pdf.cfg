SPECIFICATION Spec
CONSTANTS
  NTasks = 2
  MaxShows = 2
INVARIANTS
  PdfAfterCompile
CHECK_DEADLOCK FALSE
