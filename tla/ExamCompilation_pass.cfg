SPECIFICATION Spec
CONSTANTS
  NTasks = 2
  MaxShows = 2
INVARIANTS
  TypeOK
  OkFromSuccess
  PdfAfterOnlyRun
  AnnouncedAfterOnlyRun
PROPERTIES
  ErrorReported
  WatchersEnd
CHECK_DEADLOCK FALSE
