SPECIFICATION Spec
CONSTANTS
  NTasks = 2
  MaxShows = 1
PROPERTIES
  RunComesToAnEnd
CHECK_DEADLOCK FALSE
