SPECIFICATION Spec
CONSTANTS
  TaskId = {1, 2, 3}
  Resource = {"cores", "disk"}
  Request <- Mixed
  Measures <- Shrinking
  Workers = 1
  MaxSessions = 1
CHECK_DEADLOCK FALSE
PROPERTY
  KeepsResults
