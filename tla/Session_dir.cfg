SPECIFICATION SSpec
CONSTANTS
  TaskId = {1, 2}
  Resource = {"cores"}
  Request <- OneCoreEach
  Measures <- TwoCores
  Workers = 1
  MaxSessions = 1
  OutputFiles = {0, 2}
  Outputs <- AnyOutput
  DirFailures = TRUE
CHECK_DEADLOCK FALSE
INVARIANT
  InStep
