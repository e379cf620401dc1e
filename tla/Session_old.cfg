SPECIFICATION SSpec
CONSTANTS
  TaskId = {1, 2}
  Resource = {"cores"}
  Request <- OneCoreEach
  Measures <- TwoCores
  Workers = 1
  MaxSessions = 2
  OutputFiles = {0, 2}
  Outputs <- AnyOutput
  DirFailures = FALSE
CHECK_DEADLOCK FALSE
PROPERTY
  CreditedToItsRun
