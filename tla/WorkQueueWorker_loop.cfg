SPECIFICATION FairSpec
CONSTANTS
  TaskId = {1, 2, 3}
  Resource = {"cores", "disk"}
  Request <- Mixed
  Measures <- Shrinking
  Workers = 1
  MaxSessions = 2
CHECK_DEADLOCK FALSE
INVARIANTS
  TypeOK
  NeverUndercharged
  StoredIsActive
  ResultsAnnounced
PROPERTIES
  NeverOvercommits
  NoTaskStuck
