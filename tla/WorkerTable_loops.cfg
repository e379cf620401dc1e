SPECIFICATION FairSpec
CONSTANTS
  w1 = w1
  w2 = w2
  w3 = w3
  t1 = t1
  t2 = t2
  Worker = {w1, w2, w3}
  Task = {t1, t2}
  Key = {w1, w2, w3, t1, t2}
  HashOf <- Colliding
  Null = Null
  InitialBuckets = 2
  TasksPerWorker = 1
  ShutDown = {0, 2}
  Loops = {"release_all_workers", "shut_down_workers", "remove_unresponsive_workers", "results",
           "abort_slow_workers"}
INVARIANTS
  TypeOK
  NoneForgotten
  CursorSafe
  VisitsAll
PROPERTIES
  LoopEnds
  AnnouncedIsRead
