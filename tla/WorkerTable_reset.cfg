SPECIFICATION Spec
CONSTANTS
  w1 = w1
  w2 = w2
  w3 = w3
  t1 = t1
  t2 = t2
  Worker = {w1, w2, w3}
  Task = {t1, t2}
  Key = {w1, w2, w3, t1, t2}
  HashOf <- Colliding
  Null = Null
  InitialBuckets = 2
  TasksPerWorker = 1
  ShutDown = {1}
  Loops = {"release_all_workers"}
PROPERTY
  ResetDisconnectsAll
