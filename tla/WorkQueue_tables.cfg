SPECIFICATION Spec
CONSTANTS
  t1 = t1
  t2 = t2
  t3 = t3
  w1 = w1
  w2 = w2
  Task = {t1, t2}
  Worker = {w1, w2}
  Foremen = {}
  StatusClients = {}
  NoWorker = NoWorker
  NoTask = NoTask
  Request <- BothUnlabeled
  Offer <- CoreWorker
  Tag <- SameTag
  Calls = {"cancel_by_taskid", "cancel_by_tasktag", "reset", "shut_down_workers",
           "activate_worker_waiting"}
  Timeouts = {"none", "timed"}
  TaskOrder = "fifo"
  AsynchronyMultiplier = 1
  AsynchronyModifier = 1
  WorkersToWait = 2
  FastAbort = TRUE
  AbortMinimum = 1
  ProcessModule = TRUE
INVARIANTS
  TypeOK
  OnePlace
  MapConsistent
  NoStaleResult
  ChargedExactly
  IdleIsAvailable
PROPERTIES
  ImplementsTaskPool
