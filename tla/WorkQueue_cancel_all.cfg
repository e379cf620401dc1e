SPECIFICATION Spec
CONSTANTS
  t1 = t1
  t2 = t2
  t3 = t3
  w1 = w1
  w2 = w2
  Task = {t1}
  Worker = {w1}
  Foremen = {}
  StatusClients = {}
  NoWorker = NoWorker
  NoTask = NoTask
  Request <- BothUnlabeled
  Offer <- CoreWorker
  Tag <- SameTag
  Calls = {"cancel_all_tasks"}
  Timeouts = {"timed"}
  TaskOrder = "fifo"
  AsynchronyMultiplier = 1
  AsynchronyModifier = 0
  WorkersToWait = 0
  FastAbort = FALSE
  AbortMinimum = 1
  ProcessModule = FALSE
INVARIANTS
  IdleIsAvailable
