SPECIFICATION FairSpec
CONSTANTS
  t1 = t1
  t2 = t2
  t3 = t3
  w1 = w1
  w2 = w2
  Task = {t1, t2, t3}
  Worker = {w1, w2}
  Foremen = {}
  StatusClients = {w2}
  NoWorker = NoWorker
  NoTask = NoTask
  Request <- MixedRequests
  Offer <- CoreWorker
  Tag <- SameTag
  Calls = {"cancel_all_tasks", "activate_before_dispatch"}
  Timeouts = {"none"}
  TaskOrder = "lifo"
  AsynchronyMultiplier = 1
  AsynchronyModifier = 0
  WorkersToWait = 2
  FastAbort = FALSE
  AbortMinimum = 1
  ProcessModule = FALSE
INVARIANTS
  NeverUndercharged
  NoLabelMix
PROPERTIES
  NotClogged
  NullOnlyWhenEmpty
  FinishedIsFetched
