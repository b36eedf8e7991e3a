\* Two coroutines, one file or directory, one flock() at a time.
CONSTANTS
  Main = main
  Scheduler = scheduler
  Coroutine = {main, c1}
  NULL = NULL
  Req <- TwoReqs
  PoolSize = 1
  WorkOps = {"read"}
  FsOps = {"stat"}
  Handle <- OneHandle
  Flock <- OneFlock
SPECIFICATION FairSpec
\* Coroutines may wait for ever for a lock that nobody releases.
CHECK_DEADLOCK FALSE
INVARIANTS
  ContextExact
  ResourcesKept
  FlockSafe
PROPERTIES
  PoolServes
