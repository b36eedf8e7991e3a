\* Closing the scheduler when only the main coroutine calls wait_all().
CONSTANTS
  c1 = c1
  c2 = c2
  NULL = null
  Main = main
  Scheduler = scheduler
  Coroutine = {main, c1, c2}
  FreedFlags = {FALSE}
  DeadlockCallback = TRUE
  WaitAllCallers = {main}
SPECIFICATION FairSpec
INVARIANTS
  CloseWaitsForAll
  CloseSafe
PROPERTIES
  SchedulerExitsWhenClosed
  SchedulerHandsOver
