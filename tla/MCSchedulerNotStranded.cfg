\* The scheduler loop when the flags of a freed coroutine read as anything.
CONSTANTS
  c1 = c1
  c2 = c2
  NULL = null
  Main = main
  Scheduler = scheduler
  Coroutine = {main, c1, c2}
  FreedFlags = {FALSE, TRUE}
  DeadlockCallback = TRUE
  WaitAllCallers = {main, c1, c2}
SPECIFICATION Spec
INVARIANT SchedulerNotStranded
