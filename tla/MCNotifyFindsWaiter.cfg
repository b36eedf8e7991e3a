\* notify_all() against its comment, every coroutine may call wait_all().
CONSTANTS
  c1 = c1
  c2 = c2
  NULL = null
  Main = main
  Scheduler = scheduler
  Coroutine = {main, c1, c2}
  FreedFlags = {FALSE}
  DeadlockCallback = TRUE
  WaitAllCallers = {main, c1, c2}
SPECIFICATION Spec
INVARIANT NotifyFindsWaiter
