\* Three coroutines and three children that exit in any order.
CONSTANTS
  Main = main
  Scheduler = scheduler
  Coroutine = {main, c1, c2}
  NULL = NULL
  Fd <- TwoFds
  PollCtx <- TwoCalls
  Pid = {p1, p2, p3}
  Process <- OneProcess
  SignalHandle <- TwoHandles
  MaxCount = 2
  Uses <- ChildUses
SPECIFICATION Spec
SYMMETRY Symmetric
\* Coroutines may wait for ever for what never happens.
CHECK_DEADLOCK FALSE
INVARIANT
  NobodyCares
