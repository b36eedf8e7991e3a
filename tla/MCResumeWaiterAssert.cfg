\* select() on two channels, one of which is closed.
CONSTANTS
  ch1 = ch1
  ch2 = ch2
  c1 = c1
  c2 = c2
  c3 = c3
  Main = main
  Scheduler = scheduler
  Coroutine = {main, c1, c2}
  Channel = {ch1, ch2}
  capacity <- Mixed
  MaxPush = 2
  Selects <- TwoChannels
  Uses <- CloseAndSelect
SPECIFICATION Spec
\* All coroutines may wait for each other for ever.
CHECK_DEADLOCK FALSE
INVARIANTS
  ResumeWaiterAssert
