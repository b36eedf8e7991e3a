\* An unbuffered channel and one of one slot, closed by anyone or selected on.
CONSTANTS
  ch1 = ch1
  ch2 = ch2
  c1 = c1
  c2 = c2
  c3 = c3
  Main = main
  Scheduler = scheduler
  Coroutine = {main, c1, c2}
  Channel = {ch1, ch2}
  capacity <- Mixed
  MaxPush = 3
  Selects <- TwoChannels
  Uses <- CloseOrSelect
SPECIFICATION Spec
SYMMETRY Symm
\* All coroutines may wait for each other for ever.
CHECK_DEADLOCK FALSE
INVARIANTS
  QueuesExact
  Asserts
  ClosedHasNoWaiters
  PushTruthful
PROPERTIES
  RefinesFifo
