\* Switching, links, counts and flags; a freed coroutine's flags read as anything.
CONSTANTS
  c1 = c1
  c2 = c2
  NULL = null
  Main = main
  Scheduler = scheduler
  Coroutine = {main, c1, c2}
  FreedFlags = {FALSE, TRUE}
  DeadlockCallback = TRUE
  WaitAllCallers = {main, c1, c2}
SPECIFICATION Spec
SYMMETRY Symm
INVARIANTS
  LinksSound
  StateExact
PROPERTIES
  RefinesChain
