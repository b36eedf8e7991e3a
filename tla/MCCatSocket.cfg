\* Three coroutines, two sockets on two internals; the peer of the first internal
\* sends up to MaxBytes bytes, and a read asks for Size of them.
CONSTANTS
  Main = main
  Scheduler = scheduler
  Coroutine = {main, c1, c2}
  NULL = NULL
  Socket <- MCSocket
  Internal <- MCInternal
  Request <- MCRequest
  Uses <- MCUses
  Noisy <- MCNoisy
  Size = 2
  MaxBytes = 2
SPECIFICATION Spec
SYMMETRY Symmetric
\* Coroutines may wait for ever for a peer.
CHECK_DEADLOCK FALSE
INVARIANTS
  IoExact
  
  MemorySafe
  BytesKept
  ConnectionNotMissed
PROPERTIES
  NothingStartsAfterClose
