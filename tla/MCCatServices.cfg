\* Three coroutines, two of which share a multi handle with two transfers.
CONSTANTS
  Main = main
  Scheduler = scheduler
  Coroutine = {main, c1, c2}
  NULL = NULL
  Sock <- OneSock
  MaxRunning = 2
  Sharers <- TwoSharers
  Handshake = 2
  BioSize = 3
  ReadSize = 3
  WriteSize = 2
  MaxUnits = 6
  MaxAlerts = 2
  Align = 2
  MaxLength = 4
  Lengths <- FrameLengths
  Keys <- FrameKeys
  MaxPayload = 26
  MaxHeaders = 2
  MaxBody = 3
  NameCuts <- CutsInNames
  EventSets <- UserEvents
  Uses <- MCUses
SPECIFICATION Spec
\* Coroutines may wait for ever for what never happens.
CHECK_DEADLOCK FALSE
INVARIANTS
  
  TransfersSafe
  ReadExact
  
  WatchdogSafe
  BufferExact
  FrameExact
  ContentTypeFound
  
PROPERTIES
  WatchdogReturns
