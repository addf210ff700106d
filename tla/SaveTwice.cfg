SPECIFICATION Spec
CONSTANTS
  Engines = {"e1", "e2"}
  File <- MCFile
  Terminated <- MCTerminated
  Text = "text"
  Large <- MCLarge
  BufferSize = 1
  MaxSaves = 2
  MaxLazy = 0
  Faults = {}
  MaxOpens = 2
  MaxTick = 3
INVARIANT OneSaveAtATime
CHECK_DEADLOCK FALSE
