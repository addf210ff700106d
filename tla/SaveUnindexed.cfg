SPECIFICATION Spec
CONSTANTS
  Engines = {"e1"}
  File <- MCFile
  Terminated <- MCTerminated
  Text = "text"
  Large <- MCLarge
  BufferSize = 1
  MaxSaves = 2
  MaxLazy = 1
  Faults = {}
  MaxOpens = 1
  MaxTick = 3
INVARIANT SavesWholeDocument
CHECK_DEADLOCK FALSE
