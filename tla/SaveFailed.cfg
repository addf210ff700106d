SPECIFICATION Spec
CONSTANTS
  Engines = {"e1"}
  File <- MCFile
  Terminated <- MCTerminated
  Text = "text"
  Large <- MCLarge
  BufferSize = 1
  MaxSaves = 2
  MaxLazy = 0
  Faults = {"open", "write", "flush", "rename"}
  MaxOpens = 1
  MaxTick = 3
INVARIANT SaveCompleteMeansSaved
CHECK_DEADLOCK FALSE
