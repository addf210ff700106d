SPECIFICATION Spec
CONSTANTS
  Engines = {"e1"}
  File <- MCFile
  Terminated <- MCTerminated
  Text = "text"
  Large <- MCLarge
  BufferSize = 1
  MaxSaves = 2
  MaxLazy = 1
  Faults = {"open", "write", "newline", "flush", "rename"}
  MaxOpens = 2
  MaxTick = 3
INVARIANTS
  SaveTypeOK
  MappedFileUntouched
  ShieldUp
  ModifiedHonest
PROPERTIES
  TargetAtomic
  SaveReported
CHECK_DEADLOCK FALSE
