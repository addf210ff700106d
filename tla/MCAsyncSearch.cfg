SPECIFICATION Spec
CHECK_DEADLOCK FALSE
CONSTANTS
  main = main
  search = search
  old = old
  typed = typed
  Threads <- MCThreads
  Address <- MCAddress
  Documents <- MCDocuments
  Queries <- MCQueries
  Length = 5
  WINDOW_SIZE = 2
  MAX_WINDOWS = 2
  MaxCalls = 5
INVARIANTS
  SliceAlive
  SaveCopies
  
PROPERTIES
  SearchEnds
