SPECIFICATION Spec
CONSTANTS
  blank = blank
  typed = typed
  Text <- MCText
  EmptyLine = blank
  FileLines = 2
  CompactAt = 1
  MaxInsert = 2
  MaxDelete = 2
  MaxMemory = 3
  Queries <- MCQueries
INVARIANTS
  TypeOK
  PiecesInBounds
  OriginalsInOrder
  MemoryNotShared
  WastedExact
  BlockCorrect
  ForwardFirst
  BackwardLast
  NearestMatch
PROPERTY
  RefinesDocument
