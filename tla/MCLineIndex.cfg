SPECIFICATION Spec
CONSTANTS
  MaxBytes = 7
  MaxTabBytes = 6
  MaxWide = 7
  Files <- MCFiles
  ChunkSize = 3
  RayonChunkSize = 1
  Lane = 3
  Word = 2
  MonsterRun = 5
  Lookback = 6
  SampleSize = 7
  SliceSize = 4
  FixedSize = 8
  WINDOW_SIZE = 8
  Usize = 16
INVARIANTS
  TypeOK
  SearchFindsLastChunk
  CountCorrect
  OffsetExact
  ReadCovers
  ScanCounts
  FixedLinesCover
  FoundNearby
  EofBlockIsTail
PROPERTIES
  OffsetStable
  IndexerEnds
CHECK_DEADLOCK FALSE
