SPECIFICATION Spec
CONSTANTS
  MaxBytes = 4
  MaxTabBytes = 2
  MaxWide = 0
  Files <- MCFiles
  ChunkSize = 3
  RayonChunkSize = 1
  Lane = 3
  Word = 2
  MonsterRun = 5
  Lookback = 6
  SampleSize = 7
  SliceSize = 4
  FixedSize = 8
  WINDOW_SIZE = 8
  Usize = 16
INVARIANT
  LineBeginsAtItsOffset
CHECK_DEADLOCK FALSE
