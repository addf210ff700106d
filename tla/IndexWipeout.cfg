SPECIFICATION PollSpec
CONSTANTS
  MaxBytes = 5
  Files <- MCFiles
  ChunkSize = 2
  RayonChunkSize = 2
  Lane = 2
  Word = 2
  MonsterRun = 4
  Lookback = 2
  SliceSize = 2
  SampleSize = 4
  FixedSize = 4
  WINDOW_SIZE = 4
  Usize = 8
  Mantissa = 4
  MaxQueued = 2
INVARIANT
  WipeoutFrees
CHECK_DEADLOCK FALSE
