SPECIFICATION Spec
CONSTANTS
  MaxOffset = 3
  FirstOffsets = {0, 3}
  BytesPrevious = 1
  BytesNext = 1
  ByteValues = 2
  InterestingValues = 1
  ValueSize = 2
  MaxSampleSize = 4
  IterationsPerRound = 4
  MaxFinds = 2
  MaxRuns = 12
  MinDiscardRuns = 10
INVARIANTS EveryHotByteTried NotifiesAuthor
PROPERTY KeepsRunning
CHECK_DEADLOCK FALSE
