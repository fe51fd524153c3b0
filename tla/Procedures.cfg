SPECIFICATION Procedures
CONSTANTS
  MaxStamp = 5
  MaxEntries = 4
  MaxLast = 5
  MaxByte = 1
  MaxSampleSize = 3
  BlockSize = 2
  MaxDuplicates = 2
  InterestingSamples <- Values
  TRIM_STEP_INITIAL = 4
  Reports <- ReportSets
  MaxRepeats = 2
  MaxSaved = 3
INVARIANTS ComputesGetIndex NeverTooLarge TrimmedIsMinimal
PROPERTIES Terminates  HotOffsetIsFirstDiff
CHECK_DEADLOCK FALSE
