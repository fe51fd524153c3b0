SPECIFICATION Spec
CONSTANTS
  t1 = t1 t2 = t2 t3 = t3 e1 = e1 e2 = e2 e3 = e3
  NoThread = NoThread
  Threads <- TwoThreads
  Edges <- TwoEdges
  InputFiles = 1
  ServerCorpus = 2
  HasServer = TRUE
  SkipInitialServerSync = FALSE
  AddAllInputs = FALSE
  CanGenerate = FALSE
  MinSamplesToGenerate = 1
  MaxRestarts = 2
  MaxAdded = 0
SYMMETRY Symmetric
INVARIANTS ClaimedOnce NothingLostWithoutRestart EveryEntryInOnePlace SavedUpdatesProcessed FilesIntact IgnoredIsCounted
CHECK_DEADLOCK FALSE
