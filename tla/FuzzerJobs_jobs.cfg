SPECIFICATION FairSpec
CONSTANTS
  t1 = t1 t2 = t2 t3 = t3 e1 = e1 e2 = e2 e3 = e3
  NoThread = NoThread
  Threads <- TwoThreads
  Edges <- OneEdge
  InputFiles = 1
  ServerCorpus = 1
  HasServer = TRUE
  SkipInitialServerSync = FALSE
  AddAllInputs = TRUE
  CanGenerate = TRUE
  MinSamplesToGenerate = 2
  MaxRestarts = 0
  MaxAdded = 1
INVARIANTS TypeOK FuzzingIsDrained
PROPERTIES Proceeds ClaimsAreQueued
CHECK_DEADLOCK FALSE
