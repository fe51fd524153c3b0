SPECIFICATION FairSpec
CONSTANTS
  p1 = p1 p2 = p2
  NoProc = NoProc
  Procs <- TwoProcs
  NumEdges = 9
  Edges <- FirstAndLast
  NumIterations = 2
INVARIANTS OneTarget QuietBetweenRuns InStep CoverageIsExact
PROPERTY RunReturns
CHECK_DEADLOCK FALSE
