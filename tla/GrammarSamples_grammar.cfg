SPECIFICATION FairSpec
CONSTANTS
  Generators <- SmallGenerators
  Repeats <- SmallRepeats
  MaxDepth = 3
  MaxSize = 9
  MinimizationLimit = 4
  MaxRepeat = 1
  MaxSamples = 3
INVARIANTS SamplesAreValid SavedAsRun MinimizerInStep CandidatesAlive
PROPERTY MinimizationEnds
CHECK_DEADLOCK FALSE
