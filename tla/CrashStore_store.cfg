SPECIFICATION FairSpec
CONSTANTS
  f1 = f1 f2 = f2 t1 = t1 t2 = t2 t3 = t3
  None = None
  Fuzzers <- TwoFuzzers
  Threads <- ThreeThreads
  Process <- TwoAndOne
  Descs = {d1, d2}
  ValidDescs = {d1}
  MAX_IDENTICAL_CRASHES = 2
  MAX_SERVER_IDENTICAL_CRASHES = 2
  crash_reproduce_retries = 2
  MaxCrashes = 3
  MaxFailures = 1
INVARIANT ServerHasWhatItKeeps
PROPERTIES CrashesKept EveryCrashReachesServer
CHECK_DEADLOCK FALSE
