SPECIFICATION Spec
CONSTANTS
  t1 = t1
  t2 = t2
  t3 = t3
  main = main
  status = status
  Threads = {t1, t2, t3, main}
  FuzzThreads = {t1, t2, t3}
  StatusThread = status
  Fuzzer <- TwoFuzzers
SYMMETRY Symmetry
INVARIANT NoDeadlock
