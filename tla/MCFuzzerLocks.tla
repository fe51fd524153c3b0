------------------------------ MODULE MCFuzzerLocks ------------------------------
EXTENDS FuzzerLocks, TLC

CONSTANTS t1, t2, t3, main, status

TwoFuzzers == [t \in {t1, t2, t3, main} |-> IF t = t3 THEN "f2" ELSE "f1"]
Symmetry == Permutations({t1, t2})
=============================================================================
