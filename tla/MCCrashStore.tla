------------------------------ MODULE MCCrashStore ------------------------------
(* Instances of CrashStore for TLC. *)
EXTENDS CrashStore

CONSTANTS f1, f2, t1, t2, t3

TwoFuzzers == {f1, f2}
ThreeThreads == {t1, t2, t3}
\* Two threads in one fuzzer, one in the other.
TwoAndOne == [t \in ThreeThreads |-> IF t = t3 THEN f2 ELSE f1]
=============================================================================
