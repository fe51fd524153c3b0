----------------------------- MODULE MCFuzzerJobs -----------------------------
(* Instances of FuzzerJobs for TLC. *)
EXTENDS FuzzerJobs, TLC

CONSTANTS t1, t2, t3, e1, e2, e3

OneThread == {t1}
TwoThreads == {t1, t2}
ThreeThreads == {t1, t2, t3}
OneEdge == {e1}
TwoEdges == {e1, e2}
ThreeEdges == {e1, e2, e3}

\* Threads are interchangeable, and so are offsets.
Symmetric == Permutations(Threads) \cup Permutations(Edges)
=============================================================================
