----------------------------- MODULE MCSanCovTarget -----------------------------
(* Instances of SanCovTarget for TLC. *)
EXTENDS SanCovTarget

CONSTANTS p1, p2

TwoProcs == {p1, p2}
FirstAndLast == {1, NumEdges}
=============================================================================
