--------------------------- MODULE MCCoverageServer ---------------------------
(* Instances of CoverageServer for TLC. *)
EXTENDS CoverageServer, TLC

CONSTANTS c1, c2, e1, e2, e3, k1, k2, k3

OneClient == {c1}
TwoClients == {c1, c2}
OneEdge == {e1}
TwoEdges == {e1, e2}
ThreeEdges == {e1, e2, e3}
TwoConns == {k1, k2}
ThreeConns == {k1, k2, k3}

\* Connection slots and offsets are interchangeable; clients are too.
Symmetric == Permutations(Edges) \cup Permutations(Conns) \cup Permutations(Clients)
=============================================================================
