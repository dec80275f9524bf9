--------------------------- MODULE MCCoordinator -----------------------------
(* Coordinator instantiated for TLC.  Nodes are interchangeable.             *)
EXTENDS Coordinator, TLC
CONSTANTS n1, n2, r1
NodeSet == {n1, n2}
RangeSet == {r1}
NodeSymmetry == Permutations(NodeSet)
=============================================================================
