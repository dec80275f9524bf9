---------------------------- MODULE MCRunElection ----------------------------
(* RunElection instantiated for TLC. Liveness is checked: no symmetry.       *)
EXTENDS RunElection
CONSTANTS n1, n2, n3, r1, r2
NodeSet == {n1, n2, n3}
RangeSet == {r1, r2}
=============================================================================
