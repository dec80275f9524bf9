---------------------------- MODULE MCRateControl ----------------------------
(* RateControl instantiated for TLC.  Workers are interchangeable.           *)
EXTENDS RateControl, TLC
CONSTANTS w1, w2
WorkerSet == {w1, w2}
WorkerSymmetry == Permutations(WorkerSet)
=============================================================================
