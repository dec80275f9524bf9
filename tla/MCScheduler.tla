----------------------------- MODULE MCScheduler -----------------------------
(* Scheduler instantiated for TLC.  Workers are interchangeable.             *)
EXTENDS Scheduler, TLC
CONSTANTS w1, w2
WorkerSet == {w1, w2}
WorkerSymmetry == Permutations(WorkerSet)
=============================================================================
