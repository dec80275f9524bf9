---------------------------- MODULE MCMigrateJob -----------------------------
(* MigrateJob instantiated for TLC.                                        *)
EXTENDS MigrateJob
CONSTANTS w1, w2
WorkerSet == {w1, w2}
=============================================================================
