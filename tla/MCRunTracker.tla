---------------------------- MODULE MCRunTracker -----------------------------
(* RunTracker instantiated for TLC.  Ranges are interchangeable.  The chain  *)
(* of three runs that names an older one needs a single range: ranges meet   *)
(* only in the queue, and one overflows a queue of one write.                *)
EXTENDS RunTracker, TLC
CONSTANTS r1, r2
RangeSet == {r1, r2}
OneRange == {r1}
RangeSymmetry == Permutations(RangeSet)
=============================================================================
