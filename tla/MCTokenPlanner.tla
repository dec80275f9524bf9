--------------------------- MODULE MCTokenPlanner ----------------------------
(* TokenPlanner instantiated for TLC: a signed ring like Murmur3's and one    *)
(* that reaches the top of the integer type like the RandomPartitioner's.     *)
EXTENDS TokenPlanner, TLC
Signed == TokenRange(-4, 3)
Unsigned == TokenRange(0, 7)
Rings == {Signed, Unsigned}
\* Whole rings, the two ends, one token, an inverted pair, a bound outside the ring.
ConfiguredBounds ==
    {Signed, Unsigned, TokenRange(-4, 0), TokenRange(2, 7), TokenRange(7, 7), TokenRange(1, 3),
     TokenRange(3, 1)}
Nodes == {T \in SUBSET (-4..7) : Cardinality(T) \in 0..2}
SizeTables ==
    {<<>>, << <<-5, 0, 5>>, <<0, 3, 1>> >>, << <<-1, 3, 2>>, <<3, 7, 6>> >>,
     << <<5, -2, 4>>, <<1, 6, 3>> >>}
=============================================================================
