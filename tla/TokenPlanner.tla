---------------------------- MODULE TokenPlanner -----------------------------
(***************************************************************************)
(* Dividing the token ring into the ranges a run works on, and dividing     *)
(* what a stopped run left over for the run that resumes it                 *)
(* (crates/cdm-engine/src/planner: mod.rs, split.rs, partitioner.rs;        *)
(* crates/cdm-core/src/domain/token.rs; the ring metadata of                *)
(* crates/cdm-cql/src/ring.rs; crates/cdm-track/src/resume.rs subdivide).   *)
(*                                                                          *)
(* The splitting loop is stepped one emitted range at a time; everything    *)
(* else is one action.  Tokens are i128 in the code: IMax stands for        *)
(* i128::MAX, which the RandomPartitioner ring reaches, so `+ 1` and        *)
(* `+ size` can overflow there and the code clamps; token counts are u128   *)
(* and their products saturate.  A range is recorded in bigint columns, so  *)
(* only a plan whose tokens are all i64 can be tracked, and resumed.  The   *)
(* shuffle only permutes a work list and is left out.                       *)
(***************************************************************************)
EXTENDS Integers, Sequences, FiniteSets, SequencesExt, FiniteSetsExt

CONSTANTS
    IMax,           \* i128::MAX, scaled down
    BigMax,         \* i64::MAX, scaled down: the largest bigint
    FullRings,      \* the partitioners' rings: [lo, hi] records
    Bounds,         \* the filter.token.min/max an operator may configure
    NumParts,       \* the perfops.num_parts a run may be configured with
    Coverages,      \* the filter.token_coverage_percent values
    NodeTokens,     \* the sets of tokens the nodes of the cluster may own
    SizeRows,       \* what system.size_estimates may hold: rows of start, end, partitions
    MaxRows,        \* plan.max_rows_per_range
    Multipliers,    \* track_run.rerun_multiplier
    Fallback,       \* FALLBACK_PARTITION_SIZE
    MaxRanges,      \* MAX_PLANNED_RANGES
    MaxResumes      \* bound: how often a run is resumed

ASSUME WidthAssumption ==
    /\ IMax \in Nat /\ BigMax \in Nat /\ BigMax < IMax
    /\ \A r \in FullRings : r.lo \in Int /\ r.hi \in Int /\ r.lo <= r.hi /\ r.hi <= IMax
    /\ \A b \in Bounds : b.lo \in Int /\ b.hi \in Int
ASSUME SettingsAssumption ==
    /\ NumParts \subseteq Nat /\ Multipliers \subseteq Nat \ {0} /\ Coverages \subseteq Nat
    /\ MaxRows \in Nat /\ Fallback \in Nat \ {0} /\ MaxRanges \in Nat /\ MaxResumes \in Nat
ASSUME TokensAssumption ==
    \A T \in NodeTokens : IsFiniteSet(T) /\ \A t \in T : t \in Int /\ t <= IMax
ASSUME RowsAssumption == SizeRows \subseteq Seq(Int \X Int \X Nat)

VARIABLES
    pc,         \* where the planner or the run is
    conf,       \* the settings and the cluster metadata
    todo,       \* the segments still to be split, and into how many parts
    cursor,     \* cur_max: the next token of Head(todo) to place
    out,        \* the ranges emitted so far
    plan,       \* TokenPlan::ranges
    done,       \* the ranges of the plan that completed
    hist        \* history: tokens processed so far, tokens first planned, resumes

vars == <<pc, conf, todo, cursor, out, plan, done, hist>>

-----------------------------------------------------------------------------
(* TokenRange.                                                              *)

TokenRange(lo, hi) == [lo |-> lo, hi |-> hi]
TokenCount(r) == r.hi - r.lo + 1
InRange(r, t) == r.lo <= t /\ t <= r.hi
Intersects(r, s) == r.lo <= s.hi /\ s.lo <= r.hi
Clip(r, s) == TokenRange(Max({r.lo, s.lo}), Min({r.hi, s.hi}))
Tokens(r) == r.lo .. r.hi

\* The members of S by increasing key, which tells them apart: each goes where as many are below it.
InOrder(S, key) ==
    [k \in 1..Cardinality(S) |->
        CHOOSE x \in S : Cardinality({y \in S : key[y] < key[x]}) = k - 1]

\* The sum of a sequence of numbers.
Total(numbers) ==
    LET sum[i \in 0..Len(numbers)] == IF i = 0 THEN 0 ELSE sum[i - 1] + numbers[i]
    IN  sum[Len(numbers)]

\* TokenRange::split(): as even as the count allows, the remainder over the leading pieces.
EvenSplit(r, parts) ==
    LET n == Min({parts, TokenCount(r)})
        base == TokenCount(r) \div n
        extra == TokenCount(r) % n
        Start(i) == r.lo + (i - 1) * base + Min({i - 1, extra})
    IN [i \in 1..n |-> TokenRange(Start(i), Start(i + 1) - 1)]

-----------------------------------------------------------------------------
(* What the planner is told: resolve_bounds(), ring_boundaries(),           *)
(* read_size_estimates().                                                   *)

\* A bound outside the partitioner's ring, or an inverted pair, is a configuration error.
UsableBounds(ring, b) ==
    /\ InRange(ring, b.lo) /\ InRange(ring, b.hi)
    /\ b.lo <= b.hi

\* The nodes' tokens inside the bounds, in order; each ends a segment, and what is left past the
\* last one wraps around to the first node.
SaturatingSucc(t) == IF t = IMax THEN IMax ELSE t + 1
RingBoundaries(nodes, b) ==
    LET inside == {t \in nodes : InRange(b, t)}
        sorted == InOrder(inside, [t \in inside |-> t])
        Lower(i) == IF i = 1 THEN b.lo ELSE SaturatingSucc(sorted[i - 1])
        owned == [i \in 1..Len(sorted) |-> TokenRange(Lower(i), sorted[i])]
        rest == SaturatingSucc(sorted[Len(sorted)])
    IN IF sorted = <<>> THEN <<>>
       ELSE IF rest <= b.hi THEN Append(owned, TokenRange(rest, b.hi)) ELSE owned

\* range_start is exclusive; a row that wraps past the end of the ring is skipped.
EstimateRange(e) == TokenRange(SaturatingSucc(e[1]), e[2])
IsEstimate(e) == EstimateRange(e).lo <= EstimateRange(e).hi

\* u128 arithmetic that saturates: saturating_mul(), saturating_add().
UMax == 2 * IMax + 1
Saturating(n) == Min({n, UMax})

\* An estimate counts in proportion to its overlap with the range.
Prorated(r, e) ==
    IF IsEstimate(e) /\ Intersects(EstimateRange(e), r)
    THEN Saturating(e[3] * TokenCount(Clip(r, EstimateRange(e)))) \div TokenCount(EstimateRange(e))
    ELSE 0
EstimatedRowsIn(r, rows) == Saturating(Total([i \in 1..Len(rows) |-> Prorated(r, rows[i])]))

-----------------------------------------------------------------------------
Init ==
    /\ \E ring \in FullRings, b \in Bounds, n \in NumParts, c \in Coverages,
          s \in {"fixed", "ring_aware", "adaptive"}, m \in Multipliers :
         \E nodes \in (IF s = "ring_aware" THEN NodeTokens ELSE {{}}),
            rows \in (IF s = "adaptive" THEN SizeRows ELSE {<<>>}) :
           conf = [ring |-> ring, bounds |-> b, parts |-> n, coverage |-> c, strategy |-> s,
                   nodes |-> nodes, rows |-> rows, multiplier |-> m]
    /\ pc = "start" /\ todo = <<>> /\ cursor = 0 /\ out = <<>> /\ plan = <<>> /\ done = {}
    /\ hist = [processed |-> [t \in {} |-> 0], first |-> {}, resumes |-> 0]

Refuse == pc' = "refused" /\ UNCHANGED <<conf, todo, cursor, out, plan, done, hist>>

\* effective_coverage(): anything outside 1..100 means 100.
EffectiveCoverage(c) == IF c \in 1..100 THEN c ELSE 100

Segment(r, parts, coverage) ==
    [lo |-> r.lo, hi |-> r.hi, parts |-> parts, coverage |-> EffectiveCoverage(coverage)]

\* plan_ring_aware(): each node's segment gets its share of the parts - less where the product
\* saturates - and at least one.
Share(r, total) == Max({Saturating(conf.parts * TokenCount(r)) \div total, 1})
RingSegments ==
    LET segments == RingBoundaries(conf.nodes, conf.bounds)
        total == Total([i \in 1..Len(segments) |-> TokenCount(segments[i])])
    IN [i \in 1..Len(segments) |-> Segment(segments[i], Share(segments[i], total), conf.coverage)]

SegmentsFixed == <<Segment(conf.bounds, conf.parts, conf.coverage)>>
Segments ==
    IF conf.strategy = "ring_aware" THEN RingSegments
    ELSE <<Segment(conf.bounds, conf.parts, conf.coverage)>>

\* Planner::plan(): unusable bounds and an empty ring are refused; split_ring() refuses zero or too
\* many parts, which for a ring-aware plan is asked of each share and not of num_parts.
Splittable(parts) == parts \in 1..MaxRanges
PlanIsUsable ==
    /\ UsableBounds(conf.ring, conf.bounds)
    /\ Segments # <<>>
    /\ \A i \in 1..Len(Segments) : Splittable(Segments[i].parts)

RefusePlan == pc = "start" /\ ~PlanIsUsable /\ Refuse

StartSplitting(segments) ==
    /\ pc' = "split" /\ todo' = segments /\ cursor' = Head(segments).lo /\ out' = <<>>

StartPlan ==
    /\ pc = "start" /\ PlanIsUsable
    /\ StartSplitting(Segments)
    /\ UNCHANGED <<conf, plan, done, hist>>

-----------------------------------------------------------------------------
(* split_ring(): one iteration of the loop emits one range.                 *)

PartitionSize(s) ==
    LET size == (s.hi - s.lo) \div s.parts IN IF size = 0 THEN Fallback ELSE size

\* checked_add: past i128::MAX or past the segment, the range ends with the segment.
Upper(s) ==
    IF cursor + PartitionSize(s) > IMax THEN s.hi ELSE Min({cursor + PartitionSize(s), s.hi})

\* scale_by_percent(): floor(width * percent / 100), without forming the product.
ScaleByPercent(width, percent) ==
    (width \div 100) * percent + ((width % 100) * percent) \div 100

\* The next range starts one token further, if there is one.
NextMinShared(upper) == upper
NextMin(upper) == upper + 1

EmitRange ==
    /\ pc = "split" /\ todo # <<>>
    /\ LET s == Head(todo)
           upper == Upper(s)
       IN /\ out' = Append(out, TokenRange(cursor, cursor + ScaleByPercent(upper - cursor, s.coverage)))
          /\ IF upper < s.hi
             THEN cursor' = NextMin(upper) /\ UNCHANGED todo
             ELSE /\ todo' = Tail(todo)
                  /\ cursor' = IF Len(todo) > 1 THEN todo[2].lo ELSE 0
    /\ UNCHANGED <<pc, conf, plan, done, hist>>

-----------------------------------------------------------------------------
(* The plan.                                                                *)

\* plan_adaptive(): a range with more rows than plan.max_rows_per_range is divided again.
Factor(r) ==
    IF MaxRows = 0 THEN 1
    ELSE Max({(EstimatedRowsIn(r, conf.rows) + MaxRows - 1) \div MaxRows, 1})
Divided(ranges) == FlattenSeq([i \in 1..Len(ranges) |-> EvenSplit(ranges[i], Factor(ranges[i]))])

NewPlan == IF conf.strategy = "adaptive" THEN Divided(out) ELSE out

Covered(ranges) == UNION {Tokens(ranges[i]) : i \in 1..Len(ranges)}

FinishPlan ==
    /\ pc = "split" /\ todo = <<>> /\ plan = <<>>
    /\ pc' = "run" /\ plan' = NewPlan
    /\ hist' = [hist EXCEPT !.first = Covered(NewPlan),
                            !.processed = [t \in Tokens(conf.bounds) |-> 0]]
    /\ UNCHANGED <<conf, todo, cursor, out, done>>

\* token_bound(): a run with a token that is no bigint cannot be tracked; with tracking enabled it
\* fails at initialisation.
Trackable == \A i \in 1..Len(plan) : -BigMax - 1 <= plan[i].lo /\ plan[i].hi <= BigMax

RefuseTracking == pc = "run" /\ ~Trackable /\ Refuse

\* The run processes some of its ranges and stops.
RunRanges ==
    /\ pc = "run"
    /\ \E completed \in SUBSET (1..Len(plan)) :
         /\ done' = completed
         /\ hist' = [hist EXCEPT !.processed = [t \in DOMAIN @ |->
                @[t] + Cardinality({i \in completed : InRange(plan[i], t)})]]
    /\ pc' = "stopped"
    /\ UNCHANGED <<conf, todo, cursor, out, plan>>

-----------------------------------------------------------------------------
(* Resuming: plan_resume() and TokenPlan::from_ranges().                    *)

\* TRK-031: what did not complete is outstanding, in ring order.
Outstanding ==
    LET indices == InOrder((1..Len(plan)) \ done, [i \in 1..Len(plan) |-> plan[i].lo])
    IN [k \in 1..Len(indices) |-> plan[indices[k]]]

\* TRK-033: each outstanding range is split again, at full coverage.
ResumeCoverageAgain == conf.coverage
ResumeCoverage == 100

Resumable ==
    /\ pc = "stopped" /\ Trackable /\ Outstanding # <<>> /\ hist.resumes < MaxResumes
Subdividable == conf.multiplier = 1 \/ Splittable(conf.multiplier)

\* subdivide(): split_ring() refuses the multiplier.
RefuseSubdivision == Resumable /\ ~Subdividable /\ Refuse

StartResume ==
    /\ Resumable /\ Subdividable
    /\ hist' = [hist EXCEPT !.resumes = @ + 1]
    /\ IF conf.multiplier > 1
       THEN StartSplitting([k \in 1..Len(Outstanding) |->
                Segment(Outstanding[k], conf.multiplier, ResumeCoverage)])
       ELSE pc' = "split" /\ out' = Outstanding /\ UNCHANGED <<todo, cursor>>
    /\ UNCHANGED <<conf, plan, done>>

\* Sorted, two ranges overlap if and only if two neighbours do.
Overlapping(ranges) ==
    \E i, j \in 1..Len(ranges) : i # j /\ Intersects(ranges[i], ranges[j])

TooMany == Len(out) > MaxRanges

FinishResume ==
    /\ pc = "split" /\ todo = <<>> /\ plan # <<>>
    /\ ~TooMany /\ ~Overlapping(out)
    /\ pc' = "run" /\ plan' = out /\ done' = {}
    /\ UNCHANGED <<conf, todo, cursor, out, hist>>

RefuseResume ==
    /\ pc = "split" /\ todo = <<>> /\ plan # <<>>
    /\ TooMany \/ Overlapping(out)
    /\ Refuse

Terminated ==
    /\ pc = "refused" \/ (pc = "stopped" /\ ~Resumable)
    /\ UNCHANGED vars

Next ==
    \/ RefusePlan \/ StartPlan \/ EmitRange \/ FinishPlan \/ RefuseTracking \/ RunRanges
    \/ RefuseSubdivision \/ StartResume \/ FinishResume \/ RefuseResume
    \/ Terminated

Spec == Init /\ [][Next]_vars

-----------------------------------------------------------------------------
(* Properties.                                                              *)

\* Type invariant: a range or a segment is never empty or inverted (TokenRange::new refuses it), and
\* what was completed are ranges of the plan.
RangeType == {r \in [lo: Int, hi: Int] : r.lo <= r.hi}
SegmentType == {s \in [lo: Int, hi: Int, parts: Nat \ {0}, coverage: 1..100] : s.lo <= s.hi}
TypeOK ==
    /\ pc \in {"start", "split", "run", "stopped", "refused"}
    /\ conf \in [ring: FullRings, bounds: Bounds, parts: NumParts, coverage: Coverages,
                 strategy: {"fixed", "ring_aware", "adaptive"}, nodes: NodeTokens \cup {{}},
                 rows: SizeRows \cup {<<>>}, multiplier: Multipliers]
    /\ todo \in Seq(SegmentType) /\ cursor \in Int
    /\ out \in Seq(RangeType) /\ plan \in Seq(RangeType) /\ done \subseteq 1..Len(plan)
    /\ hist.first \subseteq DOMAIN hist.processed /\ DOMAIN hist.processed \subseteq Int
    /\ hist \in [processed: [DOMAIN hist.processed -> Nat], first: SUBSET Int, resumes: 0..MaxResumes]

Times(ranges, t) == Cardinality({i \in 1..Len(ranges) : InRange(ranges[i], t)})
FullCoverage == EffectiveCoverage(conf.coverage) = 100

\* ring_boundaries() gives a node at i128::MAX its segment and then, as the successor of that token
\* saturates, the token once more as the wrap-around.
TwicePlanned(t) == conf.strategy = "ring_aware" /\ IMax \in conf.nodes /\ t = IMax

\* TOK-003, TOK-008, TOK-010: the first plan has every token of the bounds in exactly one range -
\* at most one when only a sample is read - and none outside them, whichever strategy made it and
\* however the shares were rounded or saturated, up to the last representable token; only that one,
\* where a node owns it, is planned twice.  A plan has no more ranges than num_parts, plus one for
\* each segment of a ring-aware plan.  For a fixed plan the ceiling checked on num_parts therefore
\* bounds it (NFR-003); a ring-aware plan is checked by segment only, and num_parts itself is what
\* bounds it (split_ring, plan_ring_aware, ring_boundaries, TokenRange::split).
PlanCoversOnce ==
    pc = "run" /\ hist.resumes = 0 =>
        /\ \A t \in Tokens(conf.bounds) :
             LET times == IF TwicePlanned(t) THEN 2 ELSE 1
             IN  IF FullCoverage THEN Times(plan, t) = times ELSE Times(plan, t) <= times
        /\ Covered(plan) \subseteq Tokens(conf.bounds)
        /\ conf.strategy # "adaptive" => Len(plan) <= Max({conf.parts, 1}) + Cardinality(conf.nodes)
        /\ conf.strategy = "fixed" => Len(plan) <= MaxRanges

\* Across any number of stops and resumes a token that was planned is either processed, once, or
\* in exactly one range that is still to be run; a resume neither samples again, nor drops, nor
\* repeats anything - a plan with the doubled last token cannot be tracked - and is refused only
\* when it or its multiplier is above the range ceiling or a token does not fit the tracking table's
\* bigint, never for overlapping (plan_resume, subdivide, token_bound, TokenPlan::from_ranges).
ResumeKeepsEveryToken ==
    /\ pc = "run" => \A t \in hist.first :
         hist.resumes > 0 \/ ~TwicePlanned(t) => hist.processed[t] + Times(plan, t) = 1
    /\ pc = "refused" /\ plan # <<>> =>
         Len(out) > MaxRanges \/ conf.multiplier > MaxRanges \/ ~Trackable

\* TOK-008: "no range straddles a replica boundary": all tokens of a ring-aware range have the
\* same owner, also after the range has been subdivided for a resume.
NoRangeStraddles ==
    pc = "run" /\ conf.strategy = "ring_aware" =>
        \A i \in 1..Len(plan), t \in conf.nodes :
            InRange(plan[i], t) => plan[i].hi = t
=============================================================================
