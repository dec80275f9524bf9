------------------------- MODULE TokenPlannerProofs --------------------------
(***************************************************************************)
(* Proofs about planning the token ring, for every ring, configuration,     *)
(* cluster and number of resumes.                                           *)
(*                                                                          *)
(* The loop of split_ring is stepped by the model, so that what it has      *)
(* emitted and what it still has to split always account for the tokens it  *)
(* was given.  What the planner computes in one step - sorted boundaries,   *)
(* sums, even splits, flattened lists - is computed by functions of a       *)
(* position; facts about them are proved by induction on the position.      *)
(***************************************************************************)
EXTENDS TokenPlanner, FiniteSetTheorems, SequenceTheorems, WellFoundedInduction, TLAPS

-----------------------------------------------------------------------------
(* The inductive invariant, in named parts.                                 *)

\* What is left of the segments: the first one from the cursor on.
Rest(segments, from) ==
    [i \in 1..Len(segments) |->
        TokenRange(IF i = 1 THEN from ELSE segments[i].lo, segments[i].hi)]
Hit(r, t) == IF InRange(r, t) THEN 1 ELSE 0
\* How often the first plan is to have a token.
Want(t) == IF InRange(conf.bounds, t) THEN (IF TwicePlanned(t) THEN 2 ELSE 1) ELSE 0
Handled(t) == Times(out, t) + Times(Rest(todo, cursor), t)
Pending(t) == Cardinality({i \in (1..Len(plan)) \ done : InRange(plan[i], t)})

\* A run past its first check has usable settings, and a split that replaces no plan is the first.
Settings ==
    /\ pc \in {"split", "run", "stopped"} => PlanIsUsable
    /\ pc = "start" => plan = <<>> /\ hist.resumes = 0
    /\ pc = "split" => (plan = <<>> <=> hist.resumes = 0)
    /\ pc \in {"run", "stopped"} => todo = <<>>
    /\ pc = "run" => done = {}

\* The loop stays in its segment, and samples only the first time.
Loop ==
    pc = "split" =>
        /\ todo # <<>> => todo[1].lo <= cursor /\ cursor <= todo[1].hi
        /\ \A i \in 1..Len(todo) :
             todo[i].coverage = IF plan = <<>> THEN EffectiveCoverage(conf.coverage) ELSE 100

\* The first split places the tokens of the bounds, a later one those that are pending.
Splits ==
    pc = "split" => \A t \in Int :
        /\ plan = <<>> => /\ Handled(t) <= Want(t)
                          /\ FullCoverage => Handled(t) = Want(t)
        /\ plan # <<>> => Handled(t) = Pending(t)

\* A plan has no token twice but the doubled one, a resumed plan not even that, and what was planned
\* first is processed or pending.
Conserves ==
    /\ \A t \in Int : Times(plan, t) <= Want(t)
    /\ hist.resumes > 0 => \A t \in Int : Times(plan, t) <= 1
    /\ \A t \in hist.first :
         (hist.resumes > 0 \/ ~TwicePlanned(t)) => hist.processed[t] + Pending(t) = 1
    /\ hist.resumes = 0 => hist.first \subseteq Covered(plan)

\* The first plan of a run that reads everything has every token.
FirstIsWhole ==
    pc = "run" /\ hist.resumes = 0 /\ FullCoverage => \A t \in Int : Times(plan, t) = Want(t)

\* The ranges of the first split, so far: the parts of the segments that are done, and one for each
\* step of the loop in the one that is not.
PartsTo(k) == Total([i \in 1..k |-> Segments[i].parts])
Steps == IF todo = <<>> THEN 0 ELSE (cursor - todo[1].lo) \div (PartitionSize(todo[1]) + 1)
Counts ==
    /\ pc = "split" /\ plan = <<>> =>
         LET k == Len(Segments) - Len(todo)
         IN  /\ k >= 0 /\ \A i \in 1..Len(todo) : todo[i] = Segments[k + i]
             /\ Len(out) <= PartsTo(k) + Steps
    /\ pc = "run" /\ hist.resumes = 0 /\ conf.strategy # "adaptive" =>
         Len(plan) <= Max({conf.parts, 1}) + Cardinality(conf.nodes)
    /\ pc = "run" /\ hist.resumes = 0 /\ conf.strategy = "fixed" => Len(plan) <= MaxRanges

\* No range has a node's token but as its last.
OneOwner(r) == \A t \in conf.nodes : InRange(r, t) => r.hi = t
Owners ==
    conf.strategy = "ring_aware" =>
        /\ \A i \in 1..Len(todo) : OneOwner(todo[i])
        /\ \A i \in 1..Len(out) : OneOwner(out[i])
        /\ \A i \in 1..Len(plan) : OneOwner(plan[i])

\* Only the ceiling refuses a resume, and only a token that is no bigint refuses tracking.
Refusals ==
    pc = "refused" /\ plan # <<>> =>
        Len(out) > MaxRanges \/ conf.multiplier > MaxRanges \/ ~Trackable

PlannerInv ==
    TypeOK /\ Settings /\ Loop /\ Splits /\ Conserves /\ FirstIsWhole /\ Counts /\ Owners /\ Refusals

-----------------------------------------------------------------------------
(* Induction on a position, and arithmetic.                                 *)

\* A set of naturals that has zero and the successor of each of its members is that of all of them.
LEMMA NatSetInduction ==
    ASSUME NEW S, 0 \in S, \A n \in Nat : n \in S => n + 1 \in S
    PROVE  \A n \in Nat : n \in S
<1> DEFINE T == Nat \ S
<1> SUFFICES ASSUME T # {} PROVE FALSE
  OBVIOUS
<1>1. T \subseteq Nat
  OBVIOUS
<1> HIDE DEF T
<1>2. PICK x \in T : \A y \in T : <<y, x>> \notin OpToRel(<, Nat)
  BY <1>1, WFMin, NatLessThanWellFounded, Zenon
<1>3. \A y \in T : ~(y < x)
  BY <1>1, <1>2, Zenon DEF OpToRel
<1>4. x \in Nat /\ x \notin S
  BY DEF T
<1>5. x - 1 \in Nat
  BY <1>4
<1>6. x - 1 \notin T
  BY <1>3, <1>4, <1>5
<1>7. x - 1 \in S
  BY <1>5, <1>6 DEF T
<1>8. (x - 1) + 1 \in S
  BY <1>5, <1>7
<1> QED
  BY <1>4, <1>8

\* Dividing.
LEMMA DivBounds ==
    ASSUME NEW a \in Nat, NEW b \in Nat \ {0}
    PROVE  a \div b \in Nat /\ b * (a \div b) <= a /\ a < b * (a \div b) + b
OBVIOUS

LEMMA ModBounds ==
    ASSUME NEW a \in Nat, NEW b \in Nat \ {0}
    PROVE  a % b \in Nat /\ a % b < b /\ a = b * (a \div b) + (a % b)
<1>1. a % b = a - b * (a \div b)
  OBVIOUS
<1> QED
  BY <1>1, DivBounds

\* The greater and the lesser of two numbers.
LEMMA MaxOfTwo ==
    ASSUME NEW a \in Int, NEW b \in Int
    PROVE  Max({a, b}) = IF a >= b THEN a ELSE b
<1>1. \E x \in {a, b} : \A y \in {a, b} : x >= y
  OBVIOUS
<1>2. Max({a, b}) \in {a, b} /\ \A y \in {a, b} : Max({a, b}) >= y
  BY <1>1 DEF Max
<1> QED
  BY <1>2

LEMMA MinOfTwo ==
    ASSUME NEW a \in Int, NEW b \in Int
    PROVE  Min({a, b}) = IF a <= b THEN a ELSE b
<1>1. \E x \in {a, b} : \A y \in {a, b} : x =< y
  OBVIOUS
<1>2. Min({a, b}) \in {a, b} /\ \A y \in {a, b} : Min({a, b}) =< y
  BY <1>1 DEF Min
<1> QED
  BY <1>2

-----------------------------------------------------------------------------
(* Sums.                                                                    *)

\* A function of a position that is computed from the position before.
IsIteration(g, n, a, step) == g[0] = a /\ \A i \in 1..n : g[i] = step[i][g[i - 1]]
LEMMA Iterates ==
    ASSUME NEW n \in Nat, NEW V, NEW a \in V, NEW step \in [1..n -> [V -> V]]
    PROVE  \E g \in [0..n -> V] : IsIteration(g, n, a, step)
<1> DEFINE Partial(k, g) == g[0] = a /\ \A i \in 1..k : g[i] = step[i][g[i - 1]]
           P(k) == k <= n => \E g \in [0..k -> V] : Partial(k, g)
<1>1. P(0)
  <2> DEFINE g == [i \in 0..0 |-> a]
  <2>1. g \in [0..0 -> V] /\ g[0] = a /\ 1..0 = {}
    OBVIOUS
  <2> HIDE DEF g
  <2> QED
    BY <2>1
<1>2. ASSUME NEW k \in Nat, P(k) PROVE P(k + 1)
  <2> SUFFICES ASSUME k + 1 <= n PROVE \E g \in [0..(k + 1) -> V] : Partial(k + 1, g)
    BY DEF P
  <2>1. PICK g \in [0..k -> V] : Partial(k, g)
    BY <1>2
  <2> DEFINE h == [i \in 0..(k + 1) |-> IF i = k + 1 THEN step[k + 1][g[k]] ELSE g[i]]
  <2>2. k \in 0..k /\ g[k] \in V /\ k + 1 \in 1..n
    OBVIOUS
  <2>3. step[k + 1][g[k]] \in V
    BY <2>2
  <2>4. h \in [0..(k + 1) -> V]
    BY <2>3
  <2>5. h[k + 1] = step[k + 1][g[k]] /\ \A i \in 0..k : h[i] = g[i]
    OBVIOUS
  <2> HIDE DEF h
  <2>6. h[0] = a
    BY <2>1, <2>5
  <2>7. ASSUME NEW i \in 1..(k + 1) PROVE h[i] = step[i][h[i - 1]]
    <3>1. CASE i = k + 1
      BY <2>2, <2>5, <3>1
    <3>2. CASE i # k + 1
      <4>1. i \in 1..k /\ i \in 0..k /\ i - 1 \in 0..k
        BY <3>2
      <4> QED
        BY <2>1, <2>5, <4>1
    <3> QED
      BY <3>1, <3>2
  <2> QED
    BY <2>4, <2>6, <2>7
<1>3. P(n)
  <2> HIDE DEF P
  <2> DEFINE S == {k \in Nat : P(k)}
  <2>1. 0 \in S /\ \A k \in Nat : k \in S => k + 1 \in S
    BY <1>1, <1>2
  <2> HIDE DEF S
  <2>2. n \in S
    BY <2>1, NatSetInduction
  <2> QED
    BY <2>2 DEF S
<1> QED
  BY <1>3 DEF IsIteration

\* A sum is the last of the partial sums.
LEMMA TotalSteps ==
    ASSUME NEW s \in Seq(Int)
    PROVE  \E g \in [0..Len(s) -> Int] :
             g[0] = 0 /\ (\A i \in 1..Len(s) : g[i] = g[i - 1] + s[i]) /\ Total(s) = g[Len(s)]
<1> DEFINE n == Len(s)
           Def(g) == [i \in 0..n |-> IF i = 0 THEN 0 ELSE g[i - 1] + s[i]]
<1>0. n \in Nat /\ \A i \in 1..n : s[i] \in Int
  BY LenProperties, ElementOfSeq
<1> DEFINE h == CHOOSE f : f = Def(f)
<1>1. Total(s) = h[n]
  BY DEF Total
<1> HIDE DEF n
<1>2. \E g : g = Def(g)
  <2> DEFINE step == [i \in 1..n |-> [v \in Int |-> v + s[i]]]
  <2>1. step \in [1..n -> [Int -> Int]]
    BY <1>0
  <2>2. \A i \in 1..n : \A v \in Int : step[i][v] = v + s[i]
    OBVIOUS
  <2> HIDE DEF step
  <2>3. \E g \in [0..n -> Int] : IsIteration(g, n, 0, step)
    <3> DEFINE V == Int
               a == 0
    <3>1. step \in [1..n -> [V -> V]] /\ a \in V /\ n \in Nat
      BY <1>0, <2>1
    <3> HIDE DEF V, a
    <3>2. \E g \in [0..n -> V] : IsIteration(g, n, a, step)
      BY <3>1, Iterates
    <3> QED
      BY <3>2 DEF V, a
  <2>4. PICK g \in [0..n -> Int] : g[0] = 0 /\ \A i \in 1..n : g[i] = step[i][g[i - 1]]
    BY <2>3 DEF IsIteration
  <2>5. ASSUME NEW i \in 1..n PROVE g[i] = g[i - 1] + s[i]
    <3>1. i - 1 \in 0..n /\ i \in 1..n
      BY <1>0
    <3> QED
      BY <2>2, <2>4, <3>1
  <2>6. \A i \in 0..n : g[i] = IF i = 0 THEN 0 ELSE g[i - 1] + s[i]
    BY <1>0, <2>4, <2>5
  <2>7. g = Def(g)
    BY <2>6
  <2> QED
    BY <2>7
<1>3. h = Def(h)
  BY <1>2, Zenon
<1> HIDE DEF h
<1>4. DOMAIN h = 0..n /\ h = [i \in 0..n |-> h[i]]
  BY <1>3
<1>5. h[0] = 0 /\ \A i \in 1..n : h[i] = h[i - 1] + s[i]
  BY <1>0, <1>3
<1> DEFINE R == {k \in Nat : k <= n => h[k] \in Int}
<1>6. \A k \in Nat : k \in R
  <2>1. 0 \in R
    BY <1>5
  <2>2. ASSUME NEW k \in Nat, k \in R PROVE k + 1 \in R
    BY <1>0, <1>5, <2>2
  <2> HIDE DEF R
  <2> QED
    BY <2>1, <2>2, NatSetInduction
<1>7. \A i \in 0..n : h[i] \in Int
  BY <1>0, <1>6
<1>8. h \in [0..n -> Int]
  BY <1>4, <1>7
<1> QED
  BY <1>1, <1>5, <1>8 DEF n

\* Nothing adds up to zero.
LEMMA TotalEmpty == Total(<<>>) = 0
<1>1. <<>> \in Seq(Int) /\ Len(<<>>) = 0
  OBVIOUS
<1>2. PICK g \in [0..0 -> Int] : g[0] = 0 /\ Total(<<>>) = g[0]
  BY <1>1, TotalSteps
<1> QED
  BY <1>2

\* One number more.
LEMMA TotalAppend ==
    ASSUME NEW s \in Seq(Int), NEW x \in Int
    PROVE  Total(Append(s, x)) = Total(s) + x /\ Total(s) \in Int
<1> DEFINE n == Len(s)
           r == Append(s, x)
<1>0. n \in Nat /\ r \in Seq(Int) /\ Len(r) = n + 1 /\ r[n + 1] = x /\ \A i \in 1..n : r[i] = s[i]
  OBVIOUS
<1>1. PICK g \in [0..n -> Int] :
        g[0] = 0 /\ (\A i \in 1..n : g[i] = g[i - 1] + s[i]) /\ Total(s) = g[n]
  BY TotalSteps
<1> HIDE DEF n, r
<1>2. PICK h \in [0..(n + 1) -> Int] :
        h[0] = 0 /\ (\A i \in 1..(n + 1) : h[i] = h[i - 1] + r[i]) /\ Total(r) = h[n + 1]
  BY <1>0, TotalSteps
<1> DEFINE R == {k \in Nat : k <= n => h[k] = g[k]}
<1>3. \A k \in Nat : k \in R
  <2>1. 0 \in R
    BY <1>1, <1>2
  <2>2. ASSUME NEW k \in Nat, k \in R PROVE k + 1 \in R
    <3> SUFFICES ASSUME k + 1 <= n PROVE h[k + 1] = g[k + 1]
      OBVIOUS
    <3>1. k + 1 \in 1..n /\ k + 1 \in 1..(n + 1) /\ (k + 1) - 1 = k
      BY <1>0
    <3>2. g[k + 1] = g[k] + s[k + 1] /\ h[k + 1] = h[k] + r[k + 1] /\ r[k + 1] = s[k + 1]
      BY <1>0, <1>1, <1>2, <3>1
    <3> QED
      BY <1>0, <2>2, <3>2
  <2> HIDE DEF R
  <2> QED
    BY <2>1, <2>2, NatSetInduction
<1>4. h[n] = g[n] /\ h[n + 1] = h[n] + x /\ g[n] \in Int
  BY <1>0, <1>2, <1>3
<1> QED
  BY <1>1, <1>2, <1>4 DEF r

-----------------------------------------------------------------------------
(* Counting the ranges that have a token.                                   *)

\* The positions that have the token, in a list or in the first k of it.
HoldingTo(ranges, k, t) == {i \in 1..k : InRange(ranges[i], t)}

LEMMA HoldingFinite ==
    ASSUME NEW ranges, NEW k \in Nat, NEW t
    PROVE  IsFiniteSet(HoldingTo(ranges, k, t)) /\ Cardinality(HoldingTo(ranges, k, t)) \in Nat
<1>1. IsFiniteSet(1..k)
  BY FS_Interval
<1>2. IsFiniteSet(HoldingTo(ranges, k, t))
  BY <1>1, FS_Subset DEF HoldingTo
<1> QED
  BY <1>2, FS_CardinalityType

\* One position more.
LEMMA HoldingNext ==
    ASSUME NEW ranges, NEW k \in Nat, NEW t
    PROVE  Cardinality(HoldingTo(ranges, k + 1, t))
             = Cardinality(HoldingTo(ranges, k, t)) + Hit(ranges[k + 1], t)
<1> DEFINE H == HoldingTo(ranges, k, t)
<1>1. IsFiniteSet(H) /\ Cardinality(H) \in Nat
  BY HoldingFinite
<1>2. k + 1 \notin H
  BY DEF HoldingTo
<1>3. CASE InRange(ranges[k + 1], t)
  <2>1. HoldingTo(ranges, k + 1, t) = H \cup {k + 1}
    BY <1>3 DEF HoldingTo
  <2> HIDE DEF H
  <2>2. Cardinality(H \cup {k + 1}) = Cardinality(H) + 1
    BY <1>1, <1>2, FS_AddElement
  <2>3. Hit(ranges[k + 1], t) = 1
    BY <1>3 DEF Hit
  <2> QED
    BY <2>1, <2>2, <2>3 DEF H
<1>4. CASE ~InRange(ranges[k + 1], t)
  <2>1. HoldingTo(ranges, k + 1, t) = H
    BY <1>4 DEF HoldingTo
  <2>2. Hit(ranges[k + 1], t) = 0
    BY <1>4 DEF Hit
  <2> QED
    BY <1>1, <2>1, <2>2
<1> QED
  BY <1>3, <1>4

\* The first position.
LEMMA HoldingFirst ==
    ASSUME NEW ranges, NEW t
    PROVE  Cardinality(HoldingTo(ranges, 1, t)) = Hit(ranges[1], t) /\ Hit(ranges[1], t) \in Nat
<1>1. HoldingTo(ranges, 0, t) = {}
  BY DEF HoldingTo
<1>2. Cardinality(HoldingTo(ranges, 0, t)) = 0
  BY <1>1, FS_EmptySet
<1>3. Cardinality(HoldingTo(ranges, 0 + 1, t))
        = Cardinality(HoldingTo(ranges, 0, t)) + Hit(ranges[0 + 1], t)
  BY HoldingNext
<1>4. Hit(ranges[1], t) \in Nat
  BY DEF Hit
<1> QED
  BY <1>2, <1>3, <1>4

LEMMA TimesNat ==
    ASSUME NEW ranges, Len(ranges) \in Nat, NEW t
    PROVE  Times(ranges, t) \in Nat /\ Times(ranges, t) = Cardinality(HoldingTo(ranges, Len(ranges), t))
BY HoldingFinite DEF Times, HoldingTo

\* An empty list has no token.
LEMMA TimesEmpty == \A t : Times(<<>>, t) = 0
<1>1. \A t : {i \in 1..Len(<<>>) : InRange(<<>>[i], t)} = {}
  OBVIOUS
<1> QED
  BY <1>1, FS_EmptySet DEF Times

\* Lists of the same ranges have the same tokens.
LEMMA TimesSame ==
    ASSUME NEW a, NEW b, Len(a) \in Nat, Len(a) = Len(b), NEW t,
           \A i \in 1..Len(a) : a[i].lo = b[i].lo /\ a[i].hi = b[i].hi
    PROVE  Times(a, t) = Times(b, t)
<1>1. {i \in 1..Len(a) : InRange(a[i], t)} = {i \in 1..Len(b) : InRange(b[i], t)}
  BY DEF InRange
<1> QED
  BY <1>1 DEF Times

\* One range more.
LEMMA TimesAppend ==
    ASSUME NEW X, NEW a \in Seq(X), NEW r \in X, NEW t
    PROVE  Times(Append(a, r), t) = Times(a, t) + Hit(r, t)
<1> DEFINE b == Append(a, r)
           n == Len(a)
<1>1. n \in Nat /\ Len(b) = n + 1 /\ b[n + 1] = r /\ \A i \in 1..n : b[i] = a[i]
  OBVIOUS
<1>2. Times(a, t) = Cardinality(HoldingTo(a, n, t))
  BY <1>1, TimesNat
<1> HIDE DEF b, n
<1>3. HoldingTo(b, n, t) = HoldingTo(a, n, t)
  BY <1>1 DEF HoldingTo
<1>4. Times(b, t) = Cardinality(HoldingTo(b, n + 1, t))
  BY <1>1, TimesNat
<1>5. Cardinality(HoldingTo(b, n + 1, t)) = Cardinality(HoldingTo(b, n, t)) + Hit(b[n + 1], t)
  BY <1>1, HoldingNext
<1> QED
  BY <1>1, <1>2, <1>3, <1>4, <1>5 DEF b

\* The ranges of two lists.
LEMMA TimesConcat ==
    ASSUME NEW X, NEW a \in Seq(X), NEW b \in Seq(X), NEW t
    PROVE  Times(a \o b, t) = Times(a, t) + Times(b, t)
<1> DEFINE c == a \o b
           m == Len(a)
           n == Len(b)
           P(k) == k <= n => Cardinality(HoldingTo(c, m + k, t)) = Times(a, t) + Cardinality(HoldingTo(b, k, t))
<1>0. m \in Nat /\ n \in Nat /\ Len(c) = m + n
  OBVIOUS
<1>1. \A i \in 1..m : c[i] = a[i]
  OBVIOUS
<1>2. \A i \in 1..n : c[m + i] = b[i]
  OBVIOUS
<1>3. Times(a, t) = Cardinality(HoldingTo(a, m, t)) /\ Times(a, t) \in Nat
  BY <1>0, TimesNat
<1>4. Times(b, t) = Cardinality(HoldingTo(b, n, t))
  BY <1>0, TimesNat
<1> HIDE DEF c, m, n
<1>5. Times(c, t) = Cardinality(HoldingTo(c, m + n, t))
  BY <1>0, TimesNat
<1>6. P(0)
  <2>1. HoldingTo(c, m, t) = HoldingTo(a, m, t)
    BY <1>0, <1>1 DEF HoldingTo
  <2>2. HoldingTo(b, 0, t) = {} /\ m + 0 = m
    BY <1>0 DEF HoldingTo
  <2>3. Cardinality(HoldingTo(b, 0, t)) = 0
    BY <2>2, FS_EmptySet
  <2>4. Cardinality(HoldingTo(c, m + 0, t)) = Times(a, t)
    BY <1>3, <2>1, <2>2
  <2> QED
    BY <1>3, <2>3, <2>4
<1>7. ASSUME NEW k \in Nat, P(k) PROVE P(k + 1)
  <2> SUFFICES ASSUME k + 1 <= n
               PROVE  Cardinality(HoldingTo(c, m + (k + 1), t)) = Times(a, t) + Cardinality(HoldingTo(b, k + 1, t))
    OBVIOUS
  <2>1. k <= n /\ m + k \in Nat /\ (m + k) + 1 = m + (k + 1) /\ k + 1 \in 1..n
    BY <1>0
  <2>2. Cardinality(HoldingTo(c, m + (k + 1), t))
          = Cardinality(HoldingTo(c, m + k, t)) + Hit(c[m + (k + 1)], t)
    BY <2>1, HoldingNext
  <2>3. Cardinality(HoldingTo(b, k + 1, t)) = Cardinality(HoldingTo(b, k, t)) + Hit(b[k + 1], t)
    BY HoldingNext
  <2>4. Cardinality(HoldingTo(c, m + k, t)) = Times(a, t) + Cardinality(HoldingTo(b, k, t))
    BY <1>7, <2>1
  <2>5. c[m + (k + 1)] = b[k + 1]
    BY <1>2, <2>1
  <2>6. Cardinality(HoldingTo(b, k, t)) \in Nat /\ Hit(b[k + 1], t) \in Nat
    BY HoldingFinite DEF Hit
  <2> QED
    BY <1>3, <2>2, <2>3, <2>4, <2>5, <2>6
<1>8. P(n)
  <2> HIDE DEF P
  <2> DEFINE S == {k \in Nat : P(k)}
  <2>1. 0 \in S /\ \A k \in Nat : k \in S => k + 1 \in S
    BY <1>6, <1>7
  <2> HIDE DEF S
  <2>2. n \in S
    BY <1>0, <2>1, NatSetInduction
  <2> QED
    BY <2>2 DEF S
<1> QED
  BY <1>0, <1>4, <1>5, <1>8 DEF c

\* The first range and the rest.
LEMMA TimesHeadTail ==
    ASSUME NEW X, NEW a \in Seq(X), a # <<>>, NEW t
    PROVE  Times(a, t) = Hit(a[1], t) + Times(Tail(a), t)
<1>1. a[1] \in X /\ Tail(a) \in Seq(X) /\ <<a[1]>> \in Seq(X) /\ a = <<a[1]>> \o Tail(a)
  OBVIOUS
<1>2. <<>> \in Seq(X) /\ Append(<<>>, a[1]) = <<a[1]>>
  OBVIOUS
<1> DEFINE none == <<>>
<1>3. Times(<<a[1]>>, t) = Times(none, t) + Hit(a[1], t)
  <2>1. none \in Seq(X) /\ a[1] \in X /\ Append(none, a[1]) = <<a[1]>>
    BY <1>1, <1>2
  <2> HIDE DEF none
  <2>2. Times(Append(none, a[1]), t) = Times(none, t) + Hit(a[1], t)
    BY <2>1, TimesAppend
  <2> QED
    BY <2>1, <2>2
<1>4. Times(a, t) = Times(<<a[1]>>, t) + Times(Tail(a), t)
  <2>1. Times(<<a[1]>> \o Tail(a), t) = Times(<<a[1]>>, t) + Times(Tail(a), t)
    BY <1>1, TimesConcat, Zenon
  <2> QED
    BY <1>1, <2>1, Zenon
<1>5. Hit(a[1], t) \in Nat
  BY DEF Hit
<1>6. Times(none, t) = 0
  BY TimesEmpty
<1> QED
  BY <1>3, <1>4, <1>5, <1>6

\* A token in two ranges is counted twice.
LEMMA TimesTwo ==
    ASSUME NEW X, NEW a \in Seq(X), NEW t, NEW i \in 1..Len(a), NEW j \in 1..Len(a), i # j,
           InRange(a[i], t), InRange(a[j], t)
    PROVE  Times(a, t) >= 2
<1>1. Len(a) \in Nat
  OBVIOUS
<1> DEFINE H == HoldingTo(a, Len(a), t)
<1>2. IsFiniteSet(H) /\ Times(a, t) = Cardinality(H)
  BY <1>1, TimesNat, HoldingFinite
<1>3. {i, j} \subseteq H
  BY DEF HoldingTo
<1>4. IsFiniteSet({i}) /\ Cardinality({i}) = 1
  BY FS_Singleton
<1>5. Cardinality({i} \cup {j}) = 2
  <2>1. j \notin {i}
    OBVIOUS
  <2>2. Cardinality({i} \cup {j}) = Cardinality({i}) + 1
    BY <1>4, <2>1, FS_AddElement, Zenon
  <2>3. Cardinality({i} \cup {j}) = 1 + 1
    BY <1>4, <2>2, Zenon
  <2>4. 1 + 1 = 2
    OBVIOUS
  <2> QED
    BY <2>3, <2>4, Zenon
<1>6. {i} \cup {j} = {i, j}
  OBVIOUS
<1> HIDE DEF H
<1> QED
  BY <1>2, <1>3, <1>5, <1>6, FS_Subset

\* A token in a range is counted.
LEMMA TimesOne ==
    ASSUME NEW X, NEW a \in Seq(X), NEW t, NEW i \in 1..Len(a), InRange(a[i], t)
    PROVE  Times(a, t) >= 1
<1>1. Len(a) \in Nat
  OBVIOUS
<1> DEFINE H == HoldingTo(a, Len(a), t)
<1>2. IsFiniteSet(H) /\ Times(a, t) = Cardinality(H) /\ Times(a, t) \in Nat
  BY <1>1, TimesNat, HoldingFinite
<1>3. i \in H
  BY DEF HoldingTo
<1> HIDE DEF H
<1>4. Cardinality(H) # 0
  BY <1>2, <1>3, FS_EmptySet
<1> QED
  BY <1>2, <1>4

-----------------------------------------------------------------------------
(* Ranges that follow one another.                                          *)

\* Each range starts where the one before ends.
Chained(ranges) ==
    /\ Len(ranges) >= 1
    /\ \A i \in 1..(Len(ranges) - 1) : ranges[i + 1].lo = ranges[i].hi + 1

\* Together they have the tokens from the first one's first to the last one's last, once.
LEMMA ChainCovers ==
    ASSUME NEW ranges \in Seq(RangeType), Chained(ranges), NEW t \in Int
    PROVE  Times(ranges, t) = Hit(TokenRange(ranges[1].lo, ranges[Len(ranges)].hi), t)
<1> DEFINE n == Len(ranges)
           Upto(k) == TokenRange(ranges[1].lo, ranges[k + 1].hi)
           P(k) == k + 1 <= n =>
                     /\ ranges[1].lo <= ranges[k + 1].hi
                     /\ Cardinality(HoldingTo(ranges, k + 1, t)) = Hit(Upto(k), t)
<1>0. n \in Nat /\ n >= 1 /\ \A i \in 1..n : ranges[i].lo \in Int /\ ranges[i].hi \in Int /\ ranges[i].lo <= ranges[i].hi
  BY DEF Chained, RangeType
<1>1. \A i \in 1..(n - 1) : ranges[i + 1].lo = ranges[i].hi + 1
  BY DEF Chained
<1>2. Times(ranges, t) = Cardinality(HoldingTo(ranges, n, t))
  BY <1>0, TimesNat
<1> HIDE DEF n
<1>3. P(0)
  <2>1. Cardinality(HoldingTo(ranges, 1, t)) = Hit(ranges[1], t)
    BY HoldingFirst
  <2>2. Hit(ranges[1], t) = Hit(Upto(0), t)
    BY DEF Hit, InRange, TokenRange
  <2> QED
    BY <1>0, <2>1, <2>2
<1>4. ASSUME NEW k \in Nat, P(k) PROVE P(k + 1)
  <2> SUFFICES ASSUME (k + 1) + 1 <= n
               PROVE  /\ ranges[1].lo <= ranges[(k + 1) + 1].hi
                      /\ Cardinality(HoldingTo(ranges, (k + 1) + 1, t)) = Hit(Upto(k + 1), t)
    BY DEF P
  <2>1. k + 1 \in 1..(n - 1) /\ k + 1 \in 1..n /\ (k + 1) + 1 \in 1..n /\ 1 \in 1..n /\ k + 1 \in Nat
    BY <1>0
  <2>2. ranges[1].lo <= ranges[k + 1].hi /\ Cardinality(HoldingTo(ranges, k + 1, t)) = Hit(Upto(k), t)
    BY <1>4, <2>1
  <2>3. ranges[(k + 1) + 1].lo = ranges[k + 1].hi + 1
    BY <1>1, <2>1
  <2>4. Cardinality(HoldingTo(ranges, (k + 1) + 1, t)) = Hit(Upto(k), t) + Hit(ranges[(k + 1) + 1], t)
    BY <2>1, <2>2, HoldingNext
  <2>5. Hit(Upto(k), t) + Hit(ranges[(k + 1) + 1], t) = Hit(Upto(k + 1), t)
    BY <1>0, <2>1, <2>2, <2>3 DEF Hit, InRange, TokenRange
  <2> QED
    BY <1>0, <2>1, <2>2, <2>3, <2>4, <2>5
<1>5. P(n - 1)
  <2> HIDE DEF P
  <2> DEFINE S == {k \in Nat : P(k)}
  <2>1. 0 \in S /\ \A k \in Nat : k \in S => k + 1 \in S
    BY <1>3, <1>4
  <2> HIDE DEF S
  <2>2. \A k \in Nat : k \in S
    BY <2>1, NatSetInduction, Zenon
  <2>3. n - 1 \in Nat
    BY <1>0
  <2> QED
    BY <2>2, <2>3 DEF S
<1>6. (n - 1) + 1 = n
  BY <1>0
<1> QED
  BY <1>0, <1>2, <1>5, <1>6 DEF n

\* TokenRange::split(): the pieces have the tokens of the range, once.
LEMMA EvenSplitCovers ==
    ASSUME NEW r \in RangeType, NEW parts \in Nat \ {0}
    PROVE  /\ EvenSplit(r, parts) \in Seq(RangeType)
           /\ \A t \in Int : Times(EvenSplit(r, parts), t) = Hit(r, t)
<1> DEFINE c == TokenCount(r)
           n == Min({parts, c})
           base == c \div n
           extra == c % n
           Start(i) == r.lo + (i - 1) * base + Min({i - 1, extra})
           e == EvenSplit(r, parts)
<1>1. c \in Nat \ {0} /\ r.lo \in Int /\ r.hi \in Int /\ c = r.hi - r.lo + 1
  BY DEF TokenCount, RangeType
<1>2. n \in Nat \ {0} /\ n <= c
  <2> HIDE DEF c
  <2> QED
    BY <1>1, MinOfTwo
<1>3. e = [i \in 1..n |-> TokenRange(Start(i), Start(i + 1) - 1)]
  BY DEF EvenSplit
<1> HIDE DEF e, n, c
<1>4. base \in Nat /\ extra \in Nat /\ extra < n /\ c = n * base + extra /\ base >= 1
  <2>1. base \in Nat /\ extra \in Nat /\ extra < n /\ c = n * base + extra
    BY <1>1, <1>2, DivBounds, ModBounds
  <2> HIDE DEF base, extra
  <2> QED
    BY <1>2, <2>1
<1> HIDE DEF base, extra
<1>5. ASSUME NEW i \in 1..(n + 1)
      PROVE  Start(i) \in Int /\ Start(i) = r.lo + (i - 1) * base + (IF i - 1 <= extra THEN i - 1 ELSE extra)
  BY <1>1, <1>2, <1>4, MinOfTwo
<1>6. Start(1) = r.lo
  BY <1>1, <1>2, <1>4, <1>5
<1>7. Start(n + 1) = r.hi + 1
  <2>1. Start(n + 1) = r.lo + ((n + 1) - 1) * base + extra
    BY <1>2, <1>4, <1>5
  <2>2. (n + 1) - 1 = n
    BY <1>2
  <2> QED
    BY <1>1, <1>2, <1>4, <2>1, <2>2
<1>8. ASSUME NEW i \in 1..n PROVE Start(i) + base <= Start(i + 1)
  <2>1. i \in 1..(n + 1) /\ i + 1 \in 1..(n + 1) /\ (i + 1) - 1 = i
    BY <1>2
  <2>2. i * base = (i - 1) * base + base
    BY <1>4
  <2>3. (i - 1) * base \in Int /\ i * base \in Int
    BY <1>4
  <2>4. Start(i) = r.lo + (i - 1) * base + (IF i - 1 <= extra THEN i - 1 ELSE extra)
    BY <1>5, <2>1
  <2>5. Start(i + 1) = r.lo + i * base + (IF i <= extra THEN i ELSE extra)
    BY <1>5, <2>1
  <2> HIDE DEF Start
  <2> QED
    BY <1>1, <1>2, <1>4, <2>2, <2>3, <2>4, <2>5
<1>9. \A i \in 1..(n + 1) : Start(i) \in Int
  BY <1>5
<1> HIDE DEF Start
<1>10. e \in Seq(RangeType) /\ Len(e) = n
  <2>1. \A i \in 1..n : TokenRange(Start(i), Start(i + 1) - 1) \in RangeType
    BY <1>2, <1>4, <1>8, <1>9 DEF TokenRange, RangeType
  <2> QED
    BY <1>2, <1>3, <2>1
<1>11. \A i \in 1..n : e[i].lo = Start(i) /\ e[i].hi = Start(i + 1) - 1
  BY <1>3 DEF TokenRange
<1>12. Chained(e)
  <2>1. ASSUME NEW i \in 1..(n - 1) PROVE e[i + 1].lo = e[i].hi + 1
    <3>1. i \in 1..n /\ i + 1 \in 1..n /\ i + 1 \in 1..(n + 1)
      BY <1>2
    <3>2. e[i + 1].lo = Start(i + 1) /\ e[i].hi = Start(i + 1) - 1 /\ Start(i + 1) \in Int
      BY <1>9, <1>11, <3>1
    <3> QED
      BY <3>2
  <2> QED
    BY <1>2, <1>10, <2>1 DEF Chained
<1>13. e[1].lo = r.lo /\ e[Len(e)].hi = r.hi
  BY <1>1, <1>2, <1>6, <1>7, <1>9, <1>10, <1>11
<1>14. TokenRange(e[1].lo, e[Len(e)].hi) = r
  BY <1>13 DEF TokenRange, RangeType
<1> QED
  BY <1>10, <1>12, <1>14, ChainCovers DEF e

-----------------------------------------------------------------------------
(* A list of lists, made one list.                                          *)

\* A flattened list is the last of the concatenations of the first lists.
LEMMA FlattenSteps ==
    ASSUME NEW X, NEW seqs, Len(seqs) \in Nat \ {0}, \A i \in 1..Len(seqs) : seqs[i] \in Seq(X)
    PROVE  \E f : /\ \A i \in 1..Len(seqs) : f[i] \in Seq(X)
                  /\ f[1] = seqs[1] /\ \A i \in 2..Len(seqs) : f[i] = f[i - 1] \o seqs[i]
                  /\ FlattenSeq(seqs) = f[Len(seqs)]
<1> DEFINE n == Len(seqs)
           Def(g) == [i \in 1..n |-> IF i = 1 THEN seqs[i] ELSE g[i - 1] \o seqs[i]]
           h == CHOOSE f : f = Def(f)
<1>0. n \in Nat \ {0} /\ \A i \in 1..n : seqs[i] \in Seq(X)
  OBVIOUS
<1>1. FlattenSeq(seqs) = h[n]
  BY <1>0 DEF FlattenSeq
<1> HIDE DEF n
<1>2. \E g : g = Def(g)
  <2> DEFINE V == Seq(X)
             none == <<>>
             step == [i \in 1..n |-> [v \in V |-> v \o seqs[i]]]
  <2>1. none \in V /\ n \in Nat
    BY <1>0
  <2>2. \A i \in 1..n : \A v \in V : v \o seqs[i] \in V
    BY <1>0
  <2> HIDE DEF V
  <2>3. step \in [1..n -> [V -> V]]
    BY <2>2
  <2>4. \A i \in 1..n : \A v \in V : step[i][v] = v \o seqs[i]
    OBVIOUS
  <2> HIDE DEF step, none
  <2>5. \E g \in [0..n -> V] : IsIteration(g, n, none, step)
    BY <2>1, <2>3, Iterates
  <2>6. PICK g \in [0..n -> V] : g[0] = none /\ \A i \in 1..n : g[i] = step[i][g[i - 1]]
    BY <2>5 DEF IsIteration
  <2>7. ASSUME NEW i \in 1..n PROVE g[i] = g[i - 1] \o seqs[i]
    <3>1. i - 1 \in 0..n /\ i \in 1..n
      BY <1>0
    <3>2. g[i - 1] \in V
      BY <3>1
    <3> QED
      BY <2>4, <2>6, <3>1, <3>2
  <2>8. g[1] = seqs[1]
    <3>1. 1 \in 1..n /\ 1 - 1 = 0
      BY <1>0
    <3>2. g[1] = none \o seqs[1] /\ seqs[1] \in Seq(X)
      BY <1>0, <2>6, <2>7, <3>1
    <3>3. \A s \in Seq(X) : <<>> \o s = s
      OBVIOUS
    <3> QED
      BY <3>2, <3>3 DEF none
  <2> DEFINE f == [i \in 1..n |-> g[i]]
  <2>9. ASSUME NEW i \in 1..n PROVE f[i] = IF i = 1 THEN seqs[i] ELSE f[i - 1] \o seqs[i]
    <3>1. CASE i = 1
      BY <2>8, <3>1
    <3>2. CASE i # 1
      <4>1. i - 1 \in 1..n
        BY <1>0, <3>2
      <4>2. f[i] = g[i] /\ f[i - 1] = g[i - 1]
        BY <4>1
      <4> QED
        BY <2>7, <3>2, <4>2
    <3> QED
      BY <3>1, <3>2
  <2>10. f = [i \in 1..n |-> f[i]]
    OBVIOUS
  <2> HIDE DEF f
  <2>11. f = Def(f)
    BY <2>9, <2>10
  <2> QED
    BY <2>11
<1>3. h = Def(h)
  BY <1>2, Zenon
<1> HIDE DEF h
<1>4. h[1] = seqs[1] /\ \A i \in 2..n : h[i] = h[i - 1] \o seqs[i]
  <2>1. \A i \in 1..n : h[i] = IF i = 1 THEN seqs[i] ELSE h[i - 1] \o seqs[i]
    BY <1>3, Zenon
  <2>2. 1 \in 1..n /\ \A i \in 2..n : i \in 1..n /\ i # 1
    BY <1>0
  <2> QED
    BY <2>1, <2>2, Zenon
<1> DEFINE R == {k \in Nat : k + 1 <= n => h[k + 1] \in Seq(X)}
<1>5. \A k \in Nat : k \in R
  <2>1. 0 \in R
    BY <1>0, <1>4
  <2>2. ASSUME NEW k \in Nat, k \in R PROVE k + 1 \in R
    <3> SUFFICES ASSUME (k + 1) + 1 <= n PROVE h[(k + 1) + 1] \in Seq(X)
      OBVIOUS
    <3>1. (k + 1) + 1 \in 2..n /\ (k + 1) + 1 \in 1..n /\ ((k + 1) + 1) - 1 = k + 1
      BY <1>0
    <3>2. h[k + 1] \in Seq(X) /\ seqs[(k + 1) + 1] \in Seq(X)
      BY <1>0, <2>2, <3>1
    <3>3. h[(k + 1) + 1] = h[k + 1] \o seqs[(k + 1) + 1]
      BY <1>4, <3>1
    <3> QED
      BY <3>2, <3>3
  <2> HIDE DEF R
  <2> QED
    BY <2>1, <2>2, NatSetInduction
<1>6. ASSUME NEW i \in 1..n PROVE h[i] \in Seq(X)
  <2>1. i - 1 \in Nat /\ (i - 1) + 1 = i /\ i <= n
    BY <1>0
  <2>2. i - 1 \in R
    BY <1>5, <2>1
  <2> QED
    BY <2>1, <2>2
<1> QED
  BY <1>1, <1>4, <1>6 DEF n

\* When each list has the tokens of its range, the flattened list has those of the ranges.
LEMMA FlattenCovers ==
    ASSUME NEW ranges \in Seq(RangeType), NEW seqs \in Seq(Seq(RangeType)), Len(seqs) = Len(ranges),
           \A i \in 1..Len(seqs) : \A t \in Int : Times(seqs[i], t) = Hit(ranges[i], t)
    PROVE  /\ FlattenSeq(seqs) \in Seq(RangeType)
           /\ \A t \in Int : Times(FlattenSeq(seqs), t) = Times(ranges, t)
<1> DEFINE n == Len(ranges)
<1>0. n \in Nat /\ Len(seqs) = n /\ \A i \in 1..n : seqs[i] \in Seq(RangeType)
  BY LenProperties, ElementOfSeq
<1>1. CASE n = 0
  <2>1. seqs = <<>> /\ ranges = <<>>
    BY <1>0, <1>1
  <2>2. FlattenSeq(seqs) = <<>>
    BY <2>1 DEF FlattenSeq
  <2> QED
    BY <2>1, <2>2
<1>2. CASE n # 0
  <2>1. Len(seqs) \in Nat \ {0} /\ \A i \in 1..Len(seqs) : seqs[i] \in Seq(RangeType)
    BY <1>0, <1>2
  <2> HIDE DEF n
  <2> DEFINE X == RangeType
  <2>2. Len(seqs) \in Nat \ {0} /\ \A i \in 1..Len(seqs) : seqs[i] \in Seq(X)
    BY <2>1
  <2> HIDE DEF X
  <2>3. PICK f : /\ \A i \in 1..Len(seqs) : f[i] \in Seq(X)
                 /\ f[1] = seqs[1] /\ \A i \in 2..Len(seqs) : f[i] = f[i - 1] \o seqs[i]
                 /\ FlattenSeq(seqs) = f[Len(seqs)]
    BY <2>2, FlattenSteps
  <2>4. ASSUME NEW t \in Int PROVE Times(f[n], t) = Times(ranges, t)
    <3> DEFINE P(k) == k + 1 <= n => Times(f[k + 1], t) = Cardinality(HoldingTo(ranges, k + 1, t))
    <3>1. P(0)
      <4>0. 1 \in 1..Len(seqs)
        BY <2>2
      <4>1. Times(f[1], t) = Hit(ranges[1], t)
        BY <2>3, <4>0
      <4> QED
        BY <4>1, HoldingFirst
    <3>2. ASSUME NEW k \in Nat, P(k) PROVE P(k + 1)
      <4> SUFFICES ASSUME (k + 1) + 1 <= n
                   PROVE  Times(f[(k + 1) + 1], t) = Cardinality(HoldingTo(ranges, (k + 1) + 1, t))
        OBVIOUS
      <4>1. /\ (k + 1) + 1 \in 2..n /\ (k + 1) + 1 \in 1..n /\ ((k + 1) + 1) - 1 = k + 1
            /\ k + 1 \in Nat /\ k + 1 <= n /\ k + 1 \in 1..n
        BY <1>0
      <4>2. f[k + 1] \in Seq(X) /\ seqs[(k + 1) + 1] \in Seq(X) /\ f[(k + 1) + 1] = f[k + 1] \o seqs[(k + 1) + 1]
        BY <1>0, <2>2, <2>3, <4>1
      <4>3. Times(f[(k + 1) + 1], t) = Times(f[k + 1], t) + Times(seqs[(k + 1) + 1], t)
        BY <4>2, TimesConcat
      <4>4. Times(seqs[(k + 1) + 1], t) = Hit(ranges[(k + 1) + 1], t)
        BY <1>0, <4>1
      <4>5. Times(f[k + 1], t) = Cardinality(HoldingTo(ranges, k + 1, t))
        BY <3>2, <4>1
      <4>6. Cardinality(HoldingTo(ranges, (k + 1) + 1, t))
              = Cardinality(HoldingTo(ranges, k + 1, t)) + Hit(ranges[(k + 1) + 1], t)
        BY <4>1, HoldingNext
      <4> QED
        BY <4>3, <4>4, <4>5, <4>6
    <3>3. P(n - 1)
      <4> HIDE DEF P
      <4> DEFINE S == {k \in Nat : P(k)}
      <4>1. 0 \in S /\ \A k \in Nat : k \in S => k + 1 \in S
        BY <3>1, <3>2
      <4> HIDE DEF S
      <4>2. \A k \in Nat : k \in S
        BY <4>1, NatSetInduction, Zenon
      <4>3. n - 1 \in Nat
        BY <1>0, <1>2
      <4> QED
        BY <4>2, <4>3 DEF S
    <3>4. (n - 1) + 1 = n
      BY <1>0
    <3>5. Times(ranges, t) = Cardinality(HoldingTo(ranges, n, t))
      BY <1>0, TimesNat DEF n
    <3> QED
      BY <1>0, <3>3, <3>4, <3>5
  <2>5. FlattenSeq(seqs) = f[n] /\ n \in 1..n /\ n \in 1..Len(seqs)
    BY <1>0, <1>2, <2>3
  <2> QED
    BY <2>3, <2>4, <2>5 DEF X
<1> QED
  BY <1>1, <1>2

-----------------------------------------------------------------------------
(* Sorting by rank.                                                         *)

\* How many members are below one.
Rank(S, key, x) == Cardinality({y \in S : key[y] < key[x]})

LEMMA RankOrder ==
    ASSUME NEW S, IsFiniteSet(S), NEW key, \A x \in S : key[x] \in Int, NEW x \in S
    PROVE  /\ Rank(S, key, x) \in 0..(Cardinality(S) - 1)
           /\ \A y \in S : key[x] < key[y] => Rank(S, key, x) < Rank(S, key, y)
<1> DEFINE B(z) == {y \in S : key[y] < key[z]}
<1>1. ASSUME NEW z \in S
      PROVE  /\ IsFiniteSet(B(z)) /\ Cardinality(B(z)) \in Nat /\ Cardinality(B(z)) <= Cardinality(S)
             /\ Cardinality(B(z)) # Cardinality(S)
  <2>1. B(z) \in SUBSET S /\ z \notin B(z)
    OBVIOUS
  <2> HIDE DEF B
  <2>2. IsFiniteSet(B(z)) /\ Cardinality(B(z)) <= Cardinality(S) /\ (Cardinality(S) = Cardinality(B(z)) => S = B(z))
    BY <2>1, FS_Subset
  <2>3. Cardinality(B(z)) \in Nat
    BY <2>2, FS_CardinalityType
  <2> QED
    BY <2>1, <2>2, <2>3
<1>2. Cardinality(S) \in Nat
  BY FS_CardinalityType
<1>3. ASSUME NEW y \in S, key[x] < key[y] PROVE Cardinality(B(x)) < Cardinality(B(y))
  <2>1. B(x) \in SUBSET B(y) /\ x \in B(y) /\ x \notin B(x)
    BY <1>3
  <2>2. IsFiniteSet(B(y)) /\ Cardinality(B(y)) \in Nat /\ Cardinality(B(x)) \in Nat
    BY <1>1
  <2> HIDE DEF B
  <2>3. Cardinality(B(x)) <= Cardinality(B(y)) /\ (Cardinality(B(y)) = Cardinality(B(x)) => B(y) = B(x))
    BY <2>1, <2>2, FS_Subset
  <2> QED
    BY <2>1, <2>2, <2>3
<1>4. Rank(S, key, x) = Cardinality(B(x)) /\ \A y \in S : Rank(S, key, y) = Cardinality(B(y))
  BY DEF Rank
<1> HIDE DEF B
<1>5. Cardinality(B(x)) \in 0..(Cardinality(S) - 1)
  BY <1>1, <1>2
<1> QED
  BY <1>3, <1>4, <1>5

\* With a key that tells them apart, the sorted sequence has every member once, by increasing key.
LEMMA Sorted ==
    ASSUME NEW S, IsFiniteSet(S), NEW key, \A x \in S : key[x] \in Int,
           \A x, y \in S : key[x] = key[y] => x = y
    PROVE  /\ Len(InOrder(S, key)) = Cardinality(S) /\ Cardinality(S) \in Nat
           /\ InOrder(S, key) \in Seq(S)
           /\ \A x \in S : \E k \in 1..Cardinality(S) : InOrder(S, key)[k] = x
           /\ \A j, k \in 1..Cardinality(S) : j < k => key[InOrder(S, key)[j]] < key[InOrder(S, key)[k]]
<1> DEFINE n == Cardinality(S)
           s == InOrder(S, key)
           rank == [x \in S |-> Rank(S, key, x)]
           D == 0..(n - 1)
<1>1. n \in Nat
  BY FS_CardinalityType
<1>2. s = [k \in 1..n |-> CHOOSE x \in S : Rank(S, key, x) = k - 1]
  BY DEF InOrder, Rank
<1>3. \A x \in S : Rank(S, key, x) \in D
  BY RankOrder
<1>4. \A x, y \in S : key[x] < key[y] => Rank(S, key, x) < Rank(S, key, y)
  BY RankOrder
<1>5. IsFiniteSet(D) /\ Cardinality(D) = n
  <2>1. 0 \in Int /\ n - 1 \in Int /\ (n - 1) - 0 + 1 = n /\ (0 > n - 1 => n = 0)
    BY <1>1
  <2> HIDE DEF n, s, rank
  <2> QED
    BY <2>1, FS_Interval
<1> HIDE DEF n, s
<1>6. ASSUME NEW x \in S, NEW y \in S, Rank(S, key, x) = Rank(S, key, y) PROVE x = y
  <2>1. ~(key[x] < key[y]) /\ ~(key[y] < key[x])
    BY <1>1, <1>3, <1>4, <1>6
  <2> QED
    BY <2>1
<1>7. rank \in Surjection(S, D)
  <2>1. rank \in Injection(S, D)
    <3>1. rank \in [S -> D]
      BY <1>3
    <3>2. \A x \in S : rank[x] = Rank(S, key, x)
      OBVIOUS
    <3> HIDE DEF rank, D
    <3> QED
      BY <1>6, <3>1, <3>2 DEF Injection, IsInjective
  <2> HIDE DEF rank, D
  <2> QED
    BY <1>5, <2>1, FS_Injection DEF n
<1>8. ASSUME NEW k \in 1..n PROVE s[k] \in S /\ Rank(S, key, s[k]) = k - 1
  <2>1. k - 1 \in D
    BY <1>1
  <2>2. \E x \in S : rank[x] = k - 1
    BY <1>7, <2>1 DEF Surjection
  <2>3. \E x \in S : Rank(S, key, x) = k - 1
    BY <2>2
  <2>4. s[k] = CHOOSE x \in S : Rank(S, key, x) = k - 1
    BY <1>2
  <2> QED
    BY <2>3, <2>4
<1>9. Len(s) = n /\ s \in Seq(S)
  <2>1. s = [k \in 1..n |-> s[k]]
    BY <1>2
  <2> QED
    BY <1>1, <1>8, <2>1
<1>10. ASSUME NEW x \in S PROVE \E k \in 1..n : s[k] = x
  <2>1. Rank(S, key, x) + 1 \in 1..n /\ (Rank(S, key, x) + 1) - 1 = Rank(S, key, x)
    BY <1>1, <1>3
  <2>2. s[Rank(S, key, x) + 1] = x
    BY <1>6, <1>8, <2>1
  <2> QED
    BY <2>1, <2>2
<1>11. ASSUME NEW j \in 1..n, NEW k \in 1..n, j < k PROVE key[s[j]] < key[s[k]]
  <2>1. s[j] \in S /\ s[k] \in S /\ Rank(S, key, s[j]) = j - 1 /\ Rank(S, key, s[k]) = k - 1
    BY <1>8
  <2>2. key[s[j]] \in Int /\ key[s[k]] \in Int
    BY <2>1
  <2>3. ~(key[s[k]] < key[s[j]])
    BY <1>1, <1>4, <1>11, <2>1
  <2>4. key[s[k]] # key[s[j]]
    BY <1>1, <1>11, <2>1
  <2> QED
    BY <2>2, <2>3, <2>4
<1> QED
  BY <1>1, <1>9, <1>10, <1>11 DEF n, s

-----------------------------------------------------------------------------
(* The segments of a ring.                                                  *)

\* ring_boundaries(): the segments have the tokens of the bounds, once - but the last representable one
\* twice where a node owns it -, there is at most one more than there are nodes, and a node's token is
\* the last of its segment.
LEMMA RingSegmentsCover ==
    ASSUME NEW nodes, IsFiniteSet(nodes), \A t \in nodes : t \in Int /\ t <= IMax,
           NEW b, b.lo \in Int, b.hi \in Int, b.lo <= b.hi, b.hi <= IMax, RingBoundaries(nodes, b) # <<>>
    PROVE  /\ RingBoundaries(nodes, b) \in Seq(RangeType)
           /\ \A t \in Int : Times(RingBoundaries(nodes, b), t)
                              = Hit(b, t) + (IF IMax \in nodes /\ InRange(b, t) /\ t = IMax THEN 1 ELSE 0)
           /\ Len(RingBoundaries(nodes, b)) <= Cardinality(nodes) + 1 /\ Cardinality(nodes) \in Nat
           /\ \A i \in 1..Len(RingBoundaries(nodes, b)), t \in nodes :
                InRange(RingBoundaries(nodes, b)[i], t) => RingBoundaries(nodes, b)[i].hi = t
<1> DEFINE R == RingBoundaries(nodes, b)
           inside == {t \in nodes : InRange(b, t)}
           key == [t \in inside |-> t]
           sorted == InOrder(inside, key)
           Lower(i) == IF i = 1 THEN b.lo ELSE SaturatingSucc(sorted[i - 1])
           owned == [i \in 1..Len(sorted) |-> TokenRange(Lower(i), sorted[i])]
           rest == SaturatingSucc(sorted[Len(sorted)])
           m == Cardinality(inside)
           Extra(t) == IF IMax \in nodes /\ InRange(b, t) /\ t = IMax THEN 1 ELSE 0
<1>1. R = IF sorted = <<>> THEN <<>>
          ELSE IF rest <= b.hi THEN Append(owned, TokenRange(rest, b.hi)) ELSE owned
  BY DEF RingBoundaries
<1>2. IsFiniteSet(inside) /\ m <= Cardinality(nodes) /\ Cardinality(nodes) \in Nat
  BY FS_Subset, FS_CardinalityType
<1>3. \A t \in inside : t \in nodes /\ t \in Int /\ t <= IMax /\ b.lo <= t /\ t <= b.hi /\ key[t] = t
  BY DEF InRange
<1>4. \A t \in nodes : InRange(b, t) => t \in inside
  OBVIOUS
<1> HIDE DEF inside, key
<1>5. /\ Len(sorted) = m /\ m \in Nat /\ sorted \in Seq(inside)
      /\ \A x \in inside : \E k \in 1..m : sorted[k] = x
      /\ \A j, k \in 1..m : j < k => key[sorted[j]] < key[sorted[k]]
  <2>1. (\A x \in inside : key[x] \in Int) /\ (\A x, y \in inside : key[x] = key[y] => x = y)
    BY <1>3
  <2>2. IsFiniteSet(inside)
    BY <1>2
  <2> HIDE DEF Extra
  <2> QED
    BY ONLY <2>1, <2>2, Sorted
<1> HIDE DEF sorted, m
<1>6. m \in Nat \ {0}
  BY <1>1, <1>5
<1>7. \A k \in 1..m : sorted[k] \in inside
  BY <1>5
<1>8. \A j, k \in 1..m : j < k => sorted[j] < sorted[k]
  <2>1. \A k \in 1..m : key[sorted[k]] = sorted[k]
    BY <1>3, <1>7
  <2>2. \A j, k \in 1..m : j < k => key[sorted[j]] < key[sorted[k]]
    BY <1>5
  <2> QED
    BY <2>1, <2>2
<1>9. \A k \in 1..m : sorted[k] # IMax => SaturatingSucc(sorted[k]) = sorted[k] + 1
  BY <1>3, <1>7, WidthAssumption DEF SaturatingSucc
<1>10. ASSUME NEW i \in 1..m
       PROVE  /\ Lower(i) = IF i = 1 THEN b.lo ELSE sorted[i - 1] + 1
              /\ Lower(i) \in Int /\ sorted[i] \in Int /\ Lower(i) <= sorted[i]
  <2>1. CASE i = 1
    BY <1>3, <1>7, <2>1
  <2>2. CASE i # 1
    <3>1. i - 1 \in 1..m /\ i - 1 < i
      BY <1>6, <2>2
    <3>2. sorted[i - 1] < sorted[i] /\ sorted[i - 1] \in Int /\ sorted[i] \in Int
      BY <1>3, <1>7, <1>8, <3>1
    <3>3. Lower(i) = sorted[i - 1] + 1
      <4>1. sorted[i] <= IMax /\ sorted[i - 1] # IMax
        BY <1>3, <1>7, <3>2, WidthAssumption
      <4> QED
        BY <1>9, <2>2, <3>1, <4>1
    <3> HIDE DEF Lower
    <3> QED
      BY <2>2, <3>2, <3>3
  <2> QED
    BY <2>1, <2>2
<1> HIDE DEF Lower
<1>11. /\ owned \in Seq(RangeType) /\ Len(owned) = m
       /\ \A i \in 1..m : owned[i].lo = Lower(i) /\ owned[i].hi = sorted[i]
  <2>1. \A i \in 1..m : TokenRange(Lower(i), sorted[i]) \in RangeType
    BY <1>10 DEF TokenRange, RangeType
  <2>2. owned = [i \in 1..m |-> TokenRange(Lower(i), sorted[i])]
    BY <1>5
  <2> HIDE DEF owned
  <2>3. owned \in Seq(RangeType) /\ Len(owned) = m
    BY <1>6, <2>1, <2>2
  <2>4. \A i \in 1..m : owned[i] = TokenRange(Lower(i), sorted[i])
    BY <2>2
  <2> QED
    BY <2>3, <2>4 DEF TokenRange
<1>12. /\ sorted[m] \in Int /\ sorted[m] <= b.hi /\ sorted[m] <= IMax
       /\ sorted[m] # IMax => rest = sorted[m] + 1
       /\ sorted[m] = IMax => rest = IMax /\ b.hi = IMax
  <2>1. m \in 1..m /\ Len(sorted) = m
    BY <1>5, <1>6
  <2>2. sorted[m] \in Int /\ sorted[m] <= b.hi /\ sorted[m] <= IMax
    BY <1>3, <1>7, <2>1
  <2>3. sorted[m] = IMax => SaturatingSucc(sorted[m]) = IMax /\ b.hi = IMax
    BY <2>2, WidthAssumption DEF SaturatingSucc
  <2> QED
    BY <1>9, <2>1, <2>2, <2>3
<1> HIDE DEF owned, rest
<1>13. sorted # <<>>
  BY <1>5, <1>6
<1>14. ASSUME NEW i \in 1..(m - 1) PROVE owned[i + 1].lo = owned[i].hi + 1
  <2>1. i \in 1..m /\ i + 1 \in 1..m /\ (i + 1) - 1 = i /\ i + 1 # 1
    BY <1>6
  <2>2. owned[i + 1].lo = Lower(i + 1) /\ owned[i].hi = sorted[i]
    BY <1>11, <2>1
  <2>3. Lower(i + 1) = sorted[i] + 1
    BY <1>10, <2>1
  <2> QED
    BY <2>2, <2>3
<1>15. ASSUME NEW i \in 1..m, NEW t \in nodes, InRange(owned[i], t) PROVE owned[i].hi = t
  <2>1. Lower(i) <= t /\ t <= sorted[i] /\ b.lo <= Lower(i) /\ t \in Int
    <3>1. Lower(i) <= t /\ t <= sorted[i] /\ t \in Int
      BY <1>11, <1>15 DEF InRange
    <3>2. CASE i = 1
      BY <1>10, <3>1, <3>2
    <3>3. CASE i # 1
      <4>1. i - 1 \in 1..m
        BY <1>6, <3>3
      <4> QED
        BY <1>3, <1>7, <1>10, <3>1, <3>3, <4>1
    <3> QED
      BY <3>2, <3>3
  <2>2. InRange(b, t)
    BY <1>3, <1>7, <1>10, <2>1 DEF InRange
  <2>3. PICK k \in 1..m : sorted[k] = t
    BY <1>4, <1>5, <2>2
  <2>4. ~(i < k)
    BY <1>8, <1>10, <2>1, <2>3
  <2>5. ~(k < i)
    <3> SUFFICES ASSUME k < i PROVE FALSE
      OBVIOUS
    <3>1. i # 1 /\ i - 1 \in 1..m /\ k <= i - 1
      BY <1>6
    <3>2. Lower(i) = sorted[i - 1] + 1 /\ sorted[i - 1] \in Int
      BY <1>10, <3>1
    <3>3. sorted[k] <= sorted[i - 1]
      BY <1>8, <1>10, <3>1, <3>2
    <3> QED
      BY <2>1, <2>3, <3>2, <3>3
  <2>6. k = i
    BY <1>6, <2>4, <2>5
  <2> QED
    BY <1>11, <2>3, <2>6
<1>16. ASSUME NEW t \in Int, sorted[m] # IMax PROVE Extra(t) = 0
  <2> SUFFICES ASSUME IMax \in nodes, InRange(b, IMax) PROVE FALSE
    OBVIOUS
  <2>1. PICK k \in 1..m : sorted[k] = IMax
    BY <1>4, <1>5
  <2>2. k # m /\ k < m /\ m \in 1..m
    BY <1>6, <1>16, <2>1
  <2>3. IMax < sorted[m] /\ IMax \in Int
    BY <1>8, <2>1, <2>2, WidthAssumption
  <2> QED
    BY <1>12, <2>3
<1>17. owned[1].lo = b.lo /\ owned[m].hi = sorted[m] /\ Chained(owned)
  <2>1. 1 \in 1..m /\ m \in 1..m /\ m >= 1
    BY <1>6
  <2>2. Lower(1) = b.lo
    BY <1>10, <2>1
  <2>3. owned[1].lo = b.lo /\ owned[m].hi = sorted[m]
    BY <1>11, <2>1, <2>2
  <2> QED
    BY <1>11, <1>14, <2>1, <2>3 DEF Chained
<1>18. ASSUME NEW t \in Int PROVE Times(owned, t) = Hit(TokenRange(b.lo, sorted[m]), t)
  <2>1. Times(owned, t) = Hit(TokenRange(owned[1].lo, owned[Len(owned)].hi), t)
    BY <1>11, <1>17, ChainCovers
  <2> QED
    BY <1>11, <1>17, <2>1
<1> DEFINE last == TokenRange(rest, b.hi)
<1>19. rest \in Int
  BY <1>12, WidthAssumption
<1>20. CASE rest <= b.hi
  <2>1. last \in RangeType /\ last.lo = rest /\ last.hi = b.hi
    BY <1>19, <1>20 DEF TokenRange, RangeType
  <2>2. R = Append(owned, last)
    BY <1>1, <1>13, <1>20
  <2> HIDE DEF R, last
  <2>3. R \in Seq(RangeType) /\ Len(R) = m + 1 /\ R[m + 1] = last /\ \A i \in 1..m : R[i] = owned[i]
    BY <1>6, <1>11, <2>1, <2>2
  <2>4. ASSUME NEW t \in Int PROVE Times(R, t) = Hit(b, t) + Extra(t)
    <3> DEFINE X == RangeType
    <3>1. owned \in Seq(X) /\ last \in X
      BY <1>11, <2>1
    <3> HIDE DEF X, Extra
    <3>2. Times(Append(owned, last), t) = Times(owned, t) + Hit(last, t)
      BY <3>1, TimesAppend
    <3>3. Times(R, t) = Hit(TokenRange(b.lo, sorted[m]), t) + Hit(last, t)
      BY <1>18, <2>2, <3>2
    <3>4. CASE sorted[m] # IMax
      <4>1. Extra(t) = 0 /\ rest = sorted[m] + 1 /\ b.lo <= sorted[m]
        <5>1. m \in 1..m
          BY <1>6
        <5> QED
          BY <1>3, <1>7, <1>12, <1>16, <3>4, <5>1
      <4>2. Hit(TokenRange(b.lo, sorted[m]), t) + Hit(last, t) = Hit(b, t) /\ Hit(b, t) \in Int
        BY <1>12, <1>20, <2>1, <4>1 DEF Hit, InRange, TokenRange
      <4> QED
        BY <3>3, <4>1, <4>2
    <3>5. CASE sorted[m] = IMax
      <4>1. rest = IMax /\ b.hi = IMax /\ IMax \in Int
        BY <1>12, <3>5, WidthAssumption
      <4>2. IMax \in nodes
        <5>1. m \in 1..m
          BY <1>6
        <5> QED
          BY <1>3, <1>7, <3>5, <5>1
      <4>3. Hit(last, t) = IF t = IMax THEN 1 ELSE 0
        BY <2>1, <4>1 DEF Hit, InRange
      <4>4. Hit(TokenRange(b.lo, sorted[m]), t) = Hit(b, t)
        BY <3>5, <4>1 DEF Hit, InRange, TokenRange
      <4>5. Extra(t) = IF t = IMax THEN 1 ELSE 0
        BY <4>1, <4>2 DEF Extra, InRange
      <4> QED
        BY <3>3, <4>3, <4>4, <4>5
    <3> QED
      BY <3>4, <3>5
  <2>5. ASSUME NEW i \in 1..(m + 1), NEW t \in nodes, InRange(R[i], t) PROVE R[i].hi = t
    <3>1. CASE i \in 1..m
      BY <1>15, <2>3, <2>5, <3>1
    <3>2. CASE i = m + 1
      <4>1. rest <= t /\ t <= b.hi /\ t \in Int
        BY <2>1, <2>3, <2>5, <3>2 DEF InRange
      <4>2. CASE sorted[m] = IMax
        BY <1>12, <2>1, <2>3, <3>2, <4>1, <4>2, WidthAssumption
      <4>3. CASE sorted[m] # IMax
        <5>1. b.lo <= sorted[m] /\ m \in 1..m
          BY <1>3, <1>6, <1>7
        <5>2. InRange(b, t)
          BY <1>12, <4>1, <4>3, <5>1 DEF InRange
        <5>3. PICK k \in 1..m : sorted[k] = t
          BY <1>4, <1>5, <5>2
        <5>4. sorted[k] \in Int /\ m \in 1..m /\ (k = m \/ k < m)
          BY <1>6, <1>10
        <5>5. sorted[k] <= sorted[m]
          BY <1>8, <1>12, <5>4
        <5> QED
          BY <1>12, <4>1, <4>3, <5>3, <5>5
      <4> QED
        BY <4>2, <4>3
    <3> QED
      BY <1>6, <3>1, <3>2
  <2>6. Len(R) <= Cardinality(nodes) + 1
    BY <1>2, <1>6, <2>3 DEF m
  <2> QED
    BY <1>2, <2>3, <2>4, <2>5, <2>6 DEF R
<1>21. CASE ~(rest <= b.hi)
  <2>1. R = owned
    BY <1>1, <1>13, <1>21
  <2>2. sorted[m] = b.hi /\ sorted[m] # IMax
    BY <1>12, <1>21, WidthAssumption
  <2> HIDE DEF R
  <2>3. R \in Seq(RangeType) /\ Len(R) = m
    BY <1>11, <2>1
  <2>4. ASSUME NEW t \in Int PROVE Times(R, t) = Hit(b, t) + Extra(t)
    <3>1. Extra(t) = 0
      BY <1>16, <2>2
    <3> HIDE DEF Extra
    <3>2. Hit(TokenRange(b.lo, sorted[m]), t) = Hit(b, t) /\ Hit(b, t) \in Int
      BY <2>2 DEF Hit, InRange, TokenRange
    <3> QED
      BY <1>18, <2>1, <3>1, <3>2
  <2>5. Len(R) <= Cardinality(nodes) + 1
    BY <1>2, <1>6, <2>3 DEF m
  <2> QED
    BY <1>2, <1>15, <2>1, <2>3, <2>4, <2>5 DEF R
<1> QED
  BY <1>20, <1>21

-----------------------------------------------------------------------------
(* What a resume has to do.                                                 *)

\* No token twice means that no two ranges start at the same one, or meet at all.
LEMMA OnceIsDisjoint ==
    ASSUME NEW ranges \in Seq(RangeType), \A t \in Int : Times(ranges, t) <= 1
    PROVE  /\ \A i, j \in 1..Len(ranges) : ranges[i].lo = ranges[j].lo => i = j
           /\ ~Overlapping(ranges)
<1>1. \A i \in 1..Len(ranges) : ranges[i].lo \in Int /\ ranges[i].hi \in Int /\ ranges[i].lo <= ranges[i].hi
  BY DEF RangeType
<1>2. ASSUME NEW i \in 1..Len(ranges), NEW j \in 1..Len(ranges), NEW t \in Int,
             InRange(ranges[i], t), InRange(ranges[j], t)
      PROVE  i = j
  <2> DEFINE X == RangeType
  <2>1. ranges \in Seq(X) /\ Len(ranges) \in Nat
    OBVIOUS
  <2>2. Times(ranges, t) <= 1 /\ Times(ranges, t) \in Nat
    BY <2>1, TimesNat
  <2> HIDE DEF X
  <2>3. i # j => Times(ranges, t) >= 2
    BY <1>2, <2>1, TimesTwo
  <2> QED
    BY <2>2, <2>3
<1>3. ASSUME NEW i \in 1..Len(ranges), NEW j \in 1..Len(ranges), ranges[i].lo = ranges[j].lo
      PROVE  i = j
  <2>1. InRange(ranges[i], ranges[i].lo) /\ InRange(ranges[j], ranges[i].lo) /\ ranges[i].lo \in Int
    BY <1>1, <1>3 DEF InRange
  <2> QED
    BY <1>2, <2>1
<1>4. ASSUME NEW i \in 1..Len(ranges), NEW j \in 1..Len(ranges), Intersects(ranges[i], ranges[j])
      PROVE  i = j
  <2> DEFINE t == IF ranges[i].lo <= ranges[j].lo THEN ranges[j].lo ELSE ranges[i].lo
  <2>1. InRange(ranges[i], t) /\ InRange(ranges[j], t) /\ t \in Int
    BY <1>1, <1>4 DEF InRange, Intersects
  <2> HIDE DEF t
  <2> QED
    BY <1>2, <2>1
<1> QED
  BY <1>3, <1>4 DEF Overlapping

\* plan_resume(): the outstanding ranges are those that did not complete, each once.
LEMMA OutstandingPends ==
    ASSUME plan \in Seq(RangeType), \A t \in Int : Times(plan, t) <= 1
    PROVE  /\ Outstanding \in Seq(RangeType)
           /\ \A t \in Int : Times(Outstanding, t) = Pending(t)
           /\ \A k \in 1..Len(Outstanding) : \E i \in 1..Len(plan) : Outstanding[k] = plan[i]
<1> DEFINE n == Len(plan)
           left == (1..n) \ done
           key == [i \in 1..n |-> plan[i].lo]
           s == InOrder(left, key)
           m == Cardinality(left)
<1>1. n \in Nat /\ \A i \in 1..n : plan[i] \in RangeType /\ plan[i].lo \in Int
  BY DEF RangeType
<1>2. Outstanding = [k \in 1..Len(s) |-> plan[s[k]]]
  BY DEF Outstanding
<1>3. IsFiniteSet(left)
  <2>1. IsFiniteSet(1..n)
    BY <1>1, FS_Interval
  <2> QED
    BY <2>1, FS_Difference
<1>4. left \subseteq 1..n /\ \A i \in left : key[i] = plan[i].lo /\ key[i] \in Int
  BY <1>1
<1>5. \A i, j \in left : key[i] = key[j] => i = j
  <2>1. \A i, j \in 1..n : plan[i].lo = plan[j].lo => i = j
    BY OnceIsDisjoint
  <2> QED
    BY <1>4, <2>1
<1> HIDE DEF n, left, key
<1>6. /\ Len(s) = m /\ m \in Nat /\ s \in Seq(left)
      /\ \A x \in left : \E k \in 1..m : s[k] = x
      /\ \A j, k \in 1..m : j < k => key[s[j]] < key[s[k]]
  <2>1. (\A x \in left : key[x] \in Int) /\ (\A x, y \in left : key[x] = key[y] => x = y)
    BY <1>4, <1>5
  <2> QED
    BY <1>3, <2>1, Sorted
<1> HIDE DEF s, m
<1>7. \A k \in 1..m : s[k] \in left
  BY <1>6
<1>8. ASSUME NEW j \in 1..m, NEW k \in 1..m, s[j] = s[k] PROVE j = k
  <2>1. key[s[j]] \in Int /\ key[s[j]] = key[s[k]]
    BY <1>4, <1>7, <1>8
  <2>2. j < k => key[s[j]] < key[s[k]]
    BY <1>6
  <2>3. k < j => key[s[k]] < key[s[j]]
    BY <1>6
  <2> QED
    BY <1>6, <2>1, <2>2, <2>3
<1>9. Outstanding = [k \in 1..m |-> plan[s[k]]]
  BY <1>2, <1>6
<1>10. \A k \in 1..m : plan[s[k]] \in RangeType /\ s[k] \in 1..n
  BY <1>1, <1>4, <1>7
<1>11. Outstanding \in Seq(RangeType) /\ Len(Outstanding) = m
  BY <1>6, <1>9, <1>10
<1>12. \A k \in 1..m : Outstanding[k] = plan[s[k]]
  BY <1>9
<1>13. ASSUME NEW t \in Int PROVE Times(Outstanding, t) = Pending(t)
  <2> DEFINE A == {k \in 1..m : InRange(plan[s[k]], t)}
             B == {i \in left : InRange(plan[i], t)}
             f == [k \in A |-> s[k]]
  <2>1. {k \in 1..Len(Outstanding) : InRange(Outstanding[k], t)} = A
    BY <1>11, <1>12
  <2>2. Times(Outstanding, t) = Cardinality(A) /\ Pending(t) = Cardinality(B)
    BY <2>1 DEF Times, Pending, left, n
  <2>3. IsFiniteSet(A)
    <3>1. IsFiniteSet(1..m)
      BY <1>6, FS_Interval
    <3> QED
      BY <3>1, FS_Subset
  <2>4. f \in Bijection(A, B)
    <3>1. f \in [A -> B]
      BY <1>7
    <3>2. \A j, k \in A : f[j] = f[k] => j = k
      BY <1>8
    <3>3. \A i \in B : \E k \in A : f[k] = i
      <4> SUFFICES ASSUME NEW i \in B PROVE \E k \in A : f[k] = i
        OBVIOUS
      <4>1. PICK k \in 1..m : s[k] = i
        BY <1>6
      <4>2. k \in A
        BY <4>1
      <4> QED
        BY <4>1, <4>2
    <3> HIDE DEF f, A, B
    <3> QED
      BY <3>1, <3>2, <3>3 DEF Bijection, Injection, Surjection, IsInjective
  <2> HIDE DEF f, A, B
  <2> QED
    BY <2>2, <2>3, <2>4, FS_Bijection DEF ExistsBijection
<1> QED
  BY <1>10, <1>11, <1>12, <1>13 DEF n

-----------------------------------------------------------------------------
(* The arithmetic of the loop and of the shares.                            *)

LEMMA DivLess ==
    ASSUME NEW x \in Nat, NEW d \in Nat \ {0}, NEW p \in Nat, x < p * d
    PROVE  x \div d < p
<1> DEFINE q == x \div d
<1>1. q \in Nat /\ d * q <= x
  BY DivBounds
<1> HIDE DEF q
<1>2. SUFFICES ASSUME q >= p PROVE FALSE
  BY <1>1 DEF q
<1>3. d * q >= d * p
  BY <1>1, <1>2
<1>4. d * p = p * d /\ d * q \in Int /\ d * p \in Int
  BY <1>1
<1> QED
  BY <1>1, <1>3, <1>4

LEMMA DivStep ==
    ASSUME NEW x \in Nat, NEW d \in Nat \ {0}
    PROVE  (x + d) \div d = (x \div d) + 1 /\ x \div d \in Nat /\ 0 \div d = 0
<1> DEFINE q == x \div d
           r == (x + d) \div d
<1>1. q \in Nat /\ d * q <= x /\ x < d * q + d
  BY DivBounds
<1>2. x + d \in Nat /\ r \in Nat /\ d * r <= x + d /\ x + d < d * r + d
  <2>1. x + d \in Nat
    OBVIOUS
  <2> QED
    BY <2>1, DivBounds
<1>3. 0 \div d = 0
  OBVIOUS
<1> HIDE DEF q, r
<1>4. d * (q + 1) = d * q + d /\ d * (q + 2) = d * q + d + d /\ d * (r + 1) = d * r + d
  BY <1>1, <1>2
<1>5. d * q \in Int /\ d * r \in Int
  BY <1>1, <1>2
<1>6. ~(r > q + 1)
  <2> SUFFICES ASSUME r >= q + 2 PROVE FALSE
    BY <1>1, <1>2
  <2>1. d * r >= d * (q + 2)
    BY <1>1, <1>2
  <2> QED
    BY <1>1, <1>2, <1>4, <1>5, <2>1
<1>7. ~(r < q + 1)
  <2> SUFFICES ASSUME r + 1 <= q + 1 PROVE FALSE
    BY <1>1, <1>2
  <2>1. d * (r + 1) <= d * (q + 1)
    BY <1>1, <1>2
  <2> QED
    BY <1>1, <1>2, <1>4, <1>5, <2>1
<1> QED
  BY <1>1, <1>2, <1>3, <1>6, <1>7 DEF q, r

\* scale_by_percent(): a part of the width, and all of it at 100.
LEMMA ScaleBounds ==
    ASSUME NEW w \in Nat, NEW p \in 1..100
    PROVE  /\ ScaleByPercent(w, p) \in Nat /\ ScaleByPercent(w, p) <= w
           /\ p = 100 => ScaleByPercent(w, p) = w
<1> DEFINE q == w \div 100
           r == w % 100
           z == (r * p) \div 100
<1>1. q \in Nat /\ r \in Nat /\ w = 100 * q + r
  BY DivBounds, ModBounds
<1>2. ScaleByPercent(w, p) = q * p + z
  BY DEF ScaleByPercent
<1> HIDE DEF q, r
<1>3. r * p \in Nat /\ r * p <= r * 100 /\ q * p \in Nat /\ q * p <= q * 100
  BY <1>1
<1>4. z \in Nat /\ 100 * z <= r * p /\ r * p < 100 * z + 100
  BY <1>3, DivBounds
<1> HIDE DEF z
<1> QED
  BY <1>1, <1>2, <1>3, <1>4

\* One iteration stays within the segment and, short of its end, advances by the partition size.
LEMMA UpperBounds ==
    ASSUME NEW s \in SegmentType, cursor \in Int, s.lo <= cursor, cursor <= s.hi
    PROVE  /\ PartitionSize(s) \in Nat \ {0}
           /\ Upper(s) \in Int /\ cursor <= Upper(s) /\ Upper(s) <= s.hi
           /\ Upper(s) < s.hi => Upper(s) = cursor + PartitionSize(s)
<1>1. s.lo \in Int /\ s.hi \in Int /\ s.parts \in Nat \ {0} /\ s.hi - s.lo \in Nat
  BY DEF SegmentType
<1>2. (s.hi - s.lo) \div s.parts \in Nat
  BY <1>1, DivBounds
<1>3. PartitionSize(s) \in Nat \ {0}
  BY <1>2, SettingsAssumption DEF PartitionSize
<1>4. Min({cursor + PartitionSize(s), s.hi})
        = IF cursor + PartitionSize(s) <= s.hi THEN cursor + PartitionSize(s) ELSE s.hi
  BY <1>1, <1>3, MinOfTwo
<1>5. Upper(s) = s.hi \/ (Upper(s) = cursor + PartitionSize(s) /\ cursor + PartitionSize(s) <= s.hi)
  BY <1>4 DEF Upper
<1> QED
  BY <1>1, <1>3, <1>5

\* A segment has no more steps than parts.
LEMMA PartsSuffice ==
    ASSUME NEW s \in SegmentType, NEW d \in Nat, d <= s.hi - s.lo
    PROVE  d \div (PartitionSize(s) + 1) \in Nat /\ d \div (PartitionSize(s) + 1) < s.parts
<1> DEFINE w == s.hi - s.lo
           p == s.parts
           q == w \div p
           z == PartitionSize(s)
<1>1. w \in Nat /\ p \in Nat \ {0} /\ d <= w
  BY DEF SegmentType
<1>2. z = IF q = 0 THEN Fallback ELSE q
  BY DEF PartitionSize
<1> HIDE DEF w, p, z
<1>3. q \in Nat /\ w < p * q + p
  BY <1>1, DivBounds
<1> HIDE DEF q
<1>4. z \in Nat /\ z >= q
  BY <1>2, <1>3, SettingsAssumption
<1>5. p * z >= p * q /\ p * (z + 1) = p * z + p /\ p * z \in Int /\ p * q \in Int
  BY <1>1, <1>3, <1>4
<1>6. d < p * (z + 1)
  BY <1>1, <1>3, <1>5
<1>7. d \div (z + 1) \in Nat /\ d \div (z + 1) < p
  BY <1>1, <1>4, <1>6, DivLess, DivBounds
<1> QED
  BY <1>7 DEF z, p

\* The sum of as many positive numbers is at least their number.
LEMMA TotalPositive ==
    ASSUME NEW c \in Seq(Int), \A i \in 1..Len(c) : c[i] >= 1
    PROVE  Total(c) \in Nat /\ Total(c) >= Len(c)
<1> DEFINE n == Len(c)
<1>0. n \in Nat /\ \A i \in 1..n : c[i] \in Int
  BY LenProperties, ElementOfSeq
<1>1. PICK g \in [0..n -> Int] :
        g[0] = 0 /\ (\A i \in 1..n : g[i] = g[i - 1] + c[i]) /\ Total(c) = g[n]
  BY TotalSteps
<1>2. \A i \in 1..n : c[i] >= 1
  OBVIOUS
<1> HIDE DEF n
<1> DEFINE R == {k \in Nat : k <= n => g[k] >= k}
<1>3. \A k \in Nat : k \in R
  <2>1. 0 \in R
    BY <1>1
  <2>2. ASSUME NEW k \in Nat, k \in R PROVE k + 1 \in R
    <3> SUFFICES ASSUME k + 1 <= n PROVE g[k + 1] >= k + 1
      OBVIOUS
    <3>1. k + 1 \in 1..n /\ k \in 0..n /\ (k + 1) - 1 = k
      BY <1>0
    <3>2. g[k + 1] = g[k] + c[k + 1] /\ g[k] \in Int /\ c[k + 1] \in Int /\ c[k + 1] >= 1
      BY <1>0, <1>1, <1>2, <3>1
    <3> QED
      BY <2>2, <3>1, <3>2
  <2> HIDE DEF R
  <2> QED
    BY <2>1, <2>2, NatSetInduction
<1>4. g[n] >= n /\ g[n] \in Int
  BY <1>0, <1>3
<1> QED
  BY <1>0, <1>1, <1>4 DEF n

\* One share more, and what all of them together come to.
LEMMA ShareStep ==
    ASSUME NEW T \in Int, NEW p \in Int, NEW k \in Int, NEW h \in Int, NEW s \in Int, NEW g \in Int, NEW c \in Int,
           T * h <= p * g + k * (T - 1), T * s <= p * c + (T - 1)
    PROVE  T * (h + s) <= p * (g + c) + (k + 1) * (T - 1)
<1>1. T * (h + s) = T * h + T * s /\ p * (g + c) = p * g + p * c
  OBVIOUS
<1>2. (k + 1) * (T - 1) = k * (T - 1) + (T - 1)
  OBVIOUS
<1>3. T * h \in Int /\ T * s \in Int /\ p * g \in Int /\ p * c \in Int /\ k * (T - 1) \in Int
  OBVIOUS
<1> QED
  BY <1>1, <1>2, <1>3

LEMMA ShareEnd ==
    ASSUME NEW T \in Nat \ {0}, NEW p \in Int, NEW n \in Nat \ {0}, NEW h \in Int,
           T * h <= p * T + n * (T - 1)
    PROVE  h < p + n
<1>1. SUFFICES ASSUME h >= p + n PROVE FALSE
  OBVIOUS
<1>2. T * h >= T * (p + n)
  BY <1>1
<1>3. T * (p + n) = p * T + n * T /\ n * (T - 1) = n * T - n
  OBVIOUS
<1>4. T * h \in Int /\ p * T \in Int /\ n * T \in Int
  OBVIOUS
<1> QED
  BY <1>2, <1>3, <1>4

\* Shares that exceed their proportion by less than one each exceed the whole by less than their number.
LEMMA SharesBound ==
    ASSUME NEW c \in Seq(Int), NEW s \in Seq(Int), Len(s) = Len(c), Len(c) >= 1, NEW parts \in Nat,
           Total(c) \in Nat \ {0},
           \A i \in 1..Len(c) : Total(c) * s[i] <= parts * c[i] + (Total(c) - 1)
    PROVE  Total(s) \in Int /\ Total(s) <= parts + Len(c) - 1
<1> DEFINE n == Len(c)
           T == Total(c)
<1>0. n \in Nat /\ n >= 1 /\ Len(s) = n /\ \A i \in 1..n : c[i] \in Int /\ s[i] \in Int
  BY LenProperties, ElementOfSeq
<1>1. PICK g \in [0..n -> Int] :
        g[0] = 0 /\ (\A i \in 1..n : g[i] = g[i - 1] + c[i]) /\ Total(c) = g[n]
  BY TotalSteps
<1>2. PICK h \in [0..n -> Int] :
        h[0] = 0 /\ (\A i \in 1..n : h[i] = h[i - 1] + s[i]) /\ Total(s) = h[n]
  BY <1>0, TotalSteps
<1>3. T \in Nat \ {0} /\ \A i \in 1..n : T * s[i] <= parts * c[i] + (T - 1)
  OBVIOUS
<1> HIDE DEF n, T
<1> DEFINE R == {k \in Nat : k <= n => T * h[k] <= parts * g[k] + k * (T - 1)}
<1>4. \A k \in Nat : k \in R
  <2>1. 0 \in R
    BY <1>1, <1>2, <1>3
  <2>2. ASSUME NEW k \in Nat, k \in R PROVE k + 1 \in R
    <3> SUFFICES ASSUME k + 1 <= n PROVE T * h[k + 1] <= parts * g[k + 1] + (k + 1) * (T - 1)
      OBVIOUS
    <3>1. k + 1 \in 1..n /\ k \in 0..n /\ (k + 1) - 1 = k
      BY <1>0
    <3>2. /\ g[k + 1] = g[k] + c[k + 1] /\ g[k] \in Int /\ c[k + 1] \in Int
          /\ h[k + 1] = h[k] + s[k + 1] /\ h[k] \in Int /\ s[k + 1] \in Int
      BY <1>0, <1>1, <1>2, <3>1
    <3>3. T * h[k] <= parts * g[k] + k * (T - 1) /\ T * s[k + 1] <= parts * c[k + 1] + (T - 1)
      BY <1>3, <2>2, <3>1
    <3>4. T * (h[k] + s[k + 1]) <= parts * (g[k] + c[k + 1]) + (k + 1) * (T - 1)
      <4>1. T \in Int /\ parts \in Int /\ k \in Int
        BY <1>3
      <4> QED
        BY <3>2, <3>3, <4>1, ShareStep, Zenon
    <3> QED
      BY <3>2, <3>4
  <2> HIDE DEF R
  <2> QED
    BY <2>1, <2>2, NatSetInduction
<1>5. T * h[n] <= parts * g[n] + n * (T - 1) /\ h[n] \in Int
  BY <1>0, <1>4
<1>6. g[n] = T
  BY <1>1 DEF T
<1>7. h[n] < parts + n
  <2>1. n \in Nat \ {0} /\ parts \in Int /\ T * h[n] <= parts * T + n * (T - 1)
    BY <1>0, <1>5, <1>6
  <2> QED
    BY <1>3, <1>5, <2>1, ShareEnd, Zenon
<1> QED
  BY <1>0, <1>2, <1>5, <1>7 DEF n

-----------------------------------------------------------------------------
(* What a first plan starts from.                                           *)

LEMMA CoverageType == \A c : EffectiveCoverage(c) \in 1..100
BY DEF EffectiveCoverage

\* The parts of the first k segments.
LEMMA PartsSteps ==
    ASSUME Segments \in Seq(SegmentType)
    PROVE  /\ PartsTo(0) = 0
           /\ \A k \in 0..(Len(Segments) - 1) :
                PartsTo(k + 1) = PartsTo(k) + Segments[k + 1].parts /\ PartsTo(k) \in Int
<1> DEFINE n == Len(Segments)
           Parts(k) == [i \in 1..k |-> Segments[i].parts]
<1>1. n \in Nat /\ \A i \in 1..n : Segments[i].parts \in Int
  BY DEF SegmentType
<1>2. PartsTo(0) = 0
  <2>1. Parts(0) = <<>>
    OBVIOUS
  <2> QED
    BY <2>1, TotalEmpty DEF PartsTo
<1> HIDE DEF n
<1>3. ASSUME NEW k \in 0..(n - 1)
      PROVE  PartsTo(k + 1) = PartsTo(k) + Segments[k + 1].parts /\ PartsTo(k) \in Int
  <2>1. k \in Nat /\ k + 1 \in 1..n /\ 1..k \subseteq 1..n
    BY <1>1
  <2>2. Parts(k) \in Seq(Int) /\ Len(Parts(k)) = k /\ Segments[k + 1].parts \in Int
    BY <1>1, <2>1
  <2>3. Parts(k + 1) = Append(Parts(k), Segments[k + 1].parts)
    <3>1. Append(Parts(k), Segments[k + 1].parts)
            = [i \in 1..(k + 1) |-> IF i = k + 1 THEN Segments[k + 1].parts ELSE Parts(k)[i]]
      BY <2>1, <2>2
    <3>2. \A i \in 1..(k + 1) : Segments[i].parts = IF i = k + 1 THEN Segments[k + 1].parts ELSE Parts(k)[i]
      BY <2>1
    <3> QED
      BY <3>1, <3>2
  <2>4. PartsTo(k) = Total(Parts(k)) /\ PartsTo(k + 1) = Total(Parts(k + 1))
    BY DEF PartsTo
  <2> HIDE DEF Parts
  <2> QED
    BY <2>2, <2>3, <2>4, TotalAppend
<1> QED
  BY <1>2, <1>3 DEF n

\* A share exceeds its proportion by less than one, and saturation only makes it smaller.
LEMMA ShareBounds ==
    ASSUME NEW r \in RangeType, NEW total \in Nat \ {0}, conf.parts \in Nat
    PROVE  /\ Share(r, total) \in Nat \ {0}
           /\ total * Share(r, total) <= Max({conf.parts, 1}) * TokenCount(r) + (total - 1)
<1> DEFINE c == TokenCount(r)
           p == conf.parts
           x == Saturating(p * c)
           q == x \div total
           y == Max({p, 1}) * c
<1>1. c \in Nat \ {0} /\ p \in Nat
  BY DEF TokenCount, RangeType
<1>2. Share(r, total) = Max({q, 1})
  BY DEF Share
<1> HIDE DEF c, p
<1>3. p * c \in Nat
  BY <1>1
<1>4. x \in Nat /\ x <= p * c
  <2> DEFINE z == p * c
  <2>1. z \in Int /\ z >= 0 /\ UMax \in Int /\ UMax >= 0
    BY <1>3, WidthAssumption DEF UMax
  <2> HIDE DEF z
  <2>2. Min({z, UMax}) = IF z <= UMax THEN z ELSE UMax
    BY <2>1, MinOfTwo
  <2>3. Min({z, UMax}) \in Nat /\ Min({z, UMax}) <= z
    BY <2>1, <2>2
  <2> QED
    BY <2>3 DEF Saturating, z
<1> HIDE DEF x
<1>5. y \in Nat \ {0} /\ p * c <= y
  <2>1. Max({p, 1}) = IF p >= 1 THEN p ELSE 1
    BY <1>1, MaxOfTwo
  <2>2. CASE p >= 1
    BY <1>1, <2>1, <2>2
  <2>3. CASE p = 0
    BY <1>1, <2>1, <2>3
  <2> QED
    BY <1>1, <2>2, <2>3
<1> HIDE DEF y
<1>6. q \in Nat /\ total * q <= x
  BY <1>4, DivBounds
<1> HIDE DEF q
<1>7. Share(r, total) = IF q >= 1 THEN q ELSE 1
  BY <1>2, <1>6, MaxOfTwo
<1>8. total * Share(r, total) <= y + (total - 1)
  <2>1. CASE q >= 1
    <3>1. total * q <= y /\ total * q \in Int
      BY <1>3, <1>4, <1>5, <1>6
    <3> QED
      BY <1>5, <1>7, <2>1, <3>1
  <2>2. CASE ~(q >= 1)
    BY <1>5, <1>7, <2>2
  <2> QED
    BY <2>1, <2>2
<1> QED
  BY <1>6, <1>7, <1>8 DEF y, p, c

\* The segments have the tokens wanted, and all together hardly more parts than asked for.
SegmentsAreSound ==
    /\ Segments \in Seq(SegmentType) /\ Segments # <<>>
    /\ \A i \in 1..Len(Segments) : Segments[i].coverage = EffectiveCoverage(conf.coverage)
    /\ \A t \in Int : Times(Segments, t) = Want(t)
    /\ conf.strategy = "ring_aware" => \A i \in 1..Len(Segments) : OneOwner(Segments[i])
    /\ PartsTo(Len(Segments)) <= Max({conf.parts, 1}) + Cardinality(conf.nodes)
    /\ conf.strategy # "ring_aware" => PartsTo(Len(Segments)) <= MaxRanges
    /\ PartsTo(Len(Segments)) \in Int /\ Cardinality(conf.nodes) \in Nat

LEMMA SettingsTypes ==
    ASSUME TypeOK, PlanIsUsable
    PROVE  /\ conf.bounds.lo \in Int /\ conf.bounds.hi \in Int /\ conf.bounds.lo <= conf.bounds.hi
           /\ conf.bounds.hi <= IMax
           /\ conf.parts \in Nat /\ Max({conf.parts, 1}) \in Nat \ {0} /\ conf.parts <= Max({conf.parts, 1})
           /\ IsFiniteSet(conf.nodes) /\ Cardinality(conf.nodes) \in Nat
           /\ \A t \in conf.nodes : t \in Int /\ t <= IMax
<1>1. conf.ring \in FullRings /\ conf.bounds \in Bounds /\ conf.nodes \in NodeTokens \cup {{}} /\ conf.parts \in NumParts
  BY DEF TypeOK
<1>2. conf.bounds.lo \in Int /\ conf.bounds.hi \in Int /\ conf.bounds.lo <= conf.bounds.hi
  BY <1>1, WidthAssumption DEF PlanIsUsable, UsableBounds
<1>3. conf.bounds.hi <= IMax
  <2>1. conf.bounds.hi <= conf.ring.hi /\ conf.ring.hi \in Int /\ conf.ring.hi <= IMax /\ IMax \in Int
    BY <1>1, WidthAssumption DEF PlanIsUsable, UsableBounds, InRange
  <2> QED
    BY <1>2, <2>1
<1>4. conf.parts \in Nat
  BY <1>1, SettingsAssumption
<1>5. Max({conf.parts, 1}) \in Nat \ {0} /\ conf.parts <= Max({conf.parts, 1})
  BY <1>4, MaxOfTwo
<1>6. IsFiniteSet(conf.nodes) /\ \A t \in conf.nodes : t \in Int /\ t <= IMax
  BY <1>1, TokensAssumption, FS_EmptySet
<1> QED
  BY <1>2, <1>3, <1>4, <1>5, <1>6, FS_CardinalityType

LEMMA OneSegmentSound ==
    ASSUME TypeOK, PlanIsUsable, conf.strategy # "ring_aware"
    PROVE  SegmentsAreSound
<1> DEFINE s == Segment(conf.bounds, conf.parts, conf.coverage)
           b == conf.bounds
<1>1. Segments = <<s>>
  BY DEF Segments
<1>0. conf.parts \in 1..MaxRanges /\ conf.parts \in Nat \ {0}
  <2>1. 1 \in 1..Len(Segments) /\ Segments[1].parts = conf.parts
    BY <1>1 DEF Segment
  <2>2. Splittable(conf.parts)
    BY <2>1 DEF PlanIsUsable
  <2> QED
    BY <2>2, SettingsAssumption DEF Splittable
<1>2. s \in SegmentType /\ s.coverage = EffectiveCoverage(conf.coverage) /\ s.parts = conf.parts /\ s.lo = b.lo /\ s.hi = b.hi
  BY <1>0, SettingsTypes, CoverageType DEF Segment, SegmentType
<1> HIDE DEF s
<1>3. Segments \in Seq(SegmentType) /\ Len(Segments) = 1 /\ Segments[1] = s /\ Segments # <<>>
  BY <1>1, <1>2
<1>4. ASSUME NEW t \in Int PROVE Times(Segments, t) = Want(t)
  <2> DEFINE X == SegmentType
  <2>1. Segments \in Seq(X)
    BY <1>3
  <2> HIDE DEF X
  <2>2. Times(Segments, t) = Hit(Segments[1], t) + Times(Tail(Segments), t)
    BY <1>3, <2>1, TimesHeadTail
  <2>3. Tail(Segments) = <<>>
    BY <1>1
  <2>4. Hit(Segments[1], t) = Hit(b, t) /\ Hit(b, t) \in Nat
    BY <1>2, <1>3 DEF Hit, InRange
  <2>5. Times(Tail(Segments), t) = 0
    BY <2>3, TimesEmpty
  <2>6. Want(t) = Hit(b, t)
    BY DEF Want, Hit, TwicePlanned
  <2> QED
    BY <2>2, <2>4, <2>5, <2>6
<1>5. PartsTo(1) = conf.parts
  <2>1. 0 \in 0..(Len(Segments) - 1)
    BY <1>3
  <2>2. PartsTo(0) = 0 /\ PartsTo(0 + 1) = PartsTo(0) + Segments[0 + 1].parts
    BY <1>3, <2>1, PartsSteps
  <2> QED
    BY <1>2, <1>3, <2>2, SettingsTypes
<1>6. \A i \in 1..Len(Segments) : i = 1
  BY <1>3
<1>7. Segments[1].coverage = EffectiveCoverage(conf.coverage)
  BY <1>2, <1>3
<1>8. /\ PartsTo(Len(Segments)) \in Int /\ PartsTo(Len(Segments)) <= MaxRanges
      /\ PartsTo(Len(Segments)) <= Max({conf.parts, 1}) + Cardinality(conf.nodes)
  BY <1>0, <1>3, <1>5, SettingsTypes, SettingsAssumption
<1> QED
  BY <1>3, <1>4, <1>6, <1>7, <1>8, SettingsTypes DEF SegmentsAreSound

LEMMA RingSegmentsSound ==
    ASSUME TypeOK, PlanIsUsable, conf.strategy = "ring_aware"
    PROVE  SegmentsAreSound
<1> DEFINE b == conf.bounds
           R == RingBoundaries(conf.nodes, b)
           n == Len(R)
           counts == [i \in 1..n |-> TokenCount(R[i])]
           total == Total(counts)
           shares == [i \in 1..n |-> Share(R[i], total)]
<1>1. Segments = [i \in 1..n |-> Segment(R[i], Share(R[i], total), conf.coverage)] /\ Segments # <<>>
  BY DEF Segments, RingSegments, PlanIsUsable
<1>2. R # <<>>
  <2> SUFFICES ASSUME R = <<>> PROVE FALSE
    OBVIOUS
  <2>1. 1..n = {}
    OBVIOUS
  <2> QED
    BY <1>1, <2>1
<1>3. /\ R \in Seq(RangeType) /\ n <= Cardinality(conf.nodes) + 1
      /\ \A t \in Int : Times(R, t) = Want(t)
      /\ \A i \in 1..n, t \in conf.nodes : InRange(R[i], t) => R[i].hi = t
  <2> DEFINE N == conf.nodes
  <2>1. /\ IsFiniteSet(N) /\ (\A t \in N : t \in Int /\ t <= IMax) /\ b.hi <= IMax
        /\ b.lo \in Int /\ b.hi \in Int /\ b.lo <= b.hi /\ RingBoundaries(N, b) # <<>>
    BY <1>2, SettingsTypes
  <2>2. \A t \in Int : Hit(b, t) + (IF IMax \in N /\ InRange(b, t) /\ t = IMax THEN 1 ELSE 0) = Want(t)
    BY DEF Hit, Want, TwicePlanned
  <2> HIDE DEF N, b
  <2>3. /\ RingBoundaries(N, b) \in Seq(RangeType)
        /\ \A t \in Int : Times(RingBoundaries(N, b), t)
                           = Hit(b, t) + (IF IMax \in N /\ InRange(b, t) /\ t = IMax THEN 1 ELSE 0)
        /\ Len(RingBoundaries(N, b)) <= Cardinality(N) + 1
        /\ \A i \in 1..Len(RingBoundaries(N, b)), t \in N :
             InRange(RingBoundaries(N, b)[i], t) => RingBoundaries(N, b)[i].hi = t
    BY <2>1, RingSegmentsCover
  <2>4. \A t \in Int : Times(RingBoundaries(N, b), t) = Want(t)
    BY <2>2, <2>3
  <2> QED
    BY <2>3, <2>4 DEF N
<1> HIDE DEF R
<1>4. n \in Nat \ {0} /\ \A i \in 1..n : R[i] \in RangeType
  BY <1>2, <1>3
<1> HIDE DEF n
<1>5. counts \in Seq(Int) /\ Len(counts) = n /\ \A i \in 1..n : counts[i] >= 1 /\ counts[i] = TokenCount(R[i])
  <2>1. \A i \in 1..n : TokenCount(R[i]) \in Int /\ TokenCount(R[i]) >= 1
    BY <1>4 DEF TokenCount, RangeType
  <2> QED
    BY <1>4, <2>1
<1> HIDE DEF counts
<1>6. total \in Nat \ {0}
  BY <1>4, <1>5, TotalPositive
<1> HIDE DEF total
<1>7. /\ shares \in Seq(Int) /\ Len(shares) = n
      /\ \A i \in 1..n : /\ shares[i] = Share(R[i], total) /\ shares[i] \in Nat \ {0}
                         /\ total * shares[i] <= Max({conf.parts, 1}) * counts[i] + (total - 1)
  <2>1. \A i \in 1..n : /\ Share(R[i], total) \in Nat \ {0}
                        /\ total * Share(R[i], total) <= Max({conf.parts, 1}) * TokenCount(R[i]) + (total - 1)
    BY <1>4, <1>6, SettingsTypes, ShareBounds
  <2>2. shares \in Seq(Int) /\ Len(shares) = n /\ \A i \in 1..n : shares[i] = Share(R[i], total)
    BY <1>4, <2>1
  <2> HIDE DEF shares
  <2> QED
    BY <1>5, <2>1, <2>2
<1> HIDE DEF shares
<1>8. ASSUME NEW i \in 1..n
      PROVE  /\ Segment(R[i], shares[i], conf.coverage) \in SegmentType
             /\ Segment(R[i], shares[i], conf.coverage).lo = R[i].lo
             /\ Segment(R[i], shares[i], conf.coverage).hi = R[i].hi
             /\ Segment(R[i], shares[i], conf.coverage).parts = shares[i]
             /\ Segment(R[i], shares[i], conf.coverage).coverage = EffectiveCoverage(conf.coverage)
  BY <1>4, <1>7, CoverageType DEF Segment, SegmentType, RangeType
<1>9. Segments = [i \in 1..n |-> Segment(R[i], shares[i], conf.coverage)]
  BY <1>1, <1>7
<1>10. /\ Segments \in Seq(SegmentType) /\ Len(Segments) = n
       /\ \A i \in 1..n : /\ Segments[i].lo = R[i].lo /\ Segments[i].hi = R[i].hi
                          /\ Segments[i].parts = shares[i]
                          /\ Segments[i].coverage = EffectiveCoverage(conf.coverage)
  <2>1. Segments \in Seq(SegmentType) /\ Len(Segments) = n
    BY <1>4, <1>8, <1>9
  <2>2. \A i \in 1..n : Segments[i] = Segment(R[i], shares[i], conf.coverage)
    BY <1>9
  <2> QED
    BY <1>8, <2>1, <2>2
<1>11. ASSUME NEW t \in Int PROVE Times(Segments, t) = Want(t)
  <2> DEFINE s == Segments
  <2>1. Len(s) \in Nat /\ Len(s) = Len(R) /\ \A i \in 1..Len(s) : s[i].lo = R[i].lo /\ s[i].hi = R[i].hi
    BY <1>4, <1>10 DEF n
  <2> HIDE DEF s
  <2>2. Times(s, t) = Times(R, t)
    BY <2>1, TimesSame
  <2> QED
    BY <1>3, <2>2 DEF s
<1>12. ASSUME NEW i \in 1..n PROVE OneOwner(Segments[i])
  BY <1>3, <1>10 DEF OneOwner, InRange
<1>13. PartsTo(n) = Total(shares)
  <2>1. [i \in 1..n |-> Segments[i].parts] = shares
    <3>1. shares = [i \in 1..n |-> shares[i]]
      BY <1>7
    <3> QED
      BY <1>10, <3>1
  <2> QED
    BY <2>1 DEF PartsTo
<1>14. Total(shares) \in Int /\ Total(shares) <= Max({conf.parts, 1}) + n - 1
  <2> DEFINE p == Max({conf.parts, 1})
  <2>1. p \in Nat /\ \A i \in 1..Len(counts) : Total(counts) * shares[i] <= p * counts[i] + (Total(counts) - 1)
    BY <1>5, <1>7, SettingsTypes DEF total
  <2>2. Len(shares) = Len(counts) /\ Len(counts) >= 1 /\ Total(counts) \in Nat \ {0}
    BY <1>4, <1>5, <1>6, <1>7 DEF total
  <2> HIDE DEF p
  <2>3. Total(shares) \in Int /\ Total(shares) <= p + Len(counts) - 1
    BY <1>5, <1>7, <2>1, <2>2, SharesBound
  <2> QED
    BY <1>5, <2>3 DEF p
<1>15. PartsTo(n) \in Int /\ PartsTo(n) <= Max({conf.parts, 1}) + Cardinality(conf.nodes)
  BY <1>3, <1>4, <1>13, <1>14, SettingsTypes
<1> QED
  BY <1>1, <1>10, <1>11, <1>12, <1>15, SettingsTypes DEF SegmentsAreSound

LEMMA SegmentsSound ==
    ASSUME TypeOK, PlanIsUsable
    PROVE  SegmentsAreSound
BY OneSegmentSound, RingSegmentsSound

LEMMA Saturates ==
    ASSUME NEW n \in Int
    PROVE  Saturating(n) \in Int
<1>1. UMax \in Int
  BY WidthAssumption DEF UMax
<1> QED
  BY <1>1, MinOfTwo DEF Saturating

\* plan_adaptive(): a range is divided into at least one piece, whatever the estimates say.
LEMMA FactorType ==
    ASSUME TypeOK, NEW r \in RangeType
    PROVE  Factor(r) \in Nat \ {0}
<1> DEFINE rows == conf.rows
           n == Len(rows)
           amounts == [i \in 1..n |-> Prorated(r, rows[i])]
<1>1. rows \in Seq(Int \X Int \X Nat)
  <2>1. rows \in SizeRows \cup {<<>>}
    BY DEF TypeOK
  <2>2. <<>> \in Seq(Int \X Int \X Nat)
    BY EmptySeq
  <2> QED
    BY <2>1, <2>2, RowsAssumption, Zenon
<1>2. n \in Nat /\ \A i \in 1..n : rows[i] \in Int \X Int \X Nat
  BY <1>1, LenProperties, ElementOfSeq
<1> HIDE DEF rows, n
<1>3. ASSUME NEW e \in Int \X Int \X Nat PROVE Prorated(r, e) \in Int
  <2> DEFINE s == EstimateRange(e)
             c == Clip(r, s)
  <2>1. e[1] \in Int /\ e[2] \in Int /\ e[3] \in Int /\ r.lo \in Int /\ r.hi \in Int
    BY DEF RangeType
  <2>2. s.lo \in Int /\ s.hi \in Int
    BY <2>1, WidthAssumption DEF EstimateRange, TokenRange, SaturatingSucc
  <2> HIDE DEF s
  <2>3. c.lo \in Int /\ c.hi \in Int
    BY <2>1, <2>2, MaxOfTwo, MinOfTwo DEF Clip, TokenRange
  <2> HIDE DEF c
  <2>4. e[3] * TokenCount(c) \in Int
    BY <2>1, <2>3 DEF TokenCount
  <2>5. IsEstimate(e) => TokenCount(s) \in Nat \ {0}
    BY <2>2 DEF IsEstimate, TokenCount, s
  <2>8. Saturating(e[3] * TokenCount(c)) \in Int
    BY <2>4, Saturates
  <2>6. IsEstimate(e) => Saturating(e[3] * TokenCount(c)) \div TokenCount(s) \in Int
    BY <2>5, <2>8
  <2>7. Prorated(r, e) = IF IsEstimate(e) /\ Intersects(s, r)
                         THEN Saturating(e[3] * TokenCount(c)) \div TokenCount(s) ELSE 0
    BY DEF Prorated, s, c
  <2> QED
    BY <2>6, <2>7
<1>4. amounts \in Seq(Int)
  BY <1>2, <1>3
<1>5. EstimatedRowsIn(r, conf.rows) = Saturating(Total(amounts))
  BY DEF EstimatedRowsIn, rows, n
<1> HIDE DEF amounts
<1> DEFINE x == Saturating(Total(amounts))
<1>6. x \in Int
  <2>1. Total(amounts) \in Int
    BY <1>4, TotalAppend
  <2> QED
    BY <2>1, Saturates
<1> HIDE DEF x
<1>7. MaxRows # 0 => (x + MaxRows - 1) \div MaxRows \in Int
  BY <1>6, SettingsAssumption
<1>8. MaxRows # 0 => Max({(x + MaxRows - 1) \div MaxRows, 1}) \in Nat \ {0}
  BY <1>7, MaxOfTwo
<1> QED
  BY <1>5, <1>8 DEF Factor, x

\* Dividing again does not change which tokens there are.
LEMMA DividedCovers ==
    ASSUME TypeOK
    PROVE  Divided(out) \in Seq(RangeType) /\ \A t \in Int : Times(Divided(out), t) = Times(out, t)
<1> DEFINE n == Len(out)
           seqs == [i \in 1..n |-> EvenSplit(out[i], Factor(out[i]))]
<1>1. n \in Nat /\ out \in Seq(RangeType) /\ \A i \in 1..n : out[i] \in RangeType
  BY DEF TypeOK
<1>2. Divided(out) = FlattenSeq(seqs)
  BY DEF Divided
<1>3. \A i \in 1..n : /\ EvenSplit(out[i], Factor(out[i])) \in Seq(RangeType)
                      /\ \A t \in Int : Times(EvenSplit(out[i], Factor(out[i])), t) = Hit(out[i], t)
  BY <1>1, FactorType, EvenSplitCovers
<1> HIDE DEF n
<1>4. seqs \in Seq(Seq(RangeType)) /\ Len(seqs) = n
  BY <1>1, <1>3
<1>5. \A i \in 1..n : seqs[i] = EvenSplit(out[i], Factor(out[i]))
  OBVIOUS
<1> HIDE DEF seqs
<1>6. \A i \in 1..Len(seqs) : \A t \in Int : Times(seqs[i], t) = Hit(out[i], t)
  BY <1>3, <1>4, <1>5
<1> DEFINE o == out
<1>7. o \in Seq(RangeType) /\ Len(seqs) = Len(o) /\ \A i \in 1..Len(seqs) : \A t \in Int : Times(seqs[i], t) = Hit(o[i], t)
  BY <1>1, <1>4, <1>6 DEF n
<1> HIDE DEF o
<1>8. FlattenSeq(seqs) \in Seq(RangeType) /\ \A t \in Int : Times(FlattenSeq(seqs), t) = Times(o, t)
  BY <1>4, <1>7, FlattenCovers
<1> QED
  BY <1>2, <1>8 DEF o

-----------------------------------------------------------------------------
(* The steps of the loop.                                                   *)

\* While the settings are the same, so is what is computed from them.
LEMMA SameSettings ==
    ASSUME conf' = conf
    PROVE  /\ Segments' = Segments /\ (PlanIsUsable' <=> PlanIsUsable) /\ (FullCoverage' <=> FullCoverage)
           /\ \A k : PartsTo(k)' = PartsTo(k)
           /\ \A r : OneOwner(r)' <=> OneOwner(r)
           /\ \A t : (TwicePlanned(t)' <=> TwicePlanned(t)) /\ Want(t)' = Want(t)
<1>1. Segments' = Segments
  BY DEF Segments, RingSegments, Segment, Share
<1>2. PlanIsUsable' <=> PlanIsUsable
  BY <1>1 DEF PlanIsUsable
<1>3. FullCoverage' <=> FullCoverage
  BY DEF FullCoverage
<1>4. \A k : PartsTo(k)' = PartsTo(k)
  BY <1>1 DEF PartsTo
<1>5. \A r : OneOwner(r)' <=> OneOwner(r)
  BY DEF OneOwner
<1>6. \A t : (TwicePlanned(t)' <=> TwicePlanned(t)) /\ Want(t)' = Want(t)
  BY DEF TwicePlanned, Want
<1> QED
  BY <1>1, <1>2, <1>3, <1>4, <1>5, <1>6

LEMMA SameConserves ==
    ASSUME Conserves, conf' = conf, plan' = plan, done' = done, hist' = hist
    PROVE  Conserves'
<1>1. \A t : (TwicePlanned(t)' <=> TwicePlanned(t)) /\ Want(t)' = Want(t)
  BY SameSettings
<1>2. \A t : Pending(t)' = Pending(t) /\ Times(plan, t)' = Times(plan, t)
  BY DEF Pending, Times
<1>3. Covered(plan)' = Covered(plan)
  BY DEF Covered
<1> QED
  BY <1>1, <1>2, <1>3 DEF Conserves

\* What is left: the rest of the first segment, and the others.
LEMMA RestHead ==
    ASSUME NEW segs \in Seq(SegmentType), segs # <<>>, NEW c \in Int, NEW t
    PROVE  Times(Rest(segs, c), t) = Hit(TokenRange(c, segs[1].hi), t) + Times(Tail(segs), t)
<1> DEFINE n == Len(segs)
           X == {TokenRange(x, y) : x \in Int, y \in Int}
           R == Rest(segs, c)
<1>1. n \in Nat \ {0} /\ \A i \in 1..n : segs[i].lo \in Int /\ segs[i].hi \in Int
  BY DEF SegmentType
<1>2. Len(Tail(segs)) = n - 1 /\ \A i \in 1..(n - 1) : Tail(segs)[i] = segs[i + 1]
  BY <1>1
<1>3. R = [i \in 1..n |-> TokenRange(IF i = 1 THEN c ELSE segs[i].lo, segs[i].hi)]
  BY DEF Rest
<1> HIDE DEF n
<1>4. \A i \in 1..n : TokenRange(IF i = 1 THEN c ELSE segs[i].lo, segs[i].hi) \in X
  BY <1>1
<1> HIDE DEF X, R
<1>5. R \in Seq(X) /\ Len(R) = n /\ R # <<>>
  BY <1>1, <1>3, <1>4
<1>6. R[1] = TokenRange(c, segs[1].hi)
  BY <1>1, <1>3
<1>7. Times(R, t) = Hit(R[1], t) + Times(Tail(R), t)
  BY <1>5, TimesHeadTail
<1>8. Times(Tail(R), t) = Times(Tail(segs), t)
  <2>1. Len(Tail(R)) = n - 1 /\ \A i \in 1..(n - 1) : Tail(R)[i] = R[i + 1]
    BY <1>1, <1>5
  <2>2. \A i \in 1..(n - 1) : R[i + 1].lo = segs[i + 1].lo /\ R[i + 1].hi = segs[i + 1].hi
    BY <1>1, <1>3 DEF TokenRange
  <2> DEFINE a == Tail(R)
             b == Tail(segs)
  <2>3. Len(a) \in Nat /\ Len(a) = Len(b) /\ \A i \in 1..Len(a) : a[i].lo = b[i].lo /\ a[i].hi = b[i].hi
    BY <1>1, <1>2, <2>1, <2>2
  <2> HIDE DEF a, b
  <2>4. Times(a, t) = Times(b, t)
    BY <2>3, TimesSame
  <2> QED
    BY <2>4 DEF a, b
<1> QED
  BY <1>6, <1>7, <1>8 DEF R

\* From the start of the first segment, everything is left.
LEMMA RestWhole ==
    ASSUME NEW segs \in Seq(SegmentType), NEW c, segs # <<>> => c = segs[1].lo, NEW t
    PROVE  Times(Rest(segs, c), t) = Times(segs, t)
<1> DEFINE R == Rest(segs, c)
           n == Len(segs)
<1>1. n \in Nat
  OBVIOUS
<1>2. R = [i \in 1..n |-> TokenRange(IF i = 1 THEN c ELSE segs[i].lo, segs[i].hi)]
  BY DEF Rest
<1>3. 1 \in 1..n => c = segs[1].lo
  OBVIOUS
<1> HIDE DEF n, R
<1>4. Len(R) = n
  BY <1>1, <1>2
<1>5. \A i \in 1..n : R[i].lo = segs[i].lo /\ R[i].hi = segs[i].hi
  BY <1>2, <1>3 DEF TokenRange
<1>6. Len(R) \in Nat /\ Len(R) = Len(segs) /\ \A i \in 1..Len(R) : R[i].lo = segs[i].lo /\ R[i].hi = segs[i].hi
  BY <1>1, <1>4, <1>5 DEF n
<1>7. Times(R, t) = Times(segs, t)
  BY <1>6, TimesSame
<1> QED
  BY <1>7 DEF R

\* An iteration emits a range from the cursor on, and goes on after the end of that part of the segment.
Emits(u, r) ==
    /\ out' = Append(out, r)
    /\ r.lo = cursor /\ r.hi <= u /\ cursor <= u /\ u <= todo[1].hi
    /\ todo[1].coverage = 100 => r.hi = u
    /\ \/ /\ u < todo[1].hi /\ u = cursor + PartitionSize(todo[1])
          /\ cursor' = u + 1 /\ todo' = todo
       \/ /\ u = todo[1].hi /\ todo' = Tail(todo) /\ cursor' \in Int
          /\ Tail(todo) # <<>> => cursor' = Tail(todo)[1].lo

LEMMA EmitEffect ==
    ASSUME TypeOK, Loop, EmitRange
    PROVE  todo \in Seq(SegmentType) /\ todo # <<>> /\ \E u \in Int, r \in RangeType : Emits(u, r)
<1> DEFINE s == todo[1]
           u == Upper(s)
           x == ScaleByPercent(u - cursor, s.coverage)
           r == TokenRange(cursor, cursor + x)
<1>1. todo \in Seq(SegmentType) /\ todo # <<>> /\ cursor \in Int /\ Head(todo) = s
  BY DEF TypeOK, EmitRange
<1>2. s \in SegmentType /\ s.lo <= cursor /\ cursor <= s.hi
  BY <1>1 DEF Loop, EmitRange
<1>3. s.coverage \in 1..100 /\ s.hi \in Int
  BY <1>2 DEF SegmentType
<1>4. /\ out' = Append(out, r)
      /\ IF u < s.hi THEN cursor' = u + 1 /\ todo' = todo
         ELSE todo' = Tail(todo) /\ cursor' = IF Len(todo) > 1 THEN todo[2].lo ELSE 0
  BY <1>1 DEF EmitRange, NextMin
<1> HIDE DEF s
<1>5. /\ PartitionSize(s) \in Nat \ {0} /\ u \in Int /\ cursor <= u /\ u <= s.hi
      /\ u < s.hi => u = cursor + PartitionSize(s)
  BY <1>1, <1>2, UpperBounds
<1> HIDE DEF u
<1>6. u - cursor \in Nat
  BY <1>1, <1>5
<1>7. x \in Nat /\ x <= u - cursor /\ (s.coverage = 100 => x = u - cursor)
  BY <1>3, <1>6, ScaleBounds
<1> HIDE DEF x
<1>8. r \in RangeType /\ r.lo = cursor /\ r.hi = cursor + x
  BY <1>1, <1>7 DEF TokenRange, RangeType
<1> HIDE DEF r
<1>9. r.hi <= u /\ (s.coverage = 100 => r.hi = u)
  BY <1>1, <1>5, <1>7, <1>8
<1>10. CASE u < s.hi
  <2>1. Emits(u, r)
    BY <1>4, <1>5, <1>8, <1>9, <1>10 DEF Emits, s
  <2> QED
    BY <1>1, <1>5, <1>8, <2>1
<1>11. CASE ~(u < s.hi)
  <2>1. u = s.hi /\ todo' = Tail(todo) /\ cursor' = IF Len(todo) > 1 THEN todo[2].lo ELSE 0
    BY <1>3, <1>4, <1>5, <1>11
  <2>2. Tail(todo) # <<>> => Len(todo) > 1 /\ Tail(todo)[1] = todo[2]
    BY <1>1
  <2>3. Len(todo) > 1 => todo[2].lo \in Int
    BY <1>1 DEF SegmentType
  <2>4. cursor' \in Int /\ (Tail(todo) # <<>> => cursor' = Tail(todo)[1].lo)
    BY <2>1, <2>2, <2>3
  <2>5. Emits(u, r)
    BY <1>4, <1>5, <1>8, <1>9, <2>1, <2>4 DEF Emits, s
  <2> QED
    BY <1>1, <1>5, <1>8, <2>5
<1> QED
  BY <1>10, <1>11

\* An iteration places what it takes, all of it unless it samples.
LEMMA EmitHandles ==
    ASSUME TypeOK, Loop, EmitRange, NEW t \in Int
    PROVE  /\ Handled(t) \in Int /\ Handled(t)' \in Int /\ Handled(t)' <= Handled(t)
           /\ todo[1].coverage = 100 => Handled(t)' = Handled(t)
<1>1. todo \in Seq(SegmentType) /\ todo # <<>> /\ \E u \in Int, r \in RangeType : Emits(u, r)
  BY EmitEffect
<1>2. PICK u \in Int, r \in RangeType : Emits(u, r)
  BY <1>1
<1> DEFINE s == todo[1]
           rest == TokenRange(cursor, s.hi)
           after == TokenRange(u + 1, s.hi)
           A == Times(out, t)
           B == Times(Tail(todo), t)
<1>3. cursor \in Int /\ out \in Seq(RangeType) /\ s.hi \in Int /\ r.lo \in Int /\ r.hi \in Int /\ Tail(todo) \in Seq(SegmentType)
  <2>1. cursor \in Int /\ out \in Seq(RangeType)
    BY DEF TypeOK
  <2>2. r.lo \in Int /\ r.hi \in Int
    BY DEF RangeType
  <2>3. todo[1] \in SegmentType /\ Tail(todo) \in Seq(SegmentType)
    BY <1>1
  <2>4. s.hi \in Int
    BY <2>3 DEF SegmentType
  <2> QED
    BY <2>1, <2>2, <2>3, <2>4, Zenon
<1>4. A \in Nat /\ B \in Nat
  <2>1. Len(out) \in Nat /\ Len(Tail(todo)) \in Nat
    BY <1>3
  <2> QED
    BY <2>1, TimesNat
<1>5. Hit(r, t) \in 0..1 /\ Hit(rest, t) \in 0..1 /\ Hit(after, t) \in 0..1
  BY DEF Hit
<1>6. Handled(t) = A + (Hit(rest, t) + B)
  BY <1>1, <1>3, RestHead DEF Handled
<1>7. Times(out', t) = A + Hit(r, t)
  <2> DEFINE X == RangeType
             o == out
  <2>1. o \in Seq(X) /\ r \in X /\ out' = Append(o, r)
    BY <1>2, <1>3 DEF Emits
  <2> HIDE DEF X, o
  <2>2. Times(Append(o, r), t) = Times(o, t) + Hit(r, t)
    BY <2>1, TimesAppend
  <2> QED
    BY <2>1, <2>2 DEF o
<1>8. Handled(t)' = Times(out', t) + Times(Rest(todo', cursor'), t)
  BY DEF Handled
<1>9. CASE u < s.hi
  <2>1. cursor' = u + 1 /\ todo' = todo
    BY <1>3, <1>2, <1>9 DEF Emits
  <2>2. Times(Rest(todo', cursor'), t) = Hit(after, t) + B
    <3> DEFINE segs == todo
               c == u + 1
    <3>1. segs \in Seq(SegmentType) /\ segs # <<>> /\ c \in Int
      BY <1>1
    <3> HIDE DEF segs, c
    <3>2. Times(Rest(segs, c), t) = Hit(TokenRange(c, segs[1].hi), t) + Times(Tail(segs), t)
      BY <3>1, RestHead
    <3> QED
      BY <2>1, <3>2 DEF segs, c
  <2>3. Hit(r, t) + Hit(after, t) <= Hit(rest, t) /\ (s.coverage = 100 => Hit(r, t) + Hit(after, t) = Hit(rest, t))
    BY <1>2, <1>3, <1>9 DEF Emits, Hit, InRange, TokenRange
  <2> HIDE DEF A, B, rest, after
  <2> QED
    BY <1>4, <1>5, <1>6, <1>7, <1>8, <2>2, <2>3
<1>10. CASE ~(u < s.hi)
  <2>1. u = s.hi /\ todo' = Tail(todo) /\ (Tail(todo) # <<>> => cursor' = Tail(todo)[1].lo)
    BY <1>2, <1>10 DEF Emits
  <2>2. Times(Rest(todo', cursor'), t) = B
    <3> DEFINE segs == Tail(todo)
               c == cursor'
    <3>1. segs \in Seq(SegmentType) /\ (segs # <<>> => c = segs[1].lo)
      BY <1>3, <2>1
    <3> HIDE DEF segs, c
    <3>2. Times(Rest(segs, c), t) = Times(segs, t)
      BY <3>1, RestWhole
    <3> QED
      BY <2>1, <3>2 DEF segs, c
  <2>3. Hit(r, t) <= Hit(rest, t) /\ (s.coverage = 100 => Hit(r, t) = Hit(rest, t))
    BY <1>2, <1>3, <2>1 DEF Emits, Hit, InRange, TokenRange
  <2> HIDE DEF A, B, rest
  <2> QED
    BY <1>4, <1>5, <1>6, <1>7, <1>8, <2>2, <2>3
<1> QED
  BY <1>9, <1>10

\* An iteration counts as a step of its segment, and the last one as no more than the last of its parts.
LEMMA EmitCounts ==
    ASSUME TypeOK, Settings, Loop, Counts, EmitRange, plan = <<>>
    PROVE  /\ Len(Segments) - Len(todo') >= 0
           /\ \A i \in 1..Len(todo') : todo'[i] = Segments[(Len(Segments) - Len(todo')) + i]
           /\ Len(out') <= PartsTo(Len(Segments) - Len(todo')) + Steps'
<1>1. todo \in Seq(SegmentType) /\ todo # <<>> /\ \E u \in Int, r \in RangeType : Emits(u, r)
  BY EmitEffect
<1>2. PICK u \in Int, r \in RangeType : Emits(u, r)
  BY <1>1
<1> DEFINE s == todo[1]
           n == Len(Segments)
           m == Len(todo)
           k == n - m
           d == PartitionSize(s) + 1
           x == cursor - s.lo
           q == x \div d
<1>3. pc = "split" /\ PlanIsUsable
  BY DEF EmitRange, Settings
<1>4. SegmentsAreSound
  BY <1>3, SegmentsSound
<1>5. Segments \in Seq(SegmentType) /\ n \in Nat /\ m \in Nat \ {0}
  BY <1>1, <1>4 DEF SegmentsAreSound
<1>6. k >= 0 /\ (\A i \in 1..m : todo[i] = Segments[k + i]) /\ Len(out) <= PartsTo(k) + Steps
  BY <1>3 DEF Counts
<1>7. s \in SegmentType /\ s.lo \in Int /\ s.hi \in Int /\ s.parts \in Nat \ {0} /\ cursor \in Int /\ s.lo <= cursor /\ cursor <= s.hi
  BY <1>1, <1>3 DEF TypeOK, Loop, SegmentType
<1>8. Len(out) \in Nat /\ Len(out') = Len(out) + 1
  BY <1>2 DEF Emits, TypeOK
<1>9. Steps = q
  BY <1>1 DEF Steps
<1>10. PartitionSize(s) \in Nat \ {0} /\ x \in Nat /\ x <= s.hi - s.lo
  BY <1>7, UpperBounds
<1>11. q \in Nat /\ q < s.parts
  BY <1>7, <1>10, PartsSuffice
<1>12. k \in 0..(n - 1)
  BY <1>5, <1>6
<1>13. PartsTo(k + 1) = PartsTo(k) + Segments[k + 1].parts /\ PartsTo(k) \in Int
  BY <1>5, <1>12, PartsSteps
<1>14. Segments[k + 1] = s
  BY <1>5, <1>6
<1>15. CASE u < s.hi
  <2>0. todo' = todo /\ cursor' = u + 1 /\ u = cursor + PartitionSize(s)
    BY <1>2, <1>7, <1>15 DEF Emits
  <2>1. todo' = todo /\ cursor' = cursor + d
    <3> HIDE DEF s
    <3> QED
      BY <1>7, <1>10, <2>0
  <2>2. Steps' = (cursor' - s.lo) \div d
    BY <1>1, <2>1 DEF Steps, PartitionSize
  <2>3. cursor' - s.lo = x + d /\ d \in Nat \ {0}
    <3>1. d \in Nat \ {0}
      BY <1>10
    <3> HIDE DEF s, d
    <3> QED
      BY <1>7, <2>1, <3>1
  <2> HIDE DEF d, x
  <2>4. (x + d) \div d = q + 1
    BY <1>10, <2>3, DivStep
  <2>5. Steps' = q + 1
    BY <2>2, <2>3, <2>4
  <2> HIDE DEF q
  <2>6. Len(out') <= PartsTo(k) + Steps'
    BY <1>6, <1>8, <1>9, <1>11, <1>13, <2>5
  <2> QED
    BY <1>6, <2>1, <2>6
<1>16. CASE ~(u < s.hi)
  <2>1. todo' = Tail(todo) /\ (Tail(todo) # <<>> => cursor' = Tail(todo)[1].lo)
    BY <1>2, <1>16 DEF Emits
  <2>2. Len(todo') = m - 1 /\ (\A i \in 1..(m - 1) : todo'[i] = todo[i + 1])
    BY <1>1, <2>1
  <2>3. n - Len(todo') = k + 1
    BY <1>5, <2>2
  <2>4. \A i \in 1..(m - 1) : todo'[i] = Segments[(k + 1) + i]
    <3> SUFFICES ASSUME NEW i \in 1..(m - 1) PROVE todo'[i] = Segments[(k + 1) + i]
      OBVIOUS
    <3>1. i + 1 \in 1..m /\ k + (i + 1) = (k + 1) + i
      BY <1>5
    <3> QED
      BY <1>6, <2>2, <3>1
  <2>5. Steps' = 0
    <3>1. CASE todo' = <<>>
      BY <3>1 DEF Steps
    <3>2. CASE todo' # <<>>
      <4>1. cursor' = todo'[1].lo /\ todo'[1] \in SegmentType
        BY <1>1, <2>1, <3>2
      <4> DEFINE z == todo'[1]
      <4>2. Steps' = (cursor' - z.lo) \div (PartitionSize(z) + 1)
        BY <3>2 DEF Steps, PartitionSize
      <4>3. z \in SegmentType /\ z.lo \in Int /\ z.hi \in Int /\ z.parts \in Nat \ {0} /\ z.hi - z.lo \in Nat /\ cursor' - z.lo = 0
        BY <4>1 DEF SegmentType
      <4> HIDE DEF z
      <4>4. PartitionSize(z) \in Nat
        BY <4>3, DivBounds, SettingsAssumption DEF PartitionSize
      <4>5. 0 \div (PartitionSize(z) + 1) = 0
        BY <4>4, DivStep
      <4> QED
        BY <4>2, <4>3, <4>5
    <3> QED
      BY <3>1, <3>2
  <2> HIDE DEF q
  <2>6. Len(out') <= PartsTo(k + 1) + Steps'
    BY <1>6, <1>7, <1>8, <1>9, <1>11, <1>13, <1>14, <2>5
  <2> QED
    BY <1>5, <1>6, <2>2, <2>3, <2>4, <2>6
<1> QED
  BY <1>15, <1>16

-----------------------------------------------------------------------------
(* Every step preserves the invariant.                                      *)

LEMMA EmitStep ==
    ASSUME PlannerInv, EmitRange
    PROVE  PlannerInv'
<1>1. TypeOK /\ Settings /\ Loop /\ Splits /\ Conserves /\ Counts /\ Owners
  BY DEF PlannerInv
<1>2. pc = "split" /\ UNCHANGED <<pc, conf, plan, done, hist>>
  BY DEF EmitRange
<1>3. todo \in Seq(SegmentType) /\ todo # <<>> /\ \E u \in Int, r \in RangeType : Emits(u, r)
  BY <1>1, EmitEffect
<1>4. PICK u \in Int, r \in RangeType : Emits(u, r)
  BY <1>3
<1>5. cursor \in Int /\ todo[1].lo <= cursor /\ cursor <= todo[1].hi /\ todo[1].hi \in Int /\ todo[1].lo \in Int
  BY <1>1, <1>2, <1>3 DEF TypeOK, Loop, SegmentType
<1>6. \/ todo' = todo /\ cursor' = u + 1 /\ u < todo[1].hi
      \/ todo' = Tail(todo) /\ cursor' \in Int /\ (Tail(todo) # <<>> => cursor' = Tail(todo)[1].lo)
  BY <1>4 DEF Emits
<1>7. Tail(todo) \in Seq(SegmentType) /\ Len(Tail(todo)) = Len(todo) - 1 /\ \A i \in 1..Len(Tail(todo)) : Tail(todo)[i] = todo[i + 1] /\ i + 1 \in 1..Len(todo)
  BY <1>3
<1>8. out \in Seq(RangeType) /\ out' = Append(out, r) /\ out' \in Seq(RangeType)
  BY <1>1, <1>4 DEF TypeOK, Emits
<1>9. TypeOK'
  <2>1. u + 1 \in Int
    OBVIOUS
  <2>2. todo' \in Seq(SegmentType) /\ cursor' \in Int
    BY <1>3, <1>6, <1>7, <2>1, Zenon
  <2> QED
    BY <1>1, <1>2, <1>8, <2>2 DEF TypeOK
<1>10. Settings'
  BY <1>1, <1>2, SameSettings DEF Settings
<1>11. Loop'
  <2>1. todo' # <<>> => todo'[1].lo <= cursor' /\ cursor' <= todo'[1].hi
    <3>1. CASE todo' = todo /\ cursor' = u + 1 /\ u < todo[1].hi
      BY <1>4, <1>5, <3>1 DEF Emits
    <3>2. CASE todo' = Tail(todo) /\ (Tail(todo) # <<>> => cursor' = Tail(todo)[1].lo)
      <4> SUFFICES ASSUME Tail(todo) # <<>>
                   PROVE  todo'[1].lo <= cursor' /\ cursor' <= todo'[1].hi
        BY <3>2
      <4>1. Tail(todo)[1] \in SegmentType
        BY <1>7
      <4>2. Tail(todo)[1].lo <= Tail(todo)[1].hi /\ Tail(todo)[1].lo \in Int
        BY <4>1 DEF SegmentType
      <4> QED
        BY <3>2, <4>2
    <3> QED
      BY <1>6, <3>1, <3>2
  <2>2. \A i \in 1..Len(todo') : todo'[i].coverage = IF plan' = <<>> THEN EffectiveCoverage(conf'.coverage) ELSE 100
    <3>1. \A i \in 1..Len(todo) : todo[i].coverage = IF plan = <<>> THEN EffectiveCoverage(conf.coverage) ELSE 100
      BY <1>1, <1>2 DEF Loop
    <3>2. \A i \in 1..Len(todo') : \E j \in 1..Len(todo) : todo'[i] = todo[j]
      BY <1>6, <1>7
    <3> QED
      BY <1>2, <3>1, <3>2
  <2> QED
    BY <2>1, <2>2 DEF Loop
<1>12. Splits'
  <2> SUFFICES ASSUME NEW t \in Int
               PROVE  /\ plan' = <<>> => /\ Handled(t)' <= Want(t)'
                                         /\ FullCoverage' => Handled(t)' = Want(t)'
                      /\ plan' # <<>> => Handled(t)' = Pending(t)'
    BY DEF Splits
  <2>1. /\ Handled(t) \in Int /\ Handled(t)' \in Int /\ Handled(t)' <= Handled(t)
        /\ todo[1].coverage = 100 => Handled(t)' = Handled(t)
    BY <1>1, EmitHandles
  <2>2. Pending(t)' = Pending(t) /\ Want(t)' = Want(t) /\ Want(t) \in Int
    BY <1>2, SameSettings DEF Pending, Want
  <2>3. /\ plan = <<>> => /\ Handled(t) <= Want(t)
                          /\ FullCoverage => Handled(t) = Want(t)
        /\ plan # <<>> => Handled(t) = Pending(t)
    BY <1>1, <1>2 DEF Splits
  <2>4. todo[1].coverage = IF plan = <<>> THEN EffectiveCoverage(conf.coverage) ELSE 100
    <3>1. 1 \in 1..Len(todo)
      BY <1>3
    <3> QED
      BY <1>1, <1>2, <3>1 DEF Loop
  <2>5. CASE plan = <<>>
    <3>1. FullCoverage' => FullCoverage /\ todo[1].coverage = 100
      BY <1>2, <2>4, <2>5 DEF FullCoverage
    <3> QED
      BY <1>2, <2>1, <2>2, <2>3, <2>5, <3>1
  <2>6. CASE plan # <<>>
    BY <1>2, <2>1, <2>2, <2>3, <2>4, <2>6
  <2> QED
    BY <2>5, <2>6
<1>13. Conserves' /\ FirstIsWhole' /\ Refusals'
  <2>1. Conserves'
    BY <1>1, <1>2, SameConserves
  <2> QED
    BY <1>2, <2>1, SameSettings DEF PlannerInv, FirstIsWhole, Refusals
<1>14. Counts'
  <2>1. ASSUME plan = <<>>
        PROVE  /\ Len(Segments) - Len(todo') >= 0
               /\ \A i \in 1..Len(todo') : todo'[i] = Segments[(Len(Segments) - Len(todo')) + i]
               /\ Len(out') <= PartsTo(Len(Segments) - Len(todo')) + Steps'
    BY <1>1, <2>1, EmitCounts
  <2>2. Segments' = Segments /\ \A k : PartsTo(k)' = PartsTo(k)
    BY <1>2, SameSettings
  <2> QED
    BY <1>2, <2>1, <2>2 DEF Counts, PartsTo
<1>15. Owners'
  <2> SUFFICES ASSUME conf.strategy = "ring_aware"
               PROVE  /\ \A i \in 1..Len(todo') : OneOwner(todo'[i])
                      /\ \A i \in 1..Len(out') : OneOwner(out'[i])
                      /\ \A i \in 1..Len(plan) : OneOwner(plan[i])
    BY <1>2 DEF Owners, OneOwner
  <2>1. /\ \A i \in 1..Len(todo) : OneOwner(todo[i])
        /\ \A i \in 1..Len(out) : OneOwner(out[i])
        /\ \A i \in 1..Len(plan) : OneOwner(plan[i])
    BY <1>1 DEF Owners
  <2>2. \A i \in 1..Len(todo') : \E j \in 1..Len(todo) : todo'[i] = todo[j]
    BY <1>6, <1>7
  <2>3. OneOwner(r)
    <3>1. OneOwner(todo[1])
      BY <1>3, <2>1
    <3>2. r.lo = cursor /\ r.hi <= u /\ u <= todo[1].hi /\ r.hi \in Int
      BY <1>4 DEF Emits, RangeType
    <3>3. \A t \in conf.nodes : t \in Int
      BY <1>1, <1>2, SettingsTypes DEF Settings
    <3> QED
      BY <1>5, <3>1, <3>2, <3>3 DEF OneOwner, InRange
  <2>4. \A i \in 1..Len(out') : out'[i] = r \/ \E j \in 1..Len(out) : out'[i] = out[j]
    BY <1>8
  <2> QED
    BY <2>1, <2>2, <2>3, <2>4
<1> QED
  BY <1>9, <1>10, <1>11, <1>12, <1>13, <1>14, <1>15 DEF PlannerInv

\* What is pending is in the plan.
LEMMA PendingBound ==
    ASSUME plan \in Seq(RangeType), NEW t
    PROVE  /\ Pending(t) \in Nat /\ Times(plan, t) \in Nat /\ Pending(t) <= Times(plan, t)
           /\ done = {} => Pending(t) = Times(plan, t)
<1> DEFINE H == HoldingTo(plan, Len(plan), t)
           P == {i \in (1..Len(plan)) \ done : InRange(plan[i], t)}
<1>1. Len(plan) \in Nat
  OBVIOUS
<1>2. IsFiniteSet(H) /\ Times(plan, t) = Cardinality(H) /\ Times(plan, t) \in Nat
  BY <1>1, HoldingFinite, TimesNat
<1>3. Pending(t) = Cardinality(P) /\ P \subseteq H /\ (done = {} => P = H)
  BY DEF Pending, HoldingTo
<1> HIDE DEF P, H
<1>4. IsFiniteSet(P) /\ Cardinality(P) <= Cardinality(H)
  BY <1>2, <1>3, FS_Subset
<1>5. Cardinality(P) \in Nat
  BY <1>4, FS_CardinalityType
<1> QED
  BY <1>2, <1>3, <1>4, <1>5

\* A finished split has emitted what it was given.
LEMMA SplitDone ==
    ASSUME TypeOK, todo = <<>>, NEW t
    PROVE  Handled(t) = Times(out, t) /\ Times(out, t) \in Nat
<1>1. Rest(todo, cursor) = <<>>
  BY DEF Rest
<1>2. Times(Rest(todo, cursor), t) = 0
  BY <1>1, TimesEmpty
<1>3. Len(out) \in Nat
  BY DEF TypeOK
<1>4. Times(out, t) \in Nat
  BY <1>3, TimesNat
<1> QED
  BY <1>2, <1>4 DEF Handled

\* No resumed plan overlaps.
LEMMA ResumedOnce ==
    ASSUME PlannerInv, pc = "split", todo = <<>>, plan # <<>>
    PROVE  /\ \A t \in Int : Times(out, t) = Pending(t) /\ Times(out, t) <= Want(t) /\ Times(out, t) <= 1
           /\ ~Overlapping(out)
<1>1. TypeOK /\ Settings /\ Splits /\ Conserves /\ plan \in Seq(RangeType) /\ out \in Seq(RangeType)
  BY DEF PlannerInv, TypeOK
<1>0. hist.resumes > 0
  <2>1. hist.resumes \in Nat /\ hist.resumes # 0
    BY <1>1 DEF Settings, TypeOK
  <2> QED
    BY <2>1
<1>2. ASSUME NEW t \in Int PROVE Times(out, t) = Pending(t) /\ Times(out, t) <= Want(t) /\ Times(out, t) <= 1
  <2>1. Handled(t) = Times(out, t) /\ Handled(t) = Pending(t)
    BY <1>1, SplitDone DEF Splits
  <2>2. Pending(t) \in Nat /\ Times(plan, t) \in Nat /\ Pending(t) <= Times(plan, t)
    BY <1>1, PendingBound
  <2>3. Times(plan, t) <= Want(t) /\ Want(t) \in Nat /\ Times(plan, t) <= 1
    BY <1>0, <1>1 DEF Conserves, Want
  <2> QED
    BY <2>1, <2>2, <2>3
<1>3. ASSUME NEW t \in Int PROVE Times(out, t) <= 1
  BY <1>2
<1> DEFINE o == out
<1>4. o \in Seq(RangeType) /\ \A t \in Int : Times(o, t) <= 1
  BY <1>1, <1>3
<1> HIDE DEF o
<1>5. ~Overlapping(o)
  BY <1>4, OnceIsDisjoint
<1> QED
  BY <1>2, <1>5 DEF o

LEMMA RefuseStep ==
    ASSUME PlannerInv, RefusePlan \/ RefuseTracking \/ RefuseSubdivision \/ RefuseResume
    PROVE  PlannerInv'
<1>1. TypeOK /\ Settings /\ Conserves /\ Owners
  BY DEF PlannerInv
<1>2. pc' = "refused" /\ UNCHANGED <<conf, todo, cursor, out, plan, done, hist>>
  BY DEF RefusePlan, RefuseTracking, RefuseSubdivision, RefuseResume, Refuse
<1>3. TypeOK'
  BY <1>1, <1>2 DEF TypeOK
<1>4. Settings' /\ Loop' /\ Splits' /\ FirstIsWhole' /\ Counts'
  BY <1>2 DEF Settings, Loop, Splits, FirstIsWhole, Counts
<1>5. Conserves'
  BY <1>1, <1>2, SameConserves
<1>6. Owners'
  BY <1>1, <1>2 DEF Owners, OneOwner
<1>7. Refusals'
  <2>1. CASE RefusePlan
    <3>1. plan = <<>>
      BY <1>1, <2>1 DEF RefusePlan, Settings
    <3> QED
      BY <1>2, <3>1 DEF Refusals
  <2>2. CASE RefuseResume
    <3>1. pc = "split" /\ todo = <<>> /\ plan # <<>> /\ (TooMany \/ Overlapping(out))
      BY <2>2 DEF RefuseResume
    <3>2. TooMany
      BY <3>1, ResumedOnce
    <3> QED
      BY <1>2, <3>2 DEF Refusals, TooMany
  <2>3. CASE RefuseTracking
    <3>1. ~Trackable /\ (Trackable' <=> Trackable)
      BY <1>2, <2>3 DEF RefuseTracking, Trackable
    <3> QED
      BY <3>1 DEF Refusals
  <2>4. CASE RefuseSubdivision
    <3>1. ~Subdividable /\ conf.multiplier \in Nat \ {0}
      BY <1>1, <2>4, SettingsAssumption DEF RefuseSubdivision, TypeOK
    <3>2. conf.multiplier > MaxRanges
      BY <3>1, SettingsAssumption DEF Subdividable, Splittable
    <3> QED
      BY <1>2, <3>2 DEF Refusals
  <2> QED
    BY <2>1, <2>2, <2>3, <2>4
<1> QED
  BY <1>3, <1>4, <1>5, <1>6, <1>7 DEF PlannerInv

LEMMA FinishResumeStep ==
    ASSUME PlannerInv, FinishResume
    PROVE  PlannerInv'
<1>1. TypeOK /\ Settings /\ Conserves /\ Owners
  BY DEF PlannerInv
<1>2. /\ pc = "split" /\ todo = <<>> /\ plan # <<>>
      /\ pc' = "run" /\ plan' = out /\ done' = {} /\ UNCHANGED <<conf, todo, cursor, out, hist>>
  BY DEF FinishResume
<1>3. hist.resumes # 0 /\ PlanIsUsable
  BY <1>1, <1>2 DEF Settings
<1>4. \A t \in Int : Times(out, t) = Pending(t) /\ Times(out, t) <= Want(t) /\ Times(out, t) <= 1
  BY <1>2, ResumedOnce
<1>5. TypeOK'
  BY <1>1, <1>2 DEF TypeOK
<1>6. Settings'
  BY <1>2, <1>3, SameSettings DEF Settings
<1>7. Loop' /\ Splits' /\ FirstIsWhole' /\ Counts' /\ Refusals'
  BY <1>2, <1>3 DEF Loop, Splits, FirstIsWhole, Counts, Refusals
<1>8. Conserves'
  <2>1. \A t \in Int : Times(plan', t) <= Want(t)' /\ Times(plan', t) <= 1
    BY <1>2, <1>4, SameSettings
  <2>0. hist.resumes > 0
    BY <1>1, <1>3 DEF TypeOK
  <2>2. ASSUME NEW t \in hist.first PROVE hist.processed[t] + Pending(t)' = 1
    <3>1. t \in Int
      BY <1>1 DEF TypeOK
    <3>2. Pending(t)' = Times(out, t)
      BY <1>2 DEF Pending, Times
    <3>3. hist.processed[t] + Pending(t) = 1
      BY <1>1, <2>0 DEF Conserves
    <3> QED
      BY <1>4, <3>1, <3>2, <3>3
  <2> QED
    BY <1>2, <1>3, <2>1, <2>2 DEF Conserves
<1>9. Owners'
  BY <1>1, <1>2 DEF Owners, OneOwner
<1> QED
  BY <1>5, <1>6, <1>7, <1>8, <1>9 DEF PlannerInv

LEMMA RunStep ==
    ASSUME PlannerInv, RunRanges
    PROVE  PlannerInv'
<1>1. TypeOK /\ Settings /\ Conserves /\ Owners
  BY DEF PlannerInv
<1>2. /\ pc = "run" /\ pc' = "stopped" /\ UNCHANGED <<conf, todo, cursor, out, plan>>
      /\ done' \in SUBSET (1..Len(plan))
      /\ hist' = [hist EXCEPT !.processed = [t \in DOMAIN hist.processed |->
                    hist.processed[t] + Cardinality({i \in done' : InRange(plan[i], t)})]]
  BY DEF RunRanges
<1>3. PlanIsUsable /\ todo = <<>> /\ done = {}
  BY <1>1, <1>2 DEF Settings
<1>4. plan \in Seq(RangeType) /\ Len(plan) \in Nat
  BY <1>1 DEF TypeOK
<1> DEFINE D == DOMAIN hist.processed
           C(t) == {i \in done' : InRange(plan[i], t)}
<1>5. ASSUME NEW t
      PROVE  /\ Cardinality(C(t)) \in Nat /\ Pending(t)' \in Nat
             /\ Pending(t) = Cardinality(C(t)) + Pending(t)'
  <2> DEFINE Q == {i \in (1..Len(plan)) \ done' : InRange(plan[i], t)}
             H == HoldingTo(plan, Len(plan), t)
  <2>1. Pending(t)' = Cardinality(Q) /\ Pending(t) = Cardinality(H)
    BY <1>2, <1>3 DEF Pending, HoldingTo
  <2>2. C(t) \in SUBSET H /\ Q \in SUBSET H /\ H = C(t) \cup Q /\ C(t) \cap Q = {}
    BY <1>2 DEF HoldingTo
  <2>3. IsFiniteSet(H)
    BY <1>4, HoldingFinite
  <2> HIDE DEF C, Q, H
  <2>4. IsFiniteSet(C(t)) /\ IsFiniteSet(Q)
    BY <2>2, <2>3, FS_Subset
  <2>5. Cardinality(C(t)) \in Nat /\ Cardinality(Q) \in Nat
    BY <2>4, FS_CardinalityType
  <2>6. Cardinality(H) = Cardinality(C(t)) + Cardinality(Q) - Cardinality({})
    BY <2>2, <2>4, FS_Union
  <2> QED
    BY <2>1, <2>5, <2>6, FS_EmptySet
<1>6. /\ hist'.first = hist.first /\ hist'.resumes = hist.resumes
      /\ hist'.processed = [t \in D |-> hist.processed[t] + Cardinality(C(t))]
      /\ hist' \in [processed: {hist'.processed}, first: {hist'.first}, resumes: {hist'.resumes}]
  BY <1>1, <1>2 DEF TypeOK
<1> HIDE DEF C
<1>7. TypeOK'
  <2>1. hist.processed \in [D -> Nat] /\ D \subseteq Int /\ hist.first \subseteq D /\ hist.first \subseteq Int /\ hist.resumes \in 0..MaxResumes
    BY <1>1 DEF TypeOK
  <2>2. DOMAIN hist'.processed = D /\ hist'.processed \in [D -> Nat]
    BY <1>5, <1>6, <2>1
  <2>3. hist' \in [processed: [D -> Nat], first: SUBSET Int, resumes: 0..MaxResumes]
    BY <1>6, <2>1, <2>2
  <2> HIDE DEF D
  <2>4. hist'.first \subseteq DOMAIN hist'.processed /\ DOMAIN hist'.processed \subseteq Int
    BY <1>6, <2>1, <2>2
  <2> QED
    BY <1>1, <1>2, <2>2, <2>3, <2>4 DEF TypeOK
<1>8. Settings'
  BY <1>2, <1>3, SameSettings DEF Settings
<1>9. Loop' /\ Splits' /\ FirstIsWhole' /\ Counts' /\ Refusals'
  BY <1>2 DEF Loop, Splits, FirstIsWhole, Counts, Refusals
<1>10. Conserves'
  <2>1. ASSUME NEW t \in hist.first, hist.resumes > 0 \/ ~TwicePlanned(t)
        PROVE  hist'.processed[t] + Pending(t)' = 1
    <3>1. t \in D /\ hist.processed[t] \in Nat /\ hist.processed[t] + Pending(t) = 1
      BY <1>1, <2>1 DEF TypeOK, Conserves
    <3>2. hist'.processed[t] = hist.processed[t] + Cardinality(C(t))
      BY <1>6, <3>1
    <3> QED
      BY <1>5, <3>1, <3>2
  <2>2. \A t : (TwicePlanned(t)' <=> TwicePlanned(t)) /\ Want(t)' = Want(t)
    BY <1>2, SameSettings
  <2>3. Covered(plan)' = Covered(plan)
    BY <1>2 DEF Covered
  <2> QED
    BY <1>1, <1>2, <1>6, <2>1, <2>2, <2>3 DEF Conserves
<1>11. Owners'
  BY <1>1, <1>2 DEF Owners, OneOwner
<1> QED
  BY <1>7, <1>8, <1>9, <1>10, <1>11 DEF PlannerInv

LEMMA StartPlanStep ==
    ASSUME PlannerInv, StartPlan
    PROVE  PlannerInv'
<1>1. TypeOK /\ Settings /\ Conserves /\ Owners
  BY DEF PlannerInv
<1>2. /\ pc = "start" /\ PlanIsUsable /\ UNCHANGED <<conf, plan, done, hist>>
      /\ pc' = "split" /\ todo' = Segments /\ cursor' = Head(Segments).lo /\ out' = <<>>
  BY DEF StartPlan, StartSplitting
<1>3. plan = <<>> /\ hist.resumes = 0
  BY <1>1, <1>2 DEF Settings
<1>4. SegmentsAreSound
  BY <1>1, <1>2, SegmentsSound
<1> DEFINE S == Segments
<1>5. /\ S \in Seq(SegmentType) /\ S # <<>> /\ Len(S) \in Nat \ {0} /\ Head(S) = S[1] /\ S[1] \in SegmentType
      /\ \A i \in 1..Len(S) : S[i].coverage = EffectiveCoverage(conf.coverage)
  BY <1>4 DEF SegmentsAreSound
<1>6. S[1].lo \in Int /\ S[1].hi \in Int /\ S[1].lo <= S[1].hi /\ cursor' = S[1].lo /\ todo' = S
  BY <1>2, <1>5 DEF SegmentType
<1>7. \A t \in Int : Times(S, t) = Want(t)
  BY <1>4 DEF SegmentsAreSound
<1>8. conf.strategy = "ring_aware" => \A i \in 1..Len(S) : OneOwner(S[i])
  BY <1>4 DEF SegmentsAreSound
<1>9. Segments' = S /\ (PlanIsUsable' <=> PlanIsUsable) /\ \A k : PartsTo(k)' = PartsTo(k)
  BY <1>2, SameSettings
<1>10. PartsTo(0) = 0
  BY <1>5, PartsSteps
<1> HIDE DEF S
<1>11. TypeOK'
  BY <1>1, <1>2, <1>5, <1>6 DEF TypeOK
<1>12. Settings'
  BY <1>2, <1>3, <1>9 DEF Settings
<1>13. Loop'
  BY <1>2, <1>3, <1>5, <1>6 DEF Loop
<1>14. Splits'
  <2>1. ASSUME NEW t \in Int PROVE Handled(t)' = Want(t)
    <3> DEFINE c == S[1].lo
    <3>1. Handled(t)' = Times(<<>>, t) + Times(Rest(S, c), t)
      BY <1>2, <1>6 DEF Handled
    <3>2. S # <<>> => c = S[1].lo
      OBVIOUS
    <3> HIDE DEF c
    <3>3. Times(Rest(S, c), t) = Times(S, t)
      BY <1>5, <3>2, RestWhole
    <3>4. Times(<<>>, t) = 0 /\ Want(t) \in Nat
      BY TimesEmpty DEF Want
    <3> QED
      BY <1>7, <3>1, <3>3, <3>4
  <2>2. \A t \in Int : Want(t)' = Want(t) /\ Want(t) \in Nat
    BY <1>2, SameSettings DEF Want
  <2> QED
    BY <1>2, <1>3, <2>1, <2>2 DEF Splits
<1>15. Conserves' /\ FirstIsWhole' /\ Refusals'
  <2>1. Conserves'
    BY <1>1, <1>2, SameConserves
  <2> QED
    BY <1>2, <2>1 DEF FirstIsWhole, Refusals
<1>16. Counts'
  <2>1. Steps' = 0
    <3> DEFINE z == S[1]
    <3>1. Steps' = (cursor' - z.lo) \div (PartitionSize(z) + 1)
      BY <1>5, <1>6 DEF Steps, PartitionSize
    <3>2. z \in SegmentType /\ z.lo \in Int /\ z.hi \in Int /\ z.parts \in Nat \ {0} /\ z.hi - z.lo \in Nat /\ cursor' - z.lo = 0
      BY <1>5, <1>6 DEF SegmentType
    <3> HIDE DEF z
    <3>3. PartitionSize(z) \in Nat
      BY <3>2, DivBounds, SettingsAssumption DEF PartitionSize
    <3>4. 0 \div (PartitionSize(z) + 1) = 0
      BY <3>3, DivStep
    <3> QED
      BY <3>1, <3>2, <3>4
  <2>2. Len(Segments') - Len(todo') = 0 /\ \A i \in 1..Len(todo') : 0 + i = i
    BY <1>5, <1>6, <1>9
  <2>3. Len(out') <= Total([i \in 1..0 |-> Segments'[i].parts]) + Steps'
    <3>1. Total([i \in 1..0 |-> Segments'[i].parts]) = 0
      BY <1>9, <1>10 DEF PartsTo, S
    <3>2. Len(out') = 0
      BY <1>2
    <3> QED
      BY <2>1, <3>1, <3>2
  <2>4. pc' # "run"
    BY <1>2
  <2> QED
    BY <1>6, <1>9, <2>2, <2>3, <2>4 DEF Counts, PartsTo
<1>17. Owners'
  <2>1. out' = <<>> /\ plan' = <<>>
    BY <1>2, <1>3
  <2> QED
    BY <1>2, <1>6, <1>8, <2>1 DEF Owners, OneOwner
<1> QED
  BY <1>11, <1>12, <1>13, <1>14, <1>15, <1>16, <1>17 DEF PlannerInv

LEMMA FinishPlanStep ==
    ASSUME PlannerInv, FinishPlan
    PROVE  PlannerInv'
<1>1. TypeOK /\ Settings /\ Splits /\ Counts /\ Owners
  BY DEF PlannerInv
<1>2. /\ pc = "split" /\ todo = <<>> /\ plan = <<>> /\ pc' = "run" /\ plan' = NewPlan
      /\ hist' = [hist EXCEPT !.first = Covered(NewPlan), !.processed = [t \in Tokens(conf.bounds) |-> 0]]
      /\ UNCHANGED <<conf, todo, cursor, out, done>>
  BY DEF FinishPlan
<1>3. hist.resumes = 0 /\ PlanIsUsable /\ done = {}
  BY <1>1, <1>2 DEF Settings, TypeOK
<1> DEFINE N == NewPlan
           b == conf.bounds
<1>4. N \in Seq(RangeType) /\ \A t \in Int : Times(N, t) = Times(out, t)
  BY <1>1, DividedCovers DEF NewPlan, TypeOK
<1>5. conf.strategy # "adaptive" => N = out
  BY DEF NewPlan
<1>6. plan' = N /\ hist'.first = Covered(N) /\ hist'.processed = [t \in Tokens(b) |-> 0] /\ hist'.resumes = hist.resumes
  BY <1>1, <1>2 DEF TypeOK
<1>7. hist' \in [processed: {hist'.processed}, first: {hist'.first}, resumes: {hist'.resumes}]
  BY <1>1, <1>2 DEF TypeOK
<1> HIDE DEF N
<1>8. b.lo \in Int /\ b.hi \in Int
  BY <1>1, <1>3, SettingsTypes
<1>9. ASSUME NEW t \in Int
      PROVE  /\ Times(N, t) \in Nat /\ Times(N, t) <= Want(t) /\ Want(t) \in 0..2
             /\ FullCoverage => Times(N, t) = Want(t)
  <2>1. Handled(t) = Times(out, t) /\ Times(out, t) \in Nat
    BY <1>1, <1>2, SplitDone
  <2>2. Handled(t) <= Want(t) /\ (FullCoverage => Handled(t) = Want(t))
    BY <1>1, <1>2 DEF Splits
  <2>3. Want(t) \in 0..2
    BY DEF Want
  <2> QED
    BY <1>4, <2>1, <2>2, <2>3
<1>10. ASSUME NEW t \in Covered(N)
       PROVE  t \in Int /\ t \in Tokens(b) /\ (~TwicePlanned(t) => Times(N, t) = 1)
  <2>1. PICK i \in 1..Len(N) : t \in Tokens(N[i])
    BY DEF Covered
  <2>2. t \in Int /\ InRange(N[i], t)
    BY <1>4, <2>1 DEF Tokens, InRange, RangeType
  <2> DEFINE X == RangeType
  <2>3. N \in Seq(X)
    BY <1>4
  <2> HIDE DEF X
  <2>4. Times(N, t) >= 1
    BY <2>2, <2>3, TimesOne
  <2>5. Want(t) # 0 /\ (Want(t) = 1 => Times(N, t) = 1)
    <3>1. Times(N, t) \in Nat /\ Times(N, t) <= Want(t) /\ Want(t) \in 0..2
      BY <1>9, <2>2
    <3> QED
      BY <2>4, <3>1
  <2>6. InRange(b, t) /\ (~TwicePlanned(t) => Want(t) = 1)
    BY <2>5 DEF Want
  <2> QED
    BY <1>8, <2>2, <2>5, <2>6 DEF InRange, Tokens
<1>11. TypeOK'
  <2>1. DOMAIN hist'.processed = Tokens(b) /\ Tokens(b) \subseteq Int /\ hist'.processed \in [Tokens(b) -> Nat]
    BY <1>6, <1>8 DEF Tokens
  <2>2. hist'.first \subseteq Tokens(b) /\ hist'.first \subseteq Int
    BY <1>6, <1>10
  <2>3. hist'.resumes \in 0..MaxResumes
    BY <1>1, <1>6 DEF TypeOK
  <2>4. hist' \in [processed: [Tokens(b) -> Nat], first: SUBSET Int, resumes: 0..MaxResumes]
    BY <1>7, <2>1, <2>2, <2>3
  <2>5. done' \subseteq 1..Len(plan')
    BY <1>2, <1>3
  <2> QED
    BY <1>1, <1>2, <1>4, <1>6, <2>1, <2>2, <2>4, <2>5 DEF TypeOK
<1>12. Settings'
  BY <1>2, <1>3, SameSettings DEF Settings
<1>13. Loop' /\ Splits' /\ Refusals'
  BY <1>2 DEF Loop, Splits, Refusals
<1>14. Conserves'
  <2>1. \A t \in Int : Times(plan', t) <= Want(t)'
    BY <1>2, <1>6, <1>9, SameSettings
  <2>2. ASSUME NEW t \in Covered(N), ~TwicePlanned(t) PROVE hist'.processed[t] + Pending(t)' = 1
    <3>1. hist'.processed[t] = 0
      BY <1>6, <1>10
    <3>2. Pending(t)' = Times(N, t)
      BY <1>2, <1>3, <1>6 DEF Pending, Times
    <3> QED
      BY <1>10, <2>2, <3>1, <3>2
  <2>3. \A t : TwicePlanned(t)' <=> TwicePlanned(t)
    BY <1>2, SameSettings
  <2>4. ~(hist'.resumes > 0) /\ hist'.first \subseteq Covered(plan')
    BY <1>3, <1>6
  <2> QED
    BY <1>6, <2>1, <2>2, <2>3, <2>4 DEF Conserves
<1>15. FirstIsWhole'
  <2>1. (FullCoverage' <=> FullCoverage) /\ \A t : Want(t)' = Want(t)
    BY <1>2, SameSettings
  <2> QED
    BY <1>2, <1>6, <1>9, <2>1 DEF FirstIsWhole
<1>16. Counts'
  <2>1. SegmentsAreSound
    BY <1>1, <1>3, SegmentsSound
  <2>2. Len(Segments) \in Nat /\ Len(Segments) - Len(todo) = Len(Segments) /\ Steps = 0
    BY <1>2, <2>1 DEF SegmentsAreSound, Steps
  <2>3. Len(out) <= PartsTo(Len(Segments)) + 0
    BY <1>1, <1>2, <2>2 DEF Counts
  <2>4. Len(out) \in Nat /\ Max({conf.parts, 1}) \in Nat
    BY <1>1, <1>3, SettingsTypes DEF TypeOK
  <2>5. Len(out) <= Max({conf.parts, 1}) + Cardinality(conf.nodes)
    BY <2>1, <2>3, <2>4 DEF SegmentsAreSound
  <2>6. conf.strategy = "fixed" => Len(out) <= MaxRanges
    BY <2>1, <2>3, <2>4, SettingsAssumption DEF SegmentsAreSound
  <2>7. /\ conf'.strategy # "adaptive" => Len(plan') <= Max({conf'.parts, 1}) + Cardinality(conf'.nodes)
        /\ conf'.strategy = "fixed" => Len(plan') <= MaxRanges
    BY <1>2, <1>5, <1>6, <2>5, <2>6
  <2> QED
    BY <1>2, <2>7 DEF Counts
<1>17. Owners'
  BY <1>1, <1>2, <1>5, <1>6 DEF Owners, OneOwner
<1> QED
  BY <1>11, <1>12, <1>13, <1>14, <1>15, <1>16, <1>17 DEF PlannerInv

LEMMA StartResumeStep ==
    ASSUME PlannerInv, StartResume
    PROVE  PlannerInv'
<1>1. TypeOK /\ Settings /\ Conserves /\ Owners
  BY DEF PlannerInv
<1> DEFINE O == Outstanding
           m == conf.multiplier
           S == [k \in 1..Len(O) |-> Segment(O[k], m, ResumeCoverage)]
<1>2. /\ pc = "stopped" /\ O # <<>> /\ hist.resumes < MaxResumes
      /\ hist' = [hist EXCEPT !.resumes = hist.resumes + 1]
      /\ pc' = "split" /\ UNCHANGED <<conf, plan, done>>
      /\ IF m > 1 THEN todo' = S /\ cursor' = Head(S).lo /\ out' = <<>>
                  ELSE out' = O /\ UNCHANGED <<todo, cursor>>
  BY DEF StartResume, Resumable, StartSplitting
<1>3. PlanIsUsable /\ todo = <<>>
  BY <1>1, <1>2 DEF Settings
<1>4. plan \in Seq(RangeType)
  BY <1>1 DEF TypeOK
<1>0. \A i \in 1..Len(plan) : plan[i].hi <= BigMax /\ plan[i].hi \in Int
  BY <1>4 DEF StartResume, Resumable, Trackable, RangeType
<1>5. /\ \A t \in Int : Times(plan, t) <= 1
      /\ \A t \in hist.first : hist.resumes > 0 \/ ~TwicePlanned(t)
  <2>1. \A i \in 1..Len(plan) : ~InRange(plan[i], IMax)
    BY <1>0, WidthAssumption DEF InRange
  <2>2. Times(plan, IMax) = 0
    <3>1. {i \in 1..Len(plan) : InRange(plan[i], IMax)} = {}
      BY <2>1
    <3> QED
      BY <3>1, FS_EmptySet DEF Times
  <2>3. ASSUME NEW t \in Int PROVE Times(plan, t) <= 1
    <3>1. CASE t = IMax
      BY <2>2, <3>1
    <3>2. CASE t # IMax
      <4>1. Want(t) \in 0..1 /\ Times(plan, t) <= Want(t) /\ Times(plan, t) \in Nat
        BY <1>1, <1>4, <3>2, PendingBound DEF Conserves, Want, TwicePlanned
      <4> QED
        BY <4>1
    <3> QED
      BY <3>1, <3>2
  <2>4. ASSUME NEW t \in hist.first, ~(hist.resumes > 0) PROVE t # IMax
    <3>1. hist.resumes = 0
      BY <1>1, <2>4 DEF TypeOK
    <3>2. PICK i \in 1..Len(plan) : t \in Tokens(plan[i])
      BY <1>1, <3>1 DEF Conserves, Covered
    <3>3. plan[i].lo \in Int /\ plan[i].hi \in Int
      BY <1>4 DEF RangeType
    <3> QED
      BY <1>0, <3>2, <3>3, WidthAssumption DEF Tokens
  <2> QED
    BY <2>3, <2>4 DEF TwicePlanned
<1>6. /\ O \in Seq(RangeType) /\ \A t \in Int : Times(O, t) = Pending(t)
      /\ \A k \in 1..Len(O) : \E i \in 1..Len(plan) : O[k] = plan[i]
  BY <1>4, <1>5, OutstandingPends
<1> HIDE DEF O
<1>7. Len(O) \in Nat \ {0} /\ \A k \in 1..Len(O) : O[k] \in RangeType
  BY <1>2, <1>6
<1>8. plan # <<>>
  <2>1. 1 \in 1..Len(O)
    BY <1>7
  <2>2. PICK i \in 1..Len(plan) : O[1] = plan[i]
    BY <1>6, <2>1
  <2> QED
    BY <2>2
<1>9. m \in Nat \ {0}
  BY <1>1, SettingsAssumption DEF TypeOK
<1>10. ASSUME NEW k \in 1..Len(O)
       PROVE  /\ Segment(O[k], m, ResumeCoverage) \in SegmentType
              /\ Segment(O[k], m, ResumeCoverage).lo = O[k].lo /\ Segment(O[k], m, ResumeCoverage).hi = O[k].hi
              /\ Segment(O[k], m, ResumeCoverage).coverage = 100
  BY <1>7, <1>9 DEF Segment, SegmentType, RangeType, ResumeCoverage, EffectiveCoverage
<1>11. /\ S \in Seq(SegmentType) /\ Len(S) = Len(O) /\ S # <<>> /\ Head(S) = S[1]
       /\ \A k \in 1..Len(S) : /\ S[k].lo = O[k].lo /\ S[k].hi = O[k].hi /\ S[k].coverage = 100
                               /\ S[k] \in SegmentType
  <2>1. S \in Seq(SegmentType) /\ Len(S) = Len(O)
    BY <1>7, <1>10
  <2>2. \A k \in 1..Len(O) : S[k] = Segment(O[k], m, ResumeCoverage)
    OBVIOUS
  <2> HIDE DEF S
  <2>3. S # <<>> /\ Head(S) = S[1]
    BY <1>7, <2>1
  <2> QED
    BY <1>10, <2>1, <2>2, <2>3
<1> HIDE DEF S, m
<1>12. S[1].lo \in Int /\ S[1].lo <= S[1].hi
  BY <1>7, <1>11 DEF SegmentType
<1>13. /\ hist'.processed = hist.processed /\ hist'.first = hist.first /\ hist'.resumes = hist.resumes + 1
       /\ hist.resumes \in Nat
       /\ hist' \in [processed: {hist.processed}, first: {hist.first}, resumes: {hist.resumes + 1}]
  BY <1>1, <1>2 DEF TypeOK
<1>14. \/ todo' = S /\ cursor' = S[1].lo /\ out' = <<>>
       \/ todo' = <<>> /\ cursor' = cursor /\ out' = O
  BY <1>2, <1>3, <1>11
<1>15. TypeOK'
  <2>1. todo' \in Seq(SegmentType) /\ cursor' \in Int /\ out' \in Seq(RangeType)
    <3>1. <<>> \in Seq(SegmentType) /\ <<>> \in Seq(RangeType) /\ cursor \in Int
      BY <1>1 DEF TypeOK
    <3> QED
      BY <1>6, <1>11, <1>12, <1>14, <3>1
  <2>2. /\ hist.first \subseteq DOMAIN hist.processed /\ DOMAIN hist.processed \subseteq Int
        /\ hist.processed \in [DOMAIN hist.processed -> Nat] /\ hist.first \in SUBSET Int
    BY <1>1 DEF TypeOK
  <2>3. hist.resumes + 1 \in 0..MaxResumes
    BY <1>2, <1>13, SettingsAssumption
  <2>4. hist' \in [processed: [DOMAIN hist.processed -> Nat], first: SUBSET Int, resumes: 0..MaxResumes]
    BY <1>13, <2>2, <2>3
  <2> QED
    BY <1>1, <1>2, <1>13, <2>1, <2>2, <2>4 DEF TypeOK
<1>16. Settings'
  <2>1. hist'.resumes # 0
    BY <1>13
  <2> QED
    BY <1>2, <1>3, <1>8, <2>1, SameSettings DEF Settings
<1>17. Loop'
  <2>1. CASE todo' = S /\ cursor' = S[1].lo
    BY <1>2, <1>8, <1>11, <1>12, <2>1 DEF Loop
  <2>2. CASE todo' = <<>>
    BY <2>2 DEF Loop
  <2> QED
    BY <1>14, <2>1, <2>2
<1>18. Splits'
  <2> SUFFICES ASSUME NEW t \in Int PROVE Handled(t)' = Pending(t)
    BY <1>2, <1>8 DEF Splits, Pending
  <2>1. Times(O, t) = Pending(t) /\ Times(O, t) \in Nat
    BY <1>6, <1>7, TimesNat
  <2>2. CASE todo' = S /\ cursor' = S[1].lo /\ out' = <<>>
    <3> DEFINE c == S[1].lo
    <3>1. Handled(t)' = Times(<<>>, t) + Times(Rest(S, c), t)
      BY <2>2 DEF Handled
    <3>2. S # <<>> => c = S[1].lo
      OBVIOUS
    <3> HIDE DEF c
    <3>3. Times(Rest(S, c), t) = Times(S, t)
      BY <1>11, <3>2, RestWhole
    <3>4. Times(S, t) = Times(O, t)
      <4>1. Len(S) \in Nat /\ Len(S) = Len(O) /\ \A i \in 1..Len(S) : S[i].lo = O[i].lo /\ S[i].hi = O[i].hi
        BY <1>7, <1>11
      <4> QED
        BY <4>1, TimesSame
    <3>5. Times(<<>>, t) = 0
      BY TimesEmpty
    <3> QED
      BY <2>1, <3>1, <3>3, <3>4, <3>5
  <2>3. CASE todo' = <<>> /\ out' = O
    <3>1. Handled(t)' = Times(O, t) + Times(Rest(<<>>, cursor'), t)
      BY <2>3 DEF Handled
    <3>2. Rest(<<>>, cursor') = <<>>
      BY DEF Rest
    <3>3. Times(Rest(<<>>, cursor'), t) = 0
      BY <3>2, TimesEmpty
    <3> QED
      BY <2>1, <3>1, <3>3
  <2> QED
    BY <1>14, <2>2, <2>3
<1>19. Conserves'
  <2>1. \A t : (TwicePlanned(t)' <=> TwicePlanned(t)) /\ Want(t)' = Want(t)
    BY <1>2, SameSettings
  <2>2. \A t : Pending(t)' = Pending(t) /\ Times(plan, t)' = Times(plan, t)
    BY <1>2 DEF Pending, Times
  <2>3. \A t \in hist.first : hist.processed[t] + Pending(t) = 1
    BY <1>1, <1>5 DEF Conserves
  <2>4. hist'.resumes # 0
    BY <1>13
  <2> QED
    BY <1>1, <1>2, <1>5, <1>13, <2>1, <2>2, <2>3, <2>4 DEF Conserves
<1>20. FirstIsWhole' /\ Counts' /\ Refusals'
  BY <1>2, <1>8 DEF FirstIsWhole, Counts, Refusals
<1>21. Owners'
  <2> SUFFICES ASSUME conf.strategy = "ring_aware"
               PROVE  /\ \A i \in 1..Len(todo') : OneOwner(todo'[i])
                      /\ \A i \in 1..Len(out') : OneOwner(out'[i])
                      /\ \A i \in 1..Len(plan) : OneOwner(plan[i])
    BY <1>2 DEF Owners, OneOwner
  <2>1. \A i \in 1..Len(plan) : OneOwner(plan[i])
    BY <1>1 DEF Owners
  <2>2. \A k \in 1..Len(O) : OneOwner(O[k])
    BY <1>6, <2>1
  <2>3. \A k \in 1..Len(S) : OneOwner(S[k])
    BY <1>11, <2>2 DEF OneOwner, InRange
  <2> QED
    BY <1>14, <2>1, <2>2, <2>3
<1> QED
  BY <1>15, <1>16, <1>17, <1>18, <1>19, <1>20, <1>21 DEF PlannerInv

LEMMA PlannerInvInit ==
    ASSUME Init
    PROVE  PlannerInv
<1>1. pc = "start" /\ todo = <<>> /\ cursor = 0 /\ out = <<>> /\ plan = <<>> /\ done = {}
  BY DEF Init
<1>2. hist = [processed |-> [t \in {} |-> 0], first |-> {}, resumes |-> 0]
  BY DEF Init
<1>3. conf \in [ring: FullRings, bounds: Bounds, parts: NumParts, coverage: Coverages,
                strategy: {"fixed", "ring_aware", "adaptive"}, nodes: NodeTokens \cup {{}},
                rows: SizeRows \cup {<<>>}, multiplier: Multipliers]
  <2>1. PICK ring \in FullRings, b \in Bounds, n \in NumParts, c \in Coverages,
             s \in {"fixed", "ring_aware", "adaptive"}, m \in Multipliers :
          \E nodes \in (IF s = "ring_aware" THEN NodeTokens ELSE {{}}),
             rows \in (IF s = "adaptive" THEN SizeRows ELSE {<<>>}) :
            conf = [ring |-> ring, bounds |-> b, parts |-> n, coverage |-> c, strategy |-> s,
                    nodes |-> nodes, rows |-> rows, multiplier |-> m]
    BY DEF Init
  <2>2. PICK nodes \in (IF s = "ring_aware" THEN NodeTokens ELSE {{}}),
             rows \in (IF s = "adaptive" THEN SizeRows ELSE {<<>>}) :
            conf = [ring |-> ring, bounds |-> b, parts |-> n, coverage |-> c, strategy |-> s,
                    nodes |-> nodes, rows |-> rows, multiplier |-> m]
    BY <2>1
  <2>3. nodes \in NodeTokens \cup {{}} /\ rows \in SizeRows \cup {<<>>}
    OBVIOUS
  <2> QED
    BY <2>2, <2>3
<1>4. TypeOK
  <2>1. hist.processed \in [{} -> Nat] /\ DOMAIN hist.processed = {} /\ hist.first = {} /\ hist.resumes = 0
    BY <1>2
  <2>2. hist \in [processed: [{} -> Nat], first: SUBSET Int, resumes: 0..MaxResumes]
    BY <1>2, SettingsAssumption
  <2>3. <<>> \in Seq(SegmentType) /\ <<>> \in Seq(RangeType) /\ 0 \in Int
    OBVIOUS
  <2> QED
    BY <1>1, <1>3, <2>1, <2>2, <2>3 DEF TypeOK
<1>5. Settings /\ Loop /\ Splits /\ FirstIsWhole /\ Counts /\ Refusals
  BY <1>1, <1>2 DEF Settings, Loop, Splits, FirstIsWhole, Counts, Refusals
<1>6. Conserves
  <2>1. \A t \in Int : Times(plan, t) = 0 /\ Want(t) \in Nat
    BY <1>1, TimesEmpty DEF Want
  <2> QED
    BY <1>2, <2>1 DEF Conserves
<1>7. Owners
  BY <1>1 DEF Owners
<1> QED
  BY <1>4, <1>5, <1>6, <1>7 DEF PlannerInv

LEMMA PlannerInvNext ==
    ASSUME PlannerInv, [Next]_vars
    PROVE  PlannerInv'
<1>1. CASE RefusePlan
  BY <1>1, RefuseStep
<1>2. CASE StartPlan
  BY <1>2, StartPlanStep
<1>3. CASE EmitRange
  BY <1>3, EmitStep
<1>4. CASE FinishPlan
  BY <1>4, FinishPlanStep
<1>5. CASE RunRanges
  BY <1>5, RunStep
<1>6. CASE StartResume
  BY <1>6, StartResumeStep
<1>7. CASE FinishResume
  BY <1>7, FinishResumeStep
<1>8. CASE RefuseResume
  BY <1>8, RefuseStep
<1>10. CASE RefuseTracking \/ RefuseSubdivision
  BY <1>10, RefuseStep
<1>9. CASE UNCHANGED vars
  <2>1. UNCHANGED <<pc, conf, todo, cursor, out, plan, done, hist>>
    BY <1>9 DEF vars
  <2>2. /\ Segments' = Segments /\ (PlanIsUsable' <=> PlanIsUsable) /\ (FullCoverage' <=> FullCoverage)
        /\ \A t : Want(t)' = Want(t)
    BY <2>1, SameSettings
  <2>3. TypeOK' /\ Loop' /\ Refusals' /\ Owners'
    BY <2>1 DEF PlannerInv, TypeOK, Loop, Refusals, Trackable, Owners, OneOwner
  <2>7. Conserves'
    BY <2>1, SameConserves DEF PlannerInv
  <2>4. Settings' /\ FirstIsWhole'
    BY <2>1, <2>2 DEF PlannerInv, Settings, FirstIsWhole
  <2>5. Splits'
    BY <2>1, <2>2 DEF PlannerInv, Splits, Handled, Pending
  <2>6. Counts'
    BY <2>1, <2>2 DEF PlannerInv, Counts, PartsTo, Steps, PartitionSize
  <2> QED
    BY <2>3, <2>4, <2>5, <2>6, <2>7 DEF PlannerInv
<1> QED
  BY <1>1, <1>2, <1>3, <1>4, <1>5, <1>6, <1>7, <1>8, <1>9, <1>10 DEF Next, Terminated

LEMMA PlannerInvariance == Spec => []PlannerInv
<1>1. Init => PlannerInv
  BY PlannerInvInit
<1>2. PlannerInv /\ [Next]_vars => PlannerInv'
  BY PlannerInvNext
<1> QED
  BY <1>1, <1>2, PTL DEF Spec

-----------------------------------------------------------------------------
(* The theorems.                                                            *)

\* Whatever the ring, the settings, the cluster and the estimates, no range or segment is ever empty or
\* inverted, and what completed are ranges of the plan.
THEOREM PlannerTypes == Spec => []TypeOK
<1>1. PlannerInv => TypeOK
  BY DEF PlannerInv
<1> QED
  BY <1>1, PlannerInvariance, PTL

\* split_ring, plan_ring_aware, ring_boundaries and TokenRange::split: the first plan has every token of
\* the bounds in exactly one range (at most one when sampling) - but in two the last representable token
\* where a node owns it -, none outside them, and no more ranges than num_parts and one for each node;
\* a fixed plan has no more than the ceiling.
THEOREM PlansCoverOnce == Spec => []PlanCoversOnce
<1>1. ASSUME PlannerInv PROVE PlanCoversOnce
  <2> SUFFICES ASSUME pc = "run", hist.resumes = 0
               PROVE  /\ \A t \in Tokens(conf.bounds) :
                           LET times == IF TwicePlanned(t) THEN 2 ELSE 1
                           IN  IF FullCoverage THEN Times(plan, t) = times ELSE Times(plan, t) <= times
                      /\ Covered(plan) \subseteq Tokens(conf.bounds)
                      /\ conf.strategy # "adaptive" => Len(plan) <= Max({conf.parts, 1}) + Cardinality(conf.nodes)
                      /\ conf.strategy = "fixed" => Len(plan) <= MaxRanges
    BY DEF PlanCoversOnce
  <2> DEFINE b == conf.bounds
  <2>1. TypeOK /\ Settings /\ Conserves /\ FirstIsWhole /\ Counts
    BY <1>1 DEF PlannerInv
  <2>2. b.lo \in Int /\ b.hi \in Int /\ plan \in Seq(RangeType)
    BY <2>1, SettingsTypes DEF Settings, TypeOK
  <2>3. ASSUME NEW t \in Tokens(b)
        PROVE  LET times == IF TwicePlanned(t) THEN 2 ELSE 1
               IN  IF FullCoverage THEN Times(plan, t) = times ELSE Times(plan, t) <= times
    <3>1. t \in Int /\ Want(t) = IF TwicePlanned(t) THEN 2 ELSE 1
      BY <2>2 DEF Tokens, Want, InRange
    <3>2. Times(plan, t) <= Want(t) /\ (FullCoverage => Times(plan, t) = Want(t))
      BY <2>1, <3>1 DEF Conserves, FirstIsWhole
    <3> QED
      BY <3>1, <3>2
  <2>4. ASSUME NEW t \in Covered(plan) PROVE t \in Tokens(b)
    <3>1. PICK i \in 1..Len(plan) : t \in Tokens(plan[i])
      BY DEF Covered
    <3>2. t \in Int /\ InRange(plan[i], t)
      BY <2>2, <3>1 DEF Tokens, InRange, RangeType
    <3> DEFINE X == RangeType
               p == plan
    <3>3. p \in Seq(X) /\ i \in 1..Len(p) /\ InRange(p[i], t)
      BY <2>2, <3>2
    <3> HIDE DEF X, p
    <3>4. Times(p, t) >= 1
      BY <3>3, TimesOne
    <3>5. Times(p, t) <= Want(t) /\ Want(t) \in 0..2 /\ Times(p, t) \in Nat
      BY <2>1, <2>2, <3>2, PendingBound DEF Conserves, Want, p
    <3>6. Want(t) # 0
      BY <3>4, <3>5
    <3> QED
      BY <2>2, <3>2, <3>6 DEF Want, InRange, Tokens
  <2>5. /\ conf.strategy # "adaptive" => Len(plan) <= Max({conf.parts, 1}) + Cardinality(conf.nodes)
        /\ conf.strategy = "fixed" => Len(plan) <= MaxRanges
    BY <2>1 DEF Counts
  <2> QED
    BY <2>3, <2>4, <2>5
<1> QED
  BY <1>1, PlannerInvariance, PTL

\* plan_resume, subdivide and TokenPlan::from_ranges: over any number of stops and resumes, a token that
\* was planned is processed once or in exactly one range still to be run, and a resume is refused only
\* by the range ceiling or for tokens beyond a bigint (a plan that has a token twice is not tracked).
THEOREM ResumesKeepTokens == Spec => []ResumeKeepsEveryToken
<1>1. ASSUME PlannerInv PROVE ResumeKeepsEveryToken
  <2>1. TypeOK /\ Settings /\ Conserves /\ Refusals /\ plan \in Seq(RangeType)
    BY <1>1 DEF PlannerInv, TypeOK
  <2>2. ASSUME pc = "run", NEW t \in hist.first, hist.resumes > 0 \/ ~TwicePlanned(t)
        PROVE  hist.processed[t] + Times(plan, t) = 1
    <3>1. Pending(t) = Times(plan, t)
      BY <2>1, <2>2, PendingBound DEF Settings
    <3> QED
      BY <2>1, <2>2, <3>1 DEF Conserves
  <2> QED
    BY <2>1, <2>2 DEF Refusals, ResumeKeepsEveryToken
<1> QED
  BY <1>1, PlannerInvariance, PTL

\* plan_ring_aware and subdivide: no range of a ring-aware plan goes past a node's token, in the first
\* plan or in a resumed one.
THEOREM RangesDoNotStraddle == Spec => []NoRangeStraddles
<1>1. PlannerInv => NoRangeStraddles
  BY DEF PlannerInv, Owners, OneOwner, NoRangeStraddles
<1> QED
  BY <1>1, PlannerInvariance, PTL
=============================================================================
