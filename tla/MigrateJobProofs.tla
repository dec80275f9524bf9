--------------------------- MODULE MigrateJobProofs --------------------------
(***************************************************************************)
(* Proofs about the migrate job, for every set of workers, every number of  *)
(* permits, page size, batch size, flush threshold and explosion.           *)
(***************************************************************************)
EXTENDS MigrateJob, FiniteSetTheorems, SequenceTheorems, TLAPS

-----------------------------------------------------------------------------
(* The parts of the inductive invariant, about one range each.              *)

Going == {"row", "single", "full", "switch"}
Over == {"passed", "failed", "abandoned"}

\* What the place a range has got to says about its buffer.
Placed(counter, size, t) ==
    /\ counter => size = 1 /\ t.inflight = <<>>
    /\ t.batch < size
    /\ \A i \in DOMAIN t.inflight : t.inflight[i] <= size
    /\ t.pc \in {"page", "drain"} \cup Over => t.batch = 0
    /\ t.pc \in {"page"} \cup Over => t.inflight = <<>> /\ t.entries = 0
    /\ t.pc = "single" => t.entries > 0 /\ size = 1 /\ ~counter
    /\ t.pc = "full" => t.entries > 0 /\ t.batch + 1 = size /\ ~counter
    /\ t.pc = "switch" => t.entries > 0 /\ t.batch > 0 /\ ~counter
    /\ t.failure => t.pc \in {"drain", "failed", "abandoned"}
    /\ t.closing => t.entries = 0 /\ t.pc \notin Going

\* UNFLUSHED is what is buffered and what landed without being credited yet; a write that failed is
\* in UNFLUSHED and nowhere else, but then the range is about to fail.  `sum` is the size of the
\* writes in flight.
Accounted(t, sum, c, g) ==
    /\ c.write <= g.landed
    /\ c.unflushed <= FlushThreshold
    /\ t.pc \in Going => c.unflushed < FlushThreshold
    /\ t.pc \in {"page", "passed"} => c.unflushed = 0
    /\ t.batch + sum + g.landed <= c.write + c.unflushed
    /\ t.pc \notin Over /\ ~t.failure => t.batch + sum + g.landed = c.write + c.unflushed
    /\ t.pc = "passed" => c.write = g.landed

\* A row that was read and not exploded is in exactly one counter, or is the entry at hand.
Balanced(t, c, g) ==
    ~g.exploded =>
       /\ t.entries <= 1
       /\ t.pc \notin Over =>
            /\ c.read = c.write + c.skipped + c.error + c.unflushed + t.entries
            /\ g.pushed = c.unflushed /\ g.credited = c.write
       /\ t.pc = "passed" => c.read = c.write + c.skipped + c.error
       /\ t.pc = "failed" => c.error >= c.read - c.skipped - g.credited

Good(counter, size, t, c, g) ==
    /\ Placed(counter, size, t)
    /\ Accounted(t, SeqSum(t.inflight), c, g)
    /\ Balanced(t, c, g)

-----------------------------------------------------------------------------
(* Counting the members of a family of sets.                                *)

Members(I, F) == UNION {{q} \X F[q] : q \in I}

\* A finite family of finite sets has finitely many members, those of one set and the rest.
LEMMA MembersSplit ==
    ASSUME NEW I, IsFiniteSet(I), NEW F, \A q \in I : IsFiniteSet(F[q]), NEW r \in I
    PROVE  /\ IsFiniteSet(Members(I \ {r}, F))
           /\ IsFiniteSet(Members(I, F))
           /\ Cardinality(Members(I, F)) = Cardinality(Members(I \ {r}, F)) + Cardinality(F[r])
<1> DEFINE Fam == {{q} \X F[q] : q \in I \ {r}}
           f == [q \in I \ {r} |-> {q} \X F[q]]
           Rest == Members(I \ {r}, F)
           One == {r} \X F[r]
<1>1. IsFiniteSet(I \ {r})
  BY FS_Subset
<1>2. f \in Surjection(I \ {r}, Fam)
  BY DEF Surjection
<1>3. IsFiniteSet(Fam)
  BY <1>1, <1>2, FS_Surjection
<1>4. \A q \in I : IsFiniteSet({q} \X F[q]) /\ Cardinality({q} \X F[q]) = Cardinality(F[q])
  <2> TAKE q \in I
  <2>1. IsFiniteSet({q}) /\ Cardinality({q}) = 1
    BY FS_Singleton
  <2>2. IsFiniteSet({q} \X F[q]) /\ Cardinality({q} \X F[q]) = Cardinality({q}) * Cardinality(F[q])
    BY <2>1, FS_Product
  <2>3. Cardinality(F[q]) \in Nat
    BY FS_CardinalityType
  <2> QED
    BY <2>1, <2>2, <2>3
<1>5. IsFiniteSet(Rest)
  BY <1>3, <1>4, FS_UNION DEF Members
<1>6. IsFiniteSet(One) /\ Cardinality(One) = Cardinality(F[r])
  BY <1>4
<1>7. Members(I, F) = Rest \cup One
  BY DEF Members
<1>8. Rest \cap One = {}
  BY DEF Members
<1> HIDE DEF Rest, One
<1>9. /\ IsFiniteSet(Rest \cup One)
      /\ Cardinality(Rest \cup One) = Cardinality(Rest) + Cardinality(One) - Cardinality(Rest \cap One)
  BY <1>5, <1>6, FS_Union
<1>10. Cardinality(Rest \cap One) = 0 /\ Cardinality(Rest) \in Nat /\ Cardinality(One) \in Nat
  BY <1>5, <1>6, <1>8, FS_EmptySet, FS_CardinalityType
<1>11. /\ IsFiniteSet(Members(I, F))
       /\ Cardinality(Members(I, F)) = Cardinality(Rest) + Cardinality(F[r])
  BY <1>6, <1>7, <1>9, <1>10
<1> QED
  BY <1>5, <1>11 DEF Rest

-----------------------------------------------------------------------------
(* The sum of a sequence of counts.                                         *)

Counts == Seq(Nat \ {0})
Units(s) == [i \in DOMAIN s |-> 1..s[i]]

\* As many units as counted.
LEMMA UnitsCount ==
    ASSUME NEW n \in Nat
    PROVE  IsFiniteSet(1..n) /\ Cardinality(1..n) = n
<1>1. IsFiniteSet(1..n) /\ Cardinality(1..n) = IF 1 > n THEN 0 ELSE n - 1 + 1
  BY FS_Interval
<1> QED
  BY <1>1

\* A sequence of counts, its domain and its units.
LEMMA CountsFacts ==
    ASSUME NEW s \in Counts
    PROVE  /\ Len(s) \in Nat /\ DOMAIN s = 1..Len(s) /\ IsFiniteSet(DOMAIN s)
           /\ \A i \in 1..Len(s) : /\ s[i] \in Nat \ {0}
                                   /\ IsFiniteSet(Units(s)[i]) /\ Cardinality(Units(s)[i]) = s[i]
           /\ SeqSum(s) = Cardinality(Members(DOMAIN s, Units(s)))
<1>1. /\ Len(s) \in Nat /\ DOMAIN s = 1..Len(s)
      /\ \A i \in 1..Len(s) : s[i] \in Nat \ {0}
  BY LenProperties, ElementOfSeq DEF Counts
<1>2. IsFiniteSet(DOMAIN s)
  BY <1>1, FS_Interval
<1>3. ASSUME NEW i \in 1..Len(s)
      PROVE  IsFiniteSet(Units(s)[i]) /\ Cardinality(Units(s)[i]) = s[i]
  <2>1. Units(s)[i] = 1..s[i] /\ s[i] \in Nat \ {0}
    BY <1>1 DEF Units
  <2> QED
    BY <2>1, UnitsCount
<1>4. SeqSum(s) = Cardinality(Members(DOMAIN s, Units(s)))
  <2>1. \A i \in DOMAIN s : Units(s)[i] = 1..s[i]
    BY DEF Units
  <2>2. {{i} \X (1..s[i]) : i \in DOMAIN s} = {{i} \X Units(s)[i] : i \in DOMAIN s}
    BY <2>1
  <2> QED
    BY <2>2 DEF SeqSum, Members
<1> QED
  BY <1>1, <1>2, <1>3, <1>4

\* Nothing adds up to nothing.
LEMMA SumEmpty == SeqSum(<<>>) = 0
<1>1. UNION {{i} \X (1..(<<>>)[i]) : i \in DOMAIN <<>>} = {}
  BY EmptySeq
<1> QED
  BY <1>1, FS_EmptySet DEF SeqSum

\* A sum of counts is a number.
LEMMA SumType ==
    ASSUME NEW s \in Counts
    PROVE  SeqSum(s) \in Nat
<1>1. CASE s = <<>>
  BY <1>1, SumEmpty
<1>2. CASE s # <<>>
  <2>1. 1 \in DOMAIN s
    BY <1>2, EmptySeq, CountsFacts DEF Counts
  <2> QED
    BY <2>1, CountsFacts, MembersSplit, FS_CardinalityType
<1> QED
  BY <1>1, <1>2

\* Sending a write adds its size.
Sent(s, n) == Append(s, n)
LEMMA SumAppend ==
    ASSUME NEW s \in Counts, NEW n \in Nat \ {0}, NEW x, x = Sent(s, n)
    PROVE  /\ x \in Counts /\ Len(x) = Len(s) + 1
           /\ SeqSum(x) = SeqSum(s) + n
           /\ \A i \in DOMAIN x : (i \in DOMAIN s /\ x[i] = s[i]) \/ x[i] = n
<1>1. /\ x \in Counts /\ Len(x) = Len(s) + 1 /\ x[Len(s) + 1] = n
      /\ \A i \in 1..Len(s) : x[i] = s[i]
  BY AppendProperties DEF Counts, Sent
<1>2. /\ Len(s) \in Nat /\ DOMAIN s = 1..Len(s) /\ DOMAIN x = 1..(Len(s) + 1)
      /\ IsFiniteSet(DOMAIN x)
      /\ \A i \in DOMAIN x : IsFiniteSet(Units(x)[i])
      /\ Cardinality(Units(x)[Len(s) + 1]) = n
      /\ SeqSum(s) = Cardinality(Members(DOMAIN s, Units(s)))
      /\ SeqSum(x) = Cardinality(Members(DOMAIN x, Units(x)))
  <2>1. /\ Len(s) \in Nat /\ DOMAIN s = 1..Len(s)
        /\ SeqSum(s) = Cardinality(Members(DOMAIN s, Units(s)))
    BY CountsFacts
  <2>2. /\ DOMAIN x = 1..Len(x) /\ IsFiniteSet(DOMAIN x)
        /\ SeqSum(x) = Cardinality(Members(DOMAIN x, Units(x)))
        /\ \A i \in 1..Len(x) : IsFiniteSet(Units(x)[i]) /\ Cardinality(Units(x)[i]) = x[i]
    BY <1>1, CountsFacts
  <2>3. Len(s) + 1 \in 1..Len(x)
    BY <1>1, <2>1
  <2> QED
    BY <1>1, <2>1, <2>2, <2>3
<1>3. (DOMAIN x) \ {Len(s) + 1} = DOMAIN s
  BY <1>2
<1>4. \A i \in DOMAIN s : Units(x)[i] = Units(s)[i]
  BY <1>1, <1>2 DEF Units
<1>5. Members((DOMAIN x) \ {Len(s) + 1}, Units(x)) = Members(DOMAIN s, Units(s))
  BY <1>3, <1>4 DEF Members
<1>6. Len(s) + 1 \in DOMAIN x
  BY <1>2
<1>7. SeqSum(x) = SeqSum(s) + n
  <2>1. Cardinality(Members(DOMAIN x, Units(x)))
          = Cardinality(Members((DOMAIN x) \ {Len(s) + 1}, Units(x))) + Cardinality(Units(x)[Len(s) + 1])
    <3> DEFINE I == DOMAIN x
               F == Units(x)
               r == Len(s) + 1
    <3>1. IsFiniteSet(I) /\ (\A q \in I : IsFiniteSet(F[q])) /\ r \in I
      BY <1>2, <1>6
    <3> HIDE DEF I, F, r
    <3>2. Cardinality(Members(I, F)) = Cardinality(Members(I \ {r}, F)) + Cardinality(F[r])
      BY <3>1, MembersSplit
    <3> QED
      BY <3>2 DEF I, F, r
  <2> QED
    BY <1>2, <1>5, <2>1
<1>8. \A i \in DOMAIN x : (i \in DOMAIN s /\ x[i] = s[i]) \/ x[i] = n
  BY <1>1, <1>2
<1> QED
  BY <1>1, <1>7, <1>8

\* What is left when one element is taken out of a sequence.
LEMMA RemoveAtProperties ==
    ASSUME NEW s \in Counts, NEW i \in 1..Len(s), NEW x, x = RemoveAt(s, i)
    PROVE  /\ x \in Counts /\ Len(x) = Len(s) - 1
           /\ \A j \in 1..(Len(s) - 1) : x[j] = IF j < i THEN s[j] ELSE s[j + 1]
<1> DEFINE a == SubSeq(s, 1, i - 1)
           b == SubSeq(s, i + 1, Len(s))
<1>1. Len(s) \in Nat /\ \A k \in 1..Len(s) : s[k] \in Nat \ {0}
  BY CountsFacts
<1>2. /\ a \in Counts /\ Len(a) = i - 1
      /\ \A k \in 1..(i - 1) : a[k] = s[k]
  BY <1>1, SubSeqProperties DEF Counts
<1>3. /\ b \in Counts /\ Len(b) = Len(s) - i
      /\ \A k \in 1..(Len(s) - i) : b[k] = s[i + k]
  <2>1. \A k \in (i + 1)..Len(s) : s[k] \in Nat \ {0}
    BY <1>1
  <2> QED
    BY <1>1, <2>1, SubSeqProperties DEF Counts
<1> HIDE DEF a, b
<1>4. x = a \o b
  BY DEF RemoveAt, a, b
<1>5. /\ a \o b \in Counts /\ Len(a \o b) = Len(a) + Len(b)
      /\ \A k \in 1..(Len(a) + Len(b)) : (a \o b)[k] = IF k <= Len(a) THEN a[k] ELSE b[k - Len(a)]
  BY <1>2, <1>3, ConcatProperties DEF Counts
<1>6. ASSUME NEW j \in 1..(Len(s) - 1)
      PROVE  (a \o b)[j] = IF j < i THEN s[j] ELSE s[j + 1]
  <2>1. CASE j < i
    BY <2>1, <1>1, <1>2, <1>3, <1>5
  <2>2. CASE ~(j < i)
    <3>1. j - (i - 1) \in 1..(Len(s) - i)
      BY <2>2, <1>1
    <3>2. b[j - (i - 1)] = s[i + (j - (i - 1))]
      BY <3>1, <1>3
    <3>3. i + (j - (i - 1)) = j + 1
      BY <1>1
    <3>4. j \in 1..(Len(a) + Len(b)) /\ ~(j <= Len(a))
      BY <2>2, <1>1, <1>2, <1>3
    <3>5. (a \o b)[j] = b[j - Len(a)]
      BY <3>4, <1>5
    <3> QED
      BY <2>2, <3>2, <3>3, <3>5, <1>2
  <2> QED
    BY <2>1, <2>2
<1>7. Len(a) + Len(b) = Len(s) - 1
  BY <1>1, <1>2, <1>3
<1> QED
  BY <1>4, <1>5, <1>6, <1>7

\* A write that ends takes its size away.
LEMMA SumRemove ==
    ASSUME NEW s \in Counts, NEW i \in 1..Len(s), NEW x, x = RemoveAt(s, i)
    PROVE  /\ x \in Counts /\ Len(x) = Len(s) - 1
           /\ SeqSum(s) = SeqSum(x) + s[i]
           /\ \A j \in DOMAIN x : \E k \in DOMAIN s : x[j] = s[k]
<1> DEFINE A == Members((DOMAIN s) \ {i}, Units(s))
           B == Members(DOMAIN x, Units(x))
           f == [p \in B |-> <<IF p[1] < i THEN p[1] ELSE p[1] + 1, p[2]>>]
<1>1. /\ x \in Counts /\ Len(x) = Len(s) - 1
      /\ \A j \in 1..(Len(s) - 1) : x[j] = IF j < i THEN s[j] ELSE s[j + 1]
  BY RemoveAtProperties
<1>2. /\ Len(s) \in Nat /\ DOMAIN s = 1..Len(s) /\ DOMAIN x = 1..(Len(s) - 1)
      /\ IsFiniteSet(DOMAIN s)
      /\ \A j \in DOMAIN s : IsFiniteSet(Units(s)[j]) /\ s[j] \in Nat \ {0}
      /\ Cardinality(Units(s)[i]) = s[i]
      /\ SeqSum(s) = Cardinality(Members(DOMAIN s, Units(s)))
      /\ SeqSum(x) = Cardinality(B)
  <2>1. /\ Len(s) \in Nat /\ DOMAIN s = 1..Len(s) /\ IsFiniteSet(DOMAIN s)
        /\ SeqSum(s) = Cardinality(Members(DOMAIN s, Units(s)))
        /\ \A j \in 1..Len(s) : /\ IsFiniteSet(Units(s)[j]) /\ Cardinality(Units(s)[j]) = s[j]
                                /\ s[j] \in Nat \ {0}
    BY CountsFacts
  <2>2. DOMAIN x = 1..Len(x) /\ SeqSum(x) = Cardinality(B)
    BY <1>1, CountsFacts
  <2> QED
    BY <1>1, <2>1, <2>2
<1>3. IsFiniteSet(A) /\ SeqSum(s) = Cardinality(A) + s[i]
  <2> DEFINE I == DOMAIN s
             F == Units(s)
  <2>1. IsFiniteSet(I) /\ (\A q \in I : IsFiniteSet(F[q])) /\ i \in I
    BY <1>2
  <2> HIDE DEF I, F
  <2>2. /\ IsFiniteSet(Members(I \ {i}, F))
        /\ Cardinality(Members(I, F)) = Cardinality(Members(I \ {i}, F)) + Cardinality(F[i])
    BY <2>1, MembersSplit
  <2> QED
    BY <1>2, <2>2 DEF I, F
<1>4. \A p \in B : p = <<p[1], p[2]>> /\ p[1] \in 1..(Len(s) - 1) /\ p[2] \in 1..x[p[1]]
  BY <1>2 DEF Members, Units
<1>5. \A j \in 1..(Len(s) - 1) : \A k \in 1..x[j] : <<j, k>> \in B
  BY <1>2 DEF Members, Units
<1>6. \A p \in A : p = <<p[1], p[2]>> /\ p[1] \in (1..Len(s)) \ {i} /\ p[2] \in 1..s[p[1]]
  BY <1>2 DEF Members, Units
<1>7. \A j \in (1..Len(s)) \ {i} : \A k \in 1..s[j] : <<j, k>> \in A
  BY <1>2 DEF Members, Units
<1> HIDE DEF A, B
<1>8. f \in Bijection(B, A)
  <2>1. f \in [B -> A]
    <3> SUFFICES ASSUME NEW p \in B
                 PROVE  <<IF p[1] < i THEN p[1] ELSE p[1] + 1, p[2]>> \in A
      OBVIOUS
    <3>1. p[1] \in 1..(Len(s) - 1) /\ p[2] \in 1..x[p[1]]
      BY <1>4
    <3>2. CASE p[1] < i
      <4>1. p[1] \in (1..Len(s)) \ {i} /\ p[2] \in 1..s[p[1]]
        BY <1>1, <1>2, <3>1, <3>2
      <4> QED
        BY <1>7, <3>2, <4>1
    <3>3. CASE ~(p[1] < i)
      <4>1. p[1] + 1 \in (1..Len(s)) \ {i} /\ p[2] \in 1..s[p[1] + 1]
        BY <1>1, <1>2, <3>1, <3>3
      <4> QED
        BY <1>7, <3>3, <4>1
    <3> QED
      BY <3>2, <3>3
  <2>2. \A p, q \in B : f[p] = f[q] => p = q
    <3> SUFFICES ASSUME NEW p \in B, NEW q \in B, f[p] = f[q] PROVE p = q
      OBVIOUS
    <3>1. /\ p = <<p[1], p[2]>> /\ q = <<q[1], q[2]>> /\ p[1] \in Nat /\ q[1] \in Nat
      BY <1>2, <1>4
    <3>2. /\ (IF p[1] < i THEN p[1] ELSE p[1] + 1) = (IF q[1] < i THEN q[1] ELSE q[1] + 1)
          /\ p[2] = q[2]
      OBVIOUS
    <3>3. p[1] = q[1]
      BY <3>1, <3>2
    <3> QED
      BY <3>1, <3>2, <3>3
  <2>3. \A p \in A : \E q \in B : f[q] = p
    <3> SUFFICES ASSUME NEW p \in A PROVE \E q \in B : f[q] = p
      OBVIOUS
    <3>1. p = <<p[1], p[2]>> /\ p[1] \in (1..Len(s)) \ {i} /\ p[2] \in 1..s[p[1]]
      BY <1>6
    <3>2. CASE p[1] < i
      <4>1. p[1] \in 1..(Len(s) - 1) /\ p[2] \in 1..x[p[1]]
        BY <1>1, <1>2, <3>1, <3>2
      <4>2. <<p[1], p[2]>> \in B
        BY <1>5, <4>1
      <4>3. f[<<p[1], p[2]>>] = <<p[1], p[2]>>
        BY <3>2, <4>2
      <4> QED
        BY <3>1, <4>2, <4>3
    <3>3. CASE ~(p[1] < i)
      <4>1. p[1] - 1 \in 1..(Len(s) - 1) /\ p[2] \in 1..x[p[1] - 1]
        <5>1. p[1] - 1 \in 1..(Len(s) - 1) /\ ~(p[1] - 1 < i) /\ (p[1] - 1) + 1 = p[1]
          BY <1>2, <3>1, <3>3
        <5>2. x[p[1] - 1] = s[p[1]]
          BY <1>1, <5>1
        <5> QED
          BY <3>1, <5>1, <5>2
      <4>2. <<p[1] - 1, p[2]>> \in B
        BY <1>5, <4>1
      <4>3. f[<<p[1] - 1, p[2]>>] = <<p[1], p[2]>>
        <5>1. ~(p[1] - 1 < i) /\ (p[1] - 1) + 1 = p[1]
          BY <1>2, <3>1, <3>3
        <5> QED
          BY <4>2, <5>1
      <4> QED
        BY <3>1, <4>2, <4>3
    <3> QED
      BY <3>2, <3>3
  <2> HIDE DEF f
  <2> QED
    BY <2>1, <2>2, <2>3 DEF Bijection, Injection, Surjection, IsInjective
<1>9. ExistsBijection(B, A)
  BY <1>8 DEF ExistsBijection
<1>10. IsFiniteSet(B) /\ Cardinality(A) = Cardinality(B)
  <2>1. IsFiniteSet(B)
    BY <1>3, <1>8, FS_Injection DEF Bijection
  <2> QED
    BY <1>9, <2>1, FS_Bijection
<1>11. \A j \in DOMAIN x : \E k \in DOMAIN s : x[j] = s[k]
  BY <1>1, <1>2, SMTT(30)
<1> QED
  BY <1>1, <1>2, <1>3, <1>10, <1>11

-----------------------------------------------------------------------------
(* One range: its types, and steps that touch its task only.                *)

PCs == {"page", "row", "single", "full", "switch", "flush", "drain",
        "passed", "failed", "abandoned"}

\* The fields of a task, of its counters and of its history.
LEMMA Fields ==
    ASSUME NEW t \in Tasks, NEW c \in Counters, NEW g \in Ghosts
    PROVE  /\ t.pc \in PCs /\ t.pages \in 0..NumPages /\ t.rows \in 0..FetchSize
           /\ t.entries \in 0..MaxExplode /\ t.entries \in Nat /\ t.batch \in Nat
           /\ t.inflight \in Counts /\ t.failure \in BOOLEAN /\ t.closing \in BOOLEAN
           /\ c.read \in Nat /\ c.write \in Nat /\ c.skipped \in Nat
           /\ c.error \in Nat /\ c.unflushed \in Nat
           /\ g.landed \in Nat /\ g.pushed \in Nat /\ g.credited \in Nat /\ g.exploded \in BOOLEAN
           /\ SeqSum(t.inflight) \in Nat
<1>1. /\ t.pc \in PCs /\ t.pages \in 0..NumPages /\ t.rows \in 0..FetchSize
      /\ t.entries \in 0..MaxExplode /\ t.batch \in Nat
      /\ t.inflight \in Counts /\ t.failure \in BOOLEAN /\ t.closing \in BOOLEAN
  BY DEF Tasks, PCs, Counts
<1>2. /\ c.read \in Nat /\ c.write \in Nat /\ c.skipped \in Nat
      /\ c.error \in Nat /\ c.unflushed \in Nat
  BY DEF Counters
<1>3. g.landed \in Nat /\ g.pushed \in Nat /\ g.credited \in Nat /\ g.exploded \in BOOLEAN
  BY DEF Ghosts
<1>4. t.entries \in Nat
  BY <1>1, SizesAssumption
<1>5. SeqSum(t.inflight) \in Nat
  BY <1>1, SumType
<1> QED
  BY <1>1, <1>2, <1>3, <1>4, <1>5

\* The state of one range.
LEMMA Local ==
    ASSUME TypeOK, NEW w \in Workers
    PROVE  /\ task[w] \in Tasks /\ counters[w] \in Counters /\ ghost[w] \in Ghosts
           /\ counterRun \in BOOLEAN /\ batchSize \in Nat \ {0} /\ permits \in Nat
           /\ FlushThreshold \in Nat \ {0} /\ FetchSize \in Nat /\ MaxExplode \in Nat
<1>1. batchSize \in Nat \ {0} /\ permits \in Nat /\ FlushThreshold \in Nat \ {0}
  BY SizesAssumption DEF TypeOK
<1>2. task[w] \in Tasks /\ counters[w] \in Counters /\ ghost[w] \in Ghosts /\ counterRun \in BOOLEAN
  BY DEF TypeOK
<1> QED
  BY <1>1, <1>2, SizesAssumption

GoodAt(w) == Good(counterRun, batchSize, task[w], counters[w], ghost[w])

\* What every step of worker w does to the state: its own range stays well accounted, the others'
\* are not touched, and the permits it takes are those of the writes it adds.
Moves(w) ==
    /\ task' = [task EXCEPT ![w] = task'[w]] /\ task'[w] \in Tasks
    /\ counters' = [counters EXCEPT ![w] = counters'[w]] /\ counters'[w] \in Counters
    /\ ghost' = [ghost EXCEPT ![w] = ghost'[w]] /\ ghost'[w] \in Ghosts
    /\ permits' \in Nat /\ permits' + Len(task'[w].inflight) = permits + Len(task[w].inflight)
    /\ Good(counterRun, batchSize, task'[w], counters'[w], ghost'[w])

\* A step that only moves a range on keeps its accounts.
LEMMA WalkGood ==
    ASSUME NEW cr \in BOOLEAN, NEW bs \in Nat \ {0}, NEW t \in Tasks, NEW c \in Counters,
           NEW g \in Ghosts, Good(cr, bs, t, c, g), t.pc \notin Over, NEW u \in Tasks,
           u.batch = t.batch, u.inflight = t.inflight, u.entries = t.entries, u.failure = t.failure,
           u.pc \notin {"failed", "abandoned"}, Placed(cr, bs, u),
           u.pc \in Going => t.pc \in Going \/ t.pc = "page",
           u.pc \in {"page", "passed"} => t.pc = "page"
    PROVE  Good(cr, bs, u, c, g)
<1>1. /\ Accounted(t, SeqSum(t.inflight), c, g) /\ Balanced(t, c, g) /\ Placed(cr, bs, t)
      /\ FlushThreshold \in Nat \ {0}
  BY SizesAssumption DEF Good
<1>2. /\ u.entries \in Nat /\ u.pc \in PCs /\ t.pc \in PCs /\ t.failure \in BOOLEAN
      /\ c.read \in Nat /\ c.write \in Nat /\ c.skipped \in Nat /\ c.error \in Nat /\ c.unflushed \in Nat
      /\ g.landed \in Nat /\ g.pushed \in Nat /\ g.credited \in Nat /\ g.exploded \in BOOLEAN
      /\ SeqSum(t.inflight) \in Nat /\ t.batch \in Nat
  BY Fields
<1>3. SeqSum(u.inflight) = SeqSum(t.inflight)
  OBVIOUS
<1> DEFINE sum == SeqSum(t.inflight)
<1> HIDE DEF sum
<1>4. t.pc = "page" => t.batch = 0 /\ t.inflight = <<>> /\ t.entries = 0 /\ ~t.failure /\ c.unflushed = 0
  BY <1>1 DEF Placed, Accounted
<1>5. t.pc = "page" => sum = 0
  BY <1>4, SumEmpty DEF sum
<1>6. Accounted(t, sum, c, g) /\ sum \in Nat
  BY <1>1, <1>2 DEF sum
<1>7. Accounted(u, sum, c, g)
  <2>1. c.write <= g.landed /\ c.unflushed <= FlushThreshold
    BY <1>6 DEF Accounted
  <2>2. u.pc \in Going => c.unflushed < FlushThreshold
    BY <1>1, <1>4, <1>6 DEF Accounted
  <2>3. u.pc \in {"page", "passed"} => c.unflushed = 0
    BY <1>4
  <2>4. u.batch + sum + g.landed <= c.write + c.unflushed
    BY <1>6 DEF Accounted
  <2>5. u.pc \notin Over /\ ~u.failure => u.batch + sum + g.landed = c.write + c.unflushed
    BY <1>6 DEF Accounted
  <2>6. u.pc = "passed" => c.write = g.landed
    <3> SUFFICES ASSUME u.pc = "passed" PROVE c.write = g.landed
      OBVIOUS
    <3>1. t.batch = 0 /\ sum = 0 /\ c.unflushed = 0 /\ ~t.failure
      BY <1>4, <1>5
    <3>2. t.batch + sum + g.landed = c.write + c.unflushed
      BY <1>6, <3>1 DEF Accounted
    <3> QED
      BY <1>2, <3>1, <3>2
  <2> QED
    BY <2>1, <2>2, <2>3, <2>4, <2>5, <2>6 DEF Accounted
<1>8. Balanced(u, c, g)
  BY <1>1, <1>2, <1>4 DEF Balanced, Over
<1> QED
  BY <1>3, <1>7, <1>8 DEF Good, sum

\* Such a step, in the state of the job.
LEMMA WalkMoves ==
    ASSUME TypeOK, NEW w \in Workers, GoodAt(w), NEW u \in Tasks, task' = [task EXCEPT ![w] = u],
           counters' = counters, ghost' = ghost, permits' = permits,
           task[w].pc \notin Over, u.batch = task[w].batch, u.inflight = task[w].inflight,
           u.entries = task[w].entries, u.failure = task[w].failure,
           u.pc \notin {"failed", "abandoned"}, Placed(counterRun, batchSize, u),
           u.pc \in Going => task[w].pc \in Going \/ task[w].pc = "page",
           u.pc \in {"page", "passed"} => task[w].pc = "page"
    PROVE  Moves(w)
<1>1. /\ task \in [Workers -> Tasks] /\ counters \in [Workers -> Counters]
      /\ ghost \in [Workers -> Ghosts] /\ permits \in Nat
  BY Local DEF TypeOK
<1>2. task'[w] = u
  BY <1>1
<1>3. Good(counterRun, batchSize, u, counters[w], ghost[w])
  BY WalkGood, Local DEF GoodAt
<1> QED
  BY <1>1, <1>2, <1>3 DEF Moves

\* A fetched page, full, short or empty.
LEMMA NextPageMoves ==
    ASSUME TypeOK, NEW w \in Workers, GoodAt(w), NextPage(w)
    PROVE  Moves(w)
<1> DEFINE t == task[w]
           u == task'[w]
<1>1. PICK n \in 0..FetchSize :
        task' = [task EXCEPT ![w].pages = @ - 1, ![w].rows = n, ![w].closing = FALSE,
                             ![w].pc = IF n = 0 THEN "page" ELSE "row"]
  BY DEF NextPage
<1>2. /\ t \in Tasks /\ t.pc = "page" /\ t.pages > 0 /\ task \in [Workers -> Tasks]
      /\ counters' = counters /\ ghost' = ghost /\ permits' = permits
  BY Local DEF NextPage, TypeOK, At
<1>3. /\ task' = [task EXCEPT ![w] = u]
      /\ u.batch = t.batch /\ u.inflight = t.inflight /\ u.entries = t.entries
      /\ u.failure = t.failure /\ u.closing = FALSE /\ u.pc \in {"page", "row"} /\ u.rows = n
  BY <1>1, <1>2 DEF Tasks
<1>4. u \in Tasks
  <2>1. t.pages - 1 \in 0..NumPages
    BY <1>2, SizesAssumption DEF Tasks
  <2> QED
    BY <1>1, <1>2, <2>1 DEF Tasks
<1>5. Placed(counterRun, batchSize, t)
  BY DEF GoodAt, Good
<1> HIDE DEF u
<1>6. Placed(counterRun, batchSize, u)
  BY <1>2, <1>3, <1>5 DEF Placed, Over, Going
<1> QED
  BY <1>2, <1>3, <1>4, <1>6, WalkMoves DEF Over, Going

\* A range that is over has nothing in its buffer.
EndedAs(t, p) == [t EXCEPT !.pc = p, !.batch = 0, !.inflight = <<>>, !.entries = 0, !.rows = 0]
LEMMA EndedTask ==
    ASSUME NEW t \in Tasks, NEW p \in Over, NEW u, u = EndedAs(t, p)
    PROVE  /\ u \in Tasks /\ u.pc = p /\ u.batch = 0 /\ u.inflight = <<>> /\ u.entries = 0
           /\ u.failure = t.failure /\ u.closing = t.closing
<1>1. <<>> \in Seq(Nat \ {0})
  BY EmptySeq
<1>2. 0 \in 0..FetchSize /\ 0 \in 0..MaxExplode
  BY SizesAssumption
<1>3. /\ u.pc = p /\ u.batch = 0 /\ u.inflight = <<>> /\ u.entries = 0
      /\ u.failure = t.failure /\ u.closing = t.closing
  BY DEF Tasks, EndedAs
<1>4. u \in Tasks
  BY <1>1, <1>2 DEF Tasks, Over, EndedAs
<1> QED
  BY <1>3, <1>4

\* The last page is done: the range passes.
LEMMA LastPageMoves ==
    ASSUME TypeOK, NEW w \in Workers, GoodAt(w), LastPage(w)
    PROVE  Moves(w)
<1> DEFINE t == task[w]
           u == task'[w]
<1>1. /\ t \in Tasks /\ t.pc = "page" /\ task \in [Workers -> Tasks]
      /\ counters' = counters /\ ghost' = ghost /\ permits' = permits
      /\ task' = [task EXCEPT ![w] = [@ EXCEPT !.pc = "passed", !.batch = 0, !.inflight = <<>>,
                                              !.entries = 0, !.rows = 0]]
  BY Local DEF LastPage, Ended, TypeOK, At
<1>2. u = EndedAs(t, "passed")
  BY <1>1 DEF EndedAs
<1>3. Placed(counterRun, batchSize, t)
  BY DEF GoodAt, Good
<1>4. t.batch = 0 /\ t.inflight = <<>> /\ t.entries = 0 /\ ~t.failure
  BY <1>1, <1>3 DEF Placed
<1>5. task' = [task EXCEPT ![w] = u]
  BY <1>1
<1> HIDE DEF u
<1>6. /\ u.batch = 0 /\ u.inflight = <<>> /\ u.entries = 0 /\ u.pc = "passed"
      /\ u.failure = t.failure /\ u.closing = t.closing /\ u \in Tasks
  BY <1>1, <1>2, EndedTask DEF Over
<1>7. Placed(counterRun, batchSize, u)
  BY <1>3, <1>4, <1>6, <1>1 DEF Placed, Over, Going
<1> QED
  BY <1>1, <1>4, <1>5, <1>6, <1>7, WalkMoves DEF Over, Going

\* A step that only changes the place, and perhaps closes the page.
LEMMA PlaceMoves ==
    ASSUME TypeOK, NEW w \in Workers, GoodAt(w), NEW u \in Tasks, task' = [task EXCEPT ![w] = u],
           counters' = counters, ghost' = ghost, permits' = permits,
           u.batch = task[w].batch, u.inflight = task[w].inflight,
           u.entries = task[w].entries, u.failure = task[w].failure,
           task[w].pc \in {"row", "flush"}, u.pc \in Going \cup {"flush", "drain"},
           u.pc \in Going => task[w].pc = "row",
           u.closing => task[w].entries = 0 /\ u.pc \notin Going,
           u.pc = "drain" => task[w].batch = 0,
           u.pc = "single" => task[w].entries > 0 /\ batchSize = 1 /\ ~counterRun,
           u.pc = "full" => task[w].entries > 0 /\ task[w].batch + 1 = batchSize /\ ~counterRun,
           u.pc = "switch" => task[w].entries > 0 /\ task[w].batch > 0 /\ ~counterRun
    PROVE  Moves(w)
<1>1. Placed(counterRun, batchSize, task[w])
  BY DEF GoodAt, Good
<1>2. Placed(counterRun, batchSize, u)
  BY <1>1 DEF Placed, Over, Going
<1> QED
  BY <1>2, WalkMoves DEF Over, Going

\* The end of a page.
LEMMA EndOfPageMoves ==
    ASSUME TypeOK, NEW w \in Workers, GoodAt(w), EndOfPage(w)
    PROVE  Moves(w)
<1> DEFINE t == task[w]
           u == [t EXCEPT !.pc = "flush", !.closing = TRUE]
<1>1. t \in Tasks /\ task \in [Workers -> Tasks]
  BY Local DEF TypeOK
<1>2. task' = [task EXCEPT ![w] = u]
  BY <1>1 DEF EndOfPage
<1>3. /\ u \in Tasks /\ u.batch = t.batch /\ u.inflight = t.inflight /\ u.entries = t.entries
      /\ u.failure = t.failure /\ u.pc = "flush" /\ u.closing = TRUE
  BY <1>1 DEF Tasks
<1>4. /\ t.pc = "row" /\ t.entries = 0
      /\ counters' = counters /\ ghost' = ghost /\ permits' = permits
  BY DEF EndOfPage, At
<1> HIDE DEF u
<1> QED
  BY <1>2, <1>3, <1>4, PlaceMoves DEF Going

\* A bound row waits for a slot.
LEMMA BindMoves ==
    ASSUME TypeOK, NEW w \in Workers, GoodAt(w),
           BindSingle(w) \/ BindFillsBatch(w) \/ BindNewPartition(w)
    PROVE  Moves(w)
<1> DEFINE t == task[w]
           u == task'[w]
<1>1. t \in Tasks /\ task \in [Workers -> Tasks] /\ batchSize \in Nat /\ Placed(counterRun, batchSize, t)
  BY Local DEF TypeOK, GoodAt, Good
<1>2. /\ t.pc = "row" /\ t.entries > 0
      /\ counters' = counters /\ ghost' = ghost /\ permits' = permits
  BY DEF BindSingle, BindFillsBatch, BindNewPartition, ReadyToPush, At
<1>3. ~t.closing
  BY <1>1, <1>2 DEF Placed, Going
<1>4. PICK p \in {"single", "full", "switch"} :
        /\ task' = [task EXCEPT ![w].pc = p]
        /\ p = "single" => batchSize = 1 /\ ~counterRun
        /\ p = "full" => t.batch + 1 = batchSize /\ batchSize > 1
        /\ p = "switch" => t.batch > 0 /\ batchSize > 1
  BY DEF BindSingle, BindFillsBatch, BindNewPartition
<1>5. /\ task' = [task EXCEPT ![w] = u] /\ u \in Tasks
      /\ u.batch = t.batch /\ u.inflight = t.inflight /\ u.entries = t.entries
      /\ u.failure = t.failure /\ u.pc = p /\ u.closing = t.closing
  BY <1>1, <1>4 DEF Tasks
<1>6. batchSize > 1 => ~counterRun
  BY <1>1 DEF Placed
<1> HIDE DEF u
<1> QED
  BY <1>2, <1>3, <1>4, <1>5, <1>6, PlaceMoves DEF Going

\* A flush with no batch left.
LEMMA FlushNoBatchMoves ==
    ASSUME TypeOK, NEW w \in Workers, GoodAt(w), FlushNoBatch(w)
    PROVE  Moves(w)
<1> DEFINE t == task[w]
           u == [t EXCEPT !.pc = "drain"]
<1>1. t \in Tasks /\ task \in [Workers -> Tasks] /\ Placed(counterRun, batchSize, t)
  BY Local DEF TypeOK, GoodAt, Good
<1>2. task' = [task EXCEPT ![w] = u]
  BY <1>1 DEF FlushNoBatch
<1>3. /\ u \in Tasks /\ u.batch = t.batch /\ u.inflight = t.inflight /\ u.entries = t.entries
      /\ u.failure = t.failure /\ u.pc = "drain" /\ u.closing = t.closing
  BY <1>1 DEF Tasks
<1>4. /\ t.pc = "flush" /\ t.batch = 0 /\ (t.closing => t.entries = 0)
      /\ counters' = counters /\ ghost' = ghost /\ permits' = permits
  BY <1>1 DEF FlushNoBatch, At, Placed
<1> HIDE DEF u
<1> QED
  BY <1>2, <1>3, <1>4, PlaceMoves DEF Going

-----------------------------------------------------------------------------
(* The end of a range.                                                      *)

\* A step of worker w, by what it makes of its task, its counters and its history.
LEMMA MovesBy ==
    ASSUME TypeOK, NEW w \in Workers, NEW u \in Tasks, NEW d \in Counters, NEW h \in Ghosts,
           task' = [task EXCEPT ![w] = u], counters' = [counters EXCEPT ![w] = d],
           ghost' = [ghost EXCEPT ![w] = h],
           permits' \in Nat, permits' + Len(u.inflight) = permits + Len(task[w].inflight),
           Good(counterRun, batchSize, u, d, h)
    PROVE  Moves(w)
<1>1. /\ task \in [Workers -> Tasks] /\ counters \in [Workers -> Counters]
      /\ ghost \in [Workers -> Ghosts]
  BY DEF TypeOK
<1>2. task'[w] = u /\ counters'[w] = d /\ ghost'[w] = h
  BY <1>1
<1> QED
  BY <1>2 DEF Moves

\* What is left alone.
LEMMA Alone ==
    ASSUME TypeOK, NEW w \in Workers
    PROVE  counters = [counters EXCEPT ![w] = counters[w]] /\ ghost = [ghost EXCEPT ![w] = ghost[w]]
BY DEF TypeOK

\* ENG-008: the rows that are charged to a failed range.
LEMMA LostRowsEnough ==
    ASSUME NEW c \in Counters
    PROVE  LostRows(c) \in Nat /\ LostRows(c) >= c.read - c.write - c.skipped
<1>1. c.read \in Nat /\ c.write \in Nat /\ c.skipped \in Nat
  BY DEF Counters
<1> QED
  BY <1>1 DEF LostRows, Monus

\* Charging rows to ERROR.
Charged(c, n) == [c EXCEPT !.error = @ + n]
LEMMA ChargedCounters ==
    ASSUME NEW c \in Counters, NEW n \in Nat, NEW d, d = Charged(c, n)
    PROVE  /\ d \in Counters /\ d.error = c.error + n /\ d.read = c.read /\ d.write = c.write
           /\ d.skipped = c.skipped /\ d.unflushed = c.unflushed
<1> DEFINE e == c.error + n
<1>1. e \in Nat
  BY DEF Counters
<1>2. d = [c EXCEPT !.error = e]
  BY DEF Charged
<1> HIDE DEF e
<1>3. /\ d \in Counters /\ d.error = e /\ d.read = c.read /\ d.write = c.write
      /\ d.skipped = c.skipped /\ d.unflushed = c.unflushed
  BY <1>1, <1>2 DEF Counters
<1> QED
  BY <1>3 DEF e

\* Failing or abandoning a range drops its buffer.
LEMMA DroppedGood ==
    ASSUME NEW cr \in BOOLEAN, NEW bs \in Nat \ {0}, NEW t \in Tasks, NEW c \in Counters,
           NEW g \in Ghosts, Good(cr, bs, t, c, g), t.pc \notin Over,
           NEW p \in {"failed", "abandoned"}, NEW u, u = EndedAs(t, p),
           NEW n \in Nat, p = "failed" => n >= c.read - c.write - c.skipped,
           NEW d, d = Charged(c, n)
    PROVE  u \in Tasks /\ d \in Counters /\ Good(cr, bs, u, d, g)
<1>1. /\ u \in Tasks /\ u.pc = p /\ u.batch = 0 /\ u.inflight = <<>> /\ u.entries = 0
      /\ u.failure = t.failure /\ u.closing = t.closing
  BY EndedTask DEF Over
<1>2. /\ d \in Counters /\ d.error = c.error + n /\ d.read = c.read /\ d.write = c.write
      /\ d.skipped = c.skipped /\ d.unflushed = c.unflushed
  BY ChargedCounters
<1>3. /\ t.batch \in Nat /\ SeqSum(t.inflight) \in Nat
      /\ c.read \in Nat /\ c.write \in Nat /\ c.skipped \in Nat /\ c.error \in Nat /\ c.unflushed \in Nat
      /\ g.landed \in Nat /\ g.pushed \in Nat /\ g.credited \in Nat
  BY Fields
<1>4. Placed(cr, bs, t) /\ Accounted(t, SeqSum(t.inflight), c, g) /\ Balanced(t, c, g)
  BY DEF Good
<1>5. SeqSum(u.inflight) = 0
  BY <1>1, SumEmpty
<1>6. Placed(cr, bs, u)
  BY <1>1, <1>4, EmptySeq DEF Placed, Over, Going
<1>7. Accounted(u, 0, d, g)
  <2>1. g.landed <= c.write + c.unflushed /\ c.write <= g.landed /\ c.unflushed <= FlushThreshold
    BY <1>3, <1>4 DEF Accounted
  <2> QED
    BY <1>1, <1>2, <1>3, <2>1, SMTT(30) DEF Accounted, Over, Going
<1>8. Balanced(u, d, g)
  <2>1. ~g.exploded => g.credited = c.write
    BY <1>4 DEF Balanced
  <2>2. ~g.exploded /\ p = "failed" => d.error >= d.read - d.skipped - g.credited
    BY <1>2, <1>3, <2>1
  <2>3. u.pc \in Over /\ u.pc # "passed" /\ u.entries <= 1
    BY <1>1 DEF Over
  <2> QED
    BY <1>1, <2>2, <2>3 DEF Balanced
<1> QED
  BY <1>1, <1>2, <1>5, <1>6, <1>7, <1>8 DEF Good

\* Every way to fail a range, or to abandon it.
LEMMA DropMoves ==
    ASSUME TypeOK, NEW w \in Workers, GoodAt(w), task[w].pc \notin Over,
           NEW p \in {"failed", "abandoned"}, Drop(w), Ended(w, p), ghost' = ghost,
           \/ p = "failed" /\ counters' = [counters EXCEPT ![w].error = @ + LostRows(counters[w])]
           \/ p = "abandoned" /\ counters' = counters
    PROVE  Moves(w)
<1> DEFINE t == task[w]
           c == counters[w]
           n == IF p = "failed" THEN LostRows(c) ELSE 0
           u == EndedAs(t, p)
           d == Charged(c, n)
<1>1. /\ t \in Tasks /\ c \in Counters /\ ghost[w] \in Ghosts /\ counterRun \in BOOLEAN
      /\ batchSize \in Nat \ {0} /\ permits \in Nat
      /\ task \in [Workers -> Tasks] /\ counters \in [Workers -> Counters]
  BY Local DEF TypeOK
<1>2. n \in Nat /\ (p = "failed" => n >= c.read - c.write - c.skipped)
  BY <1>1, LostRowsEnough
<1>3. u \in Tasks /\ d \in Counters /\ Good(counterRun, batchSize, u, d, ghost[w])
  <2> HIDE DEF n, u, d
  <2>1. u = EndedAs(t, p) /\ d = Charged(c, n) /\ Good(counterRun, batchSize, t, c, ghost[w])
    BY DEF u, d, GoodAt
  <2> QED
    BY <1>1, <1>2, <2>1, DroppedGood
<1>4. task' = [task EXCEPT ![w] = u] /\ u.inflight = <<>>
  <2>1. u.inflight = <<>>
    BY <1>1, EndedTask DEF Over
  <2> QED
    BY <1>1, <2>1 DEF Ended, EndedAs
<1>5. counters' = [counters EXCEPT ![w] = d]
  <2>1. CASE p = "failed"
    BY <1>1, <2>1 DEF Charged
  <2>2. CASE p = "abandoned"
    <3>1. d = c
      BY <1>1, <2>2 DEF Charged, Counters
    <3> QED
      BY <2>2, <3>1, Alone
  <2> QED
    BY <2>1, <2>2
<1>6. ghost' = [ghost EXCEPT ![w] = ghost[w]]
  BY Alone
<1>7. permits' \in Nat /\ permits' + Len(u.inflight) = permits + Len(t.inflight)
  <2>1. Len(t.inflight) \in Nat /\ Len(<<>>) = 0
    BY <1>1, CountsFacts, EmptySeq, Fields
  <2> QED
    BY <1>1, <1>4, <2>1 DEF Drop
<1> HIDE DEF u, d
<1> QED
  BY <1>1, <1>3, <1>4, <1>5, <1>6, <1>7, MovesBy

\* A range that fails, at whichever step.
LEMMA FailMoves ==
    ASSUME TypeOK, NEW w \in Workers, GoodAt(w),
           CancelAtPage(w) \/ PageFails(w) \/ RowFails(w) \/ CounterFails(w) \/ FlushFails(w)
    PROVE  Moves(w)
<1>1. FailRange(w) /\ task[w].pc \notin Over
  BY DEF CancelAtPage, PageFails, RowFails, CounterFails, FlushFails, ReadRow, ReadyToPush, Drained,
     At, Over
<1> QED
  BY <1>1, DropMoves DEF FailRange

\* A range that is dropped when the run is killed.
LEMMA AbandonMoves ==
    ASSUME TypeOK, NEW w \in Workers, GoodAt(w), Abandon(w)
    PROVE  Moves(w)
BY DropMoves DEF Abandon, Running, Over

-----------------------------------------------------------------------------
(* Rows.                                                                    *)

\* Balancing the counters.
LEMMA Transfer ==
    ASSUME NEW r1 \in Nat, NEW r2 \in Nat, NEW k1 \in Nat, NEW k2 \in Nat, NEW e1 \in Nat,
           NEW e2 \in Nat, NEW n1 \in Nat, NEW n2 \in Nat, NEW wr \in Nat, NEW un \in Nat,
           r2 + k1 + e1 + n1 = r1 + k2 + e2 + n2, r1 = wr + k1 + e1 + un + n1
    PROVE  r2 = wr + k2 + e2 + un + n2
OBVIOUS

\* A row that is read, or whose entry fails to bind, goes from one counter to another or becomes the
\* entries at hand.
LEMMA RowGood ==
    ASSUME NEW cr \in BOOLEAN, NEW bs \in Nat \ {0},
           NEW t \in Tasks, NEW c \in Counters, NEW g \in Ghosts, Good(cr, bs, t, c, g),
           NEW u \in Tasks, NEW d \in Counters, NEW h \in Ghosts,
           t.pc = "row", u.pc = "row", u.batch = t.batch, u.inflight = t.inflight,
           u.failure = t.failure, u.closing = t.closing,
           d.write = c.write, d.unflushed = c.unflushed,
           \/ h.exploded
           \/ d.read + c.skipped + c.error + t.entries = c.read + d.skipped + d.error + u.entries,
           h.landed = g.landed, h.pushed = g.pushed, h.credited = g.credited,
           g.exploded => h.exploded, u.entries <= 1 \/ h.exploded
    PROVE  Good(cr, bs, u, d, h)
<1>1. Placed(cr, bs, t) /\ Accounted(t, SeqSum(t.inflight), c, g) /\ Balanced(t, c, g)
  BY DEF Good
<1>2. /\ t.entries \in Nat /\ c.read \in Nat /\ c.write \in Nat /\ c.skipped \in Nat
      /\ c.error \in Nat /\ c.unflushed \in Nat
  BY Fields
<1>3. /\ u.entries \in Nat /\ d.read \in Nat /\ d.write \in Nat /\ d.skipped \in Nat
      /\ d.error \in Nat /\ d.unflushed \in Nat
  BY Fields
<1>4. ~t.closing /\ ~t.failure
  BY <1>1 DEF Placed, Going
<1>5. Placed(cr, bs, u)
  BY <1>1, <1>4 DEF Placed, Over, Going
<1>6. SeqSum(u.inflight) = SeqSum(t.inflight)
  OBVIOUS
<1>7. Accounted(u, SeqSum(t.inflight), d, h)
  BY <1>1, <1>4 DEF Accounted, Over, Going
<1>8. Balanced(u, d, h)
  <2>1. ~h.exploded =>
          /\ c.read = c.write + c.skipped + c.error + c.unflushed + t.entries
          /\ g.pushed = c.unflushed /\ g.credited = c.write
    BY <1>1 DEF Balanced, Over
  <2>2. ~h.exploded => d.read = d.write + d.skipped + d.error + d.unflushed + u.entries
    <3> SUFFICES ASSUME ~h.exploded
                 PROVE  d.read = d.write + d.skipped + d.error + d.unflushed + u.entries
      OBVIOUS
    <3>1. /\ d.read + c.skipped + c.error + t.entries = c.read + d.skipped + d.error + u.entries
          /\ c.read = c.write + c.skipped + c.error + c.unflushed + t.entries
      BY <2>1
    <3>2. d.read = c.write + d.skipped + d.error + c.unflushed + u.entries
      <4> DEFINE r1 == c.read
                 r2 == d.read
                 k1 == c.skipped
                 k2 == d.skipped
                 e1 == c.error
                 e2 == d.error
                 n1 == t.entries
                 n2 == u.entries
                 wr == c.write
                 un == c.unflushed
      <4>1. /\ r1 \in Nat /\ r2 \in Nat /\ k1 \in Nat /\ k2 \in Nat /\ e1 \in Nat /\ e2 \in Nat
            /\ n1 \in Nat /\ n2 \in Nat /\ wr \in Nat /\ un \in Nat
        BY <1>2, <1>3
      <4>2. r2 + k1 + e1 + n1 = r1 + k2 + e2 + n2 /\ r1 = wr + k1 + e1 + un + n1
        BY <3>1
      <4> HIDE DEF r1, r2, k1, k2, e1, e2, n1, n2, wr, un
      <4>3. r2 = wr + k2 + e2 + un + n2
        BY <4>1, <4>2, Transfer
      <4> QED
        BY <4>3 DEF r2, wr, k2, e2, un, n2
    <3> QED
      BY <3>2
  <2>3. ~h.exploded => h.pushed = d.unflushed /\ h.credited = d.write /\ u.entries <= 1
    BY <2>1
  <2> QED
    BY <2>2, <2>3 DEF Balanced
<1> QED
  BY <1>5, <1>6, <1>7, <1>8 DEF Good

\* A row is filtered out, fails as a record, or is shaped into its entries.
LEMMA RowMoves ==
    ASSUME TypeOK, NEW w \in Workers, GoodAt(w), SkipRow(w) \/ RecordFails(w) \/ ShapeRow(w)
    PROVE  Moves(w)
<1> DEFINE t == task[w]
           c == counters[w]
           g == ghost[w]
           u == task'[w]
           d == counters'[w]
           h == ghost'[w]
<1>1. /\ t \in Tasks /\ c \in Counters /\ g \in Ghosts
      /\ counterRun \in BOOLEAN /\ batchSize \in Nat \ {0} /\ permits \in Nat
      /\ task \in [Workers -> Tasks] /\ counters \in [Workers -> Counters]
      /\ ghost \in [Workers -> Ghosts]
      /\ t.rows \in 0..FetchSize /\ FetchSize \in Nat /\ t.entries = 0
      /\ c.read \in Nat /\ c.skipped \in Nat /\ c.error \in Nat
  <2>1. t.entries = 0
    BY DEF SkipRow, RecordFails, ShapeRow, ReadRow
  <2>2. t \in Tasks /\ c \in Counters /\ g \in Ghosts
    BY Local
  <2> QED
    BY <2>1, <2>2, Local, Fields DEF TypeOK
<1>2. t.pc = "row" /\ t.rows > 0 /\ permits' = permits
  BY DEF SkipRow, RecordFails, ShapeRow, ReadRow, At
<1>3. t.rows - 1 \in 0..FetchSize
  BY <1>1, <1>2
<1>4. PICK n \in 0..MaxExplode :
        /\ task' = [task EXCEPT ![w].rows = t.rows - 1, ![w].entries = n]
        /\ ghost' = [ghost EXCEPT ![w].exploded = @ \/ n > 1]
        /\ \/ n = 0 /\ counters' = [counters EXCEPT ![w].read = @ + 1, ![w].skipped = @ + 1]
           \/ n = 0 /\ counters' = [counters EXCEPT ![w].read = @ + 1, ![w].error = @ + 1]
           \/ n > 0 /\ counters' = [counters EXCEPT ![w].read = @ + 1]
  <2>1. CASE ShapeRow(w)
    <3>1. PICK n \in 1..MaxExplode :
            /\ task' = [task EXCEPT ![w].rows = @ - 1, ![w].entries = n]
            /\ ghost' = [ghost EXCEPT ![w].exploded = @ \/ n > 1]
      BY <2>1 DEF ShapeRow
    <3>2. counters' = [counters EXCEPT ![w].read = @ + 1]
      BY <2>1 DEF ShapeRow
    <3>3. n \in 0..MaxExplode /\ n > 0
      BY SizesAssumption
    <3> QED
      BY <3>1, <3>2, <3>3
  <2>2. CASE SkipRow(w) \/ RecordFails(w)
    <3>1. 0 \in 0..MaxExplode /\ ~(0 > 1)
      BY SizesAssumption
    <3>2. task' = [task EXCEPT ![w].rows = t.rows - 1, ![w].entries = 0]
      <4>1. task' = [task EXCEPT ![w].rows = @ - 1]
        BY <2>2 DEF SkipRow, RecordFails
      <4> DEFINE v == t.rows - 1
      <4>2. task' = [task EXCEPT ![w].rows = v]
        BY <4>1
      <4> HIDE DEF v
      <4>3. [task EXCEPT ![w].rows = v] = [task EXCEPT ![w].rows = v, ![w].entries = 0]
        BY <1>1 DEF Tasks
      <4> QED
        BY <4>2, <4>3 DEF v
    <3>3. ghost' = [ghost EXCEPT ![w].exploded = @ \/ 0 > 1]
      <4>1. ghost' = ghost /\ g.exploded \in BOOLEAN
        BY <1>1, <2>2 DEF SkipRow, RecordFails, Ghosts
      <4>2. (g.exploded \/ 0 > 1) = g.exploded
        BY <3>1, <4>1
      <4>3. ghost = [ghost EXCEPT ![w].exploded = g.exploded]
        BY <1>1 DEF Ghosts
      <4> QED
        BY <4>1, <4>2, <4>3
    <3>4. \/ counters' = [counters EXCEPT ![w].read = @ + 1, ![w].skipped = @ + 1]
          \/ counters' = [counters EXCEPT ![w].read = @ + 1, ![w].error = @ + 1]
      BY <1>1, <2>2 DEF SkipRow, RecordFails, CountRecordError
    <3> QED
      BY <3>1, <3>2, <3>3, <3>4
  <2> QED
    BY <2>1, <2>2
<1>5. /\ task' = [task EXCEPT ![w] = u] /\ u \in Tasks /\ u.pc = "row"
      /\ u.batch = t.batch /\ u.inflight = t.inflight /\ u.failure = t.failure
      /\ u.closing = t.closing /\ u.entries = n
  <2> DEFINE v == t.rows - 1
  <2>1. task' = [task EXCEPT ![w].rows = v, ![w].entries = n] /\ v \in 0..FetchSize
    BY <1>3, <1>4
  <2> HIDE DEF v
  <2> QED
    BY <1>1, <1>2, <2>1 DEF Tasks
<1>6. /\ ghost' = [ghost EXCEPT ![w] = h] /\ h \in Ghosts
      /\ h.landed = g.landed /\ h.pushed = g.pushed /\ h.credited = g.credited
      /\ (g.exploded => h.exploded) /\ (n > 1 => h.exploded)
  <2> DEFINE e == g.exploded \/ n > 1
  <2>1. ghost' = [ghost EXCEPT ![w].exploded = e] /\ e \in BOOLEAN
    BY <1>4
  <2>2. (g.exploded => e) /\ (n > 1 => e)
    OBVIOUS
  <2> HIDE DEF e
  <2>3. /\ ghost' = [ghost EXCEPT ![w] = h] /\ h = [g EXCEPT !.exploded = e]
    BY <1>1, <2>1
  <2>4. /\ h \in Ghosts /\ h.exploded = e
        /\ h.landed = g.landed /\ h.pushed = g.pushed /\ h.credited = g.credited
    BY <1>1, <2>1, <2>3 DEF Ghosts
  <2> QED
    BY <2>2, <2>3, <2>4
<1>7. /\ counters' = [counters EXCEPT ![w] = d] /\ d \in Counters
      /\ d.write = c.write /\ d.unflushed = c.unflushed
      /\ n <= 1 => d.read + c.skipped + c.error + t.entries = c.read + d.skipped + d.error + n
  <2> SUFFICES /\ d \in Counters
               /\ d.write = c.write /\ d.unflushed = c.unflushed
               /\ n <= 1 => d.read + c.skipped + c.error + t.entries = c.read + d.skipped + d.error + n
    BY <1>1, <1>4
  <2>1. c.read + 1 \in Nat /\ c.skipped + 1 \in Nat /\ c.error + 1 \in Nat
    BY <1>1
  <2>2. CASE n = 0 /\ counters' = [counters EXCEPT ![w].read = @ + 1, ![w].skipped = @ + 1]
    <3>1. d = [c EXCEPT !.read = c.read + 1, !.skipped = c.skipped + 1]
      BY <1>1, <2>2
    <3>2. d = [c EXCEPT !.read = c.read + 1, !.skipped = c.skipped + 1, !.error = c.error]
      BY <1>1, <3>1 DEF Counters
    <3> QED
      BY <1>1, <2>1, <2>2, <3>2 DEF Counters
  <2>3. CASE n = 0 /\ counters' = [counters EXCEPT ![w].read = @ + 1, ![w].error = @ + 1]
    <3>1. d = [c EXCEPT !.read = c.read + 1, !.error = c.error + 1]
      BY <1>1, <2>3
    <3> QED
      BY <1>1, <2>1, <2>3, <3>1 DEF Counters
  <2>4. CASE n > 0 /\ counters' = [counters EXCEPT ![w].read = @ + 1]
    <3>1. d = [c EXCEPT !.read = c.read + 1]
      BY <1>1, <2>4
    <3> QED
      BY <1>1, <2>1, <2>4, <3>1 DEF Counters
  <2> QED
    BY <1>4, <2>2, <2>3, <2>4
<1>8. n <= 1 \/ h.exploded
  BY <1>6, SizesAssumption
<1>9. Good(counterRun, batchSize, t, c, g)
  BY DEF GoodAt
<1> HIDE DEF u, d, h, t, c, g
<1>10. Good(counterRun, batchSize, u, d, h)
  BY <1>1, <1>2, <1>5, <1>6, <1>7, <1>8, <1>9, RowGood, SMTT(30)
<1>11. permits' \in Nat /\ permits' + Len(u.inflight) = permits + Len(task[w].inflight)
  BY <1>1, <1>2, <1>5 DEF t
<1> QED
  BY <1>5, <1>6, <1>7, <1>10, <1>11, MovesBy

\* ERR-005: an entry that does not bind makes its row an error.
LEMMA BindFailsMoves ==
    ASSUME TypeOK, NEW w \in Workers, GoodAt(w), BindFails(w)
    PROVE  Moves(w)
<1> DEFINE t == task[w]
           c == counters[w]
           g == ghost[w]
           u == [t EXCEPT !.entries = 0]
           d == Charged(c, 1)
<1>1. /\ t \in Tasks /\ c \in Counters /\ g \in Ghosts
      /\ counterRun \in BOOLEAN /\ batchSize \in Nat \ {0} /\ permits \in Nat
      /\ task \in [Workers -> Tasks] /\ counters \in [Workers -> Counters]
  BY Local DEF TypeOK
<1>2. t.pc = "row" /\ t.entries > 0 /\ permits' = permits /\ ghost' = ghost
  BY DEF BindFails, ReadyToPush, At
<1>3. task' = [task EXCEPT ![w] = u] /\ counters' = [counters EXCEPT ![w] = d]
  BY <1>1 DEF BindFails, Charged
<1>4. ghost' = [ghost EXCEPT ![w] = g]
  BY <1>2, Alone
<1>5. /\ u \in Tasks /\ u.pc = "row" /\ u.batch = t.batch /\ u.inflight = t.inflight
      /\ u.failure = t.failure /\ u.closing = t.closing /\ u.entries = 0
  <2>1. 0 \in 0..MaxExplode
    BY SizesAssumption
  <2> QED
    BY <1>1, <1>2, <2>1 DEF Tasks
<1>6. /\ d \in Counters /\ d.error = c.error + 1 /\ d.read = c.read /\ d.write = c.write
      /\ d.skipped = c.skipped /\ d.unflushed = c.unflushed
  BY <1>1, ChargedCounters
<1>7. Good(counterRun, batchSize, t, c, g) /\ Balanced(t, c, g)
  BY DEF GoodAt, Good
<1> HIDE DEF u, d, t, c, g
<1>8. /\ t.entries \in Nat /\ c.read \in Nat /\ c.skipped \in Nat /\ c.error \in Nat
  BY <1>1, Fields
<1>9. \/ g.exploded
      \/ d.read + c.skipped + c.error + t.entries = c.read + d.skipped + d.error + u.entries
  <2> SUFFICES ASSUME ~g.exploded
               PROVE  d.read + c.skipped + c.error + t.entries = c.read + d.skipped + d.error + u.entries
    OBVIOUS
  <2>1. t.entries = 1
    BY <1>2, <1>7, <1>8 DEF Balanced
  <2> QED
    BY <1>5, <1>6, <1>8, <2>1
<1>10. u.entries <= 1 \/ g.exploded
  BY <1>5
<1>11. Good(counterRun, batchSize, u, d, g)
  BY <1>1, <1>2, <1>5, <1>6, <1>7, <1>9, <1>10, RowGood, SMTT(30)
<1>12. permits' \in Nat /\ permits' + Len(u.inflight) = permits + Len(task[w].inflight)
  BY <1>1, <1>2, <1>5 DEF t
<1> QED
  BY <1>1, <1>3, <1>4, <1>5, <1>6, <1>11, <1>12, MovesBy

-----------------------------------------------------------------------------
(* Writes.                                                                  *)

\* An entry is buffered, sent, or (l = 1) written at once: what that makes of the range.
Issues(cr, bs, t, c, g, u, d, h, l) ==
    /\ t.pc \in Going /\ t.entries > 0
    /\ u.pc = (IF ShouldFlush(c.unflushed + 1) THEN "flush" ELSE "row")
    /\ u.entries = t.entries - 1 /\ u.failure = t.failure /\ u.closing = t.closing
    /\ d.unflushed = c.unflushed + 1 /\ d.read = c.read /\ d.write = c.write
    /\ d.skipped = c.skipped /\ d.error = c.error
    /\ h.landed = g.landed + l /\ h.credited = g.credited /\ h.exploded = g.exploded
    /\ h.pushed = g.pushed + (IF t.entries = 1 THEN 1 ELSE 0)
    /\ u.batch + SeqSum(u.inflight) + l = t.batch + SeqSum(t.inflight) + 1
    /\ u.batch < bs /\ \A i \in DOMAIN u.inflight : u.inflight[i] <= bs
    /\ cr => u.inflight = <<>>

\* It is counted in UNFLUSHED.
LEMMA IssueGood ==
    ASSUME NEW cr \in BOOLEAN, NEW bs \in Nat \ {0},
           NEW t \in Tasks, NEW c \in Counters, NEW g \in Ghosts, Good(cr, bs, t, c, g),
           NEW u \in Tasks, NEW d \in Counters, NEW h \in Ghosts, NEW l \in Nat,
           Issues(cr, bs, t, c, g, u, d, h, l)
    PROVE  Good(cr, bs, u, d, h)
<1> USE DEF Issues
<1> DEFINE a == SeqSum(t.inflight)
           b == SeqSum(u.inflight)
<1>1. Placed(cr, bs, t) /\ Accounted(t, a, c, g) /\ Balanced(t, c, g)
  BY DEF Good
<1>2. /\ t.entries \in Nat /\ t.batch \in Nat /\ c.read \in Nat /\ c.write \in Nat /\ c.skipped \in Nat
      /\ c.error \in Nat /\ c.unflushed \in Nat /\ a \in Nat
      /\ g.landed \in Nat /\ g.pushed \in Nat /\ g.credited \in Nat
  BY Fields
<1>3. u.entries \in Nat /\ u.batch \in Nat /\ b \in Nat
  BY Fields
<1>4. FlushThreshold \in Nat \ {0}
  BY SizesAssumption
<1>5. ~t.closing /\ ~t.failure /\ t.pc \notin Over /\ (cr => bs = 1)
  BY <1>1 DEF Placed, Going, Over
<1>6. u.pc \in {"flush", "row"} /\ (u.pc \in Going => c.unflushed + 1 < FlushThreshold)
  BY <1>2, <1>4 DEF ShouldFlush, Going
<1>7. u.batch + b + l = t.batch + a + 1
  OBVIOUS
<1> HIDE DEF a, b
<1>8. Placed(cr, bs, u)
  BY <1>5, <1>6 DEF Placed, Over
<1>9. Accounted(u, b, d, h)
  <2>1. /\ c.write <= g.landed /\ c.unflushed < FlushThreshold
        /\ t.batch + a + g.landed = c.write + c.unflushed
    BY <1>1, <1>5 DEF Accounted
  <2>2. /\ u.batch + b + (g.landed + l) = c.write + (c.unflushed + 1)
        /\ c.write <= g.landed + l /\ c.unflushed + 1 <= FlushThreshold
    <3> DEFINE tb == t.batch
               ub == u.batch
               la == g.landed
               wr == c.write
               un == c.unflushed
    <3>1. /\ tb \in Nat /\ ub \in Nat /\ la \in Nat /\ wr \in Nat /\ un \in Nat
          /\ FlushThreshold \in Nat /\ a \in Nat /\ b \in Nat /\ l \in Nat
      BY <1>2, <1>3, <1>4
    <3>2. ub + b + l = tb + a + 1 /\ tb + a + la = wr + un /\ wr <= la /\ un < FlushThreshold
      BY <1>7, <2>1
    <3> HIDE DEF tb, ub, la, wr, un
    <3>3. ub + b + (la + l) = wr + (un + 1) /\ wr <= la + l /\ un + 1 <= FlushThreshold
      BY <3>1, <3>2
    <3> QED
      BY <3>3 DEF ub, la, wr, un
  <2>3. /\ u.batch + b + h.landed = d.write + d.unflushed
        /\ d.write <= h.landed /\ d.unflushed <= FlushThreshold
    BY <2>2
  <2>4. u.pc \in Going => d.unflushed < FlushThreshold
    BY <1>6
  <2>5. u.batch + b + h.landed <= d.write + d.unflushed
    <3>1. d.write + d.unflushed \in Nat
      BY <1>2, SMTT(30)
    <3> QED
      BY <2>3, <3>1
  <2> QED
    BY <1>6, <2>3, <2>4, <2>5 DEF Accounted
<1>10. Balanced(u, d, h)
  <2> SUFFICES ASSUME ~g.exploded
               PROVE  /\ u.entries <= 1
                      /\ d.read = d.write + d.skipped + d.error + d.unflushed + u.entries
                      /\ h.pushed = d.unflushed /\ h.credited = d.write
    BY <1>6 DEF Balanced, Over
  <2>1. /\ c.read = c.write + c.skipped + c.error + c.unflushed + t.entries
        /\ t.entries <= 1 /\ g.pushed = c.unflushed /\ g.credited = c.write
    BY <1>1, <1>5 DEF Balanced
  <2>2. t.entries = 1
    BY <1>2, <2>1
  <2>3. u.entries = 0 /\ h.pushed = g.pushed + 1
    BY <2>2
  <2>4. h.pushed = d.unflushed /\ h.credited = d.write
    BY <2>1, <2>3
  <2>5. d.read = d.write + d.skipped + d.error + d.unflushed + u.entries
    <3> DEFINE wr == c.write
               sk == c.skipped
               er == c.error
               un == c.unflushed
    <3>1. wr \in Nat /\ sk \in Nat /\ er \in Nat /\ un \in Nat
      BY <1>2
    <3>2. d.read = wr + sk + er + un + 1
      BY <2>1, <2>2
    <3>3. d.write = wr /\ d.skipped = sk /\ d.error = er /\ d.unflushed = un + 1
      OBVIOUS
    <3> HIDE DEF wr, sk, er, un
    <3>4. wr + sk + er + un + 1 = wr + sk + er + (un + 1) + 0
      BY <3>1
    <3> QED
      BY <2>3, <3>2, <3>3, <3>4
  <2> QED
    BY <2>3, <2>4, <2>5
<1> QED
  BY <1>8, <1>9, <1>10 DEF Good, b

\* count_issued(), whatever buffer v the write was put in.
LEMMA CountIssuedMoves ==
    ASSUME TypeOK, NEW w \in Workers, GoodAt(w), NEW v \in Tasks, CountIssued(w, v),
           task[w].pc \in Going, task[w].entries > 0, ~counterRun,
           v.entries = task[w].entries, v.failure = task[w].failure, v.closing = task[w].closing,
           v.batch + SeqSum(v.inflight) = task[w].batch + SeqSum(task[w].inflight) + 1,
           v.batch < batchSize, \A i \in DOMAIN v.inflight : v.inflight[i] <= batchSize,
           permits' \in Nat, permits' + Len(v.inflight) = permits + Len(task[w].inflight)
    PROVE  Moves(w)
<1> DEFINE t == task[w]
           c == counters[w]
           g == ghost[w]
           p == IF ShouldFlush(c.unflushed + 1) THEN "flush" ELSE "row"
           n == t.entries - 1
           m == c.unflushed + 1
           k == g.pushed + (IF t.entries = 1 THEN 1 ELSE 0)
           u == [v EXCEPT !.entries = n, !.pc = p]
           d == [c EXCEPT !.unflushed = m]
           h == [g EXCEPT !.landed = g.landed, !.pushed = k]
<1>1. /\ t \in Tasks /\ c \in Counters /\ g \in Ghosts
      /\ counterRun \in BOOLEAN /\ batchSize \in Nat \ {0} /\ permits \in Nat
      /\ task \in [Workers -> Tasks] /\ counters \in [Workers -> Counters]
      /\ ghost \in [Workers -> Ghosts]
  BY Local DEF TypeOK
<1>2. task' = [task EXCEPT ![w] = u]
  BY <1>1 DEF CountIssued
<1>3. counters' = [counters EXCEPT ![w] = d]
  BY <1>1 DEF CountIssued
<1>4. ghost' = [ghost EXCEPT ![w] = h]
  <2>1. ghost' = [ghost EXCEPT ![w].pushed = k]
    BY <1>1 DEF CountIssued
  <2> HIDE DEF k
  <2>2. h = [g EXCEPT !.pushed = k]
    BY <1>1 DEF Ghosts
  <2> HIDE DEF h
  <2> QED
    BY <1>1, <2>1, <2>2
<1>5. /\ t.entries \in 0..MaxExplode /\ c.unflushed \in Nat /\ g.landed \in Nat /\ g.pushed \in Nat
      /\ v.batch \in Nat /\ SeqSum(v.inflight) \in Nat
  BY <1>1, Fields
<1>6. n \in 0..MaxExplode /\ m \in Nat /\ p \in {"flush", "row"} /\ k \in Nat
  <2>1. n \in 0..MaxExplode
    BY <1>5, SizesAssumption, SMTT(30)
  <2>2. m \in Nat /\ k \in Nat
    BY <1>5, SMTT(30)
  <2>3. p \in {"flush", "row"}
    OBVIOUS
  <2> QED
    BY <2>1, <2>2, <2>3
<1>7. /\ u = [v EXCEPT !.entries = n, !.pc = p] /\ d = [c EXCEPT !.unflushed = m]
      /\ h = [g EXCEPT !.landed = g.landed, !.pushed = k]
      /\ m = c.unflushed + 1 /\ n = t.entries - 1 /\ k = g.pushed + (IF t.entries = 1 THEN 1 ELSE 0)
      /\ p = IF ShouldFlush(c.unflushed + 1) THEN "flush" ELSE "row"
  OBVIOUS
<1> HIDE DEF n, m, p, k, u, d, h
<1>8. /\ u \in Tasks /\ u.entries = n /\ u.pc = p /\ u.batch = v.batch
      /\ u.inflight = v.inflight /\ u.failure = v.failure /\ u.closing = v.closing
  BY <1>6, <1>7 DEF Tasks
<1>9. /\ d \in Counters /\ d.unflushed = m /\ d.read = c.read /\ d.write = c.write
      /\ d.skipped = c.skipped /\ d.error = c.error
  BY <1>1, <1>6, <1>7 DEF Counters
<1>10. /\ h \in Ghosts /\ h.landed = g.landed /\ h.pushed = k /\ h.credited = g.credited
       /\ h.exploded = g.exploded
  BY <1>1, <1>5, <1>6, <1>7 DEF Ghosts
<1>11. h.landed = g.landed + 0
  BY <1>5, <1>10
<1>12. u.batch + SeqSum(u.inflight) + 0 = t.batch + SeqSum(t.inflight) + 1
  BY <1>5, <1>8
<1>13. /\ Good(counterRun, batchSize, t, c, g) /\ t.pc \in Going /\ t.entries > 0
       /\ u.batch < batchSize /\ \A i \in DOMAIN u.inflight : u.inflight[i] <= batchSize
       /\ u.failure = t.failure /\ u.closing = t.closing
       /\ permits' + Len(u.inflight) = permits + Len(task[w].inflight)
  BY <1>8 DEF GoodAt
<1> HIDE DEF t, c, g
<1>14. Good(counterRun, batchSize, u, d, h)
  <2>1. /\ u.pc = IF ShouldFlush(c.unflushed + 1) THEN "flush" ELSE "row"
        /\ u.entries = t.entries - 1 /\ d.unflushed = c.unflushed + 1
        /\ h.pushed = g.pushed + (IF t.entries = 1 THEN 1 ELSE 0)
    BY <1>7, <1>8, <1>9, <1>10
  <2>2. Issues(counterRun, batchSize, t, c, g, u, d, h, 0)
    BY <1>8, <1>9, <1>10, <1>11, <1>12, <1>13, <2>1 DEF Issues
  <2> QED
    BY <1>1, <1>8, <1>9, <1>10, <1>13, <2>2, IssueGood
<1> QED
  BY <1>2, <1>3, <1>4, <1>8, <1>9, <1>10, <1>13, <1>14, MovesBy

\* A buffer with one more write in flight.
LEMMA IssuedSizes ==
    ASSUME NEW s \in Counts, NEW size \in Nat \ {0}, NEW bs \in Nat, size <= bs,
           \A i \in DOMAIN s : s[i] <= bs, NEW x, x = Sent(s, size)
    PROVE  /\ x \in Counts /\ Len(x) = Len(s) + 1 /\ Len(s) \in Nat
           /\ SeqSum(x) = SeqSum(s) + size /\ \A i \in DOMAIN x : x[i] <= bs
<1>1. /\ x \in Counts /\ Len(x) = Len(s) + 1 /\ SeqSum(x) = SeqSum(s) + size
      /\ \A i \in DOMAIN x : (i \in DOMAIN s /\ x[i] = s[i]) \/ x[i] = size
  BY SumAppend
<1> QED
  BY <1>1, CountsFacts

\* A task with that buffer.
WithWrite(t, size, b) == [t EXCEPT !.inflight = Append(t.inflight, size), !.batch = b]
LEMMA IssuedWrite ==
    ASSUME NEW t \in Tasks, NEW size \in Nat \ {0}, NEW b \in Nat, NEW bs \in Nat, size <= bs,
           \A i \in DOMAIN t.inflight : t.inflight[i] <= bs,
           NEW v, v = WithWrite(t, size, b)
    PROVE  /\ v \in Tasks /\ v.batch = b /\ v.pc = t.pc /\ v.entries = t.entries
           /\ v.failure = t.failure /\ v.closing = t.closing
           /\ SeqSum(v.inflight) = SeqSum(t.inflight) + size
           /\ Len(v.inflight) = Len(t.inflight) + 1 /\ Len(t.inflight) \in Nat
           /\ \A i \in DOMAIN v.inflight : v.inflight[i] <= bs
<1> DEFINE s == t.inflight
           x == Sent(s, size)
<1>1. s \in Counts /\ \A i \in DOMAIN s : s[i] <= bs
  BY DEF Tasks, Counts
<1>2. v = [t EXCEPT !.inflight = x, !.batch = b]
  BY DEF WithWrite, Sent
<1>3. x = Sent(s, size)
  OBVIOUS
<1> HIDE DEF x
<1>4. v.inflight = x
  BY <1>2 DEF Tasks
<1>5. /\ x \in Counts /\ Len(x) = Len(s) + 1 /\ Len(s) \in Nat
      /\ SeqSum(x) = SeqSum(s) + size /\ \A i \in DOMAIN x : x[i] <= bs
  <2> HIDE DEF s
  <2> QED
    BY <1>1, <1>3, IssuedSizes
<1>6. /\ v \in Tasks /\ v.batch = b /\ v.pc = t.pc /\ v.entries = t.entries
      /\ v.failure = t.failure /\ v.closing = t.closing
  BY <1>2, <1>5 DEF Tasks, Counts
<1> QED
  BY <1>4, <1>5, <1>6

\* A row joins a batch that has room for it.
LEMMA PushToBatchMoves ==
    ASSUME TypeOK, NEW w \in Workers, GoodAt(w), PushToBatch(w)
    PROVE  Moves(w)
<1> DEFINE t == task[w]
           b == t.batch + 1
           v == [t EXCEPT !.batch = b]
<1>1. /\ t \in Tasks /\ batchSize \in Nat /\ permits \in Nat /\ Placed(counterRun, batchSize, t)
      /\ counterRun \in BOOLEAN
  BY Local DEF GoodAt, Good
<1>2. /\ t.batch \in Nat /\ SeqSum(t.inflight) \in Nat
  BY <1>1, Local, Fields
<1>3. /\ t.pc = "row" /\ t.entries > 0 /\ batchSize > 1 /\ b < batchSize /\ permits' = permits
      /\ CountIssued(w, v)
  BY DEF PushToBatch, HasRoom, ReadyToPush, At
<1>4. b \in Nat /\ b + SeqSum(t.inflight) = t.batch + SeqSum(t.inflight) + 1
  BY <1>2
<1> HIDE DEF b
<1>5. /\ v \in Tasks /\ v.batch = b /\ v.inflight = t.inflight /\ v.entries = t.entries
      /\ v.failure = t.failure /\ v.closing = t.closing
  BY <1>1, <1>4 DEF Tasks
<1>6. ~counterRun /\ \A i \in DOMAIN t.inflight : t.inflight[i] <= batchSize
  BY <1>1, <1>3 DEF Placed
<1> HIDE DEF v
<1>7. /\ v.batch + SeqSum(v.inflight) = t.batch + SeqSum(t.inflight) + 1
      /\ v.batch < batchSize /\ \A i \in DOMAIN v.inflight : v.inflight[i] <= batchSize
      /\ permits' \in Nat /\ permits' + Len(v.inflight) = permits + Len(t.inflight)
  BY <1>1, <1>3, <1>4, <1>5, <1>6
<1> QED
  BY <1>3, <1>5, <1>6, <1>7, CountIssuedMoves DEF Going

\* A write that waited for a slot gets it: a single write, a full batch or a finished partition.
LEMMA SendMoves ==
    ASSUME TypeOK, NEW w \in Workers, GoodAt(w),
           SendSingle(w) \/ SendFullBatch(w) \/ SendPartition(w)
    PROVE  Moves(w)
<1> DEFINE t == task[w]
<1>1. /\ t \in Tasks /\ batchSize \in Nat \ {0} /\ permits \in Nat
      /\ Placed(counterRun, batchSize, t) /\ counterRun \in BOOLEAN
  BY Local DEF GoodAt, Good
<1>2. /\ t.batch \in Nat /\ SeqSum(t.inflight) \in Nat
  BY <1>1, Local, Fields
<1>3. permits > 0 /\ permits' = permits - 1
  BY DEF SendSingle, SendFullBatch, SendPartition, TakeSlot
<1>4. PICK size \in Nat \ {0}, b \in Nat :
        /\ CountIssued(w, WithWrite(t, size, b)) /\ size <= batchSize /\ b < batchSize
        /\ b + size = t.batch + 1 /\ t.pc \in Going /\ t.entries > 0 /\ ~counterRun
  <2>1. CASE SendSingle(w)
    <3>1. t.entries > 0 /\ batchSize = 1 /\ ~counterRun /\ t.batch < batchSize /\ t.pc = "single"
      BY <1>1, <2>1 DEF SendSingle, At, Placed
    <3>2. t.batch = 0
      BY <1>2, <3>1
    <3>3. CountIssued(w, Issued(t, 1))
      BY <2>1 DEF SendSingle
    <3>4. Issued(t, 1) = WithWrite(t, 1, 0)
      BY <1>1, <3>2 DEF Issued, WithWrite, Tasks
    <3>5. CountIssued(w, WithWrite(t, 1, 0))
      BY <3>3, <3>4, Zenon
    <3> QED
      BY <3>1, <3>2, <3>5 DEF Going
  <2>2. CASE SendFullBatch(w)
    <3>1. t.entries > 0 /\ t.batch + 1 = batchSize /\ ~counterRun /\ t.pc = "full"
      BY <1>1, <2>2 DEF SendFullBatch, At, Placed
    <3>2. CountIssued(w, [Issued(t, batchSize) EXCEPT !.batch = 0])
      BY <2>2 DEF SendFullBatch
    <3>3. [Issued(t, batchSize) EXCEPT !.batch = 0] = WithWrite(t, batchSize, 0)
      BY <1>1 DEF Issued, WithWrite, Tasks
    <3>4. CountIssued(w, WithWrite(t, batchSize, 0))
      BY <3>2, <3>3, Zenon
    <3> QED
      BY <1>1, <1>2, <3>1, <3>4 DEF Going
  <2>3. CASE SendPartition(w)
    <3>1. t.entries > 0 /\ t.batch > 0 /\ ~counterRun /\ t.batch < batchSize /\ t.pc = "switch"
      BY <1>1, <2>3 DEF SendPartition, At, Placed
    <3>2. CountIssued(w, [Issued(t, t.batch) EXCEPT !.batch = 1])
      BY <2>3 DEF SendPartition
    <3>3. [Issued(t, t.batch) EXCEPT !.batch = 1] = WithWrite(t, t.batch, 1)
      BY <1>1 DEF Issued, WithWrite, Tasks
    <3>4. CountIssued(w, WithWrite(t, t.batch, 1))
      BY <3>2, <3>3, Zenon
    <3> QED
      BY <1>1, <1>2, <3>1, <3>4 DEF Going
  <2> QED
    BY <2>1, <2>2, <2>3
<1> DEFINE v == WithWrite(t, size, b)
<1>5. \A i \in DOMAIN t.inflight : t.inflight[i] <= batchSize
  BY <1>1 DEF Placed
<1>6. v = WithWrite(t, size, b) /\ CountIssued(w, v)
  BY <1>4
<1> HIDE DEF v
<1>7. /\ v \in Tasks /\ v.batch = b /\ v.pc = t.pc /\ v.entries = t.entries
      /\ v.failure = t.failure /\ v.closing = t.closing
      /\ SeqSum(v.inflight) = SeqSum(t.inflight) + size
      /\ Len(v.inflight) = Len(t.inflight) + 1 /\ Len(t.inflight) \in Nat
      /\ \A i \in DOMAIN v.inflight : v.inflight[i] <= batchSize
  BY <1>1, <1>4, <1>5, <1>6, IssuedWrite, SMTT(30)
<1>8. /\ v.batch + SeqSum(v.inflight) = t.batch + SeqSum(t.inflight) + 1
      /\ v.batch < batchSize
      /\ permits' \in Nat /\ permits' + Len(v.inflight) = permits + Len(t.inflight)
  BY <1>1, <1>2, <1>3, <1>4, <1>7, SMTT(30)
<1> QED
  BY <1>4, <1>6, <1>7, <1>8, CountIssuedMoves

\* A counter delta is written and awaited before the next row.
LEMMA PushCounterMoves ==
    ASSUME TypeOK, NEW w \in Workers, GoodAt(w), PushCounter(w)
    PROVE  Moves(w)
<1> DEFINE t == task[w]
           c == counters[w]
           g == ghost[w]
           p == IF ShouldFlush(c.unflushed + 1) THEN "flush" ELSE "row"
           n == t.entries - 1
           m == c.unflushed + 1
           l == g.landed + 1
           k == g.pushed + (IF t.entries = 1 THEN 1 ELSE 0)
           u == [t EXCEPT !.entries = n, !.pc = p]
           d == [c EXCEPT !.unflushed = m]
           h == [g EXCEPT !.landed = l, !.pushed = k]
<1>1. /\ t \in Tasks /\ c \in Counters /\ g \in Ghosts
      /\ counterRun \in BOOLEAN /\ batchSize \in Nat \ {0} /\ permits \in Nat
      /\ task \in [Workers -> Tasks] /\ counters \in [Workers -> Counters]
      /\ ghost \in [Workers -> Ghosts] /\ Placed(counterRun, batchSize, t)
  BY Local DEF TypeOK, GoodAt, Good
<1>2. t.pc = "row" /\ t.entries > 0 /\ counterRun /\ permits' = permits
  BY DEF PushCounter, ReadyToPush, At
<1>3. /\ task' = [task EXCEPT ![w] = u] /\ counters' = [counters EXCEPT ![w] = d]
  BY <1>1 DEF PushCounter
<1>4. ghost' = [ghost EXCEPT ![w] = h]
  BY <1>1 DEF PushCounter
<1>5. /\ t.entries \in 0..MaxExplode /\ c.unflushed \in Nat /\ g.landed \in Nat /\ g.pushed \in Nat
      /\ t.batch \in Nat /\ SeqSum(t.inflight) \in Nat
  BY <1>1, Fields
<1>6. n \in 0..MaxExplode /\ m \in Nat /\ p \in {"flush", "row"} /\ k \in Nat /\ l \in Nat
  <2>1. n \in 0..MaxExplode
    BY <1>2, <1>5, SizesAssumption
  <2>2. m \in Nat /\ k \in Nat /\ l \in Nat
    BY <1>5
  <2>3. p \in {"flush", "row"}
    OBVIOUS
  <2> QED
    BY <2>1, <2>2, <2>3
<1>7. /\ u = [t EXCEPT !.entries = n, !.pc = p] /\ d = [c EXCEPT !.unflushed = m]
      /\ h = [g EXCEPT !.landed = l, !.pushed = k] /\ l = g.landed + 1
      /\ m = c.unflushed + 1 /\ n = t.entries - 1 /\ k = g.pushed + (IF t.entries = 1 THEN 1 ELSE 0)
      /\ p = IF ShouldFlush(c.unflushed + 1) THEN "flush" ELSE "row"
  OBVIOUS
<1> HIDE DEF n, m, p, k, l, u, d, h
<1>8. /\ u \in Tasks /\ u.entries = n /\ u.pc = p /\ u.batch = t.batch
      /\ u.inflight = t.inflight /\ u.failure = t.failure /\ u.closing = t.closing
  BY <1>1, <1>6, <1>7 DEF Tasks
<1>9. /\ d \in Counters /\ d.unflushed = m /\ d.read = c.read /\ d.write = c.write
      /\ d.skipped = c.skipped /\ d.error = c.error
  BY <1>1, <1>6, <1>7 DEF Counters
<1>10. /\ h \in Ghosts /\ h.landed = l /\ h.pushed = k /\ h.credited = g.credited
       /\ h.exploded = g.exploded
  BY <1>1, <1>6, <1>7 DEF Ghosts
<1>11. /\ t.inflight = <<>> /\ t.batch < batchSize
       /\ \A i \in DOMAIN t.inflight : t.inflight[i] <= batchSize
  BY <1>1, <1>2 DEF Placed
<1>12. /\ Good(counterRun, batchSize, t, c, g) /\ t.pc \in Going /\ t.entries > 0
       /\ u.batch < batchSize /\ \A i \in DOMAIN u.inflight : u.inflight[i] <= batchSize
       /\ u.inflight = <<>> /\ u.batch + SeqSum(u.inflight) + 1 = t.batch + SeqSum(t.inflight) + 1
       /\ permits' \in Nat /\ permits' + Len(u.inflight) = permits + Len(task[w].inflight)
  BY <1>1, <1>2, <1>8, <1>11 DEF GoodAt, Going
<1> HIDE DEF t, c, g
<1>13. Good(counterRun, batchSize, u, d, h)
  <2>1. /\ u.pc = IF ShouldFlush(c.unflushed + 1) THEN "flush" ELSE "row"
        /\ u.entries = t.entries - 1 /\ d.unflushed = c.unflushed + 1 /\ h.landed = g.landed + 1
        /\ h.pushed = g.pushed + (IF t.entries = 1 THEN 1 ELSE 0)
    BY <1>7, <1>8, <1>9, <1>10
  <2>2. Issues(counterRun, batchSize, t, c, g, u, d, h, 1)
    BY <1>8, <1>9, <1>10, <1>12, <2>1 DEF Issues
  <2> QED
    BY <1>1, <1>8, <1>9, <1>10, <1>12, <2>2, IssueGood
<1> QED
  BY <1>3, <1>4, <1>8, <1>9, <1>10, <1>12, <1>13, MovesBy

-----------------------------------------------------------------------------
(* Flushing.                                                                *)

\* What a flush waits for changes hands: from the batch to the writes in flight (l = 0), or from a
\* write in flight, of size k, to the target, unless that write fails.
LEMMA DrainGood ==
    ASSUME NEW cr \in BOOLEAN, NEW bs \in Nat \ {0},
           NEW t \in Tasks, NEW c \in Counters, NEW g \in Ghosts, Good(cr, bs, t, c, g),
           NEW u \in Tasks, NEW h \in Ghosts, NEW k \in Nat, NEW l \in Nat,
           t.pc \in {"flush", "drain"}, u.pc = "drain", u.batch = 0,
           u.entries = t.entries, u.closing = t.closing, ~cr,
           \A i \in DOMAIN u.inflight : u.inflight[i] <= bs,
           t.batch + SeqSum(t.inflight) = SeqSum(u.inflight) + k, l <= k,
           ~u.failure => l = k /\ ~t.failure,
           h.landed = g.landed + l, h.pushed = g.pushed, h.credited = g.credited,
           h.exploded = g.exploded
    PROVE  Good(cr, bs, u, c, h)
<1> DEFINE a == SeqSum(t.inflight)
           b == SeqSum(u.inflight)
<1>1. Placed(cr, bs, t) /\ Accounted(t, a, c, g) /\ Balanced(t, c, g)
  BY DEF Good
<1>2. /\ t.batch \in Nat /\ c.write \in Nat /\ c.unflushed \in Nat /\ a \in Nat /\ g.landed \in Nat
  BY Fields
<1>3. b \in Nat
  BY Fields
<1>4. t.batch + a = b + k
  OBVIOUS
<1> HIDE DEF a, b
<1>5. Placed(cr, bs, u)
  BY <1>1 DEF Placed, Over, Going
<1>6. Accounted(u, b, c, h)
  <2>1. /\ c.write <= g.landed /\ c.unflushed <= FlushThreshold
        /\ t.batch + a + g.landed <= c.write + c.unflushed
        /\ ~u.failure => t.batch + a + g.landed = c.write + c.unflushed
    BY <1>1 DEF Accounted, Over
  <2> DEFINE tb == t.batch
             la == g.landed
             wr == c.write
             un == c.unflushed
  <2>2. /\ tb \in Nat /\ la \in Nat /\ wr \in Nat /\ un \in Nat /\ a \in Nat /\ b \in Nat
        /\ tb + a = b + k /\ tb + a + la <= wr + un /\ wr <= la
    BY <1>2, <1>3, <1>4, <2>1
  <2>3. ~u.failure => l = k /\ tb + a + la = wr + un
    BY <2>1
  <2>4. u.batch = 0 /\ h.landed = la + l
    OBVIOUS
  <2> HIDE DEF tb, la, wr, un
  <2>5. wr <= la + l /\ 0 + b + (la + l) <= wr + un
    BY <2>2
  <2>6. l = k /\ tb + a + la = wr + un => 0 + b + (la + l) = wr + un
    BY <2>2
  <2>7. /\ c.write <= h.landed /\ u.batch + b + h.landed <= c.write + c.unflushed
        /\ ~u.failure => u.batch + b + h.landed = c.write + c.unflushed
    BY <2>3, <2>4, <2>5, <2>6 DEF wr, un
  <2> QED
    BY <2>1, <2>7 DEF Accounted, Going
<1>7. Balanced(u, c, h)
  BY <1>1 DEF Balanced, Over
<1> QED
  BY <1>5, <1>6, <1>7 DEF Good, b

\* The rest of the batch is sent.
LEMMA FlushBatchMoves ==
    ASSUME TypeOK, NEW w \in Workers, GoodAt(w), FlushBatch(w)
    PROVE  Moves(w)
<1> DEFINE t == task[w]
           c == counters[w]
           g == ghost[w]
           v == WithWrite(t, t.batch, 0)
           u == [v EXCEPT !.pc = "drain"]
<1>1. /\ t \in Tasks /\ c \in Counters /\ g \in Ghosts
      /\ counterRun \in BOOLEAN /\ batchSize \in Nat \ {0} /\ permits \in Nat
      /\ task \in [Workers -> Tasks] /\ Placed(counterRun, batchSize, t)
      /\ Good(counterRun, batchSize, t, c, g)
  BY Local DEF TypeOK, GoodAt, Good
<1>2. /\ t.pc = "flush" /\ t.batch > 0 /\ permits > 0 /\ permits' = permits - 1
      /\ counters' = counters /\ ghost' = ghost
  BY DEF FlushBatch, At, TakeSlot
<1>3. task' = [task EXCEPT ![w] = u]
  <2>1. task' = [task EXCEPT ![w] = [Issued(t, t.batch) EXCEPT !.batch = 0, !.pc = "drain"]]
    BY <1>1 DEF FlushBatch
  <2>2. [Issued(t, t.batch) EXCEPT !.batch = 0, !.pc = "drain"] = u
    BY <1>1 DEF Issued, WithWrite, Tasks
  <2> QED
    BY <2>1, <2>2
<1>4. /\ t.batch \in Nat \ {0} /\ SeqSum(t.inflight) \in Nat /\ g.landed \in Nat
  BY <1>1, <1>2, Fields
<1>5. /\ t.batch <= batchSize /\ ~counterRun /\ ~t.failure
      /\ \A i \in DOMAIN t.inflight : t.inflight[i] <= batchSize
  BY <1>1, <1>2, <1>4 DEF Placed
<1>6. /\ v \in Tasks /\ v.batch = 0 /\ v.entries = t.entries
      /\ v.failure = t.failure /\ v.closing = t.closing
      /\ SeqSum(v.inflight) = SeqSum(t.inflight) + t.batch
      /\ Len(v.inflight) = Len(t.inflight) + 1 /\ Len(t.inflight) \in Nat
      /\ \A i \in DOMAIN v.inflight : v.inflight[i] <= batchSize
  <2> DEFINE size == t.batch
  <2>1. v = WithWrite(t, size, 0) /\ size \in Nat \ {0} /\ size <= batchSize
    BY <1>4, <1>5
  <2> HIDE DEF v, size
  <2>2. /\ v \in Tasks /\ v.batch = 0 /\ v.entries = t.entries
        /\ v.failure = t.failure /\ v.closing = t.closing
        /\ SeqSum(v.inflight) = SeqSum(t.inflight) + size
        /\ Len(v.inflight) = Len(t.inflight) + 1 /\ Len(t.inflight) \in Nat
        /\ \A i \in DOMAIN v.inflight : v.inflight[i] <= batchSize
    BY <1>1, <1>5, <2>1, IssuedWrite
  <2> QED
    BY <2>2 DEF size
<1>7. u = [v EXCEPT !.pc = "drain"]
  OBVIOUS
<1> HIDE DEF v, u
<1>8. /\ u \in Tasks /\ u.pc = "drain" /\ u.batch = 0 /\ u.entries = t.entries
      /\ u.failure = t.failure /\ u.closing = t.closing /\ u.inflight = v.inflight
  BY <1>6, <1>7 DEF Tasks
<1>9. /\ t.batch + SeqSum(t.inflight) = SeqSum(u.inflight) + 0 /\ g.landed = g.landed + 0
      /\ permits' \in Nat /\ permits' + Len(u.inflight) = permits + Len(t.inflight)
      /\ \A i \in DOMAIN u.inflight : u.inflight[i] <= batchSize
  <2>1. t.batch + SeqSum(t.inflight) = SeqSum(u.inflight) + 0 /\ g.landed = g.landed + 0
    BY <1>4, <1>6, <1>8
  <2>2. permits' \in Nat /\ permits' + Len(u.inflight) = permits + Len(t.inflight)
    BY <1>1, <1>2, <1>6, <1>8
  <2> QED
    BY <1>6, <1>8, <2>1, <2>2
<1>10. Good(counterRun, batchSize, u, c, g)
  <2> HIDE DEF t, c, g
  <2>1. ~u.failure => 0 = 0 /\ ~t.failure
    BY <1>8
  <2> QED
    BY <1>1, <1>2, <1>5, <1>8, <1>9, <2>1, DrainGood, SMTT(30)
<1>11. counters' = [counters EXCEPT ![w] = c] /\ ghost' = [ghost EXCEPT ![w] = g]
  BY <1>2, Alone
<1> QED
  BY <1>1, <1>3, <1>8, <1>9, <1>10, <1>11, MovesBy

\* A write in flight completes, and lands or fails.
LEMMA WriteEndsMoves ==
    ASSUME TypeOK, NEW w \in Workers, GoodAt(w), WriteLands(w) \/ WriteFails(w)
    PROVE  Moves(w)
<1> DEFINE t == task[w]
           c == counters[w]
           g == ghost[w]
           s == t.inflight
           u == task'[w]
           h == ghost'[w]
<1>1. /\ t \in Tasks /\ c \in Counters /\ g \in Ghosts
      /\ counterRun \in BOOLEAN /\ batchSize \in Nat \ {0} /\ permits \in Nat
      /\ task \in [Workers -> Tasks] /\ ghost \in [Workers -> Ghosts]
      /\ Placed(counterRun, batchSize, t) /\ Good(counterRun, batchSize, t, c, g)
  BY Local DEF TypeOK, GoodAt, Good
<1>2. /\ t.pc = "drain" /\ permits' = permits + 1 /\ counters' = counters
  BY DEF WriteLands, WriteFails, At, ReturnPermit
<1>3. s \in Counts /\ Len(s) \in Nat /\ g.landed \in Nat /\ t.failure \in BOOLEAN /\ SeqSum(s) \in Nat
  BY <1>1, Fields, CountsFacts
<1>4. PICK i \in 1..Len(s), f \in BOOLEAN, l \in Nat :
        /\ task' = [task EXCEPT ![w].inflight = RemoveAt(s, i), ![w].failure = f]
        /\ ghost' = [ghost EXCEPT ![w].landed = g.landed + l]
        /\ l <= s[i] /\ (~f => l = s[i] /\ ~t.failure)
  <2>1. CASE WriteLands(w)
    <3>1. PICK i \in 1..Len(s) :
            /\ task' = [task EXCEPT ![w].inflight = RemoveAt(@, i)]
            /\ ghost' = [ghost EXCEPT ![w].landed = @ + s[i]]
      BY <2>1 DEF WriteLands
    <3> DEFINE x == RemoveAt(s, i)
    <3>2. task' = [task EXCEPT ![w].inflight = x]
      BY <1>1, <3>1
    <3>3. ghost' = [ghost EXCEPT ![w].landed = g.landed + s[i]]
      BY <1>1, <3>1
    <3> HIDE DEF x
    <3>4. task' = [task EXCEPT ![w].inflight = x, ![w].failure = t.failure]
      BY <1>1, <3>2 DEF Tasks
    <3>5. s[i] \in Nat
      BY <1>3, CountsFacts
    <3>6. /\ task' = [task EXCEPT ![w].inflight = RemoveAt(s, i), ![w].failure = t.failure]
          /\ s[i] <= s[i]
      BY <3>4, <3>5 DEF x
    <3> QED
      BY <1>3, <3>3, <3>5, <3>6, Zenon
  <2>2. CASE WriteFails(w)
    <3>1. PICK i \in 1..Len(s) :
            task' = [task EXCEPT ![w].inflight = RemoveAt(@, i), ![w].failure = TRUE]
      BY <2>2 DEF WriteFails
    <3>2. task' = [task EXCEPT ![w].inflight = RemoveAt(s, i), ![w].failure = TRUE]
      BY <1>1, <3>1
    <3>3. ghost' = [ghost EXCEPT ![w].landed = g.landed + 0]
      <4>1. ghost' = ghost /\ g.landed + 0 = g.landed
        BY <1>3, <2>2 DEF WriteFails
      <4> QED
        BY <1>1, <4>1 DEF Ghosts
    <3>4. 0 \in Nat /\ 0 <= s[i] /\ TRUE \in BOOLEAN
      BY <1>3, CountsFacts
    <3> QED
      BY <3>2, <3>3, <3>4, Zenon
  <2> QED
    BY <2>1, <2>2
<1> DEFINE x == RemoveAt(s, i)
           m == g.landed + l
<1>5. /\ x \in Counts /\ Len(x) = Len(s) - 1 /\ SeqSum(s) = SeqSum(x) + s[i]
      /\ \A j \in DOMAIN x : \E q \in DOMAIN s : x[j] = s[q]
  <2>1. x = RemoveAt(s, i)
    OBVIOUS
  <2> HIDE DEF x, s
  <2> QED
    BY <1>3, <2>1, SumRemove
<1>6. /\ task' = [task EXCEPT ![w] = u] /\ u = [t EXCEPT !.inflight = x, !.failure = f]
  BY <1>1, <1>4
<1>7. /\ ghost' = [ghost EXCEPT ![w] = h] /\ h = [g EXCEPT !.landed = m] /\ m \in Nat
  BY <1>1, <1>3, <1>4
<1>8. m = g.landed + l
  OBVIOUS
<1>9. s[i] \in Nat /\ SeqSum(x) \in Nat
  BY <1>3, <1>5, CountsFacts, SumType
<1>10. /\ \A j \in DOMAIN s : s[j] <= batchSize
       /\ t.batch = 0 /\ ~counterRun
  <2>1. s # <<>>
    BY <1>3, EmptySeq
  <2> QED
    BY <1>1, <1>2, <2>1 DEF Placed
<1>11. \A j \in DOMAIN x : x[j] <= batchSize
  BY <1>5, <1>10
<1> HIDE DEF x, m, u, h
<1>12. /\ u \in Tasks /\ u.pc = "drain" /\ u.batch = 0 /\ u.entries = t.entries
       /\ u.closing = t.closing /\ u.failure = f /\ u.inflight = x
  BY <1>1, <1>2, <1>5, <1>6, <1>10 DEF Tasks, Counts
<1>13. /\ h \in Ghosts /\ h.landed = m /\ h.pushed = g.pushed /\ h.credited = g.credited
       /\ h.exploded = g.exploded
  BY <1>1, <1>7 DEF Ghosts
<1>14. /\ t.batch + SeqSum(t.inflight) = SeqSum(u.inflight) + s[i]
       /\ h.landed = g.landed + l /\ (~u.failure => l = s[i] /\ ~t.failure)
       /\ permits' \in Nat /\ permits' + Len(u.inflight) = permits + Len(t.inflight)
       /\ \A j \in DOMAIN u.inflight : u.inflight[j] <= batchSize
  <2>1. t.batch + SeqSum(t.inflight) = SeqSum(u.inflight) + s[i]
    BY <1>3, <1>5, <1>9, <1>10, <1>12
  <2>2. h.landed = g.landed + l /\ (~u.failure => l = s[i] /\ ~t.failure)
    BY <1>4, <1>8, <1>12, <1>13
  <2>3. permits' \in Nat /\ permits' + Len(u.inflight) = permits + Len(t.inflight)
    BY <1>1, <1>2, <1>3, <1>5, <1>12
  <2>4. \A j \in DOMAIN u.inflight : u.inflight[j] <= batchSize
    BY <1>11, <1>12
  <2> QED
    BY <2>1, <2>2, <2>3, <2>4
<1>15. Good(counterRun, batchSize, u, c, h)
  <2> DEFINE k == s[i]
  <2>1. /\ k \in Nat /\ l <= k /\ t.batch + SeqSum(t.inflight) = SeqSum(u.inflight) + k
        /\ ~u.failure => l = k /\ ~t.failure
    BY <1>4, <1>9, <1>14
  <2> HIDE DEF t, c, g, k
  <2> QED
    BY <1>1, <1>2, <1>10, <1>12, <1>13, <1>14, <2>1, DrainGood, SMTT(30)
<1>16. counters' = [counters EXCEPT ![w] = c]
  BY <1>2, Alone
<1> QED
  BY <1>1, <1>6, <1>7, <1>12, <1>13, <1>14, <1>15, <1>16, MovesBy

\* MIG-005: every write of the flush landed, and WRITE is credited with all of them.
LEMMA FlushSucceedsMoves ==
    ASSUME TypeOK, NEW w \in Workers, GoodAt(w), FlushSucceeds(w)
    PROVE  Moves(w)
<1> DEFINE t == task[w]
           c == counters[w]
           g == ghost[w]
           p == AfterFlush(w)
           n == c.write + c.unflushed
           m == g.credited + g.pushed
           u == [t EXCEPT !.pc = p]
           d == [c EXCEPT !.write = n, !.unflushed = 0]
           h == [g EXCEPT !.credited = m, !.pushed = 0]
<1>1. /\ t \in Tasks /\ c \in Counters /\ g \in Ghosts
      /\ counterRun \in BOOLEAN /\ batchSize \in Nat \ {0} /\ permits \in Nat
      /\ task \in [Workers -> Tasks] /\ counters \in [Workers -> Counters]
      /\ ghost \in [Workers -> Ghosts]
      /\ Placed(counterRun, batchSize, t) /\ Accounted(t, SeqSum(t.inflight), c, g)
      /\ Balanced(t, c, g)
  BY Local DEF TypeOK, GoodAt, Good
<1>2. /\ t.pc = "drain" /\ t.inflight = <<>> /\ ~t.failure /\ permits' = permits
  BY DEF FlushSucceeds, Drained, AllLanded, At
<1>3. /\ task' = [task EXCEPT ![w] = u] /\ counters' = [counters EXCEPT ![w] = d]
  BY <1>1 DEF FlushSucceeds, Credit
<1>4. ghost' = [ghost EXCEPT ![w] = h]
  BY <1>1 DEF FlushSucceeds
<1>5. /\ c.write \in Nat /\ c.unflushed \in Nat /\ c.read \in Nat /\ c.skipped \in Nat /\ c.error \in Nat
      /\ g.credited \in Nat /\ g.pushed \in Nat /\ g.landed \in Nat /\ t.entries \in Nat
      /\ t.closing \in BOOLEAN
  BY <1>1, Fields
<1>6. /\ n \in Nat /\ m \in Nat
      /\ p = IF t.closing THEN "page" ELSE "row"
  BY <1>5 DEF AfterFlush
<1>7. /\ u = [t EXCEPT !.pc = p] /\ d = [c EXCEPT !.write = n, !.unflushed = 0]
      /\ h = [g EXCEPT !.credited = m, !.pushed = 0]
      /\ n = c.write + c.unflushed /\ m = g.credited + g.pushed
  OBVIOUS
<1>8. t.batch = 0 /\ (t.closing => t.entries = 0)
  BY <1>1, <1>2 DEF Placed
<1>9. SeqSum(t.inflight) = 0
  BY <1>2, SumEmpty
<1>10. g.landed = n /\ c.unflushed <= FlushThreshold
  <2>1. t.batch + SeqSum(t.inflight) + g.landed = c.write + c.unflushed
    BY <1>1, <1>2 DEF Accounted, Over
  <2> QED
    BY <1>1, <1>5, <1>8, <1>9, <2>1 DEF Accounted
<1>11. ~g.exploded => /\ c.read = c.write + c.skipped + c.error + c.unflushed + t.entries
                      /\ g.pushed = c.unflushed /\ g.credited = c.write /\ t.entries <= 1
  BY <1>1, <1>2 DEF Balanced, Over
<1> HIDE DEF n, m, p, u, d, h
<1>12. /\ u \in Tasks /\ u.pc = p /\ u.batch = t.batch /\ u.inflight = t.inflight
       /\ u.entries = t.entries /\ u.failure = t.failure /\ u.closing = t.closing
  BY <1>1, <1>6, <1>7 DEF Tasks
<1>13. /\ d \in Counters /\ d.write = n /\ d.unflushed = 0 /\ d.read = c.read
       /\ d.skipped = c.skipped /\ d.error = c.error
  BY <1>1, <1>6, <1>7 DEF Counters
<1>14. /\ h \in Ghosts /\ h.credited = m /\ h.pushed = 0 /\ h.landed = g.landed
       /\ h.exploded = g.exploded
  BY <1>1, <1>6, <1>7 DEF Ghosts
<1>15. Placed(counterRun, batchSize, u)
  BY <1>1, <1>2, <1>6, <1>8, <1>12 DEF Placed, Over, Going
<1>16. Accounted(u, 0, d, h)
  <2>1. u.batch = 0 /\ d.write = h.landed /\ d.unflushed = 0 /\ d.write \in Nat /\ u.pc # "passed"
    BY <1>6, <1>8, <1>10, <1>12, <1>13, <1>14
  <2>2. FlushThreshold \in Nat \ {0}
    BY SizesAssumption
  <2> QED
    BY <2>1, <2>2 DEF Accounted
<1>17. Balanced(u, d, h)
  <2> SUFFICES ASSUME ~g.exploded
               PROVE  /\ u.entries <= 1
                      /\ d.read = d.write + d.skipped + d.error + d.unflushed + u.entries
                      /\ h.pushed = d.unflushed /\ h.credited = d.write
    BY <1>6, <1>12, <1>14 DEF Balanced, Over
  <2>1. m = n
    BY <1>7, <1>11
  <2>2. c.read = n + c.skipped + c.error + 0 + t.entries
    BY <1>5, <1>7, <1>11
  <2> QED
    BY <1>11, <1>12, <1>13, <1>14, <2>1, <2>2
<1>18. Good(counterRun, batchSize, u, d, h)
  BY <1>9, <1>12, <1>15, <1>16, <1>17 DEF Good
<1>19. permits' \in Nat /\ permits' + Len(u.inflight) = permits + Len(t.inflight)
  BY <1>1, <1>2, <1>12
<1> QED
  BY <1>3, <1>4, <1>12, <1>13, <1>14, <1>18, <1>19, MovesBy

-----------------------------------------------------------------------------
(* The permits, over all workers.                                           *)

\* When one set of a family changes, the count changes by as much as that set.
LEMMA MembersMoved ==
    ASSUME NEW I, IsFiniteSet(I), NEW r \in I,
           NEW F, \A q \in I : IsFiniteSet(F[q]), NEW G, \A q \in I : IsFiniteSet(G[q]),
           \A q \in I \ {r} : G[q] = F[q]
    PROVE  /\ Cardinality(Members(I, F)) \in Nat /\ Cardinality(Members(I, G)) \in Nat
           /\ Cardinality(F[r]) \in Nat /\ Cardinality(G[r]) \in Nat
           /\ Cardinality(Members(I, G)) + Cardinality(F[r])
                = Cardinality(Members(I, F)) + Cardinality(G[r])
<1> DEFINE RF == Members(I \ {r}, F)
           RG == Members(I \ {r}, G)
<1>1. RF = RG
  BY DEF Members
<1>2. /\ IsFiniteSet(RF) /\ IsFiniteSet(Members(I, F))
      /\ Cardinality(Members(I, F)) = Cardinality(RF) + Cardinality(F[r])
  BY MembersSplit
<1>3. /\ IsFiniteSet(RG) /\ IsFiniteSet(Members(I, G))
      /\ Cardinality(Members(I, G)) = Cardinality(RG) + Cardinality(G[r])
  BY MembersSplit
<1> HIDE DEF RF, RG
<1>4. /\ Cardinality(RF) \in Nat /\ Cardinality(F[r]) \in Nat /\ Cardinality(G[r]) \in Nat
      /\ Cardinality(Members(I, F)) \in Nat /\ Cardinality(Members(I, G)) \in Nat
  BY <1>2, <1>3, FS_CardinalityType
<1> QED
  BY <1>1, <1>2, <1>3, <1>4

\* The other ranges stay as they are.
LEMMA Others ==
    ASSUME TypeOK, NEW w \in Workers, Moves(w)
    PROVE  /\ task' \in [Workers -> Tasks] /\ counters' \in [Workers -> Counters]
           /\ ghost' \in [Workers -> Ghosts]
           /\ \A q \in Workers \ {w} :
                task'[q] = task[q] /\ counters'[q] = counters[q] /\ ghost'[q] = ghost[q]
<1>1. /\ task \in [Workers -> Tasks] /\ counters \in [Workers -> Counters]
      /\ ghost \in [Workers -> Ghosts]
  BY DEF TypeOK
<1>2. task' \in [Workers -> Tasks] /\ \A q \in Workers \ {w} : task'[q] = task[q]
  <2> DEFINE u == task'[w]
  <2>1. task' = [task EXCEPT ![w] = u] /\ u \in Tasks
    BY DEF Moves
  <2> HIDE DEF u
  <2> QED
    BY <1>1, <2>1
<1>3. counters' \in [Workers -> Counters] /\ \A q \in Workers \ {w} : counters'[q] = counters[q]
  <2> DEFINE d == counters'[w]
  <2>1. counters' = [counters EXCEPT ![w] = d] /\ d \in Counters
    BY DEF Moves
  <2> HIDE DEF d
  <2> QED
    BY <1>1, <2>1
<1>4. ghost' \in [Workers -> Ghosts] /\ \A q \in Workers \ {w} : ghost'[q] = ghost[q]
  <2> DEFINE h == ghost'[w]
  <2>1. ghost' = [ghost EXCEPT ![w] = h] /\ h \in Ghosts
    BY DEF Moves
  <2> HIDE DEF h
  <2> QED
    BY <1>1, <2>1
<1> QED
  BY <1>2, <1>3, <1>4

\* The permits a worker takes or gives back are those of its writes in flight.
LEMMA PermitsStep ==
    ASSUME TypeOK, PermitsConserved, NEW w \in Workers, Moves(w)
    PROVE  permits' \in 0..MaxInflight /\ PermitsConserved'
<1> DEFINE F == [q \in Workers |-> 1..Len(task[q].inflight)]
           G == [q \in Workers |-> 1..Len(task'[q].inflight)]
<1>1. /\ \A q \in Workers : Len(task[q].inflight) \in Nat
      /\ \A q \in Workers : Len(task'[q].inflight) \in Nat
  <2>1. \A q \in Workers : task[q] \in Tasks /\ task'[q] \in Tasks
    BY Others DEF TypeOK
  <2>2. \A q \in Workers : task[q].inflight \in Counts /\ task'[q].inflight \in Counts
    BY <2>1 DEF Tasks, Counts
  <2> QED
    BY <2>2, CountsFacts
<1>2. \A q \in Workers :
        /\ IsFiniteSet(F[q]) /\ Cardinality(F[q]) = Len(task[q].inflight)
        /\ IsFiniteSet(G[q]) /\ Cardinality(G[q]) = Len(task'[q].inflight)
  <2> TAKE q \in Workers
  <2>1. F[q] = 1..Len(task[q].inflight) /\ G[q] = 1..Len(task'[q].inflight)
    OBVIOUS
  <2> HIDE DEF F, G
  <2> QED
    BY <1>1, <2>1, UnitsCount
<1>3. \A q \in Workers \ {w} : G[q] = F[q]
  BY Others
<1>4. UNION {Slots(q) : q \in Workers} = Members(Workers, F)
  <2>1. \A q \in Workers : Slots(q) = {q} \X F[q]
    BY DEF Slots
  <2> HIDE DEF F
  <2>2. {Slots(q) : q \in Workers} = {{q} \X F[q] : q \in Workers}
    BY <2>1
  <2> QED
    BY <2>2 DEF Members
<1>5. (UNION {Slots(q) : q \in Workers})' = Members(Workers, G)
  <2>1. (UNION {Slots(q) : q \in Workers})' = UNION {{q} \X (1..Len(task'[q].inflight)) : q \in Workers}
    BY DEF Slots
  <2>2. \A q \in Workers : G[q] = 1..Len(task'[q].inflight)
    OBVIOUS
  <2> HIDE DEF G
  <2>3. {{q} \X (1..Len(task'[q].inflight)) : q \in Workers} = {{q} \X G[q] : q \in Workers}
    BY <2>2
  <2> QED
    BY <2>1, <2>3 DEF Members
<1> HIDE DEF F, G
<1>6. /\ Cardinality(Members(Workers, F)) \in Nat /\ Cardinality(Members(Workers, G)) \in Nat
      /\ Cardinality(Members(Workers, G)) + Cardinality(F[w])
           = Cardinality(Members(Workers, F)) + Cardinality(G[w])
  BY <1>2, <1>3, WorkersFinite, MembersMoved
<1>7. /\ permits' \in Nat /\ permits \in Nat /\ MaxInflight \in Nat
      /\ permits' + Len(task'[w].inflight) = permits + Len(task[w].inflight)
  BY Local, SizesAssumption DEF Moves
<1>8. permits + Cardinality(Members(Workers, F)) = MaxInflight
  BY <1>4 DEF PermitsConserved
<1>9. permits' + Cardinality(Members(Workers, G)) = MaxInflight
  <2> DEFINE a == Cardinality(Members(Workers, F))
             b == Cardinality(Members(Workers, G))
             i == Len(task[w].inflight)
             j == Len(task'[w].inflight)
  <2>1. a \in Nat /\ b \in Nat /\ i \in Nat /\ j \in Nat /\ b + i = a + j
    BY <1>1, <1>2, <1>6
  <2>2. permits' + j = permits + i /\ permits + a = MaxInflight
    BY <1>7, <1>8
  <2> DEFINE q == permits'
  <2>3. q \in Nat /\ permits \in Nat /\ MaxInflight \in Nat /\ q + j = permits + i
    BY <1>7, <2>2
  <2> HIDE DEF a, b, i, j, q
  <2>4. q + b = MaxInflight
    BY <2>1, <2>2, <2>3
  <2> QED
    BY <2>4 DEF b, q
<1>10. permits' \in 0..MaxInflight
  BY <1>6, <1>7, <1>9
<1> QED
  BY <1>5, <1>9, <1>10 DEF PermitsConserved

-----------------------------------------------------------------------------
(* The invariant.                                                           *)

MigrateInv ==
    /\ TypeOK /\ PermitsConserved
    /\ \A w \in Workers : GoodAt(w)

\* Nothing was read, buffered or sent yet.
LEMMA MigrateInit == Init => MigrateInv
<1> SUFFICES ASSUME Init PROVE MigrateInv
  OBVIOUS
<1>1. /\ task = [w \in Workers |-> NewTask] /\ counters = [w \in Workers |-> NewCounters]
      /\ ghost = [w \in Workers |-> NewGhost] /\ permits = MaxInflight /\ killed = FALSE
      /\ counterRun \in BOOLEAN
  BY DEF Init
<1>2. /\ batchSize \in BatchSizes \cup {1} /\ batchSize \in Nat \ {0} /\ (counterRun => batchSize = 1)
  BY <1>1, SizesAssumption DEF Init, Coerced
<1>3. <<>> \in Seq(Nat \ {0}) /\ DOMAIN <<>> = {} /\ Len(<<>>) = 0
  BY EmptySeq
<1> DEFINE t == NewTask
<1>4. /\ t.pc = "page" /\ t.batch = 0 /\ t.inflight = <<>> /\ t.entries = 0 /\ t.failure = FALSE
      /\ t.closing = FALSE
  BY DEF NewTask
<1>5. NewTask \in Tasks
  <2>1. NumPages \in 0..NumPages /\ 0 \in 0..FetchSize /\ 0 \in 0..MaxExplode
    BY SizesAssumption
  <2> QED
    BY <1>3, <2>1 DEF NewTask, Tasks
<1>6. NewCounters \in Counters /\ NewGhost \in Ghosts
  BY DEF NewCounters, Counters, NewGhost, Ghosts
<1>7. Good(counterRun, batchSize, NewTask, NewCounters, NewGhost)
  <2>1. SeqSum(NewTask.inflight) = 0
    BY <1>4, SumEmpty
  <2>2. Placed(counterRun, batchSize, NewTask)
    <3> HIDE DEF t
    <3>1. Placed(counterRun, batchSize, t)
      BY <1>2, <1>3, <1>4 DEF Placed, Going, Over
    <3> QED
      BY <3>1 DEF t
  <2>3. Accounted(NewTask, 0, NewCounters, NewGhost)
    BY SizesAssumption DEF Accounted, NewTask, NewCounters, NewGhost, Going, Over
  <2>4. Balanced(NewTask, NewCounters, NewGhost)
    BY DEF Balanced, NewTask, NewCounters, NewGhost, Over
  <2> QED
    BY <2>1, <2>2, <2>3, <2>4 DEF Good
<1>8. \A w \in Workers : GoodAt(w)
  BY <1>1, <1>7 DEF GoodAt
<1>9. PermitsConserved
  <2>1. \A w \in Workers : Slots(w) = {}
    <3> TAKE w \in Workers
    <3>1. task[w].inflight = <<>>
      BY <1>1, <1>4
    <3> QED
      BY <1>3, <3>1 DEF Slots
  <2>2. UNION {Slots(w) : w \in Workers} = {}
    BY <2>1
  <2> QED
    BY <1>1, <2>2, FS_EmptySet, SizesAssumption DEF PermitsConserved
<1>10. TypeOK
  <2>1. \A w \in Workers : /\ task[w].batch < batchSize
                           /\ \A i \in DOMAIN task[w].inflight : task[w].inflight[i] <= batchSize
    BY <1>8 DEF GoodAt, Good, Placed
  <2>2. permits \in 0..MaxInflight /\ killed \in BOOLEAN
    <3>1. MaxInflight \in 0..MaxInflight
      BY SizesAssumption
    <3> QED
      BY <1>1, <3>1
  <2>3. /\ task \in [Workers -> Tasks] /\ counters \in [Workers -> Counters]
        /\ ghost \in [Workers -> Ghosts]
    BY <1>1, <1>5, <1>6
  <2> QED
    BY <1>1, <1>2, <2>1, <2>2, <2>3 DEF TypeOK
<1> QED
  BY <1>8, <1>9, <1>10 DEF MigrateInv

\* Every step of a worker is one of those above.
LEMMA StepMoves ==
    ASSUME TypeOK, NEW w \in Workers, GoodAt(w), RangeStep(w) \/ Abandon(w)
    PROVE  Moves(w)
<1>1. CASE Abandon(w)
  BY <1>1, AbandonMoves
<1>2. CASE PageStep(w)
  BY <1>2, NextPageMoves, LastPageMoves, FailMoves DEF PageStep
<1>3. CASE RowStep(w)
  BY <1>3, RowMoves, FailMoves, EndOfPageMoves DEF RowStep
<1>4. CASE PushStep(w)
  BY <1>4, BindFailsMoves, BindMoves, PushToBatchMoves, SendMoves, PushCounterMoves, FailMoves
     DEF PushStep
<1>5. CASE FlushStep(w)
  BY <1>5, FlushBatchMoves, FlushNoBatchMoves, WriteEndsMoves, FlushSucceedsMoves, FailMoves
     DEF FlushStep
<1> QED
  BY <1>1, <1>2, <1>3, <1>4, <1>5 DEF RangeStep

\* A step of a worker keeps the invariant.
LEMMA StepKeeps ==
    ASSUME MigrateInv, NEW w \in Workers, RangeStep(w) \/ Abandon(w)
    PROVE  MigrateInv'
<1>1. TypeOK /\ PermitsConserved /\ Moves(w)
  BY StepMoves DEF MigrateInv
<1>2. counterRun' = counterRun /\ batchSize' = batchSize
  BY DEF RangeStep, Abandon, settings
<1>3. killed' = killed
  BY DEF RangeStep, PageStep, RowStep, PushStep, FlushStep, CancelAtPage, NextPage, PageFails,
     LastPage, SkipRow, RecordFails, ShapeRow, RowFails, EndOfPage, BindFails, BindSingle,
     PushToBatch, BindFillsBatch, BindNewPartition, SendSingle, SendFullBatch, SendPartition,
     PushCounter, CounterFails, FlushBatch, FlushNoBatch, WriteLands, WriteFails, FlushSucceeds,
     FlushFails, FailRange, Abandon
<1>4. /\ task' \in [Workers -> Tasks] /\ counters' \in [Workers -> Counters]
      /\ ghost' \in [Workers -> Ghosts]
      /\ \A q \in Workers \ {w} :
           task'[q] = task[q] /\ counters'[q] = counters[q] /\ ghost'[q] = ghost[q]
  BY <1>1, Others
<1>5. \A q \in Workers : Good(counterRun, batchSize, task'[q], counters'[q], ghost'[q])
  BY <1>1, <1>4 DEF MigrateInv, GoodAt, Moves
<1>6. (\A q \in Workers : GoodAt(q))'
  BY <1>2, <1>5 DEF GoodAt
<1>7. permits' \in 0..MaxInflight /\ PermitsConserved'
  BY <1>1, PermitsStep
<1>8. TypeOK'
  <2>1. \A q \in Workers :
          /\ task'[q].batch < batchSize
          /\ \A i \in DOMAIN task'[q].inflight : task'[q].inflight[i] <= batchSize
    BY <1>5 DEF Good, Placed
  <2>2. counterRun' \in BOOLEAN /\ batchSize' \in BatchSizes \cup {1} /\ killed' \in BOOLEAN
    BY <1>1, <1>2, <1>3 DEF TypeOK
  <2> QED
    BY <1>2, <1>4, <1>7, <2>1, <2>2 DEF TypeOK
<1> QED
  BY <1>6, <1>7, <1>8 DEF MigrateInv

\* Killing the run changes nothing that the invariant speaks of.
LEMMA QuietKeeps ==
    ASSUME MigrateInv, killed' \in BOOLEAN, UNCHANGED <<settings, task, counters, permits, ghost>>
    PROVE  MigrateInv'
BY DEF MigrateInv, TypeOK, PermitsConserved, Slots, GoodAt, settings

\* Every step of the job keeps the invariant.
LEMMA MigrateNext == MigrateInv /\ [Next]_vars => MigrateInv'
<1> SUFFICES ASSUME MigrateInv, [Next]_vars PROVE MigrateInv'
  OBVIOUS
<1>1. killed \in BOOLEAN
  BY DEF MigrateInv, TypeOK
<1>2. CASE UNCHANGED vars
  BY <1>1, <1>2, QuietKeeps DEF vars
<1>3. CASE Kill
  BY <1>3, QuietKeeps DEF Kill
<1>4. CASE Terminated
  BY <1>1, <1>4, QuietKeeps DEF Terminated, vars
<1>5. CASE \E w \in Workers : RangeStep(w) \/ Abandon(w)
  BY <1>5, StepKeeps
<1> QED
  BY <1>2, <1>3, <1>4, <1>5 DEF Next

\* The invariant holds in every state of every run.
THEOREM MigrateInvariant == Spec => []MigrateInv
BY MigrateInit, MigrateNext, PTL DEF Spec

-----------------------------------------------------------------------------
(* The theorems.                                                            *)

\* Every variable of the job keeps its type: the semaphore never hands out more than it has, and no
\* batch outgrows the batch size of the run (WriteBuffer).
THEOREM MigrateTypes == Spec => []TypeOK
BY MigrateInvariant, PTL DEF MigrateInv

\* ENG-007: no path out of a range, and no order in which writes complete, leaks a permit of the
\* shared write semaphore or returns one twice (InflightPermit, hold).
THEOREM MigratePermits == Spec => []PermitsConserved
BY MigrateInvariant, PTL DEF MigrateInv

\* MIG-005: WRITE never counts a row that did not reach the target, and a range that passes has
\* counted every row that did (WriteBuffer::flush).
THEOREM MigrateWrites == Spec => []WriteIsLanded
<1>1. MigrateInv => WriteIsLanded
  <2> SUFFICES ASSUME MigrateInv, NEW w \in Workers
               PROVE  /\ counters[w].write <= ghost[w].landed
                      /\ At(w, "passed") => counters[w].write = ghost[w].landed /\ counters[w].unflushed = 0
    BY DEF WriteIsLanded
  <2>1. Accounted(task[w], SeqSum(task[w].inflight), counters[w], ghost[w])
    BY DEF MigrateInv, GoodAt, Good
  <2> QED
    BY <2>1 DEF Accounted, At
<1> QED
  BY <1>1, MigrateInvariant, PTL

\* MIG-004: UNFLUSHED covers everything in a worker's buffer and never exceeds the flush threshold,
\* whatever the batch size and however rows explode (WriteBuffer::push, should_flush).
THEOREM MigrateBuffer == Spec => []BufferBounded
<1>1. MigrateInv => BufferBounded
  <2> SUFFICES ASSUME MigrateInv, NEW w \in Workers
               PROVE  counters[w].unflushed <= FlushThreshold /\ Buffered(w) <= counters[w].unflushed
    BY DEF BufferBounded
  <2> DEFINE t == task[w]
             c == counters[w]
             g == ghost[w]
             sum == SeqSum(t.inflight)
  <2>1. Accounted(t, sum, c, g) /\ t \in Tasks /\ c \in Counters /\ g \in Ghosts
    BY Local DEF MigrateInv, GoodAt, Good
  <2>2. t.batch \in Nat /\ sum \in Nat /\ c.write \in Nat /\ c.unflushed \in Nat /\ g.landed \in Nat
    BY <2>1, Fields
  <2>3. /\ c.unflushed <= FlushThreshold /\ c.write <= g.landed
        /\ t.batch + sum + g.landed <= c.write + c.unflushed
    BY <2>1 DEF Accounted
  <2>4. t.batch + sum <= c.unflushed
    <3> HIDE DEF t, c, g, sum
    <3> QED
      BY <2>2, <2>3
  <2> QED
    BY <2>3, <2>4 DEF Buffered
<1> QED
  BY <1>1, MigrateInvariant, PTL

\* ENG-008: unless a row exploded, a range that passes has accounted for every row it read, and one
\* that fails misses none that was neither credited nor skipped (process_page, fail_range).
THEOREM MigrateBalances == Spec => []RowsBalance
<1>1. MigrateInv => RowsBalance
  BY DEF MigrateInv, GoodAt, Good, Balanced, RowsBalance, At
<1> QED
  BY <1>1, MigrateInvariant, PTL
=============================================================================
