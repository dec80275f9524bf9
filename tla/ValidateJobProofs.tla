-------------------------- MODULE ValidateJobProofs --------------------------
(***************************************************************************)
(* Proofs about the validate job, for every set of ranges, every content of *)
(* the two tables, every batch size, number of permits and configuration.   *)
(***************************************************************************)
EXTENDS ValidateJob, FiniteSetTheorems, SequenceTheorems, TLAPS

-----------------------------------------------------------------------------
(* The parts of the inductive invariant, about one range each.              *)

Kind(rec) == Compare(rec.origin, rec.got)

\* A buffered record is as it was read, and an answered lookup saw the row as it is.
InBatch(rec) ==
    /\ rec.origin \in Nat \cup {Null} /\ rec.target \in Nat \cup {Null, Absent}
    /\ rec.was = rec.target
    /\ rec.lookup # "pending" => rec.got = rec.target

\* What the place a range has got to says about its batch.
Placed(t, b, d) ==
    /\ t.pc # "ended" => d = 0 /\ t.status = "STARTED" /\ t.cause = "none"
    /\ t.pc = "read" => Len(b) < FetchSize
    /\ t.pc = "enqueue" => t.entries > 0 /\ Len(b) + t.entries < FetchSize + MaxExplode
    /\ t.pc # "enqueue" => t.entries = 0
    /\ t.pc = "ended" => b = <<>>
    /\ t.pc = "correct" =>
         b # <<>> /\ b[1].lookup = "done" /\ Kind(b[1]) # "valid" /\ Corrects(Kind(b[1]))
    /\ \A i \in DOMAIN b : InBatch(b[i])

\* The rows read and not yet classified are in the batch or about to enter it.
Waiting(t, b) == Len(b) + t.entries - (IF t.pc = "correct" THEN 1 ELSE 0)
Balanced(t, b, d, c) ==
    /\ t.pc # "ended" =>
         /\ c.error = 0 /\ c.read <= Classified(c) + Waiting(t, b)
         /\ ~On("explode") => c.read = Classified(c) + Waiting(t, b)
         /\ On("explode") \/ t.entries <= 1
    /\ t.status = "FAIL" =>
         /\ ~On("explode") => c.read = Classified(c) + c.error
         /\ c.error <= c.read
    /\ t.cause = "cancelled" => d = 0 /\ c.error = 0

\* The record being corrected is the only discrepancy not yet sent to the report; the file has no
\* mark and no record but those of what was sent.
Reported(t, c, rep) == On("report") =>
    /\ t.pc # "ended" => Found(c) = Sent(rep) + (IF t.pc = "correct" THEN 1 ELSE 0)
    /\ \/ Found(c) = Sent(rep)
       \/ /\ Found(c) = Sent(rep) + 1
          /\ t.pc = "correct" \/ t.cause \in {"error", "abandoned"}
    /\ rep.corrected <= Repaired(c)
    /\ rep.total - rep.corrected + Repaired(c) <= Sent(rep)

\* A compared record agreed untouched, or was corrected as far as it can be, or is still one of the
\* discrepancies that the counters of its kind leave uncorrected.
Due(t, b, kind) == IF t.pc = "correct" /\ Kind(b[1]) = kind THEN 1 ELSE 0
LeftMissing(t, b, c) == c.missing > c.correctedMissing + Due(t, b, "missing")
LeftMismatch(t, b, c) == c.mismatch > c.correctedMismatch + Due(t, b, "mismatch")
Untouched(rec) == rec.target = rec.was /\ rec.got = rec.was /\ Kind(rec) = "valid"
Fixed(rec) ==
    /\ rec.target = Absent => rec.was = Absent /\ rec.newer
    /\ On("keysOnly") \/ Agrees(rec.origin, rec.target) \/ ~Reachable(rec)
Settling(t, b, c, recs) ==
    /\ t.pc # "ended" =>
         /\ c.missing >= c.correctedMissing + Due(t, b, "missing")
         /\ c.mismatch >= c.correctedMismatch + Due(t, b, "mismatch")
         /\ t.pc = "correct" => t.discrepancy
         /\ \A rec \in recs :
              \/ Untouched(rec)
              \/ t.discrepancy /\ (Fixed(rec) \/ LeftMissing(t, b, c) \/ LeftMismatch(t, b, c))
    /\ t.status \in {"PASS", "DIFF_CORRECTED"} =>
         \A rec \in recs : Untouched(rec) \/ (t.status = "DIFF_CORRECTED" /\ Fixed(rec))

\* A value on the target is the one it had, the one the origin has, or was asked for.
Known(rec) ==
    \/ rec.target \in {rec.was, rec.origin}
    \/ On("counter") /\ rec.target = Amount(rec.origin)
    \/ rec.was = Absent /\ (rec.target = Null \/ On("missingCounter"))

PlacedInv == \A r \in Ranges : Placed(task[r], batch[r], detached[r])
BalanceInv == \A r \in Ranges : Balanced(task[r], batch[r], detached[r], counters[r])
ReportInv == \A r \in Ranges : Reported(task[r], counters[r], report[r])
\* One write fails at most, and until then the file is what was counted.
SinkInv ==
    /\ On("report") /\ ~SinkBroken =>
         \A r \in Ranges : /\ report[r].total = report[r].counted
                           /\ report[r].corrected = Repaired(counters[r])
    /\ \A r, q \in Ranges : report[r].failed /\ report[q].failed => r = q
SettleInv == \A r \in Ranges : Settling(task[r], batch[r], counters[r], rows[r])

-----------------------------------------------------------------------------
(* Counters and records.                                                    *)

\* Counting events.
LEMMA Counted ==
    ASSUME NEW c \in Counters, NEW kind \in {"valid", "missing", "mismatch"},
           NEW n, n = [c EXCEPT ![kind] = @ + 1]
    PROVE  /\ n \in Counters
           /\ n.valid = IF kind = "valid" THEN c.valid + 1 ELSE c.valid
           /\ n.missing = IF kind = "missing" THEN c.missing + 1 ELSE c.missing
           /\ n.mismatch = IF kind = "mismatch" THEN c.mismatch + 1 ELSE c.mismatch
           /\ n.read = c.read /\ n.skipped = c.skipped /\ n.error = c.error
           /\ n.correctedMissing = c.correctedMissing /\ n.correctedMismatch = c.correctedMismatch
BY DEF Counters

\* Counting one correction.
LEMMA CountedCorrected ==
    ASSUME NEW c \in Counters, NEW name \in {"correctedMissing", "correctedMismatch"},
           NEW n, n = [c EXCEPT ![name] = @ + 1]
    PROVE  /\ n \in Counters
           /\ n.correctedMissing =
                IF name = "correctedMissing" THEN c.correctedMissing + 1 ELSE c.correctedMissing
           /\ n.correctedMismatch =
                IF name = "correctedMismatch" THEN c.correctedMismatch + 1 ELSE c.correctedMismatch
           /\ n.read = c.read /\ n.skipped = c.skipped /\ n.error = c.error
           /\ n.valid = c.valid /\ n.missing = c.missing /\ n.mismatch = c.mismatch
BY DEF Counters

\* The counters of the outcomes are the same.
SameOutcomes(n, c) ==
    /\ n.valid = c.valid /\ n.missing = c.missing /\ n.mismatch = c.mismatch
    /\ n.correctedMissing = c.correctedMissing /\ n.correctedMismatch = c.correctedMismatch

\* Charging the rows a failed range lost.
LEMMA CountedError ==
    ASSUME NEW c \in Counters, NEW er \in Nat, NEW n, n = [c EXCEPT !.error = er]
    PROVE  /\ n \in Counters /\ SameOutcomes(n, c)
           /\ n.read = c.read /\ n.skipped = c.skipped /\ n.error = er
BY DEF Counters, SameOutcomes

\* ENG-008's subtraction, one counter after the other, is one saturating subtraction.
LEMMA LostRowsIs ==
    ASSUME NEW c \in Counters
    PROVE  /\ LostRows(c) \in Nat /\ LostRows(c) <= c.read
           /\ c.read <= Classified(c) => LostRows(c) = 0
           /\ c.read >= Classified(c) => LostRows(c) = c.read - Classified(c)
<1>1. /\ c.read \in Nat /\ c.valid \in Nat /\ c.missing \in Nat /\ c.mismatch \in Nat
      /\ c.skipped \in Nat
  BY DEF Counters
<1> QED
  BY <1>1 DEF LostRows, Monus, Classified

\* Every outcome of a comparison has a counter of its own.
LEMMA Kinds == ASSUME NEW o, NEW g PROVE Compare(o, g) \in {"valid", "missing", "mismatch"}
BY DEF Compare

\* A record of the batch, with the answer to its own lookup, is itself.
LEMMA TopIsHead ==
    ASSUME NEW r \in Ranges, batch[r] \in Seq(Records), batch[r] # <<>>
    PROVE  Top(r) = batch[r][1] /\ batch[r][1] \in Records
<1>1. batch[r][1] \in Records
  BY EmptySeq, LenProperties
<1> QED
  BY <1>1 DEF Top, Answer, Records

\* What a correction writes.
LEMMA RewrittenIs ==
    ASSUME NEW r \in Ranges, batch[r][1] \in Records, InBatch(batch[r][1])
    PROVE  /\ Rewritten(r) \in Records
           /\ Rewritten(r) = [batch[r][1] EXCEPT !.target = Landed(batch[r][1])]
<1>1. Landed(batch[r][1]) \in Int
  BY DEF Landed, Delta, Amount, Unset, Bound, Records, InBatch, Absent, Null
<1> QED
  BY <1>1 DEF Rewritten, Records

\* What a write to the report may leave of a range's part of it.
LEMMA OutcomesAre ==
    ASSUME NEW rep \in Reports, NEW marked \in {0, 1}, rep.failed => SinkBroken,
           NEW new \in Outcomes(rep, marked)
    PROVE  /\ new \in Reports
           /\ ~On("report") => new = rep
           /\ On("report") =>
                /\ Sent(new) = Sent(rep) + 1
                /\ \/ new.total = rep.total /\ new.corrected = rep.corrected
                   \/ new.total = rep.total + 1 /\ new.corrected = rep.corrected + marked
           /\ rep.failed => new.failed
           /\ new.failed => rep.failed \/ ~SinkBroken
           /\ On("report") /\ ~SinkBroken /\ ~new.failed =>
                /\ new.total = rep.total + 1 /\ new.corrected = rep.corrected + marked
                /\ new.counted = rep.counted + 1
<1> DEFINE n == rep.total + 1
           m == rep.corrected + marked
           k == rep.counted + 1
           filed == [rep EXCEPT !.total = n, !.corrected = m]
<1>1. n \in Nat /\ m \in Nat /\ k \in Nat /\ rep.failed \in BOOLEAN /\ rep.counted \in Nat
  BY DEF Reports
<1>2. Filed(rep, marked) = filed
  BY DEF Filed, Reports
<1> HIDE DEF n, m
<1>3. /\ filed \in Reports /\ filed.total = n /\ filed.corrected = m
      /\ filed.counted = rep.counted /\ filed.failed = rep.failed
  BY <1>1 DEF Reports
<1> HIDE DEF k, filed
<1>4. ASSUME NEW x \in Reports
      PROVE  /\ [x EXCEPT !.counted = k] \in Reports /\ [x EXCEPT !.failed = TRUE] \in Reports
             /\ [x EXCEPT !.counted = k].counted = k /\ [x EXCEPT !.counted = k].failed = x.failed
             /\ [x EXCEPT !.counted = k].total = x.total
             /\ [x EXCEPT !.counted = k].corrected = x.corrected
             /\ [x EXCEPT !.failed = TRUE].failed /\ [x EXCEPT !.failed = TRUE].counted = x.counted
             /\ [x EXCEPT !.failed = TRUE].total = x.total
             /\ [x EXCEPT !.failed = TRUE].corrected = x.corrected
  BY <1>1 DEF Reports
<1>5. CASE ~On("report")
  BY <1>5 DEF Outcomes
<1>6. CASE On("report") /\ SinkBroken
  <2>1. new = [rep EXCEPT !.counted = k]
    BY <1>6 DEF Outcomes, k
  <2>2. new.counted = k /\ new.failed = rep.failed /\ new.total = rep.total
        /\ new.corrected = rep.corrected /\ new \in Reports
    BY <1>4, <2>1
  <2>3. Sent(new) = Sent(rep) + 1
    BY <1>1, <2>2 DEF Sent, k
  <2> QED
    BY <1>6, <2>2, <2>3
<1>7. CASE On("report") /\ ~SinkBroken
  <2>0. ~rep.failed
    BY <1>7
  <2>1. \/ new = [filed EXCEPT !.counted = k]
        \/ new = [rep EXCEPT !.failed = TRUE]
        \/ new = [filed EXCEPT !.failed = TRUE]
    <3>0. Outcomes(rep, marked) =
            {[Filed(rep, marked) EXCEPT !.counted = @ + 1], [rep EXCEPT !.failed = TRUE],
             [Filed(rep, marked) EXCEPT !.failed = TRUE]}
      BY <1>7, Zenon DEF Outcomes
    <3>1. new \in {[filed EXCEPT !.counted = @ + 1], [rep EXCEPT !.failed = TRUE],
                   [filed EXCEPT !.failed = TRUE]}
      BY <1>2, <3>0
    <3> QED
      BY <1>3, <3>1 DEF k
  <2>2. CASE new = [filed EXCEPT !.counted = k]
    <3>1. new.counted = k /\ ~new.failed /\ new.total = n /\ new.corrected = m /\ new \in Reports
      BY <1>3, <1>4, <2>0, <2>2
    <3>2. Sent(new) = Sent(rep) + 1
      BY <1>1, <2>0, <3>1 DEF Sent, k
    <3> QED
      BY <1>7, <2>0, <3>1, <3>2 DEF n, m, k
  <2>3. CASE new = [rep EXCEPT !.failed = TRUE]
    <3>1. new.counted = rep.counted /\ new.failed /\ new.total = rep.total
          /\ new.corrected = rep.corrected /\ new \in Reports
      BY <1>4, <2>3
    <3>2. Sent(new) = Sent(rep) + 1
      BY <1>1, <2>0, <3>1 DEF Sent
    <3> QED
      BY <1>7, <3>1, <3>2
  <2>4. CASE new = [filed EXCEPT !.failed = TRUE]
    <3>1. new.counted = rep.counted /\ new.failed /\ new.total = n /\ new.corrected = m
          /\ new \in Reports
      BY <1>3, <1>4, <2>4
    <3>2. Sent(new) = Sent(rep) + 1
      BY <1>1, <2>0, <3>1 DEF Sent
    <3> QED
      BY <1>7, <3>1, <3>2 DEF n, m
  <2> QED
    BY <2>1, <2>2, <2>3, <2>4
<1> QED
  BY <1>5, <1>6, <1>7

-----------------------------------------------------------------------------
(* A step is a step of one range.                                           *)

\* What any step of range r leaves alone, and the types it keeps.
Moves(r) ==
    /\ conf' = conf
    /\ task' = [task EXCEPT ![r] = task'[r]] /\ task'[r] \in Tasks
    /\ batch' = [batch EXCEPT ![r] = batch'[r]] /\ batch'[r] \in Seq(Records)
    /\ detached' = [detached EXCEPT ![r] = detached'[r]] /\ detached'[r] \in Nat
    /\ counters' = [counters EXCEPT ![r] = counters'[r]] /\ counters'[r] \in Counters
    /\ report' = [report EXCEPT ![r] = report'[r]] /\ report'[r] \in Reports
    /\ rows' = [rows EXCEPT ![r] = rows'[r]] /\ rows'[r] \subseteq Records

\* The types of one range's state, with what its tasks, records and counters are kept folded.
LEMMA Local ==
    ASSUME TypeOK, NEW r \in Ranges
    PROVE  /\ task \in [Ranges -> Tasks] /\ task[r] \in Tasks
           /\ batch \in [Ranges -> Seq(Records)] /\ batch[r] \in Seq(Records)
           /\ detached \in [Ranges -> Nat] /\ detached[r] \in Nat
           /\ counters \in [Ranges -> Counters] /\ counters[r] \in Counters
           /\ report \in [Ranges -> Reports] /\ report[r] \in Reports
           /\ rows \in [Ranges -> SUBSET Records] /\ rows[r] \subseteq Records
BY DEF TypeOK

\* The lookups a range waits for are finitely many positions of its batch.
LEMMA PendingFinite ==
    ASSUME NEW r \in Ranges, batch[r] \in Seq(Records)
    PROVE  IsFiniteSet(Pending(r)) /\ Cardinality(Pending(r)) \in Nat /\ Pending(r) \subseteq Nat \ {0}
<1>1. DOMAIN batch[r] = 1..Len(batch[r]) /\ Len(batch[r]) \in Nat
  BY LenProperties
<1>2. IsFiniteSet(1..Len(batch[r]))
  BY <1>1, FS_Interval
<1>3. Pending(r) \subseteq 1..Len(batch[r])
  BY <1>1 DEF Pending
<1> QED
  BY <1>1, <1>2, <1>3, FS_Subset, FS_CardinalityType

\* A range between two rows has no entry left to look up.
LEMMA NoEntries == 0 \in 0..MaxExplode
BY ValidateSizes

\* An error ends the range: what is left of its lookups, and its accounts.
LEMMA FailWithDoes ==
    ASSUME TypeOK, NEW r \in Ranges, NEW c \in Counters, NEW cause \in {"error", "cancelled"},
           FailWith(r, c, cause)
    PROVE  /\ task' = [task EXCEPT ![r] = task'[r]] /\ task'[r] \in Tasks
           /\ task'[r].pc = "ended" /\ task'[r].status = "FAIL" /\ task'[r].cause = cause
           /\ task'[r].entries = 0
           /\ batch' = [batch EXCEPT ![r] = batch'[r]] /\ batch'[r] = <<>>
           /\ detached' = [detached EXCEPT ![r] = detached'[r]]
           /\ detached'[r] = Cardinality(Pending(r)) /\ detached'[r] \in Nat
           /\ counters' = [counters EXCEPT ![r] = counters'[r]] /\ counters'[r] \in Counters
           /\ counters'[r].error = c.error + LostRows(c)
           /\ counters'[r].read = c.read /\ counters'[r].skipped = c.skipped
           /\ SameOutcomes(counters'[r], c)
<1>0. LostRows(c) \in Nat /\ c.error \in Nat
  BY LostRowsIs DEF Counters
<1>1. task \in [Ranges -> Tasks] /\ task[r] \in Tasks /\ batch \in [Ranges -> Seq(Records)]
      /\ batch[r] \in Seq(Records) /\ detached \in [Ranges -> Nat] /\ counters \in [Ranges -> Counters]
  BY Local
<1> DEFINE t == [task[r] EXCEPT !.pc = "ended", !.status = "FAIL", !.cause = cause,
                                !.left = 0, !.entries = 0, !.discrepancy = FALSE]
           n == [c EXCEPT !.error = @ + LostRows(c)]
<1>2. t \in Tasks
  BY <1>1, NoEntries DEF Tasks, Statuses
<1>3. t.pc = "ended" /\ t.status = "FAIL" /\ t.cause = cause /\ t.entries = 0
  BY <1>1 DEF Tasks
<1>4. /\ n \in Counters /\ n.error = c.error + LostRows(c)
      /\ n.read = c.read /\ n.skipped = c.skipped /\ SameOutcomes(n, c)
  <2>1. c.error + LostRows(c) \in Nat
    BY <1>0
  <2> QED
    BY <2>1, CountedError
<1>5. /\ task' = [task EXCEPT ![r] = t]
      /\ batch' = [batch EXCEPT ![r] = <<>>]
      /\ detached' = [detached EXCEPT ![r] = Cardinality(Pending(r))]
      /\ counters' = [counters EXCEPT ![r] = n]
  BY DEF FailWith
<1>6. Cardinality(Pending(r)) \in Nat
  BY <1>1, PendingFinite
<1> HIDE DEF t, n
<1> QED
  BY <1>1, <1>2, <1>3, <1>4, <1>5, <1>6

\* A variable that a step leaves alone.
LEMMA Kept ==
    ASSUME TypeOK, NEW r \in Ranges
    PROVE  /\ task = [task EXCEPT ![r] = task[r]] /\ batch = [batch EXCEPT ![r] = batch[r]]
           /\ detached = [detached EXCEPT ![r] = detached[r]]
           /\ counters = [counters EXCEPT ![r] = counters[r]]
           /\ report = [report EXCEPT ![r] = report[r]] /\ rows = [rows EXCEPT ![r] = rows[r]]
BY Local

\* The steps that only move a range on.
Walks(r) == Cancel(r) \/ EndOfRange(r) \/ BatchDone(r)

\* They change where the range is, and its status once it ends.
LEMMA WalkDoes ==
    ASSUME TypeOK, NEW r \in Ranges, Walks(r)
    PROVE  /\ Moves(r) /\ UNCHANGED <<batch, detached, counters, report, permits, rows>>
           /\ task'[r].entries = task[r].entries /\ task'[r].cause = task[r].cause
           /\ task'[r].discrepancy = task[r].discrepancy
           /\ \/ /\ task[r].pc = "read" /\ task'[r].pc = "compare"
                 /\ task'[r].status = task[r].status
              \/ /\ task[r].pc = "compare" /\ batch[r] = <<>> /\ task'[r].pc = "read"
                 /\ task'[r].status = task[r].status
              \/ /\ task[r].pc = "compare" /\ batch[r] = <<>> /\ task'[r].pc = "ended"
                 /\ task'[r].status = Verdict(task[r], counters[r])
<1>1. task \in [Ranges -> Tasks] /\ task[r] \in Tasks
  BY Local
<1>2. SUFFICES
        /\ UNCHANGED <<conf, batch, detached, counters, report, permits, rows>>
        /\ \E t \in Tasks :
             /\ task' = [task EXCEPT ![r] = t]
             /\ t.entries = task[r].entries /\ t.cause = task[r].cause
             /\ t.discrepancy = task[r].discrepancy
             /\ \/ task[r].pc = "read" /\ t.pc = "compare" /\ t.status = task[r].status
                \/ /\ task[r].pc = "compare" /\ batch[r] = <<>> /\ t.pc = "read"
                   /\ t.status = task[r].status
                \/ /\ task[r].pc = "compare" /\ batch[r] = <<>> /\ t.pc = "ended"
                   /\ t.status = Verdict(task[r], counters[r])
  BY <1>1, Local, Kept DEF Moves
<1>3. CASE Cancel(r)
  <2> DEFINE t == [task[r] EXCEPT !.pc = "compare", !.goal = "cancelled", !.left = 0]
  <2>1. task' = [task EXCEPT ![r] = t]
    BY <1>1, <1>3 DEF Cancel
  <2>2. t \in Tasks /\ t.entries = task[r].entries /\ t.cause = task[r].cause
        /\ t.discrepancy = task[r].discrepancy /\ t.pc = "compare" /\ t.status = task[r].status
    BY <1>1 DEF Tasks
  <2> HIDE DEF t
  <2> QED
    BY <1>3, <2>1, <2>2 DEF Cancel, At
<1>4. CASE EndOfRange(r)
  <2> DEFINE t == [task[r] EXCEPT !.pc = "compare", !.goal = "verdict", !.left = 0]
  <2>1. task' = [task EXCEPT ![r] = t]
    BY <1>1, <1>4 DEF EndOfRange
  <2>2. t \in Tasks /\ t.entries = task[r].entries /\ t.cause = task[r].cause
        /\ t.discrepancy = task[r].discrepancy /\ t.pc = "compare" /\ t.status = task[r].status
    BY <1>1 DEF Tasks
  <2> HIDE DEF t
  <2> QED
    BY <1>4, <2>1, <2>2 DEF EndOfRange, Reading, At
<1>5. CASE BatchDone(r) /\ task[r].goal = "read"
  <2> DEFINE t == [task[r] EXCEPT !.pc = "read"]
  <2>1. task' = [task EXCEPT ![r] = t]
    BY <1>1, <1>5 DEF BatchDone
  <2>2. t \in Tasks /\ t.entries = task[r].entries /\ t.cause = task[r].cause
        /\ t.discrepancy = task[r].discrepancy /\ t.pc = "read" /\ t.status = task[r].status
    BY <1>1 DEF Tasks
  <2> HIDE DEF t
  <2> QED
    BY <1>5, <2>1, <2>2 DEF BatchDone, At
<1>6. CASE BatchDone(r) /\ task[r].goal # "read"
  <2> DEFINE v == Verdict(task[r], counters[r])
             t == [task[r] EXCEPT !.pc = "ended", !.status = v]
  <2>0. v \in Statuses
    BY DEF Verdict, Statuses
  <2> HIDE DEF v
  <2>2. t \in Tasks /\ t.entries = task[r].entries /\ t.cause = task[r].cause
        /\ t.discrepancy = task[r].discrepancy /\ t.pc = "ended" /\ t.status = v
    BY <1>1, <2>0 DEF Tasks
  <2>1. task' = [task EXCEPT ![r] = t]
    BY <1>1, <1>6 DEF BatchDone, v
  <2> HIDE DEF t
  <2> QED
    BY <1>6, <2>1, <2>2 DEF BatchDone, At, v
<1> QED
  BY <1>3, <1>4, <1>5, <1>6 DEF Walks

\* A row is skipped.
LEMMA SkipRowDoes ==
    ASSUME TypeOK, NEW r \in Ranges, SkipRow(r)
    PROVE  /\ Moves(r) /\ UNCHANGED <<batch, detached, report, permits, rows>>
           /\ task[r].pc = "read" /\ task'[r] = [task[r] EXCEPT !.left = task'[r].left]
           /\ counters'[r].read = counters[r].read + 1
           /\ counters'[r].skipped = counters[r].skipped + 1
           /\ counters'[r].error = counters[r].error /\ SameOutcomes(counters'[r], counters[r])
<1>1. task \in [Ranges -> Tasks] /\ task[r] \in Tasks /\ task[r].left \in Nat \ {0}
      /\ counters \in [Ranges -> Counters] /\ counters[r] \in Counters
  BY Local DEF Tasks, SkipRow
<1> DEFINE c == counters[r]
           left == task[r].left - 1
           t == [task[r] EXCEPT !.left = left]
           rd == c.read + 1
           sk == c.skipped + 1
           n == [c EXCEPT !.read = rd, !.skipped = sk]
<1>2. t \in Tasks /\ t = [task[r] EXCEPT !.left = t.left]
  <2>1. left \in Nat
    BY <1>1
  <2> HIDE DEF left
  <2> QED
    BY <1>1, <2>1 DEF Tasks
<1>3. n \in Counters /\ n.read = c.read + 1 /\ n.skipped = c.skipped + 1
      /\ n.error = c.error /\ SameOutcomes(n, c)
  <2>1. rd \in Nat /\ sk \in Nat /\ c \in Counters
    BY <1>1 DEF Counters
  <2> HIDE DEF rd, sk, c
  <2>2. n \in Counters /\ n.read = rd /\ n.skipped = sk /\ n.error = c.error /\ SameOutcomes(n, c)
    BY <2>1 DEF Counters, SameOutcomes
  <2> QED
    BY <2>2 DEF rd, sk
<1>4. task' = [task EXCEPT ![r] = t] /\ counters' = [counters EXCEPT ![r] = n]
  BY <1>1 DEF SkipRow
<1> HIDE DEF t, n
<1>5. task'[r] = t /\ counters'[r] = n
  BY <1>1, <1>4
<1>6. UNCHANGED <<conf, batch, detached, report, permits, rows>> /\ task[r].pc = "read"
  BY DEF SkipRow, Reading, At
<1> QED
  BY <1>2, <1>3, <1>4, <1>5, <1>6, Local, Kept DEF Moves

\* A row is taken, with the entries it explodes into.
LEMMA TakeRowDoes ==
    ASSUME TypeOK, NEW r \in Ranges, TakeRow(r)
    PROVE  /\ Moves(r) /\ UNCHANGED <<batch, detached, report, permits, rows>>
           /\ task[r].pc = "read"
           /\ task'[r] = [task[r] EXCEPT !.pc = "enqueue", !.left = task'[r].left,
                                         !.entries = task'[r].entries]
           /\ task'[r].entries \in 1..MaxExplode /\ (On("explode") \/ task'[r].entries = 1)
           /\ counters'[r].read = counters[r].read + 1 /\ counters'[r].skipped = counters[r].skipped
           /\ counters'[r].error = counters[r].error /\ SameOutcomes(counters'[r], counters[r])
<1>1. task \in [Ranges -> Tasks] /\ task[r] \in Tasks /\ task[r].left \in Nat
      /\ counters \in [Ranges -> Counters] /\ counters[r] \in Counters
  BY Local DEF Tasks, TakeRow
<1>2. PICK k \in 1..(IF On("explode") THEN MaxExplode ELSE 1) :
        /\ k <= task[r].left
        /\ task' = [task EXCEPT ![r].pc = "enqueue", ![r].left = @ - k, ![r].entries = k]
  BY DEF TakeRow
<1> DEFINE c == counters[r]
           left == task[r].left - k
           t == [task[r] EXCEPT !.pc = "enqueue", !.left = left, !.entries = k]
           rd == c.read + 1
           n == [c EXCEPT !.read = rd]
<1>3. left \in Nat /\ k \in 0..MaxExplode /\ k \in 1..MaxExplode /\ (On("explode") \/ k = 1)
  BY <1>1, <1>2, ValidateSizes
<1>4. task' = [task EXCEPT ![r] = t]
  BY <1>1, <1>2
<1>5. n \in Counters /\ n.read = c.read + 1 /\ n.skipped = c.skipped
      /\ n.error = c.error /\ SameOutcomes(n, c)
  <2>1. rd \in Nat /\ c \in Counters
    BY <1>1 DEF Counters
  <2> HIDE DEF rd, c
  <2>2. n \in Counters /\ n.read = rd /\ n.skipped = c.skipped /\ n.error = c.error
        /\ SameOutcomes(n, c)
    BY <2>1 DEF Counters, SameOutcomes
  <2> QED
    BY <2>2 DEF rd
<1>6. counters' = [counters EXCEPT ![r] = n]
  BY <1>1 DEF TakeRow
<1>7. t \in Tasks /\ t.entries = k /\ t = [task[r] EXCEPT !.pc = "enqueue", !.left = t.left, !.entries = t.entries]
  <2> HIDE DEF left
  <2> QED
    BY <1>1, <1>3 DEF Tasks
<1> HIDE DEF t, n
<1>8. task'[r] = t /\ counters'[r] = n
  BY <1>1, <1>4, <1>6
<1>9. UNCHANGED <<conf, batch, detached, report, permits, rows>> /\ task[r].pc = "read"
  BY DEF TakeRow, Reading, At
<1> QED
  BY <1>3, <1>4, <1>5, <1>6, <1>7, <1>8, <1>9, Local, Kept DEF Moves

\* A row just read is as it was.
LEMMA NewRecordIs ==
    ASSUME NEW r \in Ranges, NEW rec \in NewRecords(r)
    PROVE  rec \in Records /\ InBatch(rec) /\ rec.lookup = "pending"
<1>1. PICK row \in RowsIn[r], residue \in {0, 1}, newer \in BOOLEAN :
        rec = NewRecord(row[1], row[2], residue, newer)
  BY DEF NewRecords
<1>2. row[1] \in Nat \cup {-2} /\ row[2] \in Nat \cup {-2, -1}
  BY <1>1, ValidateRows
<1>3. row[1] \in Int /\ row[2] \in Int /\ residue \in 0..1 /\ -1 \in Int
  BY <1>2
<1> QED
  BY <1>1, <1>2, <1>3 DEF NewRecord, Records, InBatch, Absent, Null

\* One lookup is issued.
LEMMA EnqueueDoes ==
    ASSUME TypeOK, PlacedInv, NEW r \in Ranges, Enqueue(r)
    PROVE  /\ Moves(r) /\ UNCHANGED <<detached, counters, report, rows>>
           /\ permits > 0 /\ permits' = permits - 1 /\ task[r].pc = "enqueue"
           /\ \E rec \in Records :
                InBatch(rec) /\ rec.lookup = "pending" /\ batch'[r] = Append(batch[r], rec)
           /\ task'[r].entries = task[r].entries - 1 /\ task'[r].cause = task[r].cause
           /\ task'[r].status = task[r].status /\ task'[r].discrepancy = task[r].discrepancy
           /\ \/ task[r].entries > 1 /\ task'[r].pc = "enqueue"
              \/ task[r].entries = 1 /\ task'[r].pc = "compare"
              \/ task[r].entries = 1 /\ Len(batch[r]) + 1 < FetchSize /\ task'[r].pc = "read"
<1>1. /\ task \in [Ranges -> Tasks] /\ task[r] \in Tasks
      /\ batch \in [Ranges -> Seq(Records)] /\ batch[r] \in Seq(Records)
  BY Local
<1>2. task[r].pc = "enqueue" /\ task[r].entries \in 1..MaxExplode /\ Len(batch[r]) \in Nat
  BY <1>1, LenProperties DEF Enqueue, At, PlacedInv, Placed, Tasks
<1> DEFINE e == task[r].entries - 1
           next == CASE task[r].entries > 1 -> "enqueue"
                     [] task[r].entries = 1 /\ Len(batch[r]) + 1 >= FetchSize -> "compare"
                     [] OTHER -> "read"
           t == [task[r] EXCEPT !.entries = e, !.pc = next, !.goal = "read"]
<1>3. e \in 0..MaxExplode
  BY <1>2, ValidateSizes
<1>4. \/ task[r].entries > 1 /\ next = "enqueue"
      \/ task[r].entries = 1 /\ next = "compare"
      \/ task[r].entries = 1 /\ Len(batch[r]) + 1 < FetchSize /\ next = "read"
  BY <1>2, ValidateSizes
<1>5. task' = [task EXCEPT ![r] = t]
  <2>1. task' = [task EXCEPT ![r].entries = e, ![r].pc = next, ![r].goal = "read"]
    <3>1. task' = [task EXCEPT ![r].entries = @ - 1, ![r].pc = next, ![r].goal = "read"]
      BY Zenon DEF Enqueue
    <3> HIDE DEF next
    <3> QED
      BY <1>1, <3>1
  <2> HIDE DEF e, next
  <2> QED
    BY <1>1, <2>1
<1>6. t \in Tasks /\ t.entries = e /\ t.pc = next /\ t.cause = task[r].cause
      /\ t.status = task[r].status /\ t.discrepancy = task[r].discrepancy
  <2> HIDE DEF e, next
  <2>1. next \in {"read", "enqueue", "compare", "correct", "ended"}
    BY <1>4
  <2> QED
    BY <1>1, <1>3, <2>1 DEF Tasks
<1>7. PICK rec \in NewRecords(r) : batch' = [batch EXCEPT ![r] = Append(batch[r], rec)]
  BY DEF Enqueue
<1>8. rec \in Records /\ InBatch(rec) /\ rec.lookup = "pending"
  BY NewRecordIs
<1>9. batch'[r] = Append(batch[r], rec) /\ Append(batch[r], rec) \in Seq(Records)
  BY <1>1, <1>7, <1>8
<1>10. UNCHANGED <<conf, detached, counters, report, rows>> /\ permits > 0 /\ permits' = permits - 1
  BY DEF Enqueue
<1>11. task'[r] = t
  BY <1>1, <1>5
<1> HIDE DEF next, t
<1>12. Moves(r)
  BY <1>5, <1>6, <1>7, <1>9, <1>10, <1>11, Local, Kept DEF Moves
<1> QED
  BY <1>2, <1>4, <1>6, <1>8, <1>9, <1>10, <1>11, <1>12

\* One lookup of the batch ends.
Ends(rec, end) == [rec EXCEPT !.lookup = end, !.got = rec.target]

\* A lookup of the batch ends: its record gets its answer and its permit comes back.
LEMMA LookupEndsDoes ==
    ASSUME TypeOK, NEW r \in Ranges, LookupEnds(r)
    PROVE  /\ Moves(r) /\ UNCHANGED <<task, detached, counters, report, rows>>
           /\ permits' = permits + 1
           /\ \E i \in Pending(r), end \in {"done", "failed"} :
                batch'[r] = [batch[r] EXCEPT ![i] = Ends(batch[r][i], end)]
<1>1. batch \in [Ranges -> Seq(Records)] /\ batch[r] \in Seq(Records)
  BY Local
<1>2. PICK i \in Pending(r), end \in {"done", "failed"} :
        batch' = [batch EXCEPT ![r][i].lookup = end, ![r][i].got = batch[r][i].target]
  BY DEF LookupEnds
<1>3. i \in DOMAIN batch[r] /\ batch[r][i] \in Records
  BY <1>1, LenProperties DEF Pending
<1>4. batch' = [batch EXCEPT ![r] = [batch[r] EXCEPT ![i] = Ends(batch[r][i], end)]]
  BY <1>1, <1>2, <1>3 DEF Ends
<1>5. batch'[r] = [batch[r] EXCEPT ![i] = Ends(batch[r][i], end)]
  BY <1>1, <1>4
<1>6. Ends(batch[r][i], end) \in Records
  BY <1>3 DEF Ends, Records
<1>7. batch'[r] \in Seq(Records)
  BY <1>1, <1>3, <1>5, <1>6, ExceptSeq
<1>8. UNCHANGED <<conf, task, detached, counters, report, rows>> /\ permits' = permits + 1
  BY DEF LookupEnds
<1>9. Moves(r)
  BY <1>4, <1>5, <1>7, <1>8, Local, Kept DEF Moves
<1> QED
  BY <1>5, <1>8, <1>9

\* A lookup that outlived its range ends.
LEMMA DetachedLookupEndsDoes ==
    ASSUME TypeOK, NEW r \in Ranges, DetachedLookupEnds(r)
    PROVE  /\ Moves(r) /\ UNCHANGED <<task, batch, counters, report, rows>>
           /\ permits' = permits + 1 /\ detached[r] > 0 /\ detached'[r] = detached[r] - 1
<1>1. detached \in [Ranges -> Nat] /\ detached[r] \in Nat
  BY Local
<1>2. detached[r] > 0 /\ detached' = [detached EXCEPT ![r] = detached[r] - 1]
  BY DEF DetachedLookupEnds
<1>3. detached'[r] = detached[r] - 1 /\ detached'[r] \in Nat
  BY <1>1, <1>2
<1>4. UNCHANGED <<conf, task, batch, counters, report, rows>> /\ permits' = permits + 1
  BY DEF DetachedLookupEnds, PermitReturned
<1> QED
  BY <1>2, <1>3, <1>4, Local, Kept DEF Moves

\* The head of a batch is a record of it, and the rest is a batch.
LEMMA HeadAndTail ==
    ASSUME NEW s \in Seq(Records), s # <<>>
    PROVE  /\ s[1] \in Records /\ 1 \in DOMAIN s /\ Len(s) \in Nat \ {0}
           /\ Tail(s) \in Seq(Records) /\ Len(Tail(s)) = Len(s) - 1
           /\ DOMAIN s = 1..Len(s) /\ DOMAIN Tail(s) = 1..(Len(s) - 1)
           /\ \A i \in 1..(Len(s) - 1) : Tail(s)[i] = s[i + 1]
<1>1. Len(s) \in Nat \ {0}
  BY EmptySeq, LenProperties
<1>2. DOMAIN s = 1..Len(s) /\ s \in [1..Len(s) -> Records]
  BY LenProperties
<1>3. /\ Tail(s) \in Seq(Records) /\ Len(Tail(s)) = Len(s) - 1
      /\ \A i \in 1..(Len(s) - 1) : Tail(s)[i] = s[i + 1]
  BY <1>1, HeadTailProperties
<1>4. DOMAIN Tail(s) = 1..(Len(s) - 1)
  BY <1>3, LenProperties
<1> QED
  BY <1>1, <1>2, <1>3, <1>4

\* A record is settled: it leaves the batch.
LEMMA SettleDoes ==
    ASSUME TypeOK, NEW r \in Ranges, NEW rec \in Records, batch[r] # <<>>, Settle(r, rec)
    PROVE  /\ batch' = [batch EXCEPT ![r] = batch'[r]] /\ batch'[r] = Tail(batch[r])
           /\ batch'[r] \in Seq(Records)
           /\ rows' = [rows EXCEPT ![r] = rows'[r]] /\ rows'[r] = rows[r] \cup {rec}
           /\ rows'[r] \subseteq Records
<1>1. /\ batch \in [Ranges -> Seq(Records)] /\ batch[r] \in Seq(Records)
      /\ rows \in [Ranges -> SUBSET Records] /\ rows[r] \subseteq Records
  BY Local
<1>2. Tail(batch[r]) \in Seq(Records)
  BY <1>1, HeadAndTail
<1> QED
  BY <1>1, <1>2 DEF Settle

\* A range writes to the report.
LEMMA ReportDoes ==
    ASSUME TypeOK, NEW r \in Ranges, NEW marked \in {0, 1}, Report(r, marked)
    PROVE  /\ report' = [report EXCEPT ![r] = report'[r]] /\ report'[r] \in Reports
           /\ report'[r] \in Outcomes(report[r], marked)
<1>1. report \in [Ranges -> Reports] /\ report[r] \in Reports
  BY Local
<1>2. PICK rep \in Outcomes(report[r], marked) : report' = [report EXCEPT ![r] = rep]
  BY DEF Report
<1>3. report'[r] = rep
  BY <1>1, <1>2
<1>4. report[r].failed => SinkBroken
  BY DEF SinkBroken
<1>5. rep \in Reports
  BY <1>1, <1>2, <1>4, OutcomesAre
<1> QED
  BY <1>2, <1>3, <1>5

\* A record is compared: found to agree, found to differ and left, or found to differ and to be
\* corrected next.
LEMMA CompareRowDoes ==
    ASSUME TypeOK, NEW r \in Ranges, CompareRow(r)
    PROVE  /\ Moves(r) /\ UNCHANGED <<detached, permits>>
           /\ task[r].pc = "compare" /\ batch[r] # <<>> /\ batch[r][1].lookup = "done"
           /\ counters'[r] = [counters[r] EXCEPT ![Kind(batch[r][1])] = @ + 1]
           /\ task'[r].entries = task[r].entries /\ task'[r].cause = task[r].cause
           /\ task'[r].status = task[r].status
           /\ task'[r].discrepancy = (task[r].discrepancy \/ Kind(batch[r][1]) # "valid")
           /\ \/ /\ Kind(batch[r][1]) # "valid" /\ Corrects(Kind(batch[r][1]))
                 /\ task'[r].pc = "correct" /\ UNCHANGED <<batch, report, rows>>
              \/ /\ task'[r].pc = "compare" /\ batch'[r] = Tail(batch[r])
                 /\ rows'[r] = rows[r] \cup {batch[r][1]}
                 /\ IF Kind(batch[r][1]) = "valid" THEN report'[r] = report[r]
                    ELSE report'[r] \in Outcomes(report[r], 0)
<1>1. /\ task \in [Ranges -> Tasks] /\ task[r] \in Tasks
      /\ batch \in [Ranges -> Seq(Records)] /\ batch[r] \in Seq(Records)
      /\ counters \in [Ranges -> Counters] /\ counters[r] \in Counters
      /\ report \in [Ranges -> Reports] /\ report[r] \in Reports
  BY Local
<1>2. task[r].pc = "compare" /\ batch[r] # <<>>
  BY DEF CompareRow, Answered, At
<1>3. Top(r) = batch[r][1] /\ batch[r][1] \in Records
  BY <1>1, <1>2, TopIsHead
<1> DEFINE kind == Kind(batch[r][1])
           found == task[r].discrepancy \/ kind # "valid"
<1>4. kind \in {"valid", "missing", "mismatch"} /\ found \in BOOLEAN
  BY Kinds DEF Kind
<1>5. /\ batch[r][1].lookup = "done" /\ UNCHANGED <<conf, detached, permits>>
      /\ counters' = [counters EXCEPT ![r][kind] = @ + 1]
      /\ \/ /\ kind # "valid" /\ Corrects(kind)
            /\ task' = [task EXCEPT ![r].pc = "correct", ![r].discrepancy = TRUE]
            /\ batch' = [batch EXCEPT ![r][1] = batch[r][1]] /\ UNCHANGED <<report, rows>>
         \/ /\ Settle(r, batch[r][1])
            /\ task' = [task EXCEPT ![r].discrepancy = @ \/ kind # "valid"]
            /\ IF kind = "valid" THEN UNCHANGED report ELSE Report(r, 0)
  BY <1>3, Zenon DEF CompareRow, Kind
<1> HIDE DEF kind
<1>6. /\ counters' = [counters EXCEPT ![r] = counters'[r]] /\ counters'[r] \in Counters
      /\ counters'[r] = [counters[r] EXCEPT ![kind] = @ + 1]
  <2>1. counters'[r] = [counters[r] EXCEPT ![kind] = @ + 1]
    BY <1>1, <1>5
  <2>2. counters'[r] \in Counters
    BY <1>1, <1>4, <2>1, Counted
  <2> QED
    BY <1>1, <1>5, <2>1, <2>2
<1>7. CASE /\ kind # "valid" /\ Corrects(kind)
           /\ task' = [task EXCEPT ![r].pc = "correct", ![r].discrepancy = TRUE]
           /\ batch' = [batch EXCEPT ![r][1] = batch[r][1]] /\ UNCHANGED <<report, rows>>
  <2> DEFINE t == [task[r] EXCEPT !.pc = "correct", !.discrepancy = TRUE]
  <2>1. task' = [task EXCEPT ![r] = t]
    BY <1>1, <1>7
  <2>2. t \in Tasks /\ t.pc = "correct" /\ t.entries = task[r].entries /\ t.cause = task[r].cause
        /\ t.status = task[r].status /\ t.discrepancy = TRUE
    BY <1>1 DEF Tasks
  <2> HIDE DEF t
  <2>3. task'[r] = t
    BY <1>1, <2>1
  <2>4. batch' = batch
    <3>1. 1 \in DOMAIN batch[r]
      BY <1>1, <1>2, HeadAndTail
    <3>2. [batch[r] EXCEPT ![1] = batch[r][1]] = batch[r]
      BY <1>1, <3>1
    <3> QED
      BY <1>1, <1>7, <3>2
  <2>5. Moves(r)
    BY <1>5, <1>6, <1>7, <2>1, <2>2, <2>3, <2>4, Local, Kept DEF Moves
  <2>6. task[r].discrepancy \in BOOLEAN
    BY <1>1 DEF Tasks
  <2> QED
    BY <1>2, <1>5, <1>6, <1>7, <2>2, <2>3, <2>4, <2>5, <2>6 DEF kind
<1>8. CASE /\ Settle(r, batch[r][1])
           /\ task' = [task EXCEPT ![r].discrepancy = @ \/ kind # "valid"]
           /\ IF kind = "valid" THEN UNCHANGED report ELSE Report(r, 0)
  <2> DEFINE t == [task[r] EXCEPT !.discrepancy = found]
  <2>1. task' = [task EXCEPT ![r] = t]
    BY <1>1, <1>8
  <2>2. t \in Tasks /\ t.pc = "compare" /\ t.entries = task[r].entries /\ t.cause = task[r].cause
        /\ t.status = task[r].status /\ t.discrepancy = found
    <3> HIDE DEF found
    <3> QED
      BY <1>1, <1>2, <1>4 DEF Tasks
  <2>3. /\ report' = [report EXCEPT ![r] = report'[r]] /\ report'[r] \in Reports
        /\ IF kind = "valid" THEN report'[r] = report[r] ELSE report'[r] \in Outcomes(report[r], 0)
    BY <1>1, <1>8, ReportDoes, Kept
  <2> HIDE DEF t
  <2>5. task'[r] = t
    BY <1>1, <2>1
  <2>6. /\ batch' = [batch EXCEPT ![r] = batch'[r]] /\ batch'[r] = Tail(batch[r])
        /\ batch'[r] \in Seq(Records)
        /\ rows' = [rows EXCEPT ![r] = rows'[r]] /\ rows'[r] = rows[r] \cup {batch[r][1]}
        /\ rows'[r] \subseteq Records
    BY <1>2, <1>3, <1>8, SettleDoes
  <2>7. Moves(r)
    BY <1>5, <1>6, <2>1, <2>2, <2>3, <2>5, <2>6, Local, Kept DEF Moves
  <2> QED
    BY <1>2, <1>5, <1>6, <2>2, <2>3, <2>5, <2>6, <2>7 DEF kind
<1> QED
  BY <1>5, <1>7, <1>8

\* The record being corrected.
LEMMA Correcting ==
    ASSUME TypeOK, PlacedInv, NEW r \in Ranges, task[r].pc = "correct"
    PROVE  /\ batch[r] # <<>> /\ batch[r][1] \in Records /\ InBatch(batch[r][1])
           /\ batch[r][1].lookup = "done" /\ batch[r][1].got = batch[r][1].target
           /\ Kind(batch[r][1]) # "valid" /\ Corrects(Kind(batch[r][1]))
           /\ Rewritten(r) \in Records
           /\ Rewritten(r) = [batch[r][1] EXCEPT !.target = Landed(batch[r][1])]
<1>1. batch[r] \in Seq(Records) /\ Placed(task[r], batch[r], detached[r])
  BY Local DEF PlacedInv
<1>2. batch[r] # <<>> /\ batch[r][1].lookup = "done" /\ Kind(batch[r][1]) # "valid"
      /\ Corrects(Kind(batch[r][1])) /\ \A i \in DOMAIN batch[r] : InBatch(batch[r][i])
  BY <1>1 DEF Placed
<1>3. batch[r][1] \in Records /\ InBatch(batch[r][1])
  BY <1>1, <1>2, HeadAndTail
<1> QED
  BY <1>2, <1>3, RewrittenIs DEF InBatch

\* A correction is made.
LEMMA CorrectDoes ==
    ASSUME TypeOK, PlacedInv, NEW r \in Ranges, Correct(r)
    PROVE  /\ Moves(r) /\ UNCHANGED <<detached, permits>>
           /\ task[r].pc = "correct" /\ task'[r].pc = "compare"
           /\ task'[r].entries = task[r].entries /\ task'[r].cause = task[r].cause
           /\ task'[r].status = task[r].status /\ task'[r].discrepancy = task[r].discrepancy
           /\ batch'[r] = Tail(batch[r]) /\ rows'[r] = rows[r] \cup {Rewritten(r)}
           /\ counters'[r] = [counters[r] EXCEPT ![CorrectedCounter(batch[r][1])] = @ + 1]
           /\ report'[r] \in Outcomes(report[r], 1)
<1>1. /\ task \in [Ranges -> Tasks] /\ task[r] \in Tasks
      /\ counters \in [Ranges -> Counters] /\ counters[r] \in Counters
      /\ report \in [Ranges -> Reports] /\ report[r] \in Reports
  BY Local
<1>2. /\ task[r].pc = "correct" /\ Settle(r, Rewritten(r)) /\ UNCHANGED <<conf, detached, permits>>
      /\ counters' = [counters EXCEPT ![r][CorrectedCounter(batch[r][1])] = @ + 1]
      /\ Report(r, 1)
      /\ task' = [task EXCEPT ![r].pc = "compare"]
  BY DEF Correct, At
<1>3. batch[r] # <<>> /\ Rewritten(r) \in Records
  BY <1>2, Correcting
<1>4. /\ batch' = [batch EXCEPT ![r] = batch'[r]] /\ batch'[r] = Tail(batch[r])
      /\ batch'[r] \in Seq(Records)
      /\ rows' = [rows EXCEPT ![r] = rows'[r]] /\ rows'[r] = rows[r] \cup {Rewritten(r)}
      /\ rows'[r] \subseteq Records
  BY <1>2, <1>3, SettleDoes
<1> DEFINE t == [task[r] EXCEPT !.pc = "compare"]
           name == CorrectedCounter(batch[r][1])
<1>5. task' = [task EXCEPT ![r] = t]
  BY <1>1, <1>2
<1>6. t \in Tasks /\ t.pc = "compare" /\ t.entries = task[r].entries /\ t.cause = task[r].cause
      /\ t.status = task[r].status /\ t.discrepancy = task[r].discrepancy
  BY <1>1 DEF Tasks
<1>7. name \in {"correctedMissing", "correctedMismatch"}
  BY DEF CorrectedCounter
<1>8. /\ report' = [report EXCEPT ![r] = report'[r]] /\ report'[r] \in Reports
      /\ report'[r] \in Outcomes(report[r], 1)
  BY <1>2, ReportDoes
<1> HIDE DEF t, name
<1>9. task'[r] = t
  BY <1>1, <1>5
<1>10. counters'[r] = [counters[r] EXCEPT ![name] = @ + 1] /\ counters' = [counters EXCEPT ![r] = counters'[r]]
  BY <1>1, <1>2 DEF name
<1>11. counters'[r] \in Counters
  <2> DEFINE c == counters[r]
             n == counters'[r]
  <2>1. c \in Counters /\ n = [c EXCEPT ![name] = c[name] + 1]
    BY <1>1, <1>10
  <2> HIDE DEF c, n
  <2>2. n \in Counters
    BY <1>7, <2>1 DEF Counters
  <2> QED
    BY <2>2 DEF n
<1>12. Moves(r)
  BY <1>2, <1>4, <1>5, <1>6, <1>8, <1>9, <1>10, <1>11, Local, Kept DEF Moves
<1> QED
  BY <1>2, <1>4, <1>6, <1>8, <1>9, <1>10, <1>12 DEF name

\* The rows after a correction that failed or was abandoned: it landed, or not.
MaybeLanded(r) ==
    \/ rows'[r] = rows[r]
    \/ /\ task[r].pc = "correct"
       /\ \E rec \in {batch[r][1], Rewritten(r)} : rows'[r] = rows[r] \cup {rec}

\* The steps that fail a range.
Fails(r) == ReadFails(r) \/ RowFails(r) \/ LookupFails(r) \/ CorrectionFails(r) \/ CancelledBatchDone(r)
Charged(r, c) ==
    /\ \/ c = counters[r]
       \/ /\ task[r].pc = "read" /\ task'[r].cause = "error"
          /\ c.read = counters[r].read + 1 /\ c.skipped = counters[r].skipped
          /\ c.error = counters[r].error /\ SameOutcomes(c, counters[r])
    /\ counters'[r].error = c.error + LostRows(c)
    /\ counters'[r].read = c.read /\ counters'[r].skipped = c.skipped
    /\ SameOutcomes(counters'[r], c)
Failed(r) ==
    /\ UNCHANGED <<report, permits>> /\ MaybeLanded(r)
    /\ task[r].pc # "ended" /\ task'[r].pc = "ended" /\ task'[r].status = "FAIL"
    /\ task'[r].entries = 0
    /\ batch'[r] = <<>> /\ detached'[r] = Cardinality(Pending(r))
    /\ \/ task'[r].cause = "error"
       \/ task'[r].cause = "cancelled" /\ batch[r] = <<>> /\ task[r].pc = "compare"
    /\ \E c \in Counters : Charged(r, c)

\* Whatever fails a range ends it in the same way.
LEMMA FailsDoes ==
    ASSUME TypeOK, PlacedInv, NEW r \in Ranges, Fails(r)
    PROVE  Moves(r) /\ Failed(r)
<1>1. /\ counters \in [Ranges -> Counters] /\ counters[r] \in Counters
      /\ rows \in [Ranges -> SUBSET Records] /\ rows[r] \subseteq Records
      /\ batch[r] \in Seq(Records)
  BY Local
<1>2. ASSUME NEW c \in Counters, NEW cause \in {"error", "cancelled"}, FailWith(r, c, cause),
             UNCHANGED <<conf, report, permits>>, MaybeLanded(r), task[r].pc # "ended",
             rows' = [rows EXCEPT ![r] = rows'[r]], rows'[r] \subseteq Records,
             cause = "cancelled" => batch[r] = <<>> /\ task[r].pc = "compare",
             \/ c = counters[r]
             \/ /\ task[r].pc = "read" /\ cause = "error"
                /\ c.read = counters[r].read + 1 /\ c.skipped = counters[r].skipped
                /\ c.error = counters[r].error /\ SameOutcomes(c, counters[r])
      PROVE  Moves(r) /\ Failed(r)
  <2>1. /\ task' = [task EXCEPT ![r] = task'[r]] /\ task'[r] \in Tasks
        /\ task'[r].pc = "ended" /\ task'[r].status = "FAIL" /\ task'[r].cause = cause
        /\ task'[r].entries = 0
        /\ batch' = [batch EXCEPT ![r] = batch'[r]] /\ batch'[r] = <<>>
        /\ detached' = [detached EXCEPT ![r] = detached'[r]]
        /\ detached'[r] = Cardinality(Pending(r)) /\ detached'[r] \in Nat
        /\ counters' = [counters EXCEPT ![r] = counters'[r]] /\ counters'[r] \in Counters
        /\ counters'[r].error = c.error + LostRows(c)
        /\ counters'[r].read = c.read /\ counters'[r].skipped = c.skipped
        /\ SameOutcomes(counters'[r], c)
    BY <1>2, FailWithDoes
  <2>2. <<>> \in Seq(Records) /\ report[r] \in Reports /\ report = [report EXCEPT ![r] = report[r]]
    BY Local, Kept
  <2>3. Moves(r)
    BY <1>2, <2>1, <2>2 DEF Moves
  <2>4. Charged(r, c)
    BY <1>2, <2>1 DEF Charged
  <2> QED
    BY <1>2, <2>1, <2>3, <2>4 DEF Failed
<1>3. rows = [rows EXCEPT ![r] = rows[r]]
  BY <1>1
<1>4. CASE ReadFails(r)
  <2>1. /\ FailWith(r, counters[r], "error") /\ UNCHANGED <<conf, report, permits, rows>>
        /\ task[r].pc # "ended"
    BY <1>4 DEF ReadFails, Reading, At
  <2> QED
    BY <1>1, <1>2, <1>3, <2>1 DEF MaybeLanded
<1>5. CASE RowFails(r)
  <2> DEFINE rd == counters[r].read + 1
             c == [counters[r] EXCEPT !.read = rd]
  <2>1. /\ FailWith(r, c, "error") /\ UNCHANGED <<conf, report, permits, rows>>
        /\ task[r].pc = "read"
    BY <1>5 DEF RowFails, Reading, At
  <2>2. rd \in Nat
    BY <1>1 DEF Counters
  <2>3. c \in Counters /\ c.read = rd /\ c.skipped = counters[r].skipped
        /\ c.error = counters[r].error /\ SameOutcomes(c, counters[r])
    <3> HIDE DEF rd
    <3> QED
      BY <1>1, <2>2 DEF Counters, SameOutcomes
  <2> HIDE DEF c
  <2> QED
    BY <1>1, <1>2, <1>3, <2>1, <2>3 DEF MaybeLanded
<1>6. CASE LookupFails(r)
  <2>1. /\ FailWith(r, counters[r], "error") /\ UNCHANGED <<conf, report, permits, rows>>
        /\ task[r].pc # "ended"
    BY <1>6 DEF LookupFails, Answered, At
  <2> QED
    BY <1>1, <1>2, <1>3, <2>1 DEF MaybeLanded
<1>7. CASE CorrectionFails(r)
  <2>1. /\ FailWith(r, counters[r], "error") /\ UNCHANGED <<conf, report, permits>>
        /\ task[r].pc = "correct"
    BY <1>7 DEF CorrectionFails, At
  <2>2. PICK rec \in {batch[r][1], Rewritten(r)} : rows' = [rows EXCEPT ![r] = rows[r] \cup {rec}]
    BY <1>7 DEF CorrectionFails
  <2>3. rec \in Records
    BY <2>1, <2>2, Correcting
  <2>4. rows'[r] = rows[r] \cup {rec} /\ rows'[r] \subseteq Records
        /\ rows' = [rows EXCEPT ![r] = rows'[r]]
    BY <1>1, <2>2, <2>3
  <2>5. MaybeLanded(r)
    BY <2>1, <2>2, <2>4 DEF MaybeLanded
  <2> QED
    BY <1>1, <1>2, <2>1, <2>4, <2>5
<1>8. CASE CancelledBatchDone(r)
  <2>1. /\ FailWith(r, counters[r], "cancelled") /\ UNCHANGED <<conf, report, permits, rows>>
        /\ task[r].pc = "compare" /\ batch[r] = <<>>
    BY <1>8 DEF CancelledBatchDone, At
  <2> QED
    BY <1>1, <1>2, <1>3, <2>1 DEF MaybeLanded
<1> QED
  BY <1>4, <1>5, <1>6, <1>7, <1>8 DEF Fails

\* The scheduler drops a range.
Abandoned(r) ==
    /\ UNCHANGED <<counters, report, permits>> /\ MaybeLanded(r)
    /\ task[r].pc # "ended" /\ task'[r].pc = "ended" /\ task'[r].cause = "abandoned"
    /\ task'[r].status = task[r].status /\ task'[r].entries = 0
    /\ batch'[r] = <<>> /\ detached'[r] = Cardinality(Pending(r))

\* An abandoned range ends without being accounted for.
LEMMA AbandonDoes ==
    ASSUME TypeOK, PlacedInv, NEW r \in Ranges, Abandon(r)
    PROVE  Moves(r) /\ Abandoned(r)
<1>1. /\ task \in [Ranges -> Tasks] /\ task[r] \in Tasks /\ detached \in [Ranges -> Nat]
      /\ rows \in [Ranges -> SUBSET Records] /\ rows[r] \subseteq Records
      /\ batch \in [Ranges -> Seq(Records)] /\ batch[r] \in Seq(Records)
  BY Local
<1> DEFINE t == [task[r] EXCEPT !.pc = "ended", !.cause = "abandoned", !.left = 0,
                                !.entries = 0, !.discrepancy = FALSE]
<1>2. task' = [task EXCEPT ![r] = t] /\ UNCHANGED <<conf, counters, report, permits>>
      /\ task[r].pc # "ended" /\ batch' = [batch EXCEPT ![r] = <<>>]
      /\ detached' = [detached EXCEPT ![r] = Cardinality(Pending(r))]
  BY DEF Abandon, At
<1>3. t \in Tasks /\ t.pc = "ended" /\ t.cause = "abandoned" /\ t.status = task[r].status
      /\ t.entries = 0
  BY <1>1, NoEntries DEF Tasks
<1> HIDE DEF t
<1>4. /\ task'[r] = t /\ batch'[r] = <<>> /\ detached'[r] = Cardinality(Pending(r))
      /\ <<>> \in Seq(Records) /\ Cardinality(Pending(r)) \in Nat
  BY <1>1, <1>2, PendingFinite
<1>5. MaybeLanded(r) /\ rows'[r] \subseteq Records /\ rows' = [rows EXCEPT ![r] = rows'[r]]
  <2>1. PICK recs \in (IF At(r, "correct") THEN {{batch[r][1]}, {Rewritten(r)}} ELSE {{}}) :
          rows' = [rows EXCEPT ![r] = rows[r] \cup recs]
    BY DEF Abandon
  <2>2. CASE task[r].pc = "correct"
    <3>1. PICK rec \in {batch[r][1], Rewritten(r)} : recs = {rec}
      BY <2>1, <2>2 DEF At
    <3>2. rec \in Records
      BY <2>2, <3>1, Correcting
    <3> QED
      BY <1>1, <2>1, <2>2, <3>1, <3>2 DEF MaybeLanded
  <2>3. CASE task[r].pc # "correct"
    <3>1. recs = {}
      BY <2>1, <2>3 DEF At
    <3> QED
      BY <1>1, <2>1, <3>1 DEF MaybeLanded
  <2> QED
    BY <2>2, <2>3
<1> QED
  BY <1>2, <1>3, <1>4, <1>5, Local, Kept DEF Moves, Abandoned

\* The steps of a range, by what they do.
Step(r) ==
    \/ Walks(r) \/ SkipRow(r) \/ TakeRow(r) \/ Enqueue(r) \/ LookupEnds(r) \/ DetachedLookupEnds(r)
    \/ CompareRow(r) \/ Correct(r) \/ Fails(r) \/ Abandon(r)

\* Every step of a range leaves the others alone and keeps the types.
LEMMA StepMoves ==
    ASSUME TypeOK, PlacedInv, NEW r \in Ranges, Step(r)
    PROVE  Moves(r)
BY WalkDoes, SkipRowDoes, TakeRowDoes, EnqueueDoes, LookupEndsDoes, DetachedLookupEndsDoes,
   CompareRowDoes, CorrectDoes, FailsDoes, AbandonDoes DEF Step

\* What a comparison and a correction count.
LEMMA CompareCounts ==
    ASSUME TypeOK, NEW r \in Ranges, CompareRow(r)
    PROVE  LET c == counters[r]
               n == counters'[r]
               kind == Kind(batch[r][1])
           IN  /\ n.valid = IF kind = "valid" THEN c.valid + 1 ELSE c.valid
               /\ n.missing = IF kind = "missing" THEN c.missing + 1 ELSE c.missing
               /\ n.mismatch = IF kind = "mismatch" THEN c.mismatch + 1 ELSE c.mismatch
               /\ n.read = c.read /\ n.skipped = c.skipped /\ n.error = c.error
               /\ n.correctedMissing = c.correctedMissing
               /\ n.correctedMismatch = c.correctedMismatch
<1> DEFINE c == counters[r]
           n == counters'[r]
           kind == Kind(batch[r][1])
<1>1. c \in Counters /\ n = [c EXCEPT ![kind] = c[kind] + 1]
  BY Local, CompareRowDoes
<1>2. kind \in {"valid", "missing", "mismatch"}
  BY Kinds DEF Kind
<1> HIDE DEF c, n, kind
<1>3. /\ n.valid = IF kind = "valid" THEN c.valid + 1 ELSE c.valid
      /\ n.missing = IF kind = "missing" THEN c.missing + 1 ELSE c.missing
      /\ n.mismatch = IF kind = "mismatch" THEN c.mismatch + 1 ELSE c.mismatch
      /\ n.read = c.read /\ n.skipped = c.skipped /\ n.error = c.error
      /\ n.correctedMissing = c.correctedMissing /\ n.correctedMismatch = c.correctedMismatch
  <2>1. CASE kind = "valid"
    <3>1. n = [c EXCEPT !.valid = c.valid + 1]
      BY <1>1, <2>1
    <3> QED
      BY <1>1, <2>1, <3>1 DEF Counters
  <2>2. CASE kind = "missing"
    <3>1. n = [c EXCEPT !.missing = c.missing + 1]
      BY <1>1, <2>2
    <3> QED
      BY <1>1, <2>2, <3>1 DEF Counters
  <2>3. CASE kind = "mismatch"
    <3>1. n = [c EXCEPT !.mismatch = c.mismatch + 1]
      BY <1>1, <2>3
    <3> QED
      BY <1>1, <2>3, <3>1 DEF Counters
  <2> QED
    BY <1>2, <2>1, <2>2, <2>3
<1> QED
  BY <1>3 DEF c, n, kind

\* A correction counts as one of a missing row or of a mismatch, never as both.
LEMMA CorrectCounts ==
    ASSUME TypeOK, PlacedInv, NEW r \in Ranges, Correct(r)
    PROVE  LET c == counters[r]
               n == counters'[r]
               rec == batch[r][1]
           IN  /\ n.valid = c.valid /\ n.missing = c.missing /\ n.mismatch = c.mismatch
               /\ n.read = c.read /\ n.skipped = c.skipped /\ n.error = c.error
               /\ \/ /\ rec.got = Absent /\ n.correctedMissing = c.correctedMissing + 1
                     /\ n.correctedMismatch = c.correctedMismatch
                  \/ /\ rec.got # Absent /\ n.correctedMissing = c.correctedMissing
                     /\ n.correctedMismatch = c.correctedMismatch + 1
<1> DEFINE c == counters[r]
           n == counters'[r]
           got == batch[r][1].got
           name == CorrectedCounter(batch[r][1])
<1>1. c \in Counters /\ n = [c EXCEPT ![name] = c[name] + 1]
  BY Local, CorrectDoes
<1>2. name = IF got = Absent THEN "correctedMissing" ELSE "correctedMismatch"
  BY DEF CorrectedCounter
<1> HIDE DEF c, n, got, name
<1>3. /\ n.valid = c.valid /\ n.missing = c.missing /\ n.mismatch = c.mismatch
      /\ n.read = c.read /\ n.skipped = c.skipped /\ n.error = c.error
      /\ \/ /\ got = Absent /\ n.correctedMissing = c.correctedMissing + 1
            /\ n.correctedMismatch = c.correctedMismatch
         \/ /\ got # Absent /\ n.correctedMissing = c.correctedMissing
            /\ n.correctedMismatch = c.correctedMismatch + 1
  <2>1. CASE got = Absent
    <3>1. n = [c EXCEPT !.correctedMissing = c.correctedMissing + 1]
      BY <1>1, <1>2, <2>1
    <3> QED
      BY <1>1, <2>1, <3>1 DEF Counters
  <2>2. CASE got # Absent
    <3>1. n = [c EXCEPT !.correctedMismatch = c.correctedMismatch + 1]
      BY <1>1, <1>2, <2>2
    <3> QED
      BY <1>1, <2>2, <3>1 DEF Counters
  <2> QED
    BY <2>1, <2>2
<1> QED
  BY <1>3 DEF c, n, got

\* A step of one range leaves the others alone.
LEMMA Others ==
    ASSUME TypeOK, NEW r \in Ranges, Moves(r), NEW q \in Ranges \ {r}
    PROVE  /\ task'[q] = task[q] /\ batch'[q] = batch[q] /\ detached'[q] = detached[q]
           /\ counters'[q] = counters[q] /\ report'[q] = report[q] /\ rows'[q] = rows[q]
BY Local DEF Moves

-----------------------------------------------------------------------------
(* What the place of a range says about its batch, and the types.           *)

\* A range starts by reading, with an empty batch.
LEMMA PlacedInit == Init => PlacedInv
<1> SUFFICES ASSUME Init, NEW r \in Ranges PROVE Placed(task[r], batch[r], detached[r])
  BY DEF PlacedInv
<1>1. task[r] = NewTask(r) /\ batch[r] = <<>> /\ detached[r] = 0
  BY DEF Init
<1>2. Len(<<>>) = 0 /\ DOMAIN <<>> = {}
  BY EmptySeq
<1> QED
  BY <1>1, <1>2, ValidateSizes DEF Placed, NewTask

\* Records that stay in a batch stay as they were.
LEMMA TailPlaced ==
    ASSUME NEW s \in Seq(Records), s # <<>>, \A i \in DOMAIN s : InBatch(s[i])
    PROVE  \A i \in DOMAIN Tail(s) : InBatch(Tail(s)[i])
<1> SUFFICES ASSUME NEW i \in DOMAIN Tail(s) PROVE InBatch(Tail(s)[i])
  OBVIOUS
<1>1. i \in 1..(Len(s) - 1) /\ Len(s) \in Nat /\ Tail(s)[i] = s[i + 1] /\ DOMAIN s = 1..Len(s)
  BY HeadAndTail
<1>2. i + 1 \in DOMAIN s
  BY <1>1
<1> QED
  BY <1>1, <1>2

\* A record is added behind those of the batch.
LEMMA AppendPlaced ==
    ASSUME NEW s \in Seq(Records), NEW rec \in Records, NEW x, x = Append(s, rec)
    PROVE  /\ Len(x) = Len(s) + 1 /\ Len(s) \in Nat
           /\ DOMAIN x = (DOMAIN s) \cup {Len(s) + 1} /\ Len(s) + 1 \notin DOMAIN s
           /\ x[Len(s) + 1] = rec /\ \A i \in DOMAIN s : x[i] = s[i]
<1>1. Len(x) = Len(s) + 1 /\ Len(s) \in Nat /\ DOMAIN s = 1..Len(s)
  BY AppendProperties, LenProperties
<1>2. x \in Seq(Records) /\ x[Len(s) + 1] = rec /\ \A i \in 1..Len(s) : x[i] = s[i]
  BY AppendProperties
<1>3. DOMAIN x = 1..Len(x)
  BY <1>2, LenProperties
<1> QED
  BY <1>1, <1>2, <1>3

\* Every step of a range leaves it in a place its batch agrees with.
LEMMA PlacedStep ==
    ASSUME TypeOK, PlacedInv, NEW r \in Ranges, Step(r)
    PROVE  Placed(task'[r], batch'[r], detached'[r]) /\ Len(batch'[r]) < FetchSize + MaxExplode
<1>1. /\ Placed(task[r], batch[r], detached[r]) /\ batch[r] \in Seq(Records) /\ task[r] \in Tasks
      /\ Len(batch[r]) < FetchSize + MaxExplode /\ Len(batch[r]) \in Nat
      /\ FetchSize \in Nat \ {0} /\ MaxExplode \in Nat \ {0} /\ task[r].entries \in Nat
      /\ Len(<<>>) = 0 /\ DOMAIN <<>> = {}
  BY Local, LenProperties, EmptySeq, ValidateSizes DEF PlacedInv, TypeOK, Tasks
<1>2. CASE Walks(r)
  BY <1>1, <1>2, WalkDoes DEF Placed
<1>3. CASE SkipRow(r)
  <2>1. /\ UNCHANGED <<batch, detached>> /\ task[r].pc = "read"
        /\ task'[r] = [task[r] EXCEPT !.left = task'[r].left]
    BY <1>3, SkipRowDoes
  <2>2. task'[r].pc = "read" /\ task'[r].entries = task[r].entries /\ task'[r].status = task[r].status
        /\ task'[r].cause = task[r].cause
    BY <1>1, <2>1 DEF Tasks
  <2> QED
    BY <1>1, <2>1, <2>2 DEF Placed
<1>4. CASE TakeRow(r)
  <2> DEFINE k == task'[r].entries
             left == task'[r].left
  <2>1. /\ UNCHANGED <<batch, detached>> /\ task[r].pc = "read" /\ k \in 1..MaxExplode
        /\ task'[r] = [task[r] EXCEPT !.pc = "enqueue", !.left = left, !.entries = k]
    BY <1>4, TakeRowDoes
  <2>2. task'[r].pc = "enqueue" /\ task'[r].status = task[r].status
        /\ task'[r].cause = task[r].cause
    <3> HIDE DEF k, left
    <3> QED
      BY <1>1, <2>1 DEF Tasks
  <2>3. Len(batch[r]) + k < FetchSize + MaxExplode /\ k > 0
    BY <1>1, <2>1 DEF Placed
  <2> HIDE DEF left
  <2> QED
    BY <1>1, <2>1, <2>2, <2>3 DEF Placed
<1>5. CASE Enqueue(r)
  <2> DEFINE x == batch'[r]
  <2>1. PICK rec \in Records : InBatch(rec) /\ x = Append(batch[r], rec)
    BY <1>5, EnqueueDoes
  <2>2. /\ Len(x) = Len(batch[r]) + 1
        /\ DOMAIN x = (DOMAIN batch[r]) \cup {Len(batch[r]) + 1}
        /\ x[Len(batch[r]) + 1] = rec /\ \A i \in DOMAIN batch[r] : x[i] = batch[r][i]
    BY <1>1, <2>1, AppendPlaced
  <2>3. \A i \in DOMAIN x : InBatch(x[i])
    BY <1>1, <2>1, <2>2 DEF Placed
  <2>4. /\ UNCHANGED detached /\ task[r].pc = "enqueue"
        /\ task'[r].entries = task[r].entries - 1 /\ task'[r].cause = task[r].cause
        /\ task'[r].status = task[r].status
        /\ \/ task[r].entries > 1 /\ task'[r].pc = "enqueue"
           \/ task[r].entries = 1 /\ task'[r].pc = "compare"
           \/ task[r].entries = 1 /\ Len(batch[r]) + 1 < FetchSize /\ task'[r].pc = "read"
    BY <1>5, EnqueueDoes
  <2> HIDE DEF x
  <2>5. Placed(task'[r], x, detached'[r]) /\ Len(x) < FetchSize + MaxExplode
    BY <1>1, <2>2, <2>3, <2>4 DEF Placed
  <2> QED
    BY <2>5 DEF x
<1>6. CASE LookupEnds(r)
  <2> DEFINE x == batch'[r]
             s == batch[r]
  <2>1. PICK i \in Pending(r), end \in {"done", "failed"} : x = [s EXCEPT ![i] = Ends(s[i], end)]
    BY <1>6, LookupEndsDoes
  <2>2. i \in DOMAIN s /\ s[i].lookup = "pending" /\ DOMAIN s = 1..Len(s) /\ s[i] \in Records
    BY <1>1, <2>1, LenProperties DEF Pending
  <2>3. Ends(s[i], end) \in Records /\ InBatch(Ends(s[i], end)) /\ Ends(s[i], end).lookup = end
    BY <1>1, <2>1, <2>2 DEF Ends, Records, InBatch, Placed
  <2>4. Len(x) = Len(s) /\ DOMAIN x = DOMAIN s
        /\ \A j \in DOMAIN s : x[j] = IF j = i THEN Ends(s[i], end) ELSE s[j]
    <3>1. Len(x) = Len(s)
      BY <1>1, <2>1, <2>2, <2>3, ExceptSeq
    <3> QED
      BY <1>1, <2>1, <2>2, <3>1
  <2>5. \A j \in DOMAIN x : InBatch(x[j])
    BY <1>1, <2>3, <2>4 DEF Placed
  <2>6. UNCHANGED <<task, detached>>
    BY <1>6, LookupEndsDoes
  <2>7. task[r].pc # "ended"
    BY <1>1, <2>2 DEF Placed
  <2>8. task[r].pc = "correct" => x # <<>> /\ x[1] = s[1]
    <3> SUFFICES ASSUME task[r].pc = "correct" PROVE x # <<>> /\ x[1] = s[1]
      OBVIOUS
    <3>1. s # <<>> /\ s[1].lookup = "done" /\ Len(s) # 0 /\ 1 \in DOMAIN s
      BY <1>1, HeadAndTail DEF Placed
    <3> QED
      BY <1>1, <2>2, <2>4, <3>1
  <2> HIDE DEF x
  <2>9. Placed(task[r], x, detached[r]) /\ Len(x) < FetchSize + MaxExplode
    BY <1>1, <2>4, <2>5, <2>7, <2>8 DEF Placed
  <2> QED
    BY <2>6, <2>9 DEF x
<1>7. CASE DetachedLookupEnds(r)
  <2>1. UNCHANGED <<task, batch>> /\ detached[r] > 0 /\ detached[r] \in Nat
    BY <1>7, DetachedLookupEndsDoes, Local
  <2>2. task[r].pc = "ended"
    BY <1>1, <2>1 DEF Placed
  <2> QED
    BY <1>1, <2>1, <2>2 DEF Placed
<1>8. CASE CompareRow(r)
  <2> DEFINE h == batch[r][1]
             x == Tail(batch[r])
  <2>1. /\ UNCHANGED detached
        /\ task[r].pc = "compare" /\ batch[r] # <<>> /\ h.lookup = "done"
        /\ task'[r].entries = task[r].entries /\ task'[r].cause = task[r].cause
        /\ task'[r].status = task[r].status
        /\ \/ /\ Kind(h) # "valid" /\ Corrects(Kind(h))
              /\ task'[r].pc = "correct" /\ UNCHANGED batch
           \/ task'[r].pc = "compare" /\ batch'[r] = x
    BY <1>8, CompareRowDoes
  <2>2. Len(x) = Len(batch[r]) - 1 /\ \A i \in DOMAIN x : InBatch(x[i])
    BY <1>1, <2>1, HeadAndTail, TailPlaced DEF Placed
  <2> HIDE DEF x
  <2> QED
    BY <1>1, <2>1, <2>2 DEF Placed
<1>9. CASE Correct(r)
  <2> DEFINE x == Tail(batch[r])
  <2>1. /\ UNCHANGED detached
        /\ task[r].pc = "correct" /\ task'[r].pc = "compare" /\ batch'[r] = x
        /\ task'[r].entries = task[r].entries /\ task'[r].cause = task[r].cause
        /\ task'[r].status = task[r].status
    BY <1>9, CorrectDoes
  <2>2. Len(x) = Len(batch[r]) - 1 /\ \A i \in DOMAIN x : InBatch(x[i])
    BY <1>1, <2>1, HeadAndTail, TailPlaced DEF Placed
  <2> HIDE DEF x
  <2> QED
    BY <1>1, <2>1, <2>2 DEF Placed
<1>10. CASE Fails(r)
  <2>1. task'[r].pc = "ended" /\ task'[r].entries = 0 /\ batch'[r] = <<>>
    BY <1>10, FailsDoes DEF Failed
  <2> QED
    BY <1>1, <2>1 DEF Placed
<1>11. CASE Abandon(r)
  <2>1. task'[r].pc = "ended" /\ task'[r].entries = 0 /\ batch'[r] = <<>>
    BY <1>11, AbandonDoes DEF Abandoned
  <2> QED
    BY <1>1, <2>1 DEF Placed
<1> QED
  BY <1>2, <1>3, <1>4, <1>5, <1>6, <1>7, <1>8, <1>9, <1>10, <1>11 DEF Step

-----------------------------------------------------------------------------
(* ENG-008: the accounts of a range.                                        *)

\* The counters of a range are numbers.
LEMMA Numbers ==
    ASSUME NEW c \in Counters
    PROVE  /\ c.read \in Nat /\ c.skipped \in Nat /\ c.valid \in Nat /\ c.missing \in Nat
           /\ c.mismatch \in Nat /\ c.correctedMissing \in Nat /\ c.correctedMismatch \in Nat
           /\ c.error \in Nat
BY DEF Counters

\* The rows classified, when no comparison is counted.
LEMMA ClassifiedSame ==
    ASSUME NEW c \in Counters, NEW n \in Counters, SameOutcomes(n, c)
    PROVE  Classified(n) = Classified(c) - c.skipped + n.skipped
BY Numbers DEF Classified, SameOutcomes

\* Every step of a range keeps its accounts.
LEMMA BalanceStep ==
    ASSUME TypeOK, PlacedInv, NEW r \in Ranges, Step(r),
           Balanced(task[r], batch[r], detached[r], counters[r])
    PROVE  Balanced(task'[r], batch'[r], detached'[r], counters'[r])
<1> DEFINE c == counters[r]
           n == counters'[r]
           t == task[r]
           u == task'[r]
           s == batch[r]
           x == batch'[r]
           d == detached[r]
           e == detached'[r]
<1> SUFFICES Balanced(u, x, e, n)
  OBVIOUS
<1>1. /\ Placed(t, s, d) /\ s \in Seq(Records) /\ x \in Seq(Records) /\ t \in Tasks
      /\ Len(s) \in Nat /\ Len(x) \in Nat /\ t.entries \in Nat /\ u.entries \in Nat
      /\ Len(<<>>) = 0 /\ c \in Counters /\ n \in Counters /\ u \in Tasks
      /\ Placed(u, x, e) /\ Balanced(t, s, d, c)
  BY Local, LenProperties, EmptySeq, StepMoves, PlacedStep DEF PlacedInv, Tasks, Moves
<1>2. /\ c.read \in Nat /\ c.skipped \in Nat /\ c.valid \in Nat /\ c.missing \in Nat
      /\ c.mismatch \in Nat /\ c.error \in Nat /\ Classified(c) \in Nat
  <2> HIDE DEF c
  <2>1. /\ c.read \in Nat /\ c.skipped \in Nat /\ c.valid \in Nat /\ c.missing \in Nat
        /\ c.mismatch \in Nat /\ c.error \in Nat
    BY <1>1, Numbers
  <2> QED
    BY <2>1 DEF Classified
<1>0. t.pc # "ended" =>
        /\ c.error = 0 /\ c.read <= Classified(c) + Waiting(t, s) /\ Waiting(t, s) \in Int
        /\ ~On("explode") => c.read = Classified(c) + Waiting(t, s)
        /\ On("explode") \/ t.entries <= 1
        /\ t.status = "STARTED" /\ t.cause = "none"
  <2> HIDE DEF c, t, s, d
  <2>1. Waiting(t, s) \in Int
    BY <1>1 DEF Waiting
  <2> QED
    BY <1>1, <2>1 DEF Balanced, Placed
<1>3. CASE Walks(r)
  <2>1. /\ n = c /\ e = d /\ x = s /\ u.entries = t.entries /\ u.cause = t.cause
        /\ \/ t.pc = "read" /\ u.pc = "compare" /\ u.status = t.status
           \/ t.pc = "compare" /\ s = <<>> /\ u.pc = "read" /\ u.status = t.status
           \/ t.pc = "compare" /\ s = <<>> /\ u.pc = "ended" /\ u.status = Verdict(t, c)
    BY <1>3, WalkDoes
  <2>2. Verdict(t, c) # "FAIL"
    BY DEF Verdict
  <2> HIDE DEF c, n, t, u, s, x, d, e
  <2> QED
    BY <1>1, <1>2, <2>1, <2>2 DEF Balanced, Placed, Waiting
<1>4. CASE SkipRow(r)
  <2>1. /\ x = s /\ e = d /\ t.pc = "read" /\ u = [t EXCEPT !.left = u.left]
        /\ n.read = c.read + 1 /\ n.skipped = c.skipped + 1
        /\ n.error = c.error /\ SameOutcomes(n, c)
    BY <1>4, SkipRowDoes
  <2> HIDE DEF c, n, t, u, s, x, d, e
  <2>2. u.pc = "read" /\ u.entries = t.entries /\ u.status = t.status /\ u.cause = t.cause
    <3> DEFINE left == u.left
    <3>1. u = [t EXCEPT !.left = left]
      BY <2>1
    <3> HIDE DEF left
    <3> QED
      BY <1>1, <2>1, <3>1 DEF Tasks
  <2>3. Classified(n) = Classified(c) + 1
    BY <1>1, <1>2, <2>1, ClassifiedSame
  <2>4. Waiting(u, x) = Waiting(t, s)
    BY <2>1, <2>2 DEF Waiting
  <2> QED
    BY <1>0, <1>2, <2>1, <2>2, <2>3, <2>4 DEF Balanced
<1>5. CASE TakeRow(r)
  <2>1. /\ x = s /\ e = d /\ t.pc = "read"
        /\ u = [t EXCEPT !.pc = "enqueue", !.left = u.left, !.entries = u.entries]
        /\ u.entries \in 1..MaxExplode /\ (On("explode") \/ u.entries = 1)
        /\ n.read = c.read + 1 /\ n.skipped = c.skipped
        /\ n.error = c.error /\ SameOutcomes(n, c)
    BY <1>5, TakeRowDoes
  <2> HIDE DEF c, n, t, u, s, x, d, e
  <2>2. u.pc = "enqueue" /\ u.status = t.status /\ u.cause = t.cause
    <3> DEFINE left == u.left
               k == u.entries
    <3>1. u = [t EXCEPT !.pc = "enqueue", !.left = left, !.entries = k]
      BY <2>1
    <3> HIDE DEF left, k
    <3> QED
      BY <1>1, <2>1, <3>1 DEF Tasks
  <2>3. Classified(n) = Classified(c)
    BY <1>1, <1>2, <2>1, ClassifiedSame
  <2>4. u.entries \in Nat \ {0} /\ (On("explode") \/ u.entries = 1)
    BY <2>1, ValidateSizes
  <2>5. Waiting(u, x) = Waiting(t, s) + u.entries
    BY <1>1, <2>1, <2>2 DEF Waiting, Placed
  <2> QED
    BY <1>0, <1>2, <2>1, <2>2, <2>3, <2>4, <2>5 DEF Balanced
<1>6. CASE Enqueue(r)
  <2>1. /\ n = c /\ e = d /\ t.pc = "enqueue" /\ (\E rec \in Records : x = Append(s, rec))
        /\ u.entries = t.entries - 1 /\ u.cause = t.cause /\ u.status = t.status
        /\ u.pc \in {"read", "enqueue", "compare"}
    BY <1>6, EnqueueDoes
  <2> HIDE DEF c, n, t, u, s, x, d, e
  <2>2. Len(x) = Len(s) + 1
    BY <1>1, <2>1, AppendPlaced
  <2>3. Waiting(u, x) = Waiting(t, s)
    BY <1>1, <2>1, <2>2 DEF Waiting
  <2> QED
    BY <1>0, <1>1, <1>2, <2>1, <2>3 DEF Balanced
<1>7. CASE LookupEnds(r)
  <2>1. /\ n = c /\ e = d /\ u = t
        /\ \E i \in Pending(r), end \in {"done", "failed"} : x = [s EXCEPT ![i] = Ends(s[i], end)]
    BY <1>7, LookupEndsDoes
  <2>2. Len(x) = Len(s)
    BY <1>1, <2>1, LenProperties
  <2> HIDE DEF c, n, t, u, s, x, d, e
  <2> QED
    BY <1>1, <1>2, <2>1, <2>2 DEF Balanced, Waiting
<1>8. CASE DetachedLookupEnds(r)
  <2>1. n = c /\ x = s /\ u = t /\ d > 0
    BY <1>8, DetachedLookupEndsDoes
  <2> HIDE DEF c, n, t, u, s, x, d, e
  <2> QED
    BY <1>1, <1>2, <2>1 DEF Balanced, Placed
<1>9. CASE CompareRow(r)
  <2> DEFINE kind == Kind(s[1])
  <2>1. /\ e = d /\ t.pc = "compare" /\ s # <<>>
        /\ u.entries = t.entries /\ u.cause = t.cause /\ u.status = t.status
        /\ (u.pc = "correct" /\ x = s) \/ (u.pc = "compare" /\ x = Tail(s))
    BY <1>9, CompareRowDoes
  <2>2. kind \in {"valid", "missing", "mismatch"}
    BY Kinds DEF Kind
  <2> HIDE DEF c, n, t, u, s, x, d, e, kind
  <2>3. Classified(n) = Classified(c) + 1 /\ n.read = c.read /\ n.error = c.error
    <3>1. /\ n.valid = IF kind = "valid" THEN c.valid + 1 ELSE c.valid
          /\ n.missing = IF kind = "missing" THEN c.missing + 1 ELSE c.missing
          /\ n.mismatch = IF kind = "mismatch" THEN c.mismatch + 1 ELSE c.mismatch
          /\ n.read = c.read /\ n.skipped = c.skipped /\ n.error = c.error
      BY <1>9, CompareCounts DEF n, c, kind, s
    <3> QED
      BY <1>2, <2>2, <3>1 DEF Classified
  <2>4. Len(Tail(s)) = Len(s) - 1
    BY <1>1, <2>1, HeadAndTail
  <2>5. Waiting(u, x) = Waiting(t, s) - 1
    <3>1. CASE u.pc = "correct" /\ x = s
      BY <1>1, <2>1, <3>1 DEF Waiting
    <3>2. CASE u.pc = "compare" /\ x = Tail(s)
      BY <1>1, <2>1, <2>4, <3>2 DEF Waiting
    <3> QED
      BY <2>1, <3>1, <3>2
  <2> QED
    BY <1>0, <1>1, <1>2, <2>1, <2>3, <2>5 DEF Balanced
<1>10. CASE Correct(r)
  <2> DEFINE name == CorrectedCounter(s[1])
  <2>1. /\ e = d /\ t.pc = "correct" /\ u.pc = "compare" /\ x = Tail(s)
        /\ n = [c EXCEPT ![name] = @ + 1]
        /\ u.entries = t.entries /\ u.cause = t.cause /\ u.status = t.status
    BY <1>10, CorrectDoes
  <2>2. name \in {"correctedMissing", "correctedMismatch"}
    BY DEF CorrectedCounter
  <2> HIDE DEF c, n, t, u, s, x, d, e, name
  <2>3. Classified(n) = Classified(c) /\ n.read = c.read /\ n.error = c.error
    BY <1>1, <1>2, <2>1, <2>2, CountedCorrected, SMTT(30) DEF Classified
  <2>4. Len(Tail(s)) = Len(s) - 1
    BY <1>1, <2>1, HeadAndTail DEF Placed
  <2> QED
    BY <1>1, <1>2, <2>1, <2>3, <2>4 DEF Balanced, Placed, Waiting
<1>11. CASE Fails(r)
  <2>1. /\ t.pc # "ended" /\ u.pc = "ended" /\ u.status = "FAIL" /\ e = Cardinality(Pending(r))
        /\ \/ u.cause = "error"
           \/ u.cause = "cancelled" /\ s = <<>> /\ t.pc = "compare"
    BY <1>11, FailsDoes DEF Failed
  <2>2. PICK m \in Counters :
          /\ \/ m = c
             \/ /\ t.pc = "read" /\ u.cause = "error"
                /\ m.read = c.read + 1 /\ m.skipped = c.skipped
                /\ m.error = c.error /\ SameOutcomes(m, c)
          /\ n.error = m.error + LostRows(m) /\ n.read = m.read /\ n.skipped = m.skipped
          /\ SameOutcomes(n, m)
    BY <1>11, FailsDoes DEF Failed, Charged
  <2>3. s = <<>> => Cardinality(Pending(r)) = 0
    BY <1>1, FS_EmptySet DEF Pending
  <2> HIDE DEF c, n, t, u, s, x, d, e
  <2>4. Classified(n) = Classified(m) /\ Classified(m) = Classified(c)
        /\ m.read \in Nat /\ n.read = m.read /\ m.error = c.error
    BY <1>1, <1>2, <2>2, ClassifiedSame, Numbers
  <2>5. c.error = 0 /\ c.read <= Classified(c) + Waiting(t, s)
        /\ (~On("explode") => c.read = Classified(c) + Waiting(t, s)) /\ Waiting(t, s) \in Nat
    <3>1. t.pc = "correct" => Len(s) > 0
      BY <1>1, HeadAndTail DEF Placed
    <3> QED
      BY <1>1, <2>1, <3>1 DEF Balanced, Waiting
  <2>6. /\ LostRows(m) \in Nat /\ LostRows(m) <= m.read
        /\ m.read <= Classified(m) => LostRows(m) = 0
        /\ m.read >= Classified(m) => LostRows(m) = m.read - Classified(m)
    BY <2>2, LostRowsIs
  <2>7. ~On("explode") => m.read >= Classified(m)
    BY <1>2, <2>2, <2>4, <2>5
  <2>8. (~On("explode") => n.read = Classified(n) + n.error) /\ n.error <= n.read
    BY <1>2, <2>2, <2>4, <2>5, <2>6, <2>7
  <2>9. u.cause = "cancelled" => e = 0 /\ n.error = 0
    <3> SUFFICES ASSUME u.cause = "cancelled" PROVE e = 0 /\ n.error = 0
      OBVIOUS
    <3>1. s = <<>> /\ t.pc = "compare" /\ m = c
      BY <2>1, <2>2
    <3>2. Waiting(t, s) = 0
      BY <1>1, <3>1 DEF Waiting, Placed
    <3> QED
      BY <1>2, <2>1, <2>2, <2>3, <2>4, <2>5, <2>6, <3>1, <3>2
  <2> QED
    BY <2>1, <2>8, <2>9 DEF Balanced
<1>12. CASE Abandon(r)
  <2>1. n = c /\ t.pc # "ended" /\ u.pc = "ended" /\ u.status = t.status /\ u.cause = "abandoned"
    BY <1>12, AbandonDoes DEF Abandoned
  <2> HIDE DEF c, n, t, u, s, x, d, e
  <2> QED
    BY <1>1, <2>1 DEF Balanced, Placed
<1> QED
  BY <1>3, <1>4, <1>5, <1>6, <1>7, <1>8, <1>9, <1>10, <1>11, <1>12 DEF Step

-----------------------------------------------------------------------------
(* VAL-013: the report of a range.                                          *)

\* A step leaves the report alone and corrects nothing, or sends it one record with its mark.
Files(p, w, c, n) ==
    \/ w = p /\ Repaired(n) = Repaired(c)
    \/ \E marked \in {0, 1} : w \in Outcomes(p, marked) /\ Repaired(n) = Repaired(c) + marked

\* Every step of a range keeps its report in step with its counters.
LEMMA ReportStep ==
    ASSUME TypeOK, PlacedInv, NEW r \in Ranges, Step(r), Reported(task[r], counters[r], report[r])
    PROVE  /\ Reported(task'[r], counters'[r], report'[r])
           /\ Files(report[r], report'[r], counters[r], counters'[r])
<1> DEFINE c == counters[r]
           n == counters'[r]
           t == task[r]
           u == task'[r]
           p == report[r]
           w == report'[r]
<1> SUFFICES Reported(u, n, w) /\ Files(p, w, c, n)
  OBVIOUS
<1>1. /\ Placed(t, batch[r], detached[r]) /\ t \in Tasks /\ c \in Counters /\ Reported(t, c, p)
      /\ p \in Reports /\ (p.failed => SinkBroken)
  BY Local DEF PlacedInv, SinkBroken
<1>2. /\ c.missing \in Nat /\ c.mismatch \in Nat /\ c.correctedMissing \in Nat
      /\ c.correctedMismatch \in Nat
      /\ Found(c) \in Nat /\ Repaired(c) \in Nat /\ Sent(p) \in Nat /\ p.total \in Nat
      /\ p.corrected \in Nat
  <2>1. c \in Counters /\ p \in Reports
    BY Local
  <2> HIDE DEF c, p
  <2>2. /\ c.missing \in Nat /\ c.mismatch \in Nat /\ c.correctedMissing \in Nat
        /\ c.correctedMismatch \in Nat
    BY <2>1, Numbers
  <2>3. p.total \in Nat /\ p.corrected \in Nat /\ p.counted \in Nat
    BY <2>1 DEF Reports
  <2> QED
    BY <2>2, <2>3 DEF Found, Repaired, Sent
<1>3. CASE Walks(r)
  <2>1. /\ n = c /\ w = p /\ u.cause = t.cause /\ t.pc \in {"read", "compare"}
        /\ u.pc \in {"read", "compare", "ended"}
    BY <1>3, WalkDoes
  <2> HIDE DEF c, n, t, u, p, w
  <2> QED
    BY <1>1, <1>2, <2>1 DEF Reported, Files
<1>4. CASE SkipRow(r) \/ TakeRow(r)
  <2>1. /\ w = p /\ SameOutcomes(n, c) /\ t.pc = "read"
        /\ \/ u = [t EXCEPT !.left = u.left]
           \/ u = [t EXCEPT !.pc = "enqueue", !.left = u.left, !.entries = u.entries]
    BY <1>4, SkipRowDoes, TakeRowDoes
  <2> HIDE DEF c, n, t, u, p, w
  <2>2. u.pc \in {"read", "enqueue"} /\ u.cause = t.cause
    <3> DEFINE left == u.left
               k == u.entries
    <3>1. \/ u = [t EXCEPT !.left = left]
          \/ u = [t EXCEPT !.pc = "enqueue", !.left = left, !.entries = k]
      BY <2>1
    <3> HIDE DEF left, k
    <3> QED
      BY <1>1, <2>1, <3>1 DEF Tasks
  <2>3. Found(n) = Found(c) /\ Repaired(n) = Repaired(c)
    BY <2>1 DEF Found, Repaired, SameOutcomes
  <2> QED
    BY <1>1, <1>2, <2>1, <2>2, <2>3 DEF Reported, Files
<1>5. CASE Enqueue(r)
  <2>1. /\ n = c /\ w = p /\ u.cause = t.cause /\ t.pc = "enqueue"
        /\ u.pc \in {"read", "enqueue", "compare"}
    BY <1>5, EnqueueDoes
  <2> HIDE DEF c, n, t, u, p, w
  <2> QED
    BY <1>1, <1>2, <2>1 DEF Reported, Files
<1>6. CASE LookupEnds(r) \/ DetachedLookupEnds(r)
  <2>1. n = c /\ w = p /\ u = t
    BY <1>6, LookupEndsDoes, DetachedLookupEndsDoes
  <2> HIDE DEF c, n, t, u, p, w
  <2> QED
    BY <1>1, <2>1 DEF Files
<1>7. CASE CompareRow(r)
  <2> DEFINE kind == Kind(batch[r][1])
  <2>1. /\ n.missing = IF kind = "missing" THEN c.missing + 1 ELSE c.missing
        /\ n.mismatch = IF kind = "mismatch" THEN c.mismatch + 1 ELSE c.mismatch
        /\ n.correctedMissing = c.correctedMissing /\ n.correctedMismatch = c.correctedMismatch
    BY <1>7, CompareCounts
  <2>2. /\ t.pc = "compare" /\ u.cause = t.cause
        /\ \/ kind # "valid" /\ u.pc = "correct" /\ w = p
           \/ /\ u.pc = "compare"
              /\ IF kind = "valid" THEN w = p ELSE w \in Outcomes(p, 0)
    BY <1>7, CompareRowDoes
  <2>3. kind \in {"valid", "missing", "mismatch"}
    BY Kinds DEF Kind
  <2> HIDE DEF c, n, t, u, p, w, kind
  <2>4. Found(n) = Found(c) + (IF kind = "valid" THEN 0 ELSE 1) /\ Repaired(n) = Repaired(c)
    BY <1>2, <2>1, <2>3 DEF Found, Repaired
  <2>5. On("report") => /\ Found(c) = Sent(p) /\ p.corrected <= Repaired(c)
                        /\ p.total - p.corrected + Repaired(c) <= Sent(p)
    BY <1>1, <1>2, <2>2 DEF Reported
  <2>6. CASE w = p /\ u.pc = IF kind = "valid" THEN "compare" ELSE "correct"
    BY <1>2, <2>4, <2>5, <2>6 DEF Reported, Files
  <2>7. CASE kind # "valid" /\ u.pc = "compare" /\ w \in Outcomes(p, 0)
    <3>1. On("report") =>
            /\ Sent(w) = Sent(p) + 1
            /\ \/ w.total = p.total /\ w.corrected = p.corrected
               \/ w.total = p.total + 1 /\ w.corrected = p.corrected + 0
      BY <1>1, <2>7, OutcomesAre
    <3>2. Reported(u, n, w)
      BY <1>2, <2>4, <2>5, <2>7, <3>1 DEF Reported
    <3>3. Repaired(n) = Repaired(c) + 0
      BY <1>2, <2>4
    <3> QED
      BY <2>7, <3>2, <3>3 DEF Files
  <2>8. \/ w = p /\ u.pc = IF kind = "valid" THEN "compare" ELSE "correct"
        \/ kind # "valid" /\ u.pc = "compare" /\ w \in Outcomes(p, 0)
    BY <2>2
  <2> QED
    BY <2>6, <2>7, <2>8
<1>8. CASE Correct(r)
  <2>1. /\ n.missing = c.missing /\ n.mismatch = c.mismatch
        /\ n.correctedMissing + n.correctedMismatch = c.correctedMissing + c.correctedMismatch + 1
    BY <1>2, <1>8, CorrectCounts
  <2>2. /\ t.pc = "correct" /\ u.pc = "compare" /\ u.cause = t.cause
        /\ w \in Outcomes(p, 1)
    BY <1>8, CorrectDoes
  <2> HIDE DEF c, n, t, u, p, w
  <2>3. Found(n) = Found(c) /\ Repaired(n) = Repaired(c) + 1
    BY <2>1 DEF Found, Repaired
  <2>4. On("report") => /\ Found(c) = Sent(p) + 1 /\ p.corrected <= Repaired(c)
                        /\ p.total - p.corrected + Repaired(c) <= Sent(p)
    BY <1>1, <1>2, <2>2 DEF Reported
  <2>5. On("report") =>
          /\ Sent(w) = Sent(p) + 1
          /\ \/ w.total = p.total /\ w.corrected = p.corrected
             \/ w.total = p.total + 1 /\ w.corrected = p.corrected + 1
    BY <1>1, <2>2, OutcomesAre
  <2>6. Reported(u, n, w)
    BY <1>2, <2>2, <2>3, <2>4, <2>5 DEF Reported
  <2> QED
    BY <2>2, <2>3, <2>6 DEF Files
<1>9. CASE Fails(r)
  <2>1. /\ t.pc # "ended" /\ u.pc = "ended" /\ w = p
        /\ u.cause = "error" \/ t.pc = "compare"
        /\ SameOutcomes(n, c)
    <3>1. PICK m \in Counters : (m = c \/ SameOutcomes(m, c)) /\ SameOutcomes(n, m)
      BY <1>9, FailsDoes DEF Failed, Charged
    <3>2. SameOutcomes(n, c)
      BY <3>1 DEF SameOutcomes
    <3> QED
      BY <1>9, <3>2, FailsDoes DEF Failed
  <2> HIDE DEF c, n, t, u, p, w
  <2>2. Found(n) = Found(c) /\ Repaired(n) = Repaired(c)
    BY <2>1 DEF Found, Repaired, SameOutcomes
  <2> QED
    BY <1>1, <1>2, <2>1, <2>2 DEF Reported, Files
<1>10. CASE Abandon(r)
  <2>1. n = c /\ t.pc # "ended" /\ u.pc = "ended" /\ w = p /\ u.cause = "abandoned"
    BY <1>10, AbandonDoes DEF Abandoned
  <2> HIDE DEF c, n, t, u, p, w
  <2> QED
    BY <1>1, <1>2, <2>1 DEF Reported, Files
<1> QED
  BY <1>3, <1>4, <1>5, <1>6, <1>7, <1>8, <1>9, <1>10 DEF Step

\* One failed write breaks the sink for every range, and none fails after it.
LEMMA SinkStep ==
    ASSUME TypeOK, SinkInv, NEW r \in Ranges, Moves(r),
           Files(report[r], report'[r], counters[r], counters'[r])
    PROVE  SinkInv'
<1> DEFINE p == report[r]
           w == report'[r]
<1>1. \A q \in Ranges \ {r} : report'[q] = report[q] /\ counters'[q] = counters[q]
  BY Others
<1>2. p \in Reports /\ conf' = conf /\ (p.failed => SinkBroken)
  BY Local DEF Moves, SinkBroken
<1>3. /\ p.failed => w.failed
      /\ w.failed => p.failed \/ ~SinkBroken
      /\ On("report") /\ ~SinkBroken /\ ~w.failed =>
           w.total = w.counted /\ w.corrected = Repaired(counters'[r])
  <2>1. On("report") /\ ~SinkBroken => p.total = p.counted /\ p.corrected = Repaired(counters[r])
    BY DEF SinkInv
  <2>2. CASE w = p /\ Repaired(counters'[r]) = Repaired(counters[r])
    BY <2>1, <2>2
  <2>3. ASSUME NEW marked \in {0, 1}, w \in Outcomes(p, marked),
               Repaired(counters'[r]) = Repaired(counters[r]) + marked
        PROVE  <1>3!1 /\ <1>3!2 /\ <1>3!3
    <3> HIDE DEF p, w
    <3> QED
      BY <1>2, <2>1, <2>3, OutcomesAre
  <2> QED
    BY <2>2, <2>3 DEF Files
<1>4. SinkBroken => SinkBroken'
  BY <1>1, <1>3 DEF SinkBroken
<1>5. ~SinkBroken' => ~w.failed
  BY DEF SinkBroken
<1>6. On("report")' = On("report")
  BY <1>2 DEF On
<1>7. \A q \in Ranges : On("report") /\ ~SinkBroken' =>
        report'[q].total = report'[q].counted /\ report'[q].corrected = Repaired(counters'[q])
  BY <1>1, <1>3, <1>4, <1>5 DEF SinkInv
<1>8. \A x, q \in Ranges : report'[x].failed /\ report'[q].failed => x = q
  <2>1. \A q \in Ranges \ {r} : report'[q].failed => SinkBroken
    BY <1>1 DEF SinkBroken
  <2>2. \A x, q \in Ranges : report[x].failed /\ report[q].failed => x = q
    BY DEF SinkInv
  <2> QED
    BY <1>1, <1>3, <2>1, <2>2
<1> QED
  BY <1>6, <1>7, <1>8 DEF SinkInv, Repaired

-----------------------------------------------------------------------------
(* VAL-016, CON-012: what validating leaves on the target.                  *)

\* What a correction writes is the origin's value, as far as it can be reached, and no value of its
\* own making.
LEMMA LandedIs ==
    ASSUME NEW rec \in Records, InBatch(rec), rec.got = rec.target,
           Kind(rec) # "valid", Corrects(Kind(rec)),
           NEW now, now = [rec EXCEPT !.target = Landed(rec)]
    PROVE  Fixed(now) /\ Known(now)
<1> DEFINE v == Landed(rec)
<1>1. /\ rec.origin \in Nat \cup {-2} /\ rec.target \in Nat \cup {-2, -1} /\ rec.was = rec.target
      /\ rec.residue \in 0..1 /\ rec.newer \in BOOLEAN
  BY DEF InBatch, Records, Absent, Null
<1>2. v \in Int
  BY <1>1 DEF Landed, Delta, Amount, Unset, Bound, Absent, Null
<1>3. /\ now.target = v /\ now.origin = rec.origin /\ now.was = rec.target /\ now.newer = rec.newer
      /\ now.residue = rec.residue
  <2> HIDE DEF v
  <2>1. now = [rec EXCEPT !.target = v]
    BY DEF v
  <2> QED
    BY <1>1, <1>2, <2>1 DEF Records
<1>4. CASE rec.newer
  <2>1. v = rec.target
    BY <1>4 DEF Landed
  <2> HIDE DEF v
  <2> QED
    BY <1>3, <1>4, <2>1 DEF Fixed, Known, Reachable
<1>5. CASE ~rec.newer /\ Unset(rec)
  <2>1. v = IF rec.target = -1 THEN -2 ELSE rec.target
    BY <1>5 DEF Landed, Absent, Null
  <2>2. Bound(rec.origin) = Null
    BY <1>5 DEF Unset, Bound
  <2> HIDE DEF v
  <2> QED
    BY <1>3, <2>1, <2>2 DEF Fixed, Known, Reachable, Absent, Null
<1>6. CASE ~rec.newer /\ ~Unset(rec) /\ On("counter")
  <2>1. CASE rec.target = -1
    <3>0. rec.origin \in Nat
      BY <1>1, <1>6, <2>1 DEF Unset, Absent, Null
    <3>1. v = rec.residue + rec.origin
      BY <1>6, <2>1 DEF Landed, Delta, Absent
    <3>2. Kind(rec) = "missing"
      BY <2>1 DEF Kind, Compare, Absent
    <3>3. On("missingCounter")
      BY <1>6, <3>2 DEF Corrects
    <3>4. v # -1 /\ (rec.residue = 0 => v = rec.origin)
      BY <1>1, <3>0, <3>1
    <3> HIDE DEF v
    <3> QED
      BY <1>1, <1>3, <2>1, <3>3, <3>4 DEF Fixed, Known, Reachable, Agrees, Absent
  <2>2. CASE rec.target # -1
    <3>1. v = Amount(rec.origin) /\ v # -1
      BY <1>1, <1>6, <2>2 DEF Landed, Delta, Amount, Absent, Null
    <3>2. v = rec.origin \/ Bound(rec.origin) = Null
      BY <3>1 DEF Amount, Bound
    <3> HIDE DEF v
    <3> QED
      BY <1>3, <1>6, <3>1, <3>2 DEF Fixed, Known, Reachable, Agrees, Absent
  <2> QED
    BY <2>1, <2>2
<1>7. CASE ~rec.newer /\ ~Unset(rec) /\ ~On("counter")
  <2>1. v = Bound(rec.origin) /\ Bound(rec.origin) # Null
    BY <1>7 DEF Landed, Unset
  <2>2. v = rec.origin /\ v # -1
    BY <1>1, <2>1 DEF Bound, Null
  <2> HIDE DEF v
  <2> QED
    BY <1>3, <2>2 DEF Fixed, Known, Agrees, Absent
<1> QED
  BY <1>4, <1>5, <1>6, <1>7

\* A record whose correction fails is as it was, or as the correction writes it.
LEMMA KnownStep ==
    ASSUME TypeOK, PlacedInv, NEW r \in Ranges, Step(r), \A rec \in rows[r] : Known(rec)
    PROVE  \A rec \in rows'[r] : Known(rec)
<1>1. ASSUME task[r].pc = "correct" PROVE Known(batch[r][1]) /\ Known(Rewritten(r))
  <2>1. /\ batch[r][1] \in Records /\ InBatch(batch[r][1])
        /\ batch[r][1].got = batch[r][1].target
        /\ Kind(batch[r][1]) # "valid" /\ Corrects(Kind(batch[r][1]))
        /\ Rewritten(r) = [batch[r][1] EXCEPT !.target = Landed(batch[r][1])]
    BY <1>1, Correcting
  <2>2. Known(batch[r][1])
    BY <2>1 DEF Known, InBatch
  <2> QED
    BY <2>1, <2>2, LandedIs
<1>2. CASE Walks(r) \/ SkipRow(r) \/ TakeRow(r) \/ Enqueue(r) \/ LookupEnds(r) \/ DetachedLookupEnds(r)
  BY <1>2, WalkDoes, SkipRowDoes, TakeRowDoes, EnqueueDoes, LookupEndsDoes, DetachedLookupEndsDoes
<1>3. CASE CompareRow(r)
  <2>1. batch[r] # <<>> /\ (rows'[r] = rows[r] \/ rows'[r] = rows[r] \cup {batch[r][1]})
    BY <1>3, CompareRowDoes
  <2>2. InBatch(batch[r][1])
    BY <2>1, HeadAndTail, Local DEF PlacedInv, Placed
  <2>3. Known(batch[r][1])
    BY <2>2 DEF Known, InBatch
  <2> QED
    BY <2>1, <2>3
<1>4. CASE Correct(r)
  <2>1. task[r].pc = "correct" /\ rows'[r] = rows[r] \cup {Rewritten(r)}
    BY <1>4, CorrectDoes
  <2> QED
    BY <1>1, <2>1
<1>5. CASE Fails(r) \/ Abandon(r)
  <2>1. MaybeLanded(r)
    BY <1>5, FailsDoes, AbandonDoes DEF Failed, Abandoned
  <2> QED
    BY <1>1, <2>1 DEF MaybeLanded
<1> QED
  BY <1>2, <1>3, <1>4, <1>5 DEF Step

\* The record being corrected keeps its place while lookups end.
LEMMA HeadStays ==
    ASSUME TypeOK, PlacedInv, NEW r \in Ranges, LookupEnds(r), task[r].pc = "correct"
    PROVE  batch'[r][1] = batch[r][1]
<1> DEFINE s == batch[r]
<1>1. s \in Seq(Records) /\ s # <<>> /\ s[1].lookup = "done"
  BY Local, Correcting
<1>2. PICK i \in Pending(r), end \in {"done", "failed"} : batch'[r] = [s EXCEPT ![i] = Ends(s[i], end)]
  BY LookupEndsDoes
<1>3. i # 1 /\ i \in DOMAIN s /\ 1 \in DOMAIN s
  BY <1>1, <1>2, HeadAndTail DEF Pending
<1> QED
  BY <1>1, <1>2, <1>3

\* Every step of a range keeps what its compared records say, up to the verdict.
LEMMA SettleStep ==
    ASSUME TypeOK, PlacedInv, NEW r \in Ranges, Step(r),
           Settling(task[r], batch[r], counters[r], rows[r])
    PROVE  Settling(task'[r], batch'[r], counters'[r], rows'[r])
<1> DEFINE c == counters[r]
           n == counters'[r]
           t == task[r]
           u == task'[r]
           s == batch[r]
           x == batch'[r]
           recs == rows[r]
           now == rows'[r]
<1> SUFFICES Settling(u, x, n, now)
  OBVIOUS
<1>1. /\ Placed(t, s, detached[r]) /\ t \in Tasks /\ c \in Counters /\ Settling(t, s, c, recs)
      /\ t.discrepancy \in BOOLEAN /\ s \in Seq(Records)
  BY Local DEF PlacedInv, Tasks
<1>2. /\ c.missing \in Nat /\ c.mismatch \in Nat /\ c.correctedMissing \in Nat
      /\ c.correctedMismatch \in Nat
  <2>1. c \in Counters
    BY Local
  <2> HIDE DEF c
  <2> QED
    BY <2>1, Numbers
<1>3. t.pc # "ended" => t.status = "STARTED"
  BY <1>1 DEF Placed
<1>4. CASE Walks(r)
  <2>1. /\ n = c /\ now = recs /\ x = s /\ u.discrepancy = t.discrepancy /\ t.pc \in {"read", "compare"}
        /\ \/ u.pc \in {"read", "compare"} /\ u.status = t.status
           \/ u.pc = "ended" /\ u.status = Verdict(t, c)
    BY <1>4, WalkDoes
  <2> HIDE DEF c, n, t, u, s, x, recs, now
  <2>2. /\ c.missing >= c.correctedMissing /\ c.mismatch >= c.correctedMismatch
        /\ \A rec \in recs :
             \/ Untouched(rec)
             \/ t.discrepancy /\ (Fixed(rec) \/ c.missing > c.correctedMissing
                                              \/ c.mismatch > c.correctedMismatch)
    BY <1>1, <1>2, <2>1 DEF Settling, Due, LeftMissing, LeftMismatch
  <2>3. CASE u.pc \in {"read", "compare"} /\ u.status = t.status
    BY <1>2, <1>3, <2>1, <2>2, <2>3 DEF Settling, Due, LeftMissing, LeftMismatch
  <2>4. CASE u.pc = "ended" /\ u.status = Verdict(t, c)
    <3>1. u.status = "PASS" => ~t.discrepancy
      BY <1>1, <2>4 DEF Verdict
    <3>2. u.status = "DIFF_CORRECTED" =>
            c.missing = c.correctedMissing /\ c.mismatch = c.correctedMismatch
      BY <1>1, <2>4 DEF Verdict
    <3>3. u.status \in {"PASS", "DIFF_CORRECTED"} =>
            \A rec \in recs : Untouched(rec) \/ (u.status = "DIFF_CORRECTED" /\ Fixed(rec))
      <4>1. CASE u.status = "PASS"
        BY <2>2, <3>1, <4>1
      <4>2. CASE u.status = "DIFF_CORRECTED"
        <5>1. ~(c.missing > c.correctedMissing) /\ ~(c.mismatch > c.correctedMismatch)
          BY <1>2, <3>2, <4>2
        <5> QED
          BY <2>2, <4>2, <5>1
      <4> QED
        BY <4>1, <4>2
    <3> QED
      BY <2>1, <2>4, <3>3 DEF Settling
  <2> QED
    BY <2>1, <2>3, <2>4
<1>5. CASE SkipRow(r) \/ TakeRow(r)
  <2>1. /\ now = recs /\ SameOutcomes(n, c) /\ t.pc = "read" /\ x = s
        /\ \/ u = [t EXCEPT !.left = u.left]
           \/ u = [t EXCEPT !.pc = "enqueue", !.left = u.left, !.entries = u.entries]
    BY <1>5, SkipRowDoes, TakeRowDoes
  <2> HIDE DEF c, n, t, u, s, x, recs, now
  <2>2. u.pc \in {"read", "enqueue"} /\ u.discrepancy = t.discrepancy /\ u.status = t.status
    <3> DEFINE left == u.left
               k == u.entries
    <3>1. \/ u = [t EXCEPT !.left = left]
          \/ u = [t EXCEPT !.pc = "enqueue", !.left = left, !.entries = k]
      BY <2>1
    <3> HIDE DEF left, k
    <3> QED
      BY <1>1, <2>1, <3>1 DEF Tasks
  <2> QED
    BY <1>1, <1>2, <1>3, <2>1, <2>2 DEF Settling, SameOutcomes, Due, LeftMissing, LeftMismatch
<1>6. CASE Enqueue(r)
  <2>1. /\ n = c /\ now = recs /\ u.discrepancy = t.discrepancy /\ t.pc = "enqueue"
        /\ u.status = t.status /\ u.pc \in {"read", "enqueue", "compare"}
    BY <1>6, EnqueueDoes
  <2> HIDE DEF c, n, t, u, s, x, recs, now
  <2> QED
    BY <1>1, <1>2, <1>3, <2>1 DEF Settling, Due, LeftMissing, LeftMismatch
<1>7. CASE LookupEnds(r) \/ DetachedLookupEnds(r)
  <2>1. n = c /\ now = recs /\ u = t /\ (t.pc = "correct" => x[1] = s[1])
    BY <1>7, LookupEndsDoes, DetachedLookupEndsDoes, HeadStays
  <2> HIDE DEF c, n, t, u, s, x, recs, now
  <2> QED
    BY <1>1, <2>1 DEF Settling, Due, LeftMissing, LeftMismatch
<1>8. CASE CompareRow(r)
  <2> DEFINE h == batch[r][1]
             kind == Kind(h)
  <2>1. /\ n.missing = IF kind = "missing" THEN c.missing + 1 ELSE c.missing
        /\ n.mismatch = IF kind = "mismatch" THEN c.mismatch + 1 ELSE c.mismatch
        /\ n.correctedMissing = c.correctedMissing /\ n.correctedMismatch = c.correctedMismatch
    BY <1>8, CompareCounts
  <2>2. /\ t.pc = "compare" /\ u.status = t.status /\ s # <<>> /\ h.lookup = "done"
        /\ u.discrepancy = (t.discrepancy \/ kind # "valid")
        /\ \/ kind # "valid" /\ u.pc = "correct" /\ x = s /\ now = recs
           \/ u.pc = "compare" /\ now = recs \cup {h}
    BY <1>8, CompareRowDoes
  <2>3. kind \in {"valid", "missing", "mismatch"}
    BY Kinds DEF Kind
  <2>4. kind = "valid" => Untouched(h)
    <3>1. InBatch(h)
      BY <1>1, <2>2, HeadAndTail DEF Placed
    <3> QED
      BY <2>2, <3>1 DEF Untouched, InBatch
  <2>5. Kind(s[1]) = kind
    OBVIOUS
  <2> HIDE DEF c, n, t, u, s, x, recs, now, h, kind
  <2>6. /\ c.missing >= c.correctedMissing /\ c.mismatch >= c.correctedMismatch
        /\ \A rec \in recs :
             \/ Untouched(rec)
             \/ t.discrepancy /\ (Fixed(rec) \/ c.missing > c.correctedMissing
                                              \/ c.mismatch > c.correctedMismatch)
    BY <1>1, <1>2, <2>2 DEF Settling, Due, LeftMissing, LeftMismatch
  <2>7. CASE kind # "valid" /\ u.pc = "correct" /\ x = s /\ now = recs
    <3>1. /\ Due(u, x, "missing") = IF kind = "missing" THEN 1 ELSE 0
          /\ Due(u, x, "mismatch") = IF kind = "mismatch" THEN 1 ELSE 0
      BY <2>5, <2>7 DEF Due
    <3>2. u.discrepancy /\ u.status = "STARTED"
      BY <1>3, <2>2, <2>7
    <3>3. /\ n.missing >= n.correctedMissing + Due(u, x, "missing")
          /\ n.mismatch >= n.correctedMismatch + Due(u, x, "mismatch")
          /\ c.missing > c.correctedMissing => LeftMissing(u, x, n)
          /\ c.mismatch > c.correctedMismatch => LeftMismatch(u, x, n)
      BY <1>2, <2>1, <2>3, <2>6, <3>1 DEF LeftMissing, LeftMismatch
    <3> QED
      BY <2>6, <2>7, <3>2, <3>3 DEF Settling
  <2>8. CASE u.pc = "compare" /\ now = recs \cup {h}
    <3>1. Due(u, x, "missing") = 0 /\ Due(u, x, "mismatch") = 0
      BY <2>8 DEF Due
    <3>2. u.status = "STARTED"
      BY <1>3, <2>2
    <3>3. /\ n.missing >= n.correctedMissing /\ n.mismatch >= n.correctedMismatch
          /\ c.missing > c.correctedMissing \/ kind = "missing" => LeftMissing(u, x, n)
          /\ c.mismatch > c.correctedMismatch \/ kind = "mismatch" => LeftMismatch(u, x, n)
      BY <1>2, <2>1, <2>3, <2>6, <3>1 DEF LeftMissing, LeftMismatch
    <3>4. Untouched(h) \/ (u.discrepancy /\ (LeftMissing(u, x, n) \/ LeftMismatch(u, x, n)))
      BY <2>2, <2>3, <2>4, <3>3
    <3>5. \A rec \in now :
            \/ Untouched(rec)
            \/ u.discrepancy /\ (Fixed(rec) \/ LeftMissing(u, x, n) \/ LeftMismatch(u, x, n))
      BY <2>2, <2>6, <2>8, <3>3, <3>4
    <3> QED
      BY <1>2, <2>1, <2>8, <3>1, <3>2, <3>3, <3>5 DEF Settling
  <2> QED
    BY <2>2, <2>7, <2>8
<1>9. CASE Correct(r)
  <2> DEFINE h == batch[r][1]
             rec1 == Rewritten(r)
  <2>1. /\ n.missing = c.missing /\ n.mismatch = c.mismatch
        /\ \/ /\ h.got = Absent /\ n.correctedMissing = c.correctedMissing + 1
              /\ n.correctedMismatch = c.correctedMismatch
           \/ /\ h.got # Absent /\ n.correctedMissing = c.correctedMissing
              /\ n.correctedMismatch = c.correctedMismatch + 1
    BY <1>9, CorrectCounts
  <2>2. /\ t.pc = "correct" /\ u.pc = "compare" /\ u.discrepancy = t.discrepancy
        /\ u.status = t.status /\ now = recs \cup {rec1}
    BY <1>9, CorrectDoes
  <2>3. Kind(h) # "valid" /\ Fixed(rec1)
    <3>1. /\ h \in Records /\ InBatch(h) /\ h.got = h.target
          /\ Kind(h) # "valid" /\ Corrects(Kind(h)) /\ rec1 = [h EXCEPT !.target = Landed(h)]
      BY <2>2, Correcting
    <3> HIDE DEF h, rec1
    <3> QED
      BY <3>1, LandedIs
  <2>4. Kind(h) = IF h.got = Absent THEN "missing" ELSE "mismatch"
    BY <2>3 DEF Kind, Compare
  <2>5. /\ Due(t, s, "missing") = IF h.got = Absent THEN 1 ELSE 0
        /\ Due(t, s, "mismatch") = IF h.got = Absent THEN 0 ELSE 1
        /\ Due(u, x, "missing") = 0 /\ Due(u, x, "mismatch") = 0
    BY <2>2, <2>4 DEF Due
  <2> HIDE DEF c, n, t, u, s, x, recs, now, h, rec1
  <2>6. /\ c.missing >= c.correctedMissing + Due(t, s, "missing")
        /\ c.mismatch >= c.correctedMismatch + Due(t, s, "mismatch")
        /\ t.discrepancy
        /\ \A rec \in recs :
              Untouched(rec) \/ Fixed(rec) \/ LeftMissing(t, s, c) \/ LeftMismatch(t, s, c)
    BY <1>1, <2>2 DEF Settling
  <2>7. /\ n.missing >= n.correctedMissing + Due(u, x, "missing")
        /\ n.mismatch >= n.correctedMismatch + Due(u, x, "mismatch")
        /\ LeftMissing(t, s, c) => LeftMissing(u, x, n)
        /\ LeftMismatch(t, s, c) => LeftMismatch(u, x, n)
    BY <1>2, <2>1, <2>5, <2>6 DEF LeftMissing, LeftMismatch
  <2>8. u.status = "STARTED" /\ u.discrepancy
    BY <1>3, <2>2, <2>6
  <2> QED
    BY <2>2, <2>3, <2>6, <2>7, <2>8 DEF Settling
<1>10. CASE Fails(r)
  <2>1. u.pc = "ended" /\ u.status = "FAIL"
    BY <1>10, FailsDoes DEF Failed
  <2> HIDE DEF c, n, t, u, s, x, recs, now
  <2> QED
    BY <2>1 DEF Settling
<1>11. CASE Abandon(r)
  <2>1. u.pc = "ended" /\ u.status = "STARTED"
    BY <1>3, <1>11, AbandonDoes DEF Abandoned
  <2> HIDE DEF c, n, t, u, s, x, recs, now
  <2> QED
    BY <2>1 DEF Settling
<1> QED
  BY <1>4, <1>5, <1>6, <1>7, <1>8, <1>9, <1>10, <1>11 DEF Step

-----------------------------------------------------------------------------
(* ENG-007: the permits.                                                    *)

PendingIn(s) == {i \in DOMAIN s : s[i].lookup = "pending"}
SlotsOf(s, d) == PendingIn(s) \cup {-i : i \in 1..d}

\* A range's lookups are its pending records and those that outlived it.
LEMMA SlotsCount ==
    ASSUME NEW P \in SUBSET (Nat \ {0}), IsFiniteSet(P), NEW d \in Nat
    PROVE  /\ IsFiniteSet(P \cup {-i : i \in 1..d})
           /\ Cardinality(P \cup {-i : i \in 1..d}) = Cardinality(P) + d
<1> DEFINE N == {-i : i \in 1..d}
           f == [i \in 1..d |-> -i]
<1>1. IsFiniteSet(1..d) /\ Cardinality(1..d) = d
  BY FS_Interval
<1>2. f \in Bijection(1..d, N)
  <2>1. f \in [1..d -> N]
    OBVIOUS
  <2>2. \A i, j \in 1..d : f[i] = f[j] => i = j
    OBVIOUS
  <2>3. \A n \in N : \E i \in 1..d : f[i] = n
    OBVIOUS
  <2> HIDE DEF f, N
  <2> QED
    BY <2>1, <2>2, <2>3 DEF Bijection, Injection, Surjection, IsInjective
<1>3. IsFiniteSet(N) /\ Cardinality(N) = d
  BY <1>1, <1>2, FS_Bijection DEF ExistsBijection
<1>4. P \cap N = {}
  OBVIOUS
<1> HIDE DEF N
<1>5. /\ IsFiniteSet(P \cup N)
      /\ Cardinality(P \cup N) = Cardinality(P) + Cardinality(N) - Cardinality(P \cap N)
  BY <1>3, FS_Union
<1>6. Cardinality(P \cap N) = 0 /\ Cardinality(P) \in Nat
  BY <1>4, FS_EmptySet, FS_CardinalityType
<1>7. IsFiniteSet(P \cup N) /\ Cardinality(P \cup N) = Cardinality(P) + d
  BY <1>3, <1>5, <1>6
<1> QED
  BY <1>7 DEF N

\* Counting the members of a family of sets, all but one of which stay the same.
Members(F) == UNION {{q} \X F[q] : q \in Ranges}

\* A finite family of finite sets has finitely many members, those of one set and the rest.
LEMMA MembersFinite ==
    ASSUME NEW F, \A q \in Ranges : IsFiniteSet(F[q]), NEW r \in Ranges
    PROVE  /\ IsFiniteSet(UNION {{q} \X F[q] : q \in Ranges \ {r}})
           /\ IsFiniteSet(Members(F))
           /\ Cardinality(Members(F))
                = Cardinality(UNION {{q} \X F[q] : q \in Ranges \ {r}}) + Cardinality(F[r])
<1> DEFINE Fam == {{q} \X F[q] : q \in Ranges \ {r}}
           f == [q \in Ranges \ {r} |-> {q} \X F[q]]
           Rest == UNION Fam
           One == {r} \X F[r]
<1>1. IsFiniteSet(Ranges \ {r})
  BY RangesFinite, FS_Subset
<1>2. f \in Surjection(Ranges \ {r}, Fam)
  BY DEF Surjection
<1>3. IsFiniteSet(Fam)
  BY <1>1, <1>2, FS_Surjection
<1>4. \A q \in Ranges : IsFiniteSet({q} \X F[q]) /\ Cardinality({q} \X F[q]) = Cardinality(F[q])
  <2> TAKE q \in Ranges
  <2>1. IsFiniteSet({q}) /\ Cardinality({q}) = 1
    BY FS_Singleton
  <2>2. IsFiniteSet({q} \X F[q]) /\ Cardinality({q} \X F[q]) = Cardinality({q}) * Cardinality(F[q])
    BY <2>1, FS_Product
  <2>3. Cardinality(F[q]) \in Nat
    BY FS_CardinalityType
  <2> QED
    BY <2>1, <2>2, <2>3
<1>5. IsFiniteSet(Rest)
  BY <1>3, <1>4, FS_UNION
<1>6. IsFiniteSet(One) /\ Cardinality(One) = Cardinality(F[r])
  BY <1>4
<1>7. Members(F) = Rest \cup One
  BY DEF Members
<1>8. Rest \cap One = {}
  OBVIOUS
<1> HIDE DEF Rest, One
<1>9. /\ IsFiniteSet(Rest \cup One)
      /\ Cardinality(Rest \cup One) = Cardinality(Rest) + Cardinality(One) - Cardinality(Rest \cap One)
  BY <1>5, <1>6, FS_Union
<1>10. Cardinality(Rest \cap One) = 0 /\ Cardinality(Rest) \in Nat /\ Cardinality(One) \in Nat
  BY <1>5, <1>6, <1>8, FS_EmptySet, FS_CardinalityType
<1>11. /\ IsFiniteSet(Members(F))
       /\ Cardinality(Members(F)) = Cardinality(Rest) + Cardinality(F[r])
  BY <1>6, <1>7, <1>9, <1>10
<1> QED
  BY <1>5, <1>11 DEF Rest

\* When one set of the family changes, the count changes by as much as that set.
LEMMA MembersMoved ==
    ASSUME NEW F, \A q \in Ranges : IsFiniteSet(F[q]),
           NEW G, \A q \in Ranges : IsFiniteSet(G[q]),
           NEW r \in Ranges, \A q \in Ranges \ {r} : G[q] = F[q]
    PROVE  /\ Cardinality(Members(F)) \in Nat /\ Cardinality(Members(G)) \in Nat
           /\ Cardinality(Members(G)) - Cardinality(G[r]) = Cardinality(Members(F)) - Cardinality(F[r])
<1> DEFINE RF == UNION {{q} \X F[q] : q \in Ranges \ {r}}
           RG == UNION {{q} \X G[q] : q \in Ranges \ {r}}
<1>1. RF = RG
  OBVIOUS
<1>2. /\ IsFiniteSet(RF) /\ IsFiniteSet(Members(F))
      /\ Cardinality(Members(F)) = Cardinality(RF) + Cardinality(F[r])
  BY MembersFinite
<1>3. /\ IsFiniteSet(RG) /\ IsFiniteSet(Members(G))
      /\ Cardinality(Members(G)) = Cardinality(RG) + Cardinality(G[r])
  BY MembersFinite
<1> HIDE DEF RF, RG
<1>4. /\ Cardinality(RF) \in Nat /\ Cardinality(F[r]) \in Nat /\ Cardinality(G[r]) \in Nat
      /\ Cardinality(Members(F)) \in Nat /\ Cardinality(Members(G)) \in Nat
  BY <1>2, <1>3, FS_CardinalityType
<1> QED
  BY <1>1, <1>2, <1>3, <1>4

\* The positions of the pending records of a batch.
LEMMA PendingInFinite ==
    ASSUME NEW s \in Seq(Records)
    PROVE  /\ IsFiniteSet(PendingIn(s)) /\ Cardinality(PendingIn(s)) \in Nat
           /\ PendingIn(s) \in SUBSET (Nat \ {0})
<1>1. DOMAIN s = 1..Len(s) /\ Len(s) \in Nat
  BY LenProperties
<1>2. IsFiniteSet(1..Len(s))
  BY <1>1, FS_Interval
<1>3. PendingIn(s) \subseteq 1..Len(s)
  BY <1>1 DEF PendingIn
<1> QED
  BY <1>1, <1>2, <1>3, FS_Subset, FS_CardinalityType

\* Issuing a lookup adds one pending record.
LEMMA PendingAppend ==
    ASSUME NEW s \in Seq(Records), NEW rec \in Records, rec.lookup = "pending",
           NEW x, x = Append(s, rec)
    PROVE  Cardinality(PendingIn(x)) = Cardinality(PendingIn(s)) + 1
<1>1. /\ DOMAIN x = (DOMAIN s) \cup {Len(s) + 1} /\ Len(s) + 1 \notin DOMAIN s
      /\ x[Len(s) + 1] = rec /\ \A i \in DOMAIN s : x[i] = s[i]
  BY AppendPlaced
<1>2. PendingIn(x) = PendingIn(s) \cup {Len(s) + 1} /\ Len(s) + 1 \notin PendingIn(s)
  BY <1>1 DEF PendingIn
<1> QED
  BY <1>2, PendingInFinite, FS_AddElement

\* The end of a lookup takes one away.
LEMMA PendingEnds ==
    ASSUME NEW s \in Seq(Records), NEW i \in PendingIn(s), NEW end \in {"done", "failed"},
           NEW x, x = [s EXCEPT ![i] = Ends(s[i], end)]
    PROVE  Cardinality(PendingIn(x)) = Cardinality(PendingIn(s)) - 1
<1>1. i \in DOMAIN s /\ s[i] \in Records
  BY LenProperties DEF PendingIn
<1>2. Ends(s[i], end).lookup = end
  BY <1>1 DEF Ends, Records
<1>3. DOMAIN x = DOMAIN s /\ \A j \in DOMAIN s : x[j] = IF j = i THEN Ends(s[i], end) ELSE s[j]
  BY <1>1
<1>4. PendingIn(x) = PendingIn(s) \ {i}
  BY <1>2, <1>3 DEF PendingIn
<1> QED
  BY <1>4, PendingInFinite, FS_RemoveElement

\* Settling the first record of a batch, whose lookup has ended, leaves the others pending.
LEMMA PendingTail ==
    ASSUME NEW s \in Seq(Records), s # <<>>, s[1].lookup # "pending", NEW x, x = Tail(s)
    PROVE  Cardinality(PendingIn(x)) = Cardinality(PendingIn(s))
<1>1. /\ x \in Seq(Records) /\ Len(s) \in Nat \ {0} /\ DOMAIN s = 1..Len(s)
      /\ DOMAIN x = 1..(Len(s) - 1) /\ \A i \in 1..(Len(s) - 1) : x[i] = s[i + 1]
  BY HeadAndTail
<1> DEFINE P == PendingIn(x)
           Q == PendingIn(s)
           f == [i \in P |-> i + 1]
<1>2. P \subseteq 1..(Len(s) - 1) /\ \A i \in P : i + 1 \in Q
  BY <1>1 DEF PendingIn
<1>3. \A j \in Q : j - 1 \in P /\ j = (j - 1) + 1
  <2> SUFFICES ASSUME NEW j \in Q PROVE j - 1 \in P /\ j = (j - 1) + 1
    OBVIOUS
  <2>1. j \in 1..Len(s) /\ s[j].lookup = "pending" /\ j # 1
    BY <1>1 DEF PendingIn
  <2>2. j - 1 \in 1..(Len(s) - 1) /\ (j - 1) + 1 = j
    BY <1>1, <2>1
  <2>3. x[j - 1] = s[j]
    BY <1>1, <2>2
  <2> QED
    BY <1>1, <2>1, <2>2, <2>3 DEF PendingIn
<1> HIDE DEF P, Q
<1>4. f \in [P -> Q]
  BY <1>2
<1>5. \A i, j \in P : f[i] = f[j] => i = j
  BY <1>1, <1>2
<1>6. \A j \in Q : \E i \in P : f[i] = j
  BY <1>3
<1> HIDE DEF f
<1>7. ExistsBijection(P, Q)
  BY <1>4, <1>5, <1>6 DEF ExistsBijection, Bijection, Injection, Surjection, IsInjective
<1>8. IsFiniteSet(P)
  BY <1>1, PendingInFinite DEF P
<1> QED
  BY <1>7, <1>8, FS_Bijection DEF P, Q

\* A step of a range takes as many permits as it adds lookups, and returns as many as it ends.
LEMMA PermitStep ==
    ASSUME TypeOK, PlacedInv, NEW r \in Ranges, Step(r)
    PROVE  /\ permits' \in Nat
           /\ permits' + Cardinality(PendingIn(batch'[r])) + detached'[r]
                = permits + Cardinality(PendingIn(batch[r])) + detached[r]
<1> DEFINE s == batch[r]
           x == batch'[r]
           k == Cardinality(PendingIn(s))
           m == Cardinality(PendingIn(x))
<1>1. /\ s \in Seq(Records) /\ x \in Seq(Records) /\ permits \in Nat /\ k \in Nat /\ m \in Nat
      /\ detached[r] \in Nat /\ Placed(task[r], s, detached[r]) /\ Pending(r) = PendingIn(s)
  <2>1. s \in Seq(Records) /\ x \in Seq(Records) /\ detached[r] \in Nat
    BY Local, StepMoves DEF Moves
  <2> QED
    <3>1. permits \in Nat /\ Placed(task[r], s, detached[r])
      BY ValidateSizes DEF PlacedInv, TypeOK
    <3>2. Pending(r) = PendingIn(s)
      BY DEF Pending, PendingIn
    <3>3. k \in Nat /\ m \in Nat
      BY <2>1, PendingInFinite
    <3> QED
      BY <2>1, <3>1, <3>2, <3>3
<1>2. PendingIn(<<>>) = {} /\ Cardinality({}) = 0
  BY FS_EmptySet DEF PendingIn
<1> SUFFICES permits' \in Nat /\ permits' + m + detached'[r] = permits + k + detached[r]
  OBVIOUS
<1>3. CASE Walks(r) \/ SkipRow(r) \/ TakeRow(r)
  <2>1. permits' = permits /\ detached' = detached /\ batch' = batch
    BY <1>3, WalkDoes, SkipRowDoes, TakeRowDoes
  <2> QED
    BY <1>1, <2>1
<1>4. CASE Enqueue(r)
  <2>1. /\ permits > 0 /\ permits' = permits - 1 /\ detached' = detached
        /\ \E rec \in Records : rec.lookup = "pending" /\ x = Append(s, rec)
    BY <1>4, EnqueueDoes
  <2>2. m = k + 1
    BY <1>1, <2>1, PendingAppend
  <2> HIDE DEF k, m
  <2> QED
    BY <1>1, <2>1, <2>2, SMTT(30)
<1>5. CASE LookupEnds(r)
  <2>1. /\ permits' = permits + 1 /\ detached' = detached
        /\ \E i \in PendingIn(s), end \in {"done", "failed"} : x = [s EXCEPT ![i] = Ends(s[i], end)]
    BY <1>1, <1>5, LookupEndsDoes
  <2>2. m = k - 1
    BY <1>1, <2>1, PendingEnds
  <2> HIDE DEF k, m
  <2> QED
    BY <1>1, <2>1, <2>2
<1>6. CASE DetachedLookupEnds(r)
  <2>1. permits' = permits + 1 /\ batch' = batch /\ detached'[r] = detached[r] - 1
    BY <1>6, DetachedLookupEndsDoes
  <2> QED
    BY <1>1, <2>1
<1>7. CASE CompareRow(r)
  <2>1. permits' = permits /\ detached' = detached /\ s # <<>> /\ s[1].lookup = "done"
        /\ (x = s \/ x = Tail(s))
    BY <1>7, CompareRowDoes
  <2>2. m = k
    BY <1>1, <2>1, PendingTail
  <2> HIDE DEF k, m
  <2> QED
    BY <1>1, <2>1, <2>2
<1>8. CASE Correct(r)
  <2>1. permits' = permits /\ detached' = detached /\ s # <<>> /\ s[1].lookup = "done" /\ x = Tail(s)
    BY <1>8, CorrectDoes, Correcting
  <2>2. m = k
    BY <1>1, <2>1, PendingTail
  <2> HIDE DEF k, m
  <2> QED
    BY <1>1, <2>1, <2>2
<1>9. CASE Fails(r) \/ Abandon(r)
  <2>1. permits' = permits /\ task[r].pc # "ended" /\ x = <<>> /\ detached'[r] = Cardinality(Pending(r))
    BY <1>9, FailsDoes, AbandonDoes DEF Failed, Abandoned
  <2>2. m = 0 /\ detached[r] = 0 /\ detached'[r] = k
    BY <1>1, <1>2, <2>1 DEF Placed
  <2> HIDE DEF k, m
  <2> QED
    BY <1>1, <2>1, <2>2
<1> QED
  BY <1>3, <1>4, <1>5, <1>6, <1>7, <1>8, <1>9 DEF Step

\* Over all ranges, the permits out are those of the lookups outstanding.
LEMMA PermitsStep ==
    ASSUME TypeOK, PlacedInv, PermitsConserved, NEW r \in Ranges, Step(r)
    PROVE  permits' \in 0..MaxInflight /\ PermitsConserved'
<1> DEFINE F == [q \in Ranges |-> SlotsOf(batch[q], detached[q])]
           G == [q \in Ranges |-> SlotsOf(batch'[q], detached'[q])]
<1>1. Moves(r) /\ permits \in Nat /\ MaxInflight \in Nat
  BY StepMoves, ValidateSizes DEF TypeOK
<1>2. \A q \in Ranges : batch[q] \in Seq(Records) /\ detached[q] \in Nat
  BY Local
<1>3. \A q \in Ranges : batch'[q] \in Seq(Records) /\ detached'[q] \in Nat
  BY <1>1, <1>2, Others DEF Moves
<1>4. \A q \in Ranges : /\ IsFiniteSet(F[q])
                        /\ Cardinality(F[q]) = Cardinality(PendingIn(batch[q])) + detached[q]
  BY <1>2, PendingInFinite, SlotsCount DEF SlotsOf
<1>5. \A q \in Ranges : /\ IsFiniteSet(G[q])
                        /\ Cardinality(G[q]) = Cardinality(PendingIn(batch'[q])) + detached'[q]
  BY <1>3, PendingInFinite, SlotsCount DEF SlotsOf
<1>6. \A q \in Ranges \ {r} : G[q] = F[q]
  BY <1>1, Others
<1>7. Outstanding = Members(F)
  BY DEF Outstanding, Members, SlotsOf, Pending, PendingIn
<1>8. Outstanding' = Members(G)
  BY DEF Outstanding, Members, SlotsOf, Pending, PendingIn
<1> HIDE DEF F, G
<1>9. /\ Cardinality(Members(F)) \in Nat /\ Cardinality(Members(G)) \in Nat
      /\ Cardinality(Members(G)) - Cardinality(G[r]) = Cardinality(Members(F)) - Cardinality(F[r])
  BY <1>4, <1>5, <1>6, MembersMoved
<1>10. /\ permits' \in Nat
       /\ permits' + Cardinality(G[r]) = permits + Cardinality(F[r])
       /\ Cardinality(G[r]) \in Nat /\ Cardinality(F[r]) \in Nat
  <2>1. /\ Cardinality(PendingIn(batch[r])) \in Nat /\ Cardinality(PendingIn(batch'[r])) \in Nat
        /\ detached[r] \in Nat /\ detached'[r] \in Nat
    BY <1>2, <1>3, PendingInFinite
  <2> QED
    BY <1>1, <1>4, <1>5, <2>1, PermitStep
<1>11. permits + Cardinality(Members(F)) = MaxInflight
  BY <1>7 DEF PermitsConserved
<1>12. permits' + Cardinality(Members(G)) = MaxInflight
  BY <1>1, <1>9, <1>10, <1>11
<1> QED
  BY <1>1, <1>8, <1>9, <1>10, <1>12 DEF PermitsConserved

-----------------------------------------------------------------------------
(* The invariant.                                                           *)

ValidateInv ==
    /\ TypeOK /\ PlacedInv /\ PermitsConserved
    /\ BalanceInv /\ ReportInv /\ SinkInv /\ SettleInv /\ NothingInvented

\* Nothing was read, looked up or compared yet.
LEMMA ValidateInit == Init => ValidateInv
<1> SUFFICES ASSUME Init PROVE ValidateInv
  OBVIOUS
<1>1. \A r \in Ranges : /\ task[r] = NewTask(r) /\ batch[r] = <<>> /\ detached[r] = 0 /\ rows[r] = {}
                        /\ counters[r] = NewCounters /\ report[r] = NewReport
  BY DEF Init
<1>2. PlacedInv
  BY PlacedInit
<1>3. Len(<<>>) = 0 /\ DOMAIN <<>> = {} /\ <<>> \in Seq(Records)
  BY EmptySeq
<1>4. TypeOK
  <2>1. \A r \in Ranges : NewTask(r) \in Tasks
    BY ValidateSizes, NoEntries DEF NewTask, Tasks, Statuses
  <2>2. NewCounters \in Counters
    BY DEF NewCounters, Counters
  <2>3. /\ task \in [Ranges -> Tasks] /\ counters \in [Ranges -> Counters]
        /\ batch \in [Ranges -> Seq(Records)] /\ rows \in [Ranges -> SUBSET Records]
        /\ detached \in [Ranges -> Nat] /\ report \in [Ranges -> Reports]
    <3>1. NewReport \in Reports
      BY DEF NewReport, Reports
    <3> QED
      BY <1>3, <2>1, <2>2, <3>1 DEF Init
  <2>4. \A r \in Ranges : Len(batch[r]) < FetchSize + MaxExplode
    BY <1>1, <1>3, ValidateSizes
  <2>5. conf \in Settings /\ permits \in 0..MaxInflight /\ killed \in BOOLEAN
    <3>1. conf \in Settings /\ permits = MaxInflight /\ killed = FALSE
      BY DEF Init
    <3>2. MaxInflight \in 0..MaxInflight
      BY ValidateSizes
    <3> QED
      BY <3>1, <3>2
  <2> QED
    BY <2>3, <2>4, <2>5 DEF TypeOK
<1>5. PermitsConserved
  <2>1. \A r \in Ranges : Pending(r) = {} /\ {-i : i \in 1..detached[r]} = {}
    BY <1>1, <1>3 DEF Pending
  <2>2. Outstanding = {}
    BY <2>1 DEF Outstanding
  <2> QED
    BY <2>2, FS_EmptySet, ValidateSizes DEF Init, PermitsConserved
<1>6. ASSUME NEW r \in Ranges
      PROVE  /\ Balanced(task[r], batch[r], detached[r], counters[r])
             /\ Reported(task[r], counters[r], report[r])
             /\ Settling(task[r], batch[r], counters[r], rows[r])
  <2> DEFINE t == task[r]
             c == counters[r]
             p == report[r]
             s == batch[r]
  <2>1. /\ t.pc = "read" /\ t.status = "STARTED" /\ t.cause = "none" /\ t.entries = 0
        /\ c.read = 0 /\ c.skipped = 0 /\ c.valid = 0 /\ c.missing = 0 /\ c.mismatch = 0
        /\ c.correctedMissing = 0 /\ c.correctedMismatch = 0 /\ c.error = 0
        /\ p.total = 0 /\ p.corrected = 0 /\ p.counted = 0 /\ ~p.failed
        /\ Len(s) = 0 /\ rows[r] = {}
    <3>1. /\ t = NewTask(r) /\ c = NewCounters /\ p = NewReport /\ s = <<>>
          /\ rows[r] = {}
      BY <1>1
    <3> HIDE DEF t, c, p, s
    <3>2. t.pc = "read" /\ t.status = "STARTED" /\ t.cause = "none" /\ t.entries = 0
      BY <3>1 DEF NewTask
    <3>3. /\ c.read = 0 /\ c.skipped = 0 /\ c.valid = 0 /\ c.missing = 0 /\ c.mismatch = 0
          /\ c.correctedMissing = 0 /\ c.correctedMismatch = 0 /\ c.error = 0
      BY <3>1 DEF NewCounters
    <3>4. p.total = 0 /\ p.corrected = 0 /\ p.counted = 0 /\ ~p.failed
      BY <3>1 DEF NewReport
    <3> QED
      BY <1>3, <3>1, <3>2, <3>3, <3>4
  <2> HIDE DEF t, c, p, s
  <2>2. Balanced(t, s, detached[r], c)
    <3>1. Waiting(t, s) = 0 /\ Classified(c) = 0
      BY <2>1 DEF Waiting, Classified
    <3> QED
      BY <2>1, <3>1 DEF Balanced
  <2>3. Reported(t, c, p)
    BY <2>1 DEF Reported, Found, Repaired, Sent
  <2>4. Settling(t, s, c, rows[r])
    BY <2>1 DEF Settling, Due
  <2> QED
    BY <2>2, <2>3, <2>4 DEF t, c, p, s
<1>7. BalanceInv /\ ReportInv /\ SettleInv
  BY <1>6 DEF BalanceInv, ReportInv, SettleInv
<1>8. SinkInv
  <2>1. NewReport.total = NewReport.counted /\ NewReport.corrected = 0 /\ ~NewReport.failed
    BY DEF NewReport
  <2>2. Repaired(NewCounters) = 0
    BY DEF Repaired, NewCounters
  <2> QED
    BY <1>1, <2>1, <2>2 DEF SinkInv
<1>9. NothingInvented
  BY <1>1 DEF NothingInvented
<1> QED
  BY <1>2, <1>4, <1>5, <1>7, <1>8, <1>9 DEF ValidateInv

\* The configuration of a run never changes, so what a range's state says stays said.
LEMMA ConfKept ==
    ASSUME conf' = conf
    PROVE  /\ (\A r \in Ranges : Placed(task'[r], batch'[r], detached'[r])) => PlacedInv'
           /\ (\A r \in Ranges : Balanced(task'[r], batch'[r], detached'[r], counters'[r]))
                => BalanceInv'
           /\ (\A r \in Ranges : Reported(task'[r], counters'[r], report'[r])) => ReportInv'
           /\ (\A r \in Ranges : Settling(task'[r], batch'[r], counters'[r], rows'[r])) => SettleInv'
           /\ (\A r \in Ranges : \A rec \in rows'[r] : Known(rec)) => NothingInvented'
<1>1. (\A r \in Ranges : Placed(task'[r], batch'[r], detached'[r])) => PlacedInv'
  BY Zenon DEF PlacedInv, Placed, Kind, Compare, Corrects, Agrees, SkipsPopulated, On
<1>2. (\A r \in Ranges : Balanced(task'[r], batch'[r], detached'[r], counters'[r])) => BalanceInv'
  BY Zenon DEF BalanceInv, Balanced, Waiting, Classified, On
<1>3. (\A r \in Ranges : Reported(task'[r], counters'[r], report'[r])) => ReportInv'
  BY Zenon DEF ReportInv, Reported, Found, Repaired, Sent, On
<1>4. (\A r \in Ranges : Settling(task'[r], batch'[r], counters'[r], rows'[r])) => SettleInv'
  BY DEF SettleInv, Settling, Due, LeftMissing, LeftMismatch, Untouched, Fixed, Kind, Compare,
     Agrees, SkipsPopulated, Reachable, Bound, On
<1>5. (\A r \in Ranges : \A rec \in rows'[r] : Known(rec)) => NothingInvented'
  BY Zenon DEF NothingInvented, Known, Amount, On
<1> QED
  BY <1>1, <1>2, <1>3, <1>4, <1>5

\* A step of a range keeps the invariant.
LEMMA StepKeeps ==
    ASSUME ValidateInv, NEW r \in Ranges, Step(r), killed' = killed
    PROVE  ValidateInv'
<1>1. TypeOK /\ PlacedInv /\ PermitsConserved /\ Moves(r)
  BY StepMoves DEF ValidateInv
<1>2. \A q \in Ranges \ {r} :
        /\ task'[q] = task[q] /\ batch'[q] = batch[q] /\ detached'[q] = detached[q]
        /\ counters'[q] = counters[q] /\ report'[q] = report[q] /\ rows'[q] = rows[q]
  BY <1>1, Others
<1>3. conf' = conf
  BY <1>1 DEF Moves
<1>4. PlacedInv'
  <2>1. \A q \in Ranges : Placed(task'[q], batch'[q], detached'[q])
    BY <1>1, <1>2, PlacedStep DEF PlacedInv
  <2> QED
    BY <1>3, <2>1, ConfKept
<1>5. BalanceInv'
  <2>1. \A q \in Ranges : Balanced(task'[q], batch'[q], detached'[q], counters'[q])
    BY <1>1, <1>2, BalanceStep DEF ValidateInv, BalanceInv
  <2> QED
    BY <1>3, <2>1, ConfKept
<1>6. ReportInv'
  <2>1. \A q \in Ranges : Reported(task'[q], counters'[q], report'[q])
    BY <1>1, <1>2, ReportStep DEF ValidateInv, ReportInv
  <2> QED
    BY <1>3, <2>1, ConfKept
<1>11. SinkInv'
  <2>1. SinkInv /\ Reported(task[r], counters[r], report[r])
    BY DEF ValidateInv, ReportInv
  <2> QED
    BY <1>1, <2>1, ReportStep, SinkStep
<1>7. SettleInv'
  <2>1. \A q \in Ranges : Settling(task'[q], batch'[q], counters'[q], rows'[q])
    BY <1>1, <1>2, SettleStep DEF ValidateInv, SettleInv
  <2> QED
    BY <1>3, <2>1, ConfKept
<1>8. NothingInvented'
  <2>1. \A q \in Ranges : \A rec \in rows[q] : Known(rec)
    BY DEF ValidateInv, NothingInvented, Known
  <2>2. \A rec \in rows'[r] : Known(rec)
    BY <1>1, <2>1, KnownStep
  <2>3. \A q \in Ranges : \A rec \in rows'[q] : Known(rec)
    BY <1>2, <2>1, <2>2
  <2> QED
    BY <1>3, <2>3, ConfKept
<1>9. permits' \in 0..MaxInflight /\ PermitsConserved'
  BY <1>1, PermitsStep
<1>10. TypeOK'
  <2>1. /\ task' \in [Ranges -> Tasks] /\ batch' \in [Ranges -> Seq(Records)]
        /\ detached' \in [Ranges -> Nat] /\ counters' \in [Ranges -> Counters]
        /\ report' \in [Ranges -> Reports] /\ rows' \in [Ranges -> SUBSET Records]
    BY <1>1, Local DEF Moves
  <2>2. \A q \in Ranges : Len(batch'[q]) < FetchSize + MaxExplode
    BY <1>1, <1>2, PlacedStep DEF TypeOK
  <2>3. conf' \in Settings /\ killed' \in BOOLEAN
    BY <1>1, <1>3 DEF TypeOK
  <2> QED
    BY <1>9, <2>1, <2>2, <2>3 DEF TypeOK
<1> QED
  BY <1>4, <1>5, <1>6, <1>7, <1>8, <1>9, <1>10, <1>11 DEF ValidateInv

\* Killing the run changes nothing that the invariant speaks of.
LEMMA QuietKeeps ==
    ASSUME ValidateInv, killed' \in BOOLEAN,
           UNCHANGED <<conf, task, batch, detached, counters, report, permits, rows>>
    PROVE  ValidateInv'
<1>1. TypeOK'
  BY DEF ValidateInv, TypeOK
<1>2. PermitsConserved'
  <2>1. Outstanding' = Outstanding
    BY DEF Outstanding, Pending
  <2> QED
    BY <2>1 DEF ValidateInv, PermitsConserved
<1>3. PlacedInv' /\ BalanceInv' /\ ReportInv' /\ SettleInv'
  BY ConfKept DEF ValidateInv, PlacedInv, BalanceInv, ReportInv, SettleInv
<1>4. NothingInvented'
  BY DEF ValidateInv, NothingInvented, Amount, On
<1>5. SinkInv'
  <2>1. SinkBroken' = SinkBroken /\ On("report")' = On("report")
    BY DEF SinkBroken, On
  <2> QED
    BY <2>1 DEF ValidateInv, SinkInv, Repaired
<1> QED
  BY <1>1, <1>2, <1>3, <1>4, <1>5 DEF ValidateInv

\* Every step of the job keeps the invariant.
LEMMA ValidateNext == ValidateInv /\ [Next]_vars => ValidateInv'
<1> SUFFICES ASSUME ValidateInv, [Next]_vars PROVE ValidateInv'
  OBVIOUS
<1>1. killed \in BOOLEAN
  BY DEF ValidateInv, TypeOK
<1>2. CASE UNCHANGED vars
  BY <1>1, <1>2, QuietKeeps DEF vars
<1>3. CASE Kill
  BY <1>3, QuietKeeps DEF Kill
<1>4. CASE Ended
  BY <1>1, <1>4, QuietKeeps DEF Ended, vars
<1>5. CASE Progress
  <2>1. PICK r \in Ranges : Work(r) \/ Lookups(r)
    BY <1>5 DEF Progress
  <2>2. Step(r)
    BY <2>1 DEF Work, Lookups, Step, Walks, Fails
  <2>3. killed' = killed
    BY <2>1 DEF Work, Lookups, Cancel, ReadFails, EndOfRange, SkipRow, RowFails, TakeRow, Enqueue,
       LookupFails, CompareRow, Correct, CorrectionFails, BatchDone, CancelledBatchDone, Abandon,
       LookupEnds, DetachedLookupEnds
  <2> QED
    BY <2>2, <2>3, StepKeeps
<1> QED
  BY <1>2, <1>3, <1>4, <1>5 DEF Next

\* The invariant holds in every state of every run.
THEOREM ValidateInvariant == Spec => []ValidateInv
BY ValidateInit, ValidateNext, PTL DEF Spec

-----------------------------------------------------------------------------
(* The theorems.                                                            *)

\* Every variable of the job keeps its type, however many ranges there are and whatever their rows:
\* the semaphore never hands out more than it has, and a batch never outgrows fetch_size by more
\* than the explosion of one row.
THEOREM ValidateTypes == Spec => []TypeOK
BY ValidateInvariant, PTL DEF ValidateInv

\* ENG-007: no failure, abandonment or late answer leaks a permit of the write semaphore or returns
\* one twice.
THEOREM ValidatePermits == Spec => []PermitsConserved
BY ValidateInvariant, PTL DEF ValidateInv

\* CON-012, VAL-004: whatever fails, and whether or not the correction that failed had landed, no row
\* is left with a value that neither side had.
THEOREM ValidateInventsNothing == Spec => []NothingInvented
BY ValidateInvariant, PTL DEF ValidateInv

\* ENG-008, ENG-010: a failed range has accounted for every row it read, and a cancelled one drained
\* its lookups.
THEOREM ValidateBalances == Spec => []RowsBalance
<1>1. ValidateInv => RowsBalance
  BY DEF ValidateInv, BalanceInv, Balanced, RowsBalance
<1> QED
  BY <1>1, ValidateInvariant, PTL

\* VAL-013: a report write may fail at any record, and then the file stays as it is while the run goes
\* on; still every discrepancy is sent to the report once, one of the whole run goes uncounted, and
\* no record of the file is false.
THEOREM ValidateReports == Spec => []ReportMatchesCounters
<1>1. ValidateInv => ReportMatchesCounters
  <2> SUFFICES ASSUME ValidateInv, On("report"), NEW r \in Ranges
               PROVE  LET c == counters[r]   rep == report[r] IN
                        /\ \/ Found(c) = Sent(rep)
                           \/ /\ Found(c) = Sent(rep) + 1
                              /\ At(r, "correct") \/ task[r].cause \in {"error", "abandoned"}
                        /\ ~SinkBroken => rep.total = rep.counted /\ rep.corrected = Repaired(c)
                        /\ rep.corrected <= Repaired(c)
                        /\ rep.total - rep.corrected <= Found(c) - Repaired(c)
    BY DEF ReportMatchesCounters, ValidateInv, SinkInv
  <2> DEFINE c == counters[r]
             p == report[r]
  <2>1. Reported(task[r], c, p) /\ c \in Counters /\ p \in Reports
    BY Local DEF ValidateInv, ReportInv
  <2>2. ~SinkBroken => p.total = p.counted /\ p.corrected = Repaired(c)
    BY DEF ValidateInv, SinkInv
  <2> HIDE DEF c, p
  <2>3. /\ c.missing \in Nat /\ c.mismatch \in Nat /\ c.correctedMissing \in Nat
        /\ c.correctedMismatch \in Nat
    BY <2>1, Numbers
  <2>4. p.total \in Nat /\ p.corrected \in Nat /\ p.counted \in Nat
    BY <2>1 DEF Reports
  <2>5. Found(c) \in Nat /\ Repaired(c) \in Nat /\ Sent(p) \in Nat
    BY <2>3, <2>4 DEF Found, Repaired, Sent
  <2>6. /\ \/ Found(c) = Sent(p)
           \/ /\ Found(c) = Sent(p) + 1
              /\ task[r].pc = "correct" \/ task[r].cause \in {"error", "abandoned"}
        /\ p.corrected <= Repaired(c)
        /\ p.total - p.corrected + Repaired(c) <= Sent(p)
    BY <2>1 DEF Reported
  <2>7. p.total - p.corrected <= Found(c) - Repaired(c)
    BY <2>4, <2>5, <2>6
  <2> QED
    BY <2>2, <2>6, <2>7 DEF At, c, p
<1> QED
  BY <1>1, ValidateInvariant, PTL

\* VAL-016: a range that a resume will not look at again misses no row but those under a tombstone
\* newer than the origin's writetime, and its rows agree with the origin as far as a correction can
\* make them.
THEOREM ValidateConverges == Spec => []SettledRangesConverged
<1>1. ValidateInv => SettledRangesConverged
  <2> SUFFICES ASSUME ValidateInv, NEW r \in Ranges, task[r].status \in {"PASS", "DIFF_CORRECTED"},
                      NEW rec \in rows[r]
               PROVE  /\ rec.target = Absent =>
                           task[r].status = "DIFF_CORRECTED" /\ rec.was = Absent /\ rec.newer
                      /\ task[r].status = "PASS" => rec.target = rec.was
                      /\ \/ On("keysOnly")
                         \/ Agrees(rec.origin, rec.target)
                         \/ task[r].status = "DIFF_CORRECTED" /\ ~Reachable(rec)
    BY DEF SettledRangesConverged
  <2>1. Untouched(rec) \/ (task[r].status = "DIFF_CORRECTED" /\ Fixed(rec))
    BY DEF ValidateInv, SettleInv, Settling
  <2>2. CASE Untouched(rec)
    BY <2>2 DEF Untouched, Kind, Compare
  <2>3. CASE task[r].status = "DIFF_CORRECTED" /\ Fixed(rec)
    BY <2>3 DEF Fixed
  <2> QED
    BY <2>1, <2>2, <2>3
<1> QED
  BY <1>1, ValidateInvariant, PTL
=============================================================================
