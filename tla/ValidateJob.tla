----------------------------- MODULE ValidateJob -----------------------------
(***************************************************************************)
(* The validate job: each range is read row by row, every row is looked up  *)
(* on the target by a task of its own, and a full batch of lookups is       *)
(* compared - and, when autocorrect is on, repaired - in the order the      *)
(* lookups were issued (crates/cdm-engine/src/jobs/validate: mod.rs,        *)
(* compare.rs, status.rs; the target lookup and upsert of                   *)
(* crates/cdm-cql/src/rows.rs and statement/bind.rs).                       *)
(*                                                                          *)
(* A lookup is SPAWNED: it owns a permit of the write semaphore and ends by *)
(* itself, also when the range that issued it has already failed.  A        *)
(* correction is awaited by the range and holds no permit.  A row is        *)
(* reduced to one non-key cell; rate limiters only delay and are left out.  *)
(***************************************************************************)
EXTENDS Integers, Sequences, FiniteSets

CONSTANTS
    Ranges,        \* the ranges being validated, each by its own worker
    RowsIn,        \* bound: what a row of each range may be, <<origin cell, target cell>>
    MaxLookups,    \* bound: the lookups of each range
    FetchSize,     \* perfops.fetch_size: lookups of a full batch
    MaxInflight,   \* perfops.max_inflight_writes, shared by all ranges
    MaxExplode,    \* bound: entries of an exploded map
    Settings       \* the configurations a run may have

Flags == {"missing", "mismatch", "missingCounter", "counter", "keysOnly", "explode",
          "extracted", "overwrites", "stamped", "report"}

ASSUME ValidateSizes ==
    /\ MaxLookups \in [Ranges -> Nat] /\ FetchSize \in Nat \ {0}
    /\ MaxInflight \in Nat \ {0} /\ MaxExplode \in Nat \ {0}
ASSUME ValidateSettings == Settings # {} /\ Settings \subseteq SUBSET Flags
ASSUME ValidateRows == RowsIn \in [Ranges -> SUBSET ((Nat \cup {-2}) \X (Nat \cup {-2, -1}))]
ASSUME RangesFinite == IsFiniteSet(Ranges)

VARIABLES
    conf,      \* ValidateSettings: the flags that are on
    task,      \* where each range has got to
    batch,     \* the records each range has looked up and not compared, in order
    detached,  \* lookups of each range that outlived it
    counters,  \* each range's JobCounters, interim level
    report,    \* the discrepancy report: what each range wrote to it, and the failed write
    permits,   \* available permits of the write semaphore
    killed,    \* the run's cancellation token
    rows       \* history: the compared records, with their row on the target as it is now

vars == <<conf, task, batch, detached, counters, report, permits, killed, rows>>

-----------------------------------------------------------------------------
(* Cells.  Null is a null cell (or an empty collection), Absent a missing row. *)

Null == -2
Absent == -1
On(flag) == flag \in conf

\* A record, and the row its key names on the target: `residue` is what a deleted counter still
\* resolves to, `newer` that the row, or the tombstone of a deleted one, carries a later writetime
\* than the origin's, with which a stamped correction is written.
NewRecord(origin, target, residue, newer) ==
    [origin |-> origin, target |-> target, was |-> target, residue |-> residue,
     newer |-> newer, lookup |-> "pending", got |-> Absent]

NewRecords(r) ==
    {rec \in {NewRecord(row[1], row[2], residue, newer) :
                row \in RowsIn[r], residue \in {0, 1}, newer \in BOOLEAN} :
       /\ rec.residue > 0 => On("counter") /\ rec.target = Absent
       /\ rec.newer => On("stamped") /\ ~On("counter") /\ rec.target # rec.origin}

\* compare_column(): an extract-JSON column the migration left alone is not compared.
SkipsPopulated(got) == On("extracted") /\ ~On("overwrites") /\ got # Null
Agrees(origin, got) == origin = got \/ SkipsPopulated(got)

\* ComparisonPlan::compare
Compare(origin, got) ==
    CASE got = Absent -> "missing"
      [] got # Absent /\ (On("keysOnly") \/ Agrees(origin, got)) -> "valid"
      [] OTHER -> "mismatch"

\* bind(): a null is bound UNSET, and the sink never supplies the extracted JSON property.
Bound(origin) == IF On("extracted") THEN Null ELSE origin

\* counter_deltas(): the origin's value less the fetched row's, a null counting as zero; without a
\* fetched row the origin's cell is bound as it is.
Amount(cell) == IF cell = Null THEN 0 ELSE cell
Delta(rec) == IF rec.got = Absent THEN rec.origin ELSE Amount(rec.origin) - Amount(rec.got)

Unset(rec) == IF On("counter") THEN rec.got = Absent /\ rec.origin = Null ELSE Bound(rec.origin) = Null

\* CqlRowSink::write, as it lands.  A later writetime wins, be it a cell's or a tombstone's; a cell
\* bound UNSET stays as it is, null in a row that is new; a counter is added to, any other cell set.
Landed(rec) ==
    CASE rec.newer -> rec.target
      [] ~rec.newer /\ Unset(rec) -> IF rec.target = Absent THEN Null ELSE rec.target
      [] ~rec.newer /\ ~Unset(rec) /\ On("counter") ->
           (IF rec.target = Absent THEN rec.residue ELSE Amount(rec.target)) + Delta(rec)
      [] OTHER -> Bound(rec.origin)

-----------------------------------------------------------------------------
NewTask(r) == [pc |-> "read", left |-> MaxLookups[r], entries |-> 0,
               goal |-> "read", discrepancy |-> FALSE, status |-> "STARTED", cause |-> "none"]
NewCounters == [read |-> 0, skipped |-> 0, valid |-> 0, missing |-> 0, mismatch |-> 0,
                correctedMissing |-> 0, correctedMismatch |-> 0, error |-> 0]

\* A range's part of the report: its records in the file and those of them marked corrected, what it
\* added to the report's count of records, and whether it was its write that failed.
NewReport == [total |-> 0, corrected |-> 0, counted |-> 0, failed |-> FALSE]

Init ==
    /\ conf \in Settings
    /\ task = [r \in Ranges |-> NewTask(r)]
    /\ batch = [r \in Ranges |-> <<>>]
    /\ detached = [r \in Ranges |-> 0]
    /\ rows = [r \in Ranges |-> {}]
    /\ counters = [r \in Ranges |-> NewCounters]
    /\ report = [r \in Ranges |-> NewReport]
    /\ permits = MaxInflight
    /\ killed = FALSE

At(r, pc) == task[r].pc = pc
Pending(r) == {i \in DOMAIN batch[r] : batch[r][i].lookup = "pending"}

\* ENG-008: what a failed range read and did not classify, saturating at zero.
Monus(a, b) == IF a > b THEN a - b ELSE 0
LostRowsUncorrected(c) ==
    Monus(Monus(Monus(c.read, c.valid), c.correctedMissing + c.correctedMismatch), c.skipped)
LostRows(c) ==
    Monus(Monus(Monus(Monus(c.read, c.valid), c.missing), c.mismatch), c.skipped)

\* An error leaves process(): the batch is dropped, its lookups run on, the range is accounted for.
FailWith(r, c, cause) ==
    /\ task' = [task EXCEPT ![r] = [@ EXCEPT !.pc = "ended", !.status = "FAIL", !.cause = cause,
                                    !.left = 0, !.entries = 0, !.discrepancy = FALSE]]
    /\ batch' = [batch EXCEPT ![r] = <<>>]
    /\ detached' = [detached EXCEPT ![r] = Cardinality(Pending(r))]
    /\ counters' = [counters EXCEPT ![r] = [c EXCEPT !.error = @ + LostRows(c)]]

-----------------------------------------------------------------------------
(* process(): the row loop.                                                 *)

Reading(r) == At(r, "read") /\ ~killed

\* ENG-010: a cancelled range drains the batch it has before it gives up.
Cancel(r) ==
    /\ At(r, "read") /\ killed
    /\ task' = [task EXCEPT ![r].pc = "compare", ![r].goal = "cancelled", ![r].left = 0]
    /\ UNCHANGED <<conf, batch, detached, counters, report, permits, killed, rows>>

\* The origin cannot be opened, or the next page cannot be read.
ReadFails(r) ==
    /\ Reading(r)
    /\ FailWith(r, counters[r], "error")
    /\ UNCHANGED <<conf, report, permits, killed, rows>>

EndOfRange(r) ==
    /\ Reading(r)
    /\ task' = [task EXCEPT ![r].pc = "compare", ![r].goal = "verdict", ![r].left = 0]
    /\ UNCHANGED <<conf, batch, detached, counters, report, permits, killed, rows>>

\* A filter rejects the row, or its map explodes into nothing: READ and SKIPPED.
SkipRow(r) ==
    /\ Reading(r) /\ task[r].left > 0
    /\ task' = [task EXCEPT ![r].left = @ - 1]
    /\ counters' = [counters EXCEPT ![r].read = @ + 1, ![r].skipped = @ + 1]
    /\ UNCHANGED <<conf, batch, detached, report, permits, killed, rows>>

\* A filter or the explosion fails on the row: it was read and the range fails.
RowFails(r) ==
    /\ Reading(r) /\ task[r].left > 0
    /\ FailWith(r, [counters[r] EXCEPT !.read = @ + 1], "error")
    /\ UNCHANGED <<conf, report, permits, killed, rows>>

\* enqueue_lookups(): one lookup, or one for each entry of the exploded map.
TakeRow(r) ==
    /\ Reading(r) /\ task[r].left > 0
    /\ \E n \in 1..(IF On("explode") THEN MaxExplode ELSE 1) :
         /\ n <= task[r].left
         /\ task' = [task EXCEPT ![r].pc = "enqueue", ![r].left = @ - n, ![r].entries = n]
    /\ counters' = [counters EXCEPT ![r].read = @ + 1]
    /\ UNCHANGED <<conf, batch, detached, report, permits, killed, rows>>

\* enqueue(): a permit is taken, the lookup is spawned with it, the record is buffered.  The batch
\* is compared once all entries of the row are in it and it is full.
Enqueue(r) ==
    LET next == CASE task[r].entries > 1 -> "enqueue"
                  [] task[r].entries = 1 /\ Len(batch[r]) + 1 >= FetchSize -> "compare"
                  [] OTHER -> "read"
    IN  /\ At(r, "enqueue") /\ permits > 0
        /\ permits' = permits - 1
        /\ \E rec \in NewRecords(r) : batch' = [batch EXCEPT ![r] = Append(@, rec)]
        /\ task' = [task EXCEPT ![r].entries = @ - 1, ![r].pc = next, ![r].goal = "read"]
        /\ UNCHANGED <<conf, detached, counters, report, killed, rows>>

-----------------------------------------------------------------------------
(* The lookup tasks: CqlRowSink::fetch.  A task ends - with the row, with   *)
(* none, with an error or by a panic - and drops its permit.                *)

LookupEnds(r) ==
    /\ \E i \in Pending(r) : \E end \in {"done", "failed"} :
         batch' = [batch EXCEPT ![r][i].lookup = end, ![r][i].got = batch[r][i].target]
    /\ permits' = permits + 1
    /\ UNCHANGED <<conf, task, detached, counters, report, killed, rows>>

PermitLost == permits' = permits
PermitReturned == permits' = permits + 1
DetachedLookupEnds(r) ==
    /\ detached[r] > 0
    /\ detached' = [detached EXCEPT ![r] = @ - 1]
    /\ PermitReturned
    /\ UNCHANGED <<conf, task, batch, counters, report, killed, rows>>

-----------------------------------------------------------------------------
(* compare_batch(): results in the order the lookups were issued.           *)

\* FuturesOrdered: a record is compared with the answer to its own lookup, once it has come.
AnswerLatest(r) ==
    CHOOSE i \in DOMAIN batch[r] \ Pending(r) : \A j \in DOMAIN batch[r] \ Pending(r) : j <= i
Answer(r) == 1
Answered(r) ==
    At(r, "compare") /\ batch[r] # <<>> /\ batch[r][1].lookup # "pending"
Top(r) == [batch[r][1] EXCEPT !.lookup = batch[r][Answer(r)].lookup,
                              !.got = batch[r][Answer(r)].got]

\* A lookup that failed, or whose task panicked, fails the range.
LookupFails(r) ==
    /\ Answered(r) /\ Top(r).lookup = "failed"
    /\ FailWith(r, counters[r], "error")
    /\ UNCHANGED <<conf, report, permits, killed, rows>>

\* autocorrect_missing(), autocorrect_mismatch(): whether a finding is repaired.  A missing counter
\* row is left alone unless its repair was asked for by name.
Corrects(kind) ==
    On(kind) /\ (kind = "missing" /\ On("counter") => On("missingCounter"))

\* DiscrepancyReport::record(), unless validate.report.format is none.  A write that fails breaks the
\* sink for the whole run and is not counted, though its bytes may reach the file when the buffer is
\* dropped; the run carries on, and a write to the broken sink succeeds, is counted, writes nothing.
SinkBroken == \E r \in Ranges : report[r].failed
Filed(rep, marked) == [rep EXCEPT !.total = @ + 1, !.corrected = @ + marked]
OutcomesCountedFirst(rep, marked) ==
    IF ~On("report") THEN {rep}
    ELSE {[new EXCEPT !.counted = @ + 1] :
            new \in IF SinkBroken THEN {rep} ELSE {Filed(rep, marked), [rep EXCEPT !.failed = TRUE]}}
Outcomes(rep, marked) ==
    CASE ~On("report") -> {rep}
      [] On("report") /\ SinkBroken -> {[rep EXCEPT !.counted = @ + 1]}
      [] OTHER -> {[Filed(rep, marked) EXCEPT !.counted = @ + 1],
                   [rep EXCEPT !.failed = TRUE],
                   [Filed(rep, marked) EXCEPT !.failed = TRUE]}
Report(r, marked) ==
    \E rep \in Outcomes(report[r], marked) : report' = [report EXCEPT ![r] = rep]

Settle(r, rec) ==
    /\ batch' = [batch EXCEPT ![r] = Tail(@)]
    /\ rows' = [rows EXCEPT ![r] = @ \cup {rec}]

CompareRow(r) ==
    LET kind == Compare(Top(r).origin, Top(r).got)
    IN  /\ Answered(r) /\ Top(r).lookup = "done"
        /\ counters' = [counters EXCEPT ![r][kind] = @ + 1]
        /\ IF kind # "valid" /\ Corrects(kind)
           THEN /\ task' = [task EXCEPT ![r].pc = "correct", ![r].discrepancy = TRUE]
                /\ batch' = [batch EXCEPT ![r][1] = Top(r)]
                /\ UNCHANGED <<report, rows>>
           ELSE /\ Settle(r, Top(r))
                /\ task' = [task EXCEPT ![r].discrepancy = @ \/ kind # "valid"]
                /\ IF kind = "valid" THEN UNCHANGED report ELSE Report(r, 0)
        /\ UNCHANGED <<conf, detached, permits, killed>>

Rewritten(r) == [batch[r][1] EXCEPT !.target = Landed(batch[r][1])]

\* VAL-013: the correction comes first, so that one report record carries the outcome.
CorrectedCounter(rec) == IF rec.got = Absent THEN "correctedMissing" ELSE "correctedMismatch"
Correct(r) ==
    /\ At(r, "correct")
    /\ Settle(r, Rewritten(r))
    /\ counters' = [counters EXCEPT ![r][CorrectedCounter(batch[r][1])] = @ + 1]
    /\ Report(r, 1)
    /\ task' = [task EXCEPT ![r].pc = "compare"]
    /\ UNCHANGED <<conf, detached, permits, killed>>

\* CON-012: it fails, having landed or not, and is not sent again; the range fails.
CorrectionFails(r) ==
    /\ At(r, "correct")
    /\ \E rec \in {batch[r][1], Rewritten(r)} : rows' = [rows EXCEPT ![r] = @ \cup {rec}]
    /\ FailWith(r, counters[r], "error")
    /\ UNCHANGED <<conf, report, permits, killed>>

\* status::verdict
VerdictCommitted(t, c) == IF t.discrepancy THEN "DIFF_CORRECTED" ELSE "PASS"
Verdict(t, c) ==
    CASE ~t.discrepancy -> "PASS"
      [] t.discrepancy /\ c.missing = c.correctedMissing /\ c.mismatch = c.correctedMismatch
           -> "DIFF_CORRECTED"
      [] OTHER -> "DIFF"

\* The batch is empty: back to reading, or the range's verdict, or the end of a cancelled range.
BatchDone(r) ==
    /\ At(r, "compare") /\ batch[r] = <<>> /\ task[r].goal # "cancelled"
    /\ task' = [task EXCEPT ![r] =
         IF task[r].goal = "read" THEN [@ EXCEPT !.pc = "read"]
         ELSE [@ EXCEPT !.pc = "ended", !.status = Verdict(task[r], counters[r])]]
    /\ UNCHANGED <<conf, batch, detached, counters, report, permits, killed, rows>>
CancelledBatchContinues(r) ==
    /\ At(r, "compare") /\ batch[r] = <<>> /\ task[r].goal = "cancelled"
    /\ task' = [task EXCEPT ![r].pc = "read"]
    /\ UNCHANGED <<conf, batch, detached, counters, report, permits, killed, rows>>
CancelledBatchDone(r) ==
    /\ At(r, "compare") /\ batch[r] = <<>> /\ task[r].goal = "cancelled"
    /\ FailWith(r, counters[r], "cancelled")
    /\ UNCHANGED <<conf, report, permits, killed, rows>>

\* The second interrupt, or any other kill of the run.
Kill ==
    /\ ~killed
    /\ killed' = TRUE
    /\ UNCHANGED <<conf, task, batch, detached, counters, report, permits, rows>>

\* The scheduler polls a range once more after the kill and then drops it: it stays STARTED, its
\* lookups run on, and a correction it was waiting for lands or not.
Abandon(r) ==
    /\ killed /\ ~At(r, "ended")
    /\ task' = [task EXCEPT ![r] = [@ EXCEPT !.pc = "ended", !.cause = "abandoned", !.left = 0,
                                            !.entries = 0, !.discrepancy = FALSE]]
    /\ batch' = [batch EXCEPT ![r] = <<>>]
    /\ detached' = [detached EXCEPT ![r] = Cardinality(Pending(r))]
    /\ \E recs \in (IF At(r, "correct") THEN {{batch[r][1]}, {Rewritten(r)}} ELSE {{}}) :
         rows' = [rows EXCEPT ![r] = @ \cup recs]
    /\ UNCHANGED <<conf, counters, report, permits, killed>>

-----------------------------------------------------------------------------
Work(r) ==
    \/ Cancel(r) \/ ReadFails(r) \/ EndOfRange(r) \/ SkipRow(r) \/ RowFails(r) \/ TakeRow(r)
    \/ Enqueue(r) \/ LookupFails(r) \/ CompareRow(r) \/ Correct(r) \/ CorrectionFails(r)
    \/ BatchDone(r) \/ CancelledBatchDone(r) \/ Abandon(r)
Lookups(r) == LookupEnds(r) \/ DetachedLookupEnds(r)

AllEnded == \A r \in Ranges : At(r, "ended") /\ detached[r] = 0
Ended == AllEnded /\ UNCHANGED vars

Progress == \E r \in Ranges : Work(r) \/ Lookups(r)
Next == Kill \/ Ended \/ Progress

Spec == Init /\ [][Next]_vars

\* The runtime is not idle while a worker is runnable, and a request the driver sent ends.
FairSpec == Spec /\ WF_vars(Progress)

-----------------------------------------------------------------------------
Statuses == {"STARTED", "PASS", "DIFF", "DIFF_CORRECTED", "FAIL"}
Tasks == [pc: {"read", "enqueue", "compare", "correct", "ended"}, left: Nat, entries: 0..MaxExplode,
          goal: {"read", "verdict", "cancelled"}, discrepancy: BOOLEAN, status: Statuses,
          cause: {"none", "error", "cancelled", "abandoned"}]
Records == [origin: Int, target: Int, was: Int, residue: 0..1, newer: BOOLEAN,
            lookup: {"pending", "done", "failed"}, got: Int]
Counters == [read: Nat, skipped: Nat, valid: Nat, missing: Nat, mismatch: Nat,
             correctedMissing: Nat, correctedMismatch: Nat, error: Nat]
Reports == [total: Nat, corrected: Nat, counted: Nat, failed: BOOLEAN]

\* Every variable keeps its type: in particular no permit is returned twice, and no batch outgrows
\* what one row's explosion can add to a batch that was not yet full.
TypeOK ==
    /\ conf \in Settings
    /\ task \in [Ranges -> Tasks]
    /\ batch \in [Ranges -> Seq(Records)]
    /\ \A r \in Ranges : Len(batch[r]) < FetchSize + MaxExplode
    /\ rows \in [Ranges -> SUBSET Records]
    /\ detached \in [Ranges -> Nat]
    /\ counters \in [Ranges -> Counters]
    /\ report \in [Ranges -> Reports]
    /\ permits \in 0..MaxInflight
    /\ killed \in BOOLEAN

\* ENG-007 across failures: the permits and the lookups still outstanding - those of ranges that
\* have already failed included - always add up to perfops.max_inflight_writes.
Outstanding == UNION {{r} \X (Pending(r) \cup {-i : i \in 1..detached[r]}) : r \in Ranges}
PermitsConserved == permits + Cardinality(Outstanding) = MaxInflight

\* What a correction can reach: its cell is bound from the origin, nothing on the target is newer,
\* and a deleted counter left nothing behind.
Reachable(rec) == Bound(rec.origin) # Null /\ ~rec.newer /\ rec.residue = 0

\* VAL-016 decides whether a resume ever looks at the range again.  A range reported PASS was left
\* alone and its rows are there and agree.  In a range reported DIFF_CORRECTED a row is still missing
\* only under a tombstone newer than the origin's writetime, and differs only where a correction
\* cannot reach: CORRECTED counts writes that were accepted (keys_only compares no cell).
SettledRangesConverged ==
    \A r \in Ranges : task[r].status \in {"PASS", "DIFF_CORRECTED"} =>
      \A rec \in rows[r] :
        /\ rec.target = Absent =>
             task[r].status = "DIFF_CORRECTED" /\ rec.was = Absent /\ rec.newer
        /\ task[r].status = "PASS" => rec.target = rec.was
        /\ \/ On("keysOnly")
           \/ Agrees(rec.origin, rec.target)
           \/ task[r].status = "DIFF_CORRECTED" /\ ~Reachable(rec)

\* CON-012, VAL-004: validating never leaves the target with a value neither side had.  A counter is
\* the target's old value or the origin's, a null of the origin's counting as zero, even when a
\* correction failed after it landed, unless re-inserting deleted counters was asked for.
NothingInvented ==
    \A r \in Ranges : \A rec \in rows[r] :
      \/ rec.target \in {rec.was, rec.origin}
      \/ On("counter") /\ rec.target = Amount(rec.origin)
      \/ rec.was = Absent /\ (rec.target = Null \/ On("missingCounter"))

Classified(c) == c.valid + c.missing + c.mismatch + c.skipped

\* ENG-008: a failed range reports every row it read - classified, or counted as an error.  Exploded
\* rows are classified once per entry, and can hide a lost row but never invent one.  ENG-010: one
\* that gives up because the run was cancelled has drained its batch: no lookup of it is
\* outstanding, and no row is lost.
RowsBalance ==
    \A r \in Ranges : LET c == counters[r] IN
      /\ task[r].status = "FAIL" =>
           /\ ~On("explode") => c.read = Classified(c) + c.error
           /\ c.error <= c.read
      /\ task[r].cause = "cancelled" => detached[r] = 0 /\ c.error = 0

\* VAL-013: every discrepancy is reported once and after its correction.  It is in the report's count
\* of records, save the one whose write failed - one in the whole run - and, in each range, one whose
\* correction is under way, failed the range or was abandoned with it.  Until a write fails the file
\* is what was counted, each record marked with its outcome; whatever fails, the file has no record
\* too many, none marked that was not corrected, and none of a corrected row that is not marked.
Found(c) == c.missing + c.mismatch
Repaired(c) == c.correctedMissing + c.correctedMismatch
Sent(rep) == rep.counted + (IF rep.failed THEN 1 ELSE 0)
ReportMatchesCounters ==
    /\ On("report") => \A r \in Ranges : LET c == counters[r]   rep == report[r] IN
         /\ \/ Found(c) = Sent(rep)
            \/ /\ Found(c) = Sent(rep) + 1
               /\ At(r, "correct") \/ task[r].cause \in {"error", "abandoned"}
         /\ ~SinkBroken => rep.total = rep.counted /\ rep.corrected = Repaired(c)
         /\ rep.corrected <= Repaired(c)
         /\ rep.total - rep.corrected <= Found(c) - Repaired(c)
    /\ \A r, q \in Ranges : report[r].failed /\ report[q].failed => r = q

\* Every range comes to an end, whatever fails and however few permits there are: a lookup needs no
\* worker to finish, so workers waiting for permits cannot wait for each other.
EveryRangeEnds == <>AllEnded
=============================================================================
