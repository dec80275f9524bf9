----------------------------- MODULE MigrateJob ------------------------------
(***************************************************************************)
(* The migrate job: each worker reads one token range page by page, turns   *)
(* every row into zero or more writes, buffers them, and flushes when       *)
(* enough are outstanding (crates/cdm-engine/src/jobs/migrate: job.rs,      *)
(* buffer.rs, settings.rs; the write semaphore of scheduler/limits.rs; the  *)
(* accounting of a failed range in scheduler/failure.rs).                   *)
(*                                                                          *)
(* A bound write becomes a future that OWNS a permit of the shared write    *)
(* semaphore and sits in a FuturesUnordered.  Nothing polls that set except *)
(* `flush`, so a write completes - and gives its permit back - only while   *)
(* its worker is draining.  Rate limiters only delay and are left out.      *)
(***************************************************************************)
EXTENDS Integers, Sequences, FiniteSets, SequencesExt

CONSTANTS
    Workers,          \* range workers, each on a range of its own
    MaxInflight,      \* perfops.max_inflight_writes, shared by all workers
    FetchSize,        \* perfops.fetch_size: rows of a full page
    NumPages,         \* bound: pages of one range
    BatchSizes,       \* the batch sizes a run may be configured with
    FlushThreshold,   \* min(fetch_size, max(batch_size * 10, 100)), scaled down
    StrictGrouping,   \* perfops.batch_grouping = strict
    MaxExplode,       \* bound: target rows one origin row explodes into
    RecordErrors,     \* whether a record may fail to bind (ERR-005)
    MayKill           \* whether the run may be killed while ranges are in flight

ASSUME SizesAssumption ==
    /\ MaxInflight \in Nat \ {0} /\ FetchSize \in Nat \ {0} /\ NumPages \in Nat
    /\ BatchSizes \subseteq Nat \ {0} /\ BatchSizes # {} /\ MaxExplode \in Nat \ {0}
    /\ FlushThreshold \in 1..FetchSize
ASSUME ModesAssumption ==
    {StrictGrouping, RecordErrors, MayKill} \subseteq BOOLEAN
ASSUME WorkersFinite == IsFiniteSet(Workers)

VARIABLES
    counterRun, \* whether the target table is a counter table
    batchSize,  \* the effective batch size of the run
    task,       \* the state of each worker's range
    counters,   \* the range's JobCounters, interim level
    permits,    \* available permits of the write semaphore
    killed,     \* the run's cancellation token
    ghost       \* history: what really happened to the rows of each range

settings == <<counterRun, batchSize>>
vars == <<settings, task, counters, permits, killed, ghost>>

-----------------------------------------------------------------------------
NewTask == [pc |-> "page", pages |-> NumPages, rows |-> 0, entries |-> 0,
            batch |-> 0, inflight |-> <<>>, failure |-> FALSE, closing |-> FALSE]
NewCounters == [read |-> 0, write |-> 0, skipped |-> 0, error |-> 0, unflushed |-> 0]
NewGhost == [landed |-> 0, pushed |-> 0, credited |-> 0, exploded |-> FALSE]

\* MIG-021: counter writes are never batched.  A writetime filter and a size below 1 coerce the
\* size to 1 as well, which is a member of BatchSizes like any other.
Coerced(counter, size) == IF counter THEN 1 ELSE size

Init ==
    /\ counterRun \in BOOLEAN
    /\ \E size \in BatchSizes : batchSize = Coerced(counterRun, size)
    /\ task = [w \in Workers |-> NewTask]
    /\ counters = [w \in Workers |-> NewCounters]
    /\ permits = MaxInflight
    /\ killed = FALSE
    /\ ghost = [w \in Workers |-> NewGhost]

At(w, pc) == task[w].pc = pc

\* ENG-008: the rows a failed range read but could not account for, saturating at zero.
Monus(a, b) == IF a > b THEN a - b ELSE 0
LostRowsOptimistic(c) == Monus(Monus(Monus(c.read, c.write), c.skipped), c.unflushed)
LostRows(c) == Monus(Monus(c.read, c.write), c.skipped)

\* The buffer is dropped with the range: its futures are dropped too and their permits return.
DropLeaking(w) == permits' = permits
Drop(w) == permits' = permits + Len(task[w].inflight)
Ended(w, pc) ==
    task' = [task EXCEPT ![w] = [@ EXCEPT !.pc = pc, !.batch = 0, !.inflight = <<>>,
                                          !.entries = 0, !.rows = 0]]

\* The job returned an error: fail_range() accounts for the rows that were lost.
FailRange(w) ==
    /\ Drop(w)
    /\ Ended(w, "failed")
    /\ counters' = [counters EXCEPT ![w].error = @ + LostRows(counters[w])]
    /\ UNCHANGED <<killed, ghost>>

-----------------------------------------------------------------------------
(* process(): the page loop.                                                *)

\* ENG-010: a cancelled run winds down at a page boundary.
CancelAtPage(w) ==
    /\ At(w, "page") /\ killed
    /\ FailRange(w)

\* A full page, a short one or an empty one.
NextPage(w) ==
    /\ At(w, "page") /\ ~killed /\ task[w].pages > 0
    /\ \E n \in 0..FetchSize :
         task' = [task EXCEPT ![w].pages = @ - 1, ![w].rows = n, ![w].closing = FALSE,
                              ![w].pc = IF n = 0 THEN "page" ELSE "row"]
    /\ UNCHANGED <<counters, permits, killed, ghost>>

\* next_page() fails, or check_schema() does before the first page.
PageFails(w) ==
    /\ At(w, "page") /\ ~killed
    /\ FailRange(w)

LastPage(w) ==
    /\ At(w, "page") /\ ~killed
    /\ Ended(w, "passed")
    /\ UNCHANGED <<counters, permits, killed, ghost>>

-----------------------------------------------------------------------------
(* process_page() and process_row(): one row at a time.                     *)

ReadRow(w) == At(w, "row") /\ task[w].entries = 0 /\ task[w].rows > 0

\* MIG-002, MIG-003: a filter rejects the row, or it explodes into nothing.
SkipRow(w) ==
    /\ ReadRow(w)
    /\ task' = [task EXCEPT ![w].rows = @ - 1]
    /\ counters' = [counters EXCEPT ![w].read = @ + 1, ![w].skipped = @ + 1]
    /\ UNCHANGED <<permits, killed, ghost>>

\* ERR-005: a feature fails on the record; the range continues.
CountRecordError(c) == [c EXCEPT !.read = @ + 1, !.error = @ + 1]
RecordFails(w) ==
    /\ ReadRow(w) /\ RecordErrors
    /\ task' = [task EXCEPT ![w].rows = @ - 1]
    /\ counters' = [counters EXCEPT ![w] = CountRecordError(@)]
    /\ UNCHANGED <<permits, killed, ghost>>

\* The row becomes one write, or one per exploded entry.
ShapeRow(w) ==
    /\ ReadRow(w)
    /\ \E n \in 1..MaxExplode :
         /\ task' = [task EXCEPT ![w].rows = @ - 1, ![w].entries = n]
         /\ ghost' = [ghost EXCEPT ![w].exploded = @ \/ n > 1]
    /\ counters' = [counters EXCEPT ![w].read = @ + 1]
    /\ UNCHANGED <<permits, killed>>

\* page.rows() yields a row that does not decode: the range fails.
RowFails(w) ==
    /\ ReadRow(w)
    /\ FailRange(w)

\* MIG-004: after the last row the remainder of the page is flushed.
EndOfPage(w) ==
    /\ At(w, "row") /\ task[w].entries = 0 /\ task[w].rows = 0
    /\ task' = [task EXCEPT ![w].pc = "flush", ![w].closing = TRUE]
    /\ UNCHANGED <<counters, permits, killed, ghost>>

-----------------------------------------------------------------------------
(* WriteBuffer::push().                                                     *)

ReadyToPush(w) == At(w, "row") /\ task[w].entries > 0

\* Binding this entry fails: the record is an ERROR, its earlier entries stay buffered.
BindFails(w) ==
    /\ ReadyToPush(w) /\ RecordErrors
    /\ task' = [task EXCEPT ![w].entries = 0]
    /\ counters' = [counters EXCEPT ![w].error = @ + 1]
    /\ UNCHANGED <<permits, killed, ghost>>

\* should_flush() compares the interim UNFLUSHED count.
ShouldFlushLate(unflushed) == unflushed > FlushThreshold
ShouldFlush(unflushed) == unflushed >= FlushThreshold

\* count_issued(): UNFLUSHED += 1, then the threshold test.
CountIssued(w, t) ==
    /\ counters' = [counters EXCEPT ![w].unflushed = @ + 1]
    /\ task' = [task EXCEPT ![w] =
         [t EXCEPT !.entries = @ - 1,
                   !.pc = IF ShouldFlush(counters[w].unflushed + 1) THEN "flush" ELSE "row"]]
    /\ ghost' = [ghost EXCEPT ![w].pushed = @ + IF t.entries = 1 THEN 1 ELSE 0]

\* write_slot(): takes a permit or waits; the future that gets it is not polled yet.
TakeSlot == permits > 0 /\ permits' = permits - 1
Issued(t, size) == [t EXCEPT !.inflight = Append(@, size)]

\* batch_size 1: the write waits for a slot of its own.
BindSingle(w) ==
    /\ ReadyToPush(w) /\ ~counterRun /\ batchSize = 1
    /\ task' = [task EXCEPT ![w].pc = "single"]
    /\ UNCHANGED <<counters, permits, killed, ghost>>

\* The batch stays below batch_size with this row in it.
HasRoom(w) == task[w].batch + 1 < batchSize

\* Batching, and the batch has room for a row of this partition.
PushToBatch(w) ==
    /\ ReadyToPush(w) /\ batchSize > 1
    /\ HasRoom(w)
    /\ CountIssued(w, [task[w] EXCEPT !.batch = @ + 1])
    /\ UNCHANGED <<permits, killed>>

\* The row fills the batch, which must be sent.
BindFillsBatch(w) ==
    /\ ReadyToPush(w) /\ batchSize > 1
    /\ task[w].batch + 1 = batchSize
    /\ task' = [task EXCEPT ![w].pc = "full"]
    /\ UNCHANGED <<counters, permits, killed, ghost>>

\* MIG-022: the row belongs to another partition, so the batch before it must be sent first.
BindNewPartition(w) ==
    /\ ReadyToPush(w) /\ batchSize > 1 /\ StrictGrouping
    /\ task[w].batch > 0
    /\ task' = [task EXCEPT ![w].pc = "switch"]
    /\ UNCHANGED <<counters, permits, killed, ghost>>

SendSingle(w) ==
    /\ At(w, "single")
    /\ TakeSlot
    /\ CountIssued(w, Issued(task[w], 1))
    /\ UNCHANGED killed

SendFullBatch(w) ==
    /\ At(w, "full")
    /\ TakeSlot
    /\ CountIssued(w, [Issued(task[w], batchSize) EXCEPT !.batch = 0])
    /\ UNCHANGED killed

SendPartition(w) ==
    /\ At(w, "switch")
    /\ TakeSlot
    /\ CountIssued(w, [Issued(task[w], task[w].batch) EXCEPT !.batch = 1])
    /\ UNCHANGED killed

\* write_counter_row(): the counter is read, the delta written and awaited, exactly once.
PushCounter(w) ==
    /\ ReadyToPush(w) /\ counterRun
    /\ counters' = [counters EXCEPT ![w].unflushed = @ + 1]
    /\ task' = [task EXCEPT ![w].entries = @ - 1,
                            ![w].pc = IF ShouldFlush(counters[w].unflushed + 1) THEN "flush" ELSE "row"]
    /\ ghost' = [ghost EXCEPT ![w].landed = @ + 1,
                              ![w].pushed = @ + IF task[w].entries = 1 THEN 1 ELSE 0]
    /\ UNCHANGED <<permits, killed>>

CounterFails(w) ==
    /\ ReadyToPush(w) /\ counterRun
    /\ FailRange(w)

-----------------------------------------------------------------------------
(* WriteBuffer::flush().                                                    *)

\* What is left in the batch is sent, which needs a permit too.
FlushBatch(w) ==
    /\ At(w, "flush") /\ task[w].batch > 0
    /\ TakeSlot
    /\ task' = [task EXCEPT ![w] = [Issued(@, task[w].batch) EXCEPT !.batch = 0, !.pc = "drain"]]
    /\ UNCHANGED <<counters, killed, ghost>>

FlushNoBatch(w) ==
    /\ At(w, "flush") /\ task[w].batch = 0
    /\ task' = [task EXCEPT ![w].pc = "drain"]
    /\ UNCHANGED <<counters, permits, killed, ghost>>

\* hold(): the permit is dropped with the future that owns it.
ReturnPermit == permits' = permits + 1

\* inflight.next(): one of the polled futures completes and drops its permit.
WriteLands(w) ==
    /\ At(w, "drain")
    /\ \E i \in 1..Len(task[w].inflight) :
         /\ task' = [task EXCEPT ![w].inflight = RemoveAt(@, i)]
         /\ ghost' = [ghost EXCEPT ![w].landed = @ + task[w].inflight[i]]
    /\ ReturnPermit
    /\ UNCHANGED <<counters, killed>>

\* The write failed after its retries; the rest of the set is still drained.
WriteFails(w) ==
    /\ At(w, "drain")
    /\ \E i \in 1..Len(task[w].inflight) :
         task' = [task EXCEPT ![w].inflight = RemoveAt(@, i), ![w].failure = TRUE]
    /\ ReturnPermit
    /\ UNCHANGED <<counters, killed, ghost>>

Drained(w) == At(w, "drain") /\ task[w].inflight = <<>>

AllLandedIgnored(w) == Drained(w)
AllLanded(w) == ~task[w].failure
Credit(c) == [c EXCEPT !.write = @ + c.unflushed, !.unflushed = 0]

\* A flush at the end of the page leads to the next page, one in the middle back to its rows.
AfterFlushSamePage(w) == "row"
AfterFlush(w) == IF task[w].closing THEN "page" ELSE "row"

\* MIG-005: WRITE is credited only once every write of the flush completed.
FlushSucceeds(w) ==
    /\ Drained(w) /\ AllLanded(w)
    /\ counters' = [counters EXCEPT ![w] = Credit(@)]
    /\ ghost' = [ghost EXCEPT ![w].credited = @ + ghost[w].pushed, ![w].pushed = 0]
    /\ task' = [task EXCEPT ![w].pc = AfterFlush(w)]
    /\ UNCHANGED <<permits, killed>>

FlushFails(w) ==
    /\ Drained(w) /\ task[w].failure
    /\ FailRange(w)

-----------------------------------------------------------------------------
(* ENG-010: the scheduler drops the whole range when the run is killed.     *)

Kill ==
    /\ MayKill /\ ~killed
    /\ killed' = TRUE
    /\ UNCHANGED <<settings, task, counters, permits, ghost>>

Running(w) == task[w].pc \notin {"passed", "failed", "abandoned"}

Abandon(w) ==
    /\ killed /\ Running(w)
    /\ Drop(w)
    /\ Ended(w, "abandoned")
    /\ UNCHANGED <<settings, counters, killed, ghost>>

Terminated == (\A w \in Workers : ~Running(w)) /\ UNCHANGED vars

PageStep(w) == CancelAtPage(w) \/ NextPage(w) \/ PageFails(w) \/ LastPage(w)
RowStep(w) == SkipRow(w) \/ RecordFails(w) \/ ShapeRow(w) \/ RowFails(w) \/ EndOfPage(w)
PushStep(w) ==
    \/ BindFails(w) \/ BindSingle(w) \/ PushToBatch(w) \/ BindFillsBatch(w)
    \/ BindNewPartition(w) \/ SendSingle(w) \/ SendFullBatch(w) \/ SendPartition(w)
    \/ PushCounter(w) \/ CounterFails(w)
FlushStep(w) ==
    FlushBatch(w) \/ FlushNoBatch(w) \/ WriteLands(w) \/ WriteFails(w)
    \/ FlushSucceeds(w) \/ FlushFails(w)

RangeStep(w) ==
    /\ PageStep(w) \/ RowStep(w) \/ PushStep(w) \/ FlushStep(w)
    /\ UNCHANGED settings

Next ==
    \/ \E w \in Workers : RangeStep(w) \/ Abandon(w)
    \/ Kill
    \/ Terminated

Spec == Init /\ [][Next]_vars

(***************************************************************************)
(* The runtime is not idle while a worker is runnable, and every request is *)
(* answered: weak fairness of the workers together.  No fairness between    *)
(* them is needed, for each has only so many rows.                          *)
(***************************************************************************)
FairSpec == Spec /\ WF_vars(\E w \in Workers : RangeStep(w))

-----------------------------------------------------------------------------
(* Properties.                                                              *)

\* The elements of a sequence of counts, added up: one cell for each unit of each element.
SeqSum(s) == Cardinality(UNION {{i} \X (1..s[i]) : i \in DOMAIN s})
Buffered(w) == task[w].batch + SeqSum(task[w].inflight)

Tasks == [pc : {"page", "row", "single", "full", "switch", "flush", "drain",
                "passed", "failed", "abandoned"},
          pages : 0..NumPages, rows : 0..FetchSize, entries : 0..MaxExplode,
          batch : Nat, inflight : Seq(Nat \ {0}), failure : BOOLEAN, closing : BOOLEAN]
Counters == [read : Nat, write : Nat, skipped : Nat, error : Nat, unflushed : Nat]
Ghosts == [landed : Nat, pushed : Nat, credited : Nat, exploded : BOOLEAN]

\* Type invariant of a range's state and counters (buffer.rs WriteBuffer, counters.rs).
TypeOK ==
    /\ counterRun \in BOOLEAN /\ batchSize \in BatchSizes \cup {1}
    /\ task \in [Workers -> Tasks]
    /\ \A w \in Workers :
         /\ task[w].batch < batchSize
         /\ \A i \in DOMAIN task[w].inflight : task[w].inflight[i] <= batchSize
    /\ counters \in [Workers -> Counters]
    /\ ghost \in [Workers -> Ghosts]
    /\ permits \in 0..MaxInflight
    /\ killed \in BOOLEAN

\* One slot for each write that owns a permit.
Slots(w) == {w} \X (1..Len(task[w].inflight))

\* ENG-007: a permit is either available or owned by exactly one unfinished write, on every path
\* out of a range: flushed, failed, cancelled or abandoned (InflightPermit, hold).
PermitsConserved == permits + Cardinality(UNION {Slots(w) : w \in Workers}) = MaxInflight

\* MIG-005: WRITE only ever counts rows that reached the target, and a range that passes has
\* credited all of them (WriteBuffer::flush).
WriteIsLanded ==
    \A w \in Workers :
        /\ counters[w].write <= ghost[w].landed
        /\ At(w, "passed") => counters[w].write = ghost[w].landed /\ counters[w].unflushed = 0

\* MIG-004: UNFLUSHED is exactly what the next flush has to wait for or has already seen land,
\* and so the writes resident per worker never exceed the threshold (WriteBuffer::push).
BufferBounded ==
    \A w \in Workers :
        /\ counters[w].unflushed <= FlushThreshold
        /\ Buffered(w) <= counters[w].unflushed

\* ENG-008, when no row became several writes: a range that passes has accounted for every row it
\* read, READ = WRITE + SKIPPED + ERROR (process_page); and on any path that fails a range no row
\* that was neither credited nor skipped is missing from ERROR, "the number of rows the range read
\* but did not account for" (lost_rows, fail_range).
RowsBalance ==
    \A w \in Workers : LET c == counters[w] IN ~ghost[w].exploded =>
        /\ At(w, "passed") => c.read = c.write + c.skipped + c.error
        /\ At(w, "failed") => c.error >= c.read - c.skipped - ghost[w].credited

\* limits.rs check_permits: an in-flight bound "must be at least 1; a bound of 0 would stall
\* every worker" - so with any larger bound every range ends (WriteBuffer::push, flush).
EveryRangeEnds == <>(\A w \in Workers : ~Running(w))
=============================================================================
