----------------------------- MODULE RunTracker ------------------------------
(***************************************************************************)
(* Recording a run so that it can be resumed: the run row and range rows a  *)
(* run writes before it starts, the bounded queue and the writer task that  *)
(* record its progress without ever blocking the data path, and the resume  *)
(* that reads the rows back (crates/cdm-track/src: tracker.rs, manage.rs,   *)
(* store/cassandra.rs; crates/cdm-cli/src/harness: resume.rs, tracking.rs). *)
(*                                                                          *)
(* A behaviour is a chain of runs over one table, one process at a time.    *)
(* The process may crash between any two steps; the rows survive, all of    *)
(* its memory does not.                                                     *)
(***************************************************************************)
EXTENDS Integers, Sequences, FiniteSets, Resume

CONSTANTS
    Ranges,          \* the token ranges of the table
    Verdicts,        \* the statuses a processed range can end with
    QueueCapacity,   \* TrackerConfig::queue_capacity
    BatchSize,       \* TrackerConfig::batch_size
    MaxRuns,         \* bound: runs of the chain
    Job, CounterTable, Correcting,   \* what RerunPolicy::for_job is told
    MayCrash,        \* whether the process may die
    MayFailWrites,   \* whether a tracking write may fail
    Cancellable,     \* the runs `cdm runs cancel` may be used on
    MayNameOld       \* whether `cdm runs resume <id>` may name an older run

ASSUME TrackerSizes ==
    QueueCapacity \in Nat \ {0} /\ BatchSize \in Nat \ {0} /\ MaxRuns \in Nat \ {0}
ASSUME TrackerVerdicts == Verdicts \subseteq {"PASS", "FAIL", "DIFF", "DIFF_CORRECTED"}
ASSUME TrackerModes ==
    /\ Job \in {"migrate", "validate", "guardrail"}
    /\ {CounterTable, Correcting, MayCrash, MayFailWrites, MayNameOld} \subseteq BOOLEAN
    /\ Cancellable \subseteq 1..MaxRuns

Runs == 1..MaxRuns
Clean == {"PASS", "DIFF_CORRECTED"}
CounterRun == Restricted(Job, CounterTable, Correcting)

VARIABLES
    runRow,     \* cdm_run_info: the row of each run
    rows,       \* cdm_run_details: the status of each range of each run
    cur,        \* the newest run, 0 before the first
    proc,       \* the process: none, create, running or closing
    plan,       \* the ranges of the newest run
    live,       \* the true state of each range of the newest run
    queue,      \* the bounded channel to the writer
    blocked,    \* the spawned task that waits to send the run's terminal write
    pending,    \* Checkpoint::pending, the latest shed state per range
    writer,     \* the writer task: select, batch, checkpoint or ended
    batch,      \* writes received and not yet applied
    ckpt,       \* checkpoint records taken and not yet applied
    previous,   \* cdm_run_info.prev_run_id: the run a run continues, 0 for none
    shed,       \* history: the newest run shed a write
    lost,       \* history: the runs a tracking write of which failed or died with the process
    begun,      \* history: the runs that began work on each range
    finished,   \* history: the ranges some run completed
    aborted     \* history: the runs `cdm runs cancel` was used on

table == <<runRow, rows>>
memory == <<queue, blocked, pending, writer, batch, ckpt>>
history == <<shed, lost, begun, finished, aborted>>
vars == <<table, previous, cur, proc, plan, live, memory, history>>

RangeWrite(r, s) == [kind |-> "range", range |-> r, status |-> s]
RunWrite(s, f) == [kind |-> "run", status |-> s, failed |-> f]

EmptyMemory ==
    /\ queue' = <<>> /\ blocked' = <<>> /\ batch' = <<>>
    /\ pending' = [r \in Ranges |-> Absent]
    /\ ckpt' = [r \in Ranges |-> Absent]

Init ==
    /\ runRow = [n \in Runs |-> [status |-> Absent, failed |-> FALSE]]
    /\ rows = [n \in Runs |-> [r \in Ranges |-> Absent]]
    /\ cur = 0 /\ proc = "none" /\ plan = {}
    /\ live = [r \in Ranges |-> Absent]
    /\ queue = <<>> /\ blocked = <<>> /\ batch = <<>>
    /\ pending = [r \in Ranges |-> Absent]
    /\ ckpt = [r \in Ranges |-> Absent]
    /\ writer = "ended"
    /\ previous = [n \in Runs |-> 0]
    /\ shed = FALSE /\ lost = {}
    /\ begun = [r \in Ranges |-> {}]
    /\ finished = {} /\ aborted = {}

-----------------------------------------------------------------------------
(* Starting a run, or a resume of one: CassandraStore::create_run.          *)

\* The run row is inserted as NOT_STARTED, with its prev_run_id, before any range row.
Create(from, ranges) ==
    /\ proc = "none" /\ cur < MaxRuns
    /\ cur' = cur + 1
    /\ proc' = "create"
    /\ plan' = ranges
    /\ live' = [r \in Ranges |-> IF r \in ranges THEN "NOT_STARTED" ELSE Absent]
    /\ runRow' = [runRow EXCEPT ![cur + 1].status = "NOT_STARTED"]
    /\ previous' = [previous EXCEPT ![cur + 1] = from]
    /\ shed' = FALSE
    /\ UNCHANGED <<rows, memory, lost, begun, finished, aborted>>

StartFirstRun == cur = 0 /\ Create(0, Ranges)

\* choose_requested(), resolve_previous(): the run named, or the newest one if auto_rerun adopts it.
PreviousRuns ==
    {n \in 1..cur : \/ MayNameOld /\ runRow[n].status # Absent
                    \/ n = cur /\ IsResumable(runRow[n])}

\* resume(): refuse_fallback(), nothing outstanding starts nothing, else a run over what is left.
ResumeRun(n) ==
    /\ proc = "none" /\ n \in PreviousRuns
    /\ ~IsFallback(runRow[n], rows[n])
    /\ Replanned(rows[n], CounterRun) # {}
    /\ Create(n, Replanned(rows[n], CounterRun))

Unrecorded == {r \in plan : rows[cur][r] = Absent}

InsertRange ==
    /\ proc = "create"
    /\ \E r \in Unrecorded : rows' = [rows EXCEPT ![cur][r] = "NOT_STARTED"]
    /\ UNCHANGED <<runRow, previous, cur, proc, plan, live, memory, history>>

\* The run row moves to STARTED only when every range row exists; then the writer is spawned.
ReadyAtOnce == proc = "create"
RowsWritten == proc = "create" /\ Unrecorded = {}

MarkStarted ==
    /\ RowsWritten
    /\ runRow' = [runRow EXCEPT ![cur].status = "STARTED"]
    /\ proc' = "running"
    /\ EmptyMemory
    /\ writer' = "select"
    /\ UNCHANGED <<rows, previous, cur, plan, live, history>>

-----------------------------------------------------------------------------
(* RunTracker: the calls of the scheduler.                                  *)

\* try_send() succeeds while the channel holds fewer than queue_capacity writes.
HasRoom == Len(queue) < QueueCapacity

\* enqueue() of a range write: try_send, or fold it into the checkpoint map.
Enqueue(r, s) ==
    IF HasRoom
      THEN /\ queue' = Append(queue, RangeWrite(r, s))
           /\ UNCHANGED <<shed, pending>>
      ELSE /\ shed' = TRUE
           /\ pending' = [pending EXCEPT ![r] = s]
           /\ UNCHANGED queue

\* on_range_started().
StartRange(r) ==
    /\ proc = "running" /\ r \in plan /\ live[r] = "NOT_STARTED"
    /\ live' = [live EXCEPT ![r] = "InFlight"]
    /\ begun' = [begun EXCEPT ![r] = @ \cup {cur}]
    /\ Enqueue(r, "STARTED")
    /\ UNCHANGED <<table, previous, cur, proc, plan, blocked, writer, batch, ckpt, lost,
                   finished, aborted>>

\* on_range_finished(): a verdict, or STARTED for an abandoned range.
FinishRange(r, s) ==
    /\ proc = "running" /\ live[r] = "InFlight"
    /\ live' = [live EXCEPT ![r] = s]
    /\ finished' = IF s \in Clean THEN finished \cup {r} ELSE finished
    /\ Enqueue(r, s)
    /\ UNCHANGED <<table, previous, cur, proc, plan, blocked, writer, batch, ckpt, lost,
                   begun, aborted>>

\* The statuses RunReport can carry: ENDED only when every range was processed.
Unprocessed == {r \in plan : live[r] \in {"NOT_STARTED", "STARTED"}}
TerminalAlwaysEnded == {"ENDED"}
TerminalStatuses == {"INTERRUPTED", "ABORTED"} \cup IF Unprocessed = {} THEN {"ENDED"} ELSE {}

\* finish(): the run write is queued last, or sent by a task that waits for room; the sender drops.
EnqueueRunFirst(w) ==
    /\ queue' = <<w>> \o queue
    /\ UNCHANGED blocked
EnqueueRun(w) ==
    IF HasRoom
      THEN queue' = Append(queue, w) /\ UNCHANGED blocked
      ELSE blocked' = <<w>> /\ UNCHANGED queue

FinishRun(s) ==
    /\ proc = "running" /\ \A r \in plan : live[r] # "InFlight"
    /\ EnqueueRun(RunWrite(s, \E r \in plan : live[r] = "FAIL"))
    /\ proc' = "closing"
    /\ UNCHANGED <<table, previous, cur, plan, live, pending, writer, batch, ckpt, history>>

\* abandon(): the writer is closed and the run row left at STARTED.
AbandonRun ==
    /\ proc = "running" /\ \A r \in plan : live[r] # "InFlight"
    /\ proc' = "closing"
    /\ UNCHANGED <<table, previous, cur, plan, live, memory, history>>

SendBlocked ==
    /\ blocked # <<>> /\ HasRoom
    /\ queue' = Append(queue, Head(blocked))
    /\ blocked' = <<>>
    /\ UNCHANGED <<table, previous, cur, proc, plan, live, pending, writer, batch, ckpt, history>>

\* close_writer(): the writer was joined, so its last checkpoint is written; finish() returns.
Close ==
    /\ proc = "closing" /\ writer = "ended"
    /\ proc' = "none"
    /\ UNCHANGED <<table, previous, cur, plan, live, memory, history>>

-----------------------------------------------------------------------------
(* writer_loop().                                                           *)

NextBatch == IF Len(queue) < BatchSize THEN Len(queue) ELSE BatchSize

\* recv_many() took what is there, up to batch_size.
Receive ==
    /\ writer = "select" /\ queue # <<>>
    /\ batch' = SubSeq(queue, 1, NextBatch)
    /\ queue' = SubSeq(queue, NextBatch + 1, Len(queue))
    /\ writer' = "batch"
    /\ UNCHANGED <<table, previous, cur, proc, plan, live, blocked, pending, ckpt, history>>

\* update_range() or update_run() of one write.
Store(w) ==
    IF w.kind = "range"
      THEN rows' = [rows EXCEPT ![cur][w.range] = w.status] /\ UNCHANGED runRow
      ELSE runRow' = [runRow EXCEPT ![cur] = [status |-> w.status, failed |-> w.failed]]
           /\ UNCHANGED rows

\* apply(): a write that fails is logged and dropped.
Apply ==
    /\ writer = "batch" /\ batch # <<>>
    /\ batch' = Tail(batch)
    /\ \/ Store(Head(batch)) /\ UNCHANGED lost
       \/ MayFailWrites /\ lost' = lost \cup {cur} /\ UNCHANGED table
    /\ UNCHANGED <<previous, cur, proc, plan, live, queue, blocked, pending, writer, ckpt, shed,
                   begun, finished, aborted>>

BatchDone ==
    /\ writer = "batch" /\ batch = <<>>
    /\ writer' = "select"
    /\ UNCHANGED <<table, previous, cur, proc, plan, live, queue, blocked, pending, batch, ckpt,
                   history>>

TakeCheckpoint ==
    /\ ckpt' = pending
    /\ pending' = [r \in Ranges |-> Absent]

\* The ticker fires: apply_checkpoint() takes the whole map.
Tick ==
    /\ writer = "select" /\ Recorded(pending) # {}
    /\ TakeCheckpoint
    /\ writer' = "checkpoint"
    /\ UNCHANGED <<table, previous, cur, proc, plan, live, queue, blocked, batch, history>>

ApplyCheckpoint ==
    /\ writer \in {"checkpoint", "last"}
    /\ \E r \in Recorded(ckpt) :
         /\ ckpt' = [ckpt EXCEPT ![r] = Absent]
         /\ \/ Store(RangeWrite(r, ckpt[r])) /\ UNCHANGED lost
            \/ MayFailWrites /\ lost' = lost \cup {cur} /\ UNCHANGED table
    /\ UNCHANGED <<previous, cur, proc, plan, live, queue, blocked, pending, writer, batch, shed,
                   begun, finished, aborted>>

CheckpointDone ==
    /\ writer \in {"checkpoint", "last"} /\ Recorded(ckpt) = {}
    /\ writer' = IF writer = "last" THEN "ended" ELSE "select"
    /\ UNCHANGED <<table, previous, cur, proc, plan, live, queue, blocked, pending, batch, ckpt,
                   history>>

\* recv_many() returns 0 once every sender is gone and the queue is empty.
SenderKeptAlive == proc = "none"
SendersGone == proc = "closing" /\ blocked = <<>>

LoopEnds ==
    /\ writer = "select" /\ queue = <<>> /\ SendersGone
    /\ TakeCheckpoint
    /\ writer' = "last"
    /\ UNCHANGED <<table, previous, cur, proc, plan, live, queue, blocked, batch, history>>

-----------------------------------------------------------------------------
(* The environment.                                                         *)

\* A write is on its way to the table: queued, in the writer's hands, or shed.
Unwritten ==
    \/ queue # <<>> \/ blocked # <<>> \/ batch # <<>>
    \/ Recorded(pending) # {} \/ Recorded(ckpt) # {}

\* Everything in memory is gone, the rows are not.
Crash ==
    /\ MayCrash /\ proc # "none"
    /\ proc' = "none" /\ writer' = "ended"
    /\ EmptyMemory
    /\ lost' = IF Unwritten THEN lost \cup {cur} ELSE lost
    /\ UNCHANGED <<table, previous, cur, plan, live, shed, begun, finished, aborted>>

\* RunManager::cancel() from another process: ABORTED, whatever the run row said.
Cancel(n) ==
    /\ n \in Cancellable /\ runRow[n].status # Absent
    /\ runRow' = [runRow EXCEPT ![n].status = "ABORTED"]
    /\ aborted' = aborted \cup {n}
    /\ UNCHANGED <<rows, previous, cur, proc, plan, live, memory, shed, lost, begun,
                   finished>>

\* Nobody resumes any more.
Idle == proc = "none" /\ cur > 0 /\ UNCHANGED vars

WriterStep ==
    Receive \/ Apply \/ BatchDone \/ Tick \/ ApplyCheckpoint \/ CheckpointDone \/ LoopEnds

Next ==
    \/ StartFirstRun
    \/ \E n \in Runs : ResumeRun(n) \/ Cancel(n)
    \/ InsertRange \/ MarkStarted
    \/ \E r \in Ranges : StartRange(r) \/ \E s \in Verdicts \cup {"STARTED"} : FinishRange(r, s)
    \/ \E s \in TerminalStatuses : FinishRun(s)
    \/ AbandonRun \/ SendBlocked \/ Close
    \/ WriterStep
    \/ Crash
    \/ Idle

Spec == Init /\ [][Next]_vars

(***************************************************************************)
(* The runtime schedules the writer and the spawned sender, and every       *)
(* tracking write is answered.  Workers, crashes and operators are free.    *)
(***************************************************************************)
FairSpec == Spec /\ WF_vars(WriterStep) /\ WF_vars(SendBlocked) /\ WF_vars(Close)

-----------------------------------------------------------------------------
(* Properties.                                                              *)

RangeStatus == {"NOT_STARTED", "STARTED"} \cup Verdicts
RunStatus == {"NOT_STARTED", "STARTED", "ENDED", "INTERRUPTED", "ABORTED"}
RunRows == [status : RunStatus \cup {Absent}, failed : BOOLEAN]
Writes == [kind : {"range"}, range : Ranges, status : RangeStatus]
          \cup [kind : {"run"}, status : RunStatus, failed : BOOLEAN]

\* Type invariant: in particular the queue never exceeds its capacity, a batch never exceeds
\* batch_size (TrackerConfig) and a range row never carries a run status.
TypeOK ==
    /\ runRow \in [Runs -> RunRows]
    /\ rows \in [Runs -> [Ranges -> RangeStatus \cup {Absent}]]
    /\ cur \in 0..MaxRuns
    /\ proc \in {"none", "create", "running", "closing"}
    /\ plan \subseteq Ranges
    /\ live \in [Ranges -> RangeStatus \cup {Absent, "InFlight"}]
    /\ queue \in Seq(Writes) /\ Len(queue) <= QueueCapacity
    /\ batch \in Seq(Writes) /\ Len(batch) <= BatchSize
    /\ blocked \in Seq(Writes) /\ Len(blocked) <= 1
    /\ pending \in [Ranges -> RangeStatus \cup {Absent}]
    /\ ckpt \in [Ranges -> RangeStatus \cup {Absent}]
    /\ writer \in {"select", "batch", "checkpoint", "last", "ended"}
    /\ previous \in [Runs -> 0..MaxRuns]
    /\ shed \in BOOLEAN /\ lost \subseteq Runs
    /\ begun \in [Ranges -> SUBSET Runs]
    /\ finished \subseteq Ranges /\ aborted \subseteq Runs

Trusted == {n \in 1..cur : ~IsFallback(runRow[n], rows[n])}
Newest(S) == CHOOSE n \in S : \A m \in S : m <= n

\* resume.rs: "Skipping a range that did not complete loses rows silently".  The newest run whose
\* range list a resume trusts still names every range no run has completed, whatever crashed,
\* whatever write was lost, and wherever create_run was cut off (create_run's order, plan_resume).
NothingForgotten ==
    Trusted # {} =>
        \A r \in Ranges : r \in finished \/ Disposition(FALSE, rows[Newest(Trusted)][r]) = "Rerun"

\* A run that auto_rerun declines to adopt left no range failed, abandoned or unprocessed
\* (RunTracker::finish records the scheduler's status, is_resumable reads it back).
DeclinedRunIsDone ==
    cur > 0 /\ runRow[cur].status # Absent /\ ~IsResumable(runRow[cur]) =>
        \A r \in plan : live[r] \in Clean \cup {"DIFF"}

Terminal(n) == runRow[n].status \in {"ENDED", "INTERRUPTED", "ABORTED"}

\* tracker.rs: the run row must not say ENDED while range writes are still queued.  Unless the
\* queue overflowed or a write failed, the range rows are the true outcomes the moment the run
\* row is terminal, so a resume started right then reads the whole truth.
TerminalRowsAreExact ==
    cur > 0 /\ Terminal(cur) /\ ~shed /\ cur \notin lost \cup aborted =>
        \A r \in plan : rows[cur][r] = live[r]

\* Run n began r and left no record of it: a tracking write of it failed or died with its process.
LeftNoTrace(n, r) == n \in lost /\ rows[n][r] = "NOT_STARTED"

\* A run after n, up to m, was told to continue a run older than n.
PassedOver(n, m) == \E k \in (n + 1)..m : previous[k] < n

\* DST-015: a range of a counter table that one run began is not begun by a later one, with two
\* exceptions and no other: a tracking write of it failed or died with the process, and its row of
\* the range still says NOT_STARTED; or an operator named an older run for a resume.  A full queue, a
\* cancelled run and an interrupted or failed range never replay one (RerunPolicy, plan_resume()).
NeverReplayed ==
    CounterRun =>
        \A r \in Ranges : \A n, m \in begun[r] :
            n < m => LeftNoTrace(n, r) \/ PassedOver(n, m)

\* finish() returns: the writer is never left waiting for a sender nobody drops.
FinishReturns == proc = "closing" ~> proc = "none"
=============================================================================
