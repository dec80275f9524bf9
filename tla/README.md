# A verification project for cdm-rs

cdm-rs migrates and validates the rows of one Cassandra table between two clusters. A *plan* cuts
the token ring into ranges; worker tasks process ranges; a tracking table records what happened, so
that an interrupted run can be resumed; several nodes can share one run. The modules here model the
parts whose correctness depends on the order in which tasks, threads, processes and nodes take
their steps. Paths below are relative to the repository.

## 1. Inventory

| component | state it keeps | operations | what is hard about it |
|---|---|---|---|
| `cdm-engine/src/scheduler` (`mod.rs`, `control.rs`, `queue.rs`, `signal.rs`) | queue cursor, outcomes, run counters, `RunControl` (paused, stopping, killed, reason) | `run`, `worker`, `process_range`, `enforce_error_limit`, `grace_watchdog`, `pause`/`resume`/`stop`/`kill`/`signalled` | unlocked control state shared by workers, the signal listener, the UI and the watchdog |
| `scheduler/failure.rs` | the counters of one range | `lost_rows`, `record_range_failure` | saturating arithmetic over counters of different units |
| `scheduler/limits.rs`, `ratelimit.rs`, `adaptive.rs`, `cdm-cql/src/exec/write.rs` | semaphores, GCRA state, AIMD rate | `read_slot`, `write_slot`, `acquire`, `observe`, `retrying` | permits owned by futures; clocks and rates read before a lock, applied after it |
| `jobs/migrate` (`job.rs`, `buffer.rs`, `settings.rs`) | write buffer, batch, in-flight futures, interim counters | `process`, `process_page`, `process_row`, `push`, `flush` | back-pressure between workers, partial flushes |
| `jobs/validate` | batch of lookups, counters, discrepancy report | `process`, `enqueue`, `compare_batch`, `autocorrect_*`, `verdict`, `report` | spawned lookups that outlive their range; partly corrected batches; a report whose writes start to fail |
| `jobs/guardrail`, `cdm-cql/src/exec/scan.rs` | a read slot, the scan's paging state | `process`, `next_page`, `attempt`, `run_status` | a paging state that moves before the page is decoded |
| `planner`, `cdm-core/src/domain/token.rs`, `cdm-cql/src/ring.rs` | none | `plan`, `split_ring`, `from_ranges`, `ring_boundaries`, and `subdivide` of `cdm-track/src/resume.rs` (the planner's own `subdivide_for_rerun` has the same logic, but only tests call it) | rounding and the end of the integer range |
| `cdm-track/src/tracker.rs` | bounded queue, checkpoint map, writer task | `start_range`, `finish_range`, `finish`, `abandon`, `writer_loop` | shedding, two ways to the table, shutdown |
| `cdm-track/src/resume.rs`, `manage.rs`, `cdm-cli/src/harness/resume.rs` | run and range rows | `plan_resume`, `is_resumable`, `cancel`, `resume` | deciding from rows a dead process left behind |
| `cdm-track/src/store/cassandra.rs`, `schema.rs` | `cdm_run_info`, `cdm_run_details`, the lease table | `create_run`, `update_*`, `initialise_run`, `claim_range`, `renew_lease` | order of writes, conditional writes whose answer is lost |
| `cdm-cluster` (`coordinator.rs`, `lease.rs`, `settings.rs`) | the lease a node believes it holds | `join`, `await_started`, `claim`, `keep_alive`, `release`, `abandon` | clocks, stalls, ambiguous transactions, dead nodes |
| `cdm-config`, `cdm-codec`, `cdm-cql`, `cdm-feature`, `cdm-metrics` exporters, `cdm-cli` commands, `cdm-testkit`, `xtask` | configuration, sessions, reports | parsing, conversion, I/O, display | sequential or pure I/O: not modelled |
| `cdm-a2a`, `cdm-api`, `cdm-mcp`, `cdm-service`, `cdm-ui` | none | none | placeholders |

How they interact: `Scheduler::run` spawns the workers, the watchdog and the signal listener; a
worker calls the job (`RangeProcessor::process`) and the tracker (`RangeObserver`). Workers share
the `Limits` semaphores and the `RunControl`, of which the terminal UI holds a clone. The tracker's
writer task is the only task that writes rows after `create_run`. Nodes of a distributed run share
nothing but the tables. `cdm-cluster` is not wired into the command line yet (no crate
constructs its `Coordinator`, and `cdm cluster` answers "not yet"): `Coordinator` and `RunElection` model
the library and its store as they stand, not a run that today's binary can start.

What makes each part correct: a range is processed by one worker and the report says of every range what
happened to it (scheduler); permits come back and WRITE never counts a row that did not land (migrate job);
a range that validation calls corrected has converged as far as its writes can reach and no value is
invented (validate job); a page is measured once (guardrail); every token is planned once, and once again
on a resume (planner); requests never outrun the configured rate (limits); a resume never forgets a range,
and repeats one of a counter table only where the tables could not tell it (tracker and resume); one node
works on a range at a time (leases); nobody starts before the plan is recorded and the configurations agree
(election); and all of them end.

`PROJECT.json` lists the hazards, each at its line, with the properties that would catch it.

## 2. Modules

| module | models | actors |
|---|---|---|
| `Scheduler` | the scheduler and its control | workers, listener, operator, watchdog |
| `PlanExecution` | abstract specification: what executing a plan promises | – |
| `SchedulerProofs` | theorems about `Scheduler`, the refinement included | – |
| `MigrateJob`, `MigrateJobProofs` | migrate jobs of several workers under one write semaphore; theorems | workers |
| `ValidateJob`, `ValidateJobProofs` | validate jobs: lookups, comparison, correction, verdict; theorems | ranges, spawned lookups |
| `GuardrailJob`, `GuardrailJobProofs` | guardrail scans: pages, retries, read slots; theorems | ranges, the server |
| `RateControl`, `RateControlProofs` | the target's rate limiter, the adaptive controller and the request loop; theorems | writers, a clock |
| `TokenPlanner`, `TokenPlannerProofs` | plans, splits and re-plans of the token ring; theorems | planner, resumes |
| `Resume` | pure operators of `resume.rs` | – |
| `RunTracker` (extends `Resume`), `RunTrackerProofs` | creation, tracking, crash, cancel and resume of a chain of runs; theorems | one process, its writer task, another operator |
| `CoordinatorSettings` | the lease policy both halves of a distributed run are built with | – |
| `RunElection` (extends `CoordinatorSettings`) | joining a distributed run | nodes, the store |
| `Coordinator` (extends `CoordinatorSettings`) | leases | nodes, a clock, the store |
| `ClusterProofs` | theorems about `RunElection` and `Coordinator` | – |
| `MC*` | the model values and symmetry TLC needs | – |

**Scheduler.** `wpc[w]` is the point a worker has reached in `worker`/`process_range`; `held`,
`result` and `outcomes` are the range being processed, the computed `RangeOutcome` and the published
ones; `next` is `WorkQueue::next`, which keeps growing past the end as `fetch_add` does. `stop()` and
`kill()` take no lock, so a call is a small frame (`call[a]`) that steps through *record the reason*,
*clear the pause*, *cancel stopping* and, for a kill, *cancel killed*; other actors step in between.
`pause()` is split at its check (`BeginPause`, `SetPaused`). A job may succeed, fail, fail fatally,
give up when it sees the token (`GiveUp`), be dropped (`Abandon`), or never end. The number of errors
a range ends with is free, from `RangeErrors`. `late` is history.

**PlanExecution.** Ranges are taken once, settled once, and a run may call itself ENDED only when
nothing is left, nothing is in flight and nothing was lost. `Scheduler!ImplementsPlan` maps a range
to *active* from its claim to the publication of its outcome.

**MigrateJob.** One record per worker: pages and rows still to come, entries of the current row,
rows in the batch, and the in-flight futures as a sequence of their sizes. A future owns a permit
and is polled only while its worker is in `drain` (inside `flush`); the waits for a permit are
states of their own (`single`, `full`, `switch`, `flush`). What a row is turned into is abstracted
to the number of its writes. Rate limiters only delay and are left out. `ghost` counts what really
landed. Whether the run writes counters, and its effective batch size, are chosen initially. A record
that cannot be bound is counted and leaves the rest of its page to go on (`RecordFails`, `BindFails`).
A dry run, which swaps the sink for one that accepts everything at once, is left out.

**ValidateJob.** `batch` holds a range's records in the order they were looked up; a lookup is a task
of its own, so answers arrive in any order (`LookupEnds`), permits are returned then, and a range that
fails or is dropped leaves its lookups to `detached`. `CompareRow` classifies the head of the batch and
either counts it or starts a correction, which may fail, may be bound UNSET for a null cell, may lose
to a newer cell or a newer tombstone, and adds a difference on a counter table, where a null counter is
bound as 0 (`Landed`, `Delta`, `Amount`). A row is one non-key cell: `Null`, a value, or `Absent` for a
missing row. `rows` remembers what became of the target. `report` has, for each range, the records in the
file (`total`, and of them those marked `corrected`), the writes that `records` counted, and whether the
write that failed was one of its own. The sink is shared by the ranges: after the first failing write,
whose bytes may or may not be in the file, it is broken and later writes are counted without being made
(`Outcomes`). Records always serialise; the end of the JSON document that `finish()` writes is left out,
and so is the saturation of a difference of two counters at the ends of `i64`.

**GuardrailJob.** A task is a `ScanState` with the rows of its current page. `Moved` is what a response
does to the paging state before it is decoded; `RequestRetried`, `DecodeRetried` and `ScanFails` are the
three ways out of `next_page`. `served`, `repeated` and `undecoded` are history. The pages of the table
are chosen initially; rows are the sizes of their largest columns.

**RateControl.** A writer reads the clock and the rate (`Arrive`, `ReadRate`), reserves under the lock
of the theoretical arrival time, sleeps until it is due, sends, and reports every attempt. The report
reads the clock, then the controller's lock is taken and windows roll (`IgnoreSignal`, `Remember`,
`CloseWindow`), then the new rate is stored (`Apply`): three steps, so decisions of two writers
overlap. Backoff sleeps are any delay. A second is `Second` units of the clock.

**TokenPlanner.** `StartPlan` resolves bounds and cuts the ring into segments by one of the three
strategies; `EmitRange` is one turn of the loop of `split_ring`; `FinishPlan` divides the result where size
estimates ask for it. A run then completes any subset of the ranges and `StartResume` subdivides the
others, repeatedly, through `from_ranges`. `IMax` is `i128::MAX` scaled down, so clamping and saturation
happen, of the successor of a token and of the products in the shares and estimates (`Saturating`, at
`u128::MAX`, which is twice `IMax` and one; scaled down it is close to a signed ring too, which in the code
is 64 bits wide and saturates nothing). The ceiling is checked where the code checks it: on `num_parts` for
fixed and adaptive plans, on each segment's share for ring-aware ones. `BigMax` is `i64::MAX`: a run with a
token beyond it has no row in the tracking table and cannot be resumed (`Trackable`). The clamp of the
adaptive factor to `u32` is left out. Sorting (`InOrder`) puts each element where as many are smaller, and
sums (`Total`) are functions of a position. The properties compare the ranges with the set of tokens they
should hold.

**RunTracker.** `runRow` and `rows` are the tables and survive `Crash`; everything else of a process
does not. `Enqueue` is `try_send` with the shed path into the checkpoint map; the terminal run write
that finds the queue full is held by a spawned sender (`blocked`). `Receive`, `Apply`, `Tick`,
`ApplyCheckpoint` and `LoopEnds` are `writer_loop`, one table write per step. A resume takes the
newest run, or with `MayNameOld` any recorded one, and creates a run over `Replanned(...)` that records
it as `previous`. The runs in `Cancellable` may be cancelled by another operator at any time.
`begun` remembers which runs touched a range, `lost` the runs a write of which failed or was still in
memory when the process died.

**Coordinator.** Reading the clock, reading the row and running the transaction are three steps; a
transaction that fails may have been applied; a dead node comes back under its name. Time is a
bounded clock with a skew per node. The reclaim policy is chosen initially; `late` remembers whether
some claim or renewal took longer than a heartbeat.

**RunElection.** `join()` with the conditional insert of the run row, the range rows, STARTED last;
the losers compare digests, then poll until the deadline. `EndRun` overwrites the digest, as
`update_run` does.

## 3. Runs, bounds and results

| run | question | bounds and why they are enough |
|---|---|---|
| `SchedulerRun` | claims, counters, error limit, report, stop reasons, refinement | 2 workers, 2 ranges with 0 or 2 errors under a limit of 1, 1 signal, 1 operator call, fatal errors and the watchdog: every kind of `stop()` frame overlaps every other, and the limit is passed by one worker while the other is between its check and its claim |
| `SchedulerDrain` | a stopping run finishes | 2 workers, 1 range; jobs may hang, a pause may race the stop |
| `MigrateRun` | permits, buffer bound, accounting; ranges end | 2 workers share 3 permits, one more than both can hold short of a flush; single writes, batches of 2 and counter writes; a threshold of 2 reached within a page of 2 rows that explode into up to 2 writes, so a flush finds full, partial and no batches; record errors, failing writes and a kill anywhere |
| `ValidateJob` | permits, convergence, no invented values, accounting, report; ranges end | 2 ranges, the first with 3 lookups under a batch size of 2 (a full and a partial batch), 2 permits that they exhaust; rows that agree, differ, are missing (some deleted later than the origin wrote them), are null on one side, null counters too; a report whose writes start to fail at any point; 4 settings: writetimes carried over, counters with exploding rows, deleted counters re-inserted, extracted JSON |
| `GuardrailJob` | slots, pages, status | 2 ranges over 1 slot, up to 3 pages of up to 2 rows, empty ones included, sizes on both sides of the threshold, 3 attempts so that a retry can be retried |
| `RateControl` | rates follow overload, requests never outrun the ceiling | 2 writers with 2 attempts each, no ceiling or 3 rows a second, a second of 6 units and a clock seen every 9, so windows are missed and up to 3 of them, the catch-up limit, are closed at once; 18 units |
| `TokenPlanner` | every token planned once, resumes keep what is left | a ring `-4..3` like Murmur3's and a ring `0..7` that ends at the largest integer; 0 to 9 parts, so that shares saturate, coverage 0, 40 and 100 per cent, up to 2 node tokens anywhere in `-4..7`, the largest integer included, 4 tables of size estimates, bounds inside, outside and inverted, 2 resumes with multipliers on both sides of a limit of 4 ranges, a largest bigint of 3 |
| `RunTrackerCrash` | nothing is forgotten, a declined run is done, terminal rows are exact | 2 ranges, queue of 1, 2 runs, crashes and failing writes anywhere, any run may be named |
| `RunTrackerCounter` | no replay but where the tables hide it, `finish` returns | 3 runs of a counter table, so that a resume can be passed over by a later one, over 1 range, as replays are a matter of one range; queue of 1 that its two writes fill, crashes anywhere, the first run may be cancelled, any run may be named; failing writes are left to the theorem |
| `Coordinator` | one holder, one grant, punctual renewals, attempts | 2 nodes, both policies, lease of 2 ticks, heartbeat 1, 2 attempts, 5 ticks (two expiries), equal clocks and clocks exactly `lease_duration - heartbeat` apart |
| `RunElection` | equal digests, whole plan, joining ends | 3 nodes, 2 ranges, 2 configurations, a deadline of 2 |

Every property of these runs has a mutant in `PROJECT.json`, a plausible mistake in one mapped
definition, under which TLC finds the property violated.

The type invariants (`TypeOK`) are the base of the proofs and hold on the same instances; no run lists
them, except through the theorems of section 4.

One run refutes a sentence of the repository; `PROJECT.json` "findings" quotes it. In
`MigrateDeadlock`, two workers wait for permits that only their own next flush would free, with a
semaphore that is not zero.

Smaller differences between code and comments, visible in the models but not given a run of their
own. Where a property is stated with a condition, this is the reason for the condition.

* `control.rs` `pause()`: "Pausing a stopping run does nothing". Its check and its write are separate
  (`BeginPause`, `SetPaused`), so a stop between them leaves the flag set. Harmless: workers watch the
  stopping token too, which `StopTerminates` checks.
* `control.rs` `signalled()`: "the first stops gracefully, the second aborts". Two callers (the
  listener and the terminal UI) that both look before either has cancelled the token both stop
  gracefully.
* `scheduler/mod.rs`: "An abandoned range is not a failed one". A migrate job that notices the kill
  at a page boundary returns `Err(Cancelled)`, which the biased `select!` prefers: FAIL (`GiveUp`).
* `failure.rs`: a record error is counted once when it happens and again by `lost_rows` when its range
  fails; and WRITE counts target rows, so exploded rows make `lost_rows` too small. Hence
  the bound on lost rows in `MigrateJob!RowsBalance` is a lower bound, for ranges without exploded rows.
* `tracker.rs` `finish()`: "the run row must not say ENDED while range writes are still queued". Shed
  states are written after the run row; hence `~shed` in `TerminalRowsAreExact`.
* `resume.rs`: naming the same older counter run twice repeats the ranges of the first resume, which
  recorded its progress under a run id of its own: `PassedOver` in `NeverReplayed`.
* `tracker.rs:33`: "so a shed write is superseded rather than lost". `enqueue` leaves the older shed
  state in the checkpoint map when the newer write goes through the queue, and the checkpoint is
  written last: a stale STARTED can replace the final status. Hence `~shed`, again.
* `resume.rs:72`: NOT_STARTED "is the only status that proves nothing was applied". `start_range` only
  queues STARTED, so after a crash a counter range that began may still be NOT_STARTED and is planned
  again: `LeftNoTrace` in `NeverReplayed`, where the write that failed counts as well.
* `manage.rs:284`: "a cancelled run is resumable". `cancel` writes ABORTED over NOT_STARTED, the one
  status that makes `plan_resume` distrust a partial list of ranges; hence `Cancellable = {}` in
  `RunTrackerCrash`.
* `limits.rs` `record_target_signal`: two rates decided in one order can be stored in the other, which
  leaves the limiter at the older rate until the next change. `RateInForce` states equality for runs
  without overlapping decisions, and the bounds for all.
* `adaptive.rs` `step_for` divides before it multiplies: the step is not 5 % of a ceiling that is no
  multiple of 100.
* `ring.rs` `ring_boundaries`: the successor of a node token equal to `i128::MAX` saturates to itself and
  is planned again as the wrap-around (`TwicePlanned` in `PlanCoversOnce`). A RandomPartitioner ring
  contains that token; such a plan has no rows in bigint columns, so it is never resumed. The tail segment
  is owned by the first token inside the configured bounds; narrow bounds without a node token inside are
  refused as an empty ring.
* `planner/mod.rs`: adaptive and ring-aware plans may exceed `MAX_PLANNED_RANGES`, because a ring-aware
  plan is checked segment by segment; `from_ranges` enforces it on a resume, which is then refused for
  its size, as is a multiplier above it. `ResumeKeepsEveryToken` allows these refusals and the one for
  tokens that are no bigint. `num_parts * token_count` saturates on a RandomPartitioner ring, which gives
  fewer ranges than `num_parts` asks for and leaves out no token.
* `scan.rs:202`: a page that cannot be decoded is not asked for again ("retrying a failed page request
  in place"): the paging state has moved, the retry asks for the next page, and unless it was the last
  page its rows are skipped. `StatusTellsTheTruth` excuses runs in which that happened.
* `guardrail.rs:176`: a range that is cancelled returns PASS, and the row in hand is not counted ("a row
  already fetched is still accounted for").
* `validate/status.rs`: a correction that bound UNSET, lost to a newer writetime or skipped an extracted
  column is counted as CORRECTED and the range is DIFF_CORRECTED, while the target still differs.
  `SettledRangesConverged` excuses exactly those rows (`Reachable`). One of them can still be missing: an
  insert stamped with the origin's writetime stays below a later deletion, which
  `tests/sit/smoke/03_ttl_writetime/setup.cql:45` avoids with `gc_grace_seconds=1` ("without it the
  deleted row shadows the correction").
* `rows.rs`: a null counter counts as 0 in a difference, so a target whose origin is null is brought to 0,
  which still differs from null. Such rows are not `Reachable` either.
* `validate/report.rs:58`: "a write that fails mid-run is logged once, loudly, and the run carries on".
  The record is lost, later records are too, and `records` goes on counting them as written:
  `ReportMatchesCounters` says what is left of the report then.
* `validate/mod.rs`: corrections, and the reads of the origin's pages, hold no permit. After a kill a
  range gets one more poll before the scheduler drops it, so its drain rarely ends; the model allows
  both outcomes.
* `lease.rs`: clocks that "agree to within the lease duration" are not close enough; the safe skew is
  `lease_duration - heartbeat` (`SafeSkew`).
* `LeaseStore::claim_range`: "can undercount its attempts by one". Every node that read the row before
  the others' claims writes the same number, so the undercount grows with the contenders;
  `AbandonedWasTried` states the direction that holds.
* `LeaseStore::release_lease` documents the expiry as `now`, the Cassandra store writes the epoch; the
  memory store lets a lease be reclaimed at equality, the Cassandra store strictly after it; two tasks
  of one node share a `node_id`, so either can renew the other's lease.

### Fairness

* `Scheduler!Fairness`: weak fairness of each worker's own steps, of control calls in progress, of
  the watchdog's sleep and of the final join. tokio schedules every runnable task and the calls are
  synchronous. Jobs get none: a job may hang. The operator gets none: nobody must resume.
* `MigrateJob!FairSpec` and `ValidateJob!FairSpec`: weak fairness of the ranges' steps (and of spawned
  lookups) taken together: as long as some task can move, one does. It is the least tokio gives; no
  fairness among waiters is needed because a range's work is finite.
* `RunTracker!FairSpec`: weak fairness of the writer, the spawned sender and the join in
  `close_writer`; every table write is answered, possibly with an error.
* `RunElection!JoinFairSpec`: weak fairness of each node's join and of time. Death is a free choice.

## 4. Proofs

`SchedulerProofs` proves, for every set of workers, plan length, error limit and bound:
`TypeCorrect`, `ClaimsAreExclusive`, `StopsAreExplained` (from `StopsAreRecorded` and
`ReasonsAreTrue`), `LateClaimsAreBounded`, `ErrorLimitIsEnforced`, `ReportIsAPartition`,
`CountersAreTheOutcomes` and the refinement of `PlanExecution`, `Refinement`. They rest only on the
named assumptions of `Scheduler`: `Workers` is finite, not empty and disjoint from the service names,
`NumRanges` and the limits are naturals, `Verdicts` are verdicts.

The argument is one inductive invariant, `IndInv`, in layers proved one after the other, each
using the parts before it:

* `TypeInv` – `TypeOK`, and a worker holds a range exactly while its program counter is between
  the claim and the publication (`Holding`).
* `WorkInv` – everything held or settled lies below the cursor (`CursorCovers`), the ranges started
  are those with an outcome or being worked on (`StartedCovers`), and `ExclusiveClaims`. The cursor
  is what makes exclusivity inductive: a new claim is a number nobody has seen.
* `ControlInv` – a frame past its first step has found a reason recorded (`FramesOrdered`), and every
  frame's reason, not just the recorded one, has a cause (`ReasonsCaused`). `StoppingHasReason` alone
  is not inductive: it needs to know which calls are half done. For the watchdog's kill the cause is
  that a reason was there before it.
* `LimitInv` and `ReportInv` – while the run is over its limit, either it is stopping, or some
  worker still has its `enforce` ahead of it or is inside the `stop()` that it decided on
  (`LimitNoticed`); a worker that claimed late cannot reach another claim (`LateStops`); an abandoned range
  implies a kill; a worker is done only when the run stops or the cursor passed the end
  (`DoneIsJustified`); the report is what the final state says (`ReportFinal`).

`CountersAreTheOutcomes` compares each partition counter with the number of ranges published or merged
under its status. A merge adds one range to the set counted and a publication moves one, and both need
exclusive claims: the range a worker publishes had no outcome and no other worker holds it.

`Refinement`: every step of the scheduler is a `Take`, a `Settle`, an
`End` or a stutter of `PlanExecution`. The delicate step is `Finish`, where ENDED needs
`DoneIsJustified` (no reason, so every worker ran off the end) and `AbandonedIsKilled` (nothing lost).

`ClusterProofs` proves all four properties of the leases, for every set of nodes and ranges, every lease
duration and heartbeat, every skew and every limit on attempts. The assumptions are those of `Coordinator`
and of `CoordinatorSettings`, which states what `CoordinatorSettings::new` accepts: positive durations with
`2 * Heartbeat <= LeaseDuration` (the proof does not need the factor), natural skews, and `None` is no
node's name. Two invariants:

* `AttemptInv` – a row counts some of the applied claims and at least one once there was one
  (`RowCounts`), what a node has read of the row it will claim was true once (`HintCounts`), and under
  the Refuse policy it read that there was no row (`HintRefuses`). `RefuseGrantsOnce` needs the second
  half of `RowCounts`: a range that was granted never looks like one that was not.
* `LeaseInv` – clock readings lie behind the clock, a lease runs from the reading before its last
  known renewal, and a holder is `Secure` (its lease has not expired on the one clock, or nobody is late
  and skews are safe) only while the row is its own and runs at least as long as the holder believes
  (`Keeps`). "At least" matters: a renewal that failed may have been applied. `ClaimSparesHolders`
  is the core: a claim's clock reading cannot be past the row of a secure holder.

`ClusterProofs` also proves `JoinTypeCorrect`, `JoinersSeeThePlan` and `JoinersAgree` for every set of
nodes, ranges and digests, from `SettingsAssumption` and `DigestAssumption`, that no digest equals the
metrics text that replaces it. What the properties say of joined nodes is extended to the nodes about to join:
the initialiser is alone and its run has not started, STARTED is written over a complete plan, and
until the run ends its row carries the digest of everyone who passed the check.

`GuardrailJobProofs` proves `PagesCountOnce`, `SlotsComeBack` and `StatusIsTrue` for every table,
number of slots and retry limit. `PageInv` says that the pages a scan may still ask for lie ahead of
those already handed over, where a finished scan asks again only when its last page could not be
decoded. `TruthInv` adds, per range, that every page behind the paging state was served or could not be
decoded (`Behind`), that a scan which passes went to the end or was killed (`Ends`), and that a large row
of a page served is counted or is still among the rows at hand (`Seen`): the page under examination is
what an invariant about finished ranges does not see.

`RunTrackerProofs` proves the four invariants of the run tracker for every set of ranges, queue and
batch size and number of runs. The writer's batch and the queue are read as one sequence, `Flow`, in
which the writes of a run wait in order.

* `DeclinedRunsAreDone` holds whatever the process, the store and the operators do. `RunInv` follows the
  verdict: a run row's final status is the last write of its run (`RunWriteLast`) and says what the
  scheduler saw (`ClaimsTrue`).
* `TerminalRowsExact`, too: `ExactInv` says that the last write of a range in `Flow`, or its row when
  there is none, is the true outcome, and that a terminal run has nothing left in `Flow`.
* `NothingIsForgotten` assumes `Cancellable = {}` and `~CounterRun`. Both are needed, and TLC finds the
  counterexamples: a run cancelled while it is being created looks complete although its range rows are
  not, and a resume of a counter run deliberately leaves begun ranges out. `KeepInv`: the rows of every
  run past its creation keep every unfinished range (`RowsKept`), a run being created plans them all and
  says NOT_STARTED until they are listed (`CreateKeeps`), and no write on its way takes one off the list
  (`WritesKeep`).
* `CounterRangesNeverReplayed` holds whatever the process, the store and the operators do: a range of a
  counter table begun by two runs had its STARTED lost with the earlier run's process or with its write and
  is still NOT_STARTED there (`LeftNoTrace`), or a resume between the two named a run older than the
  earlier one (`PassedOver`). Each exception is needed: without it TLC finds the replay. `ReplayInv`: what
  a run began is in its row or on its way there, unless the run lost a write, at the store or with its
  process (`BegunIsRecorded`); no write takes that back (`NoReset`); and the excuse is there already when a
  later run *may* begin the range, because it plans it or lists it as not started (`ReplaysExcused`). The
  property itself is about runs that did begin it, and would not be inductive. Naming an older run is
  always visible in `previous`, so a chain of plain resumes never replays what its tables recorded.

`MigrateJobProofs` proves the four invariants of the migrate job for every number of workers, permits,
batch and page size and flush threshold. The core of `MigrateInv` is `Accounted`: until a write fails,
the rows in the batch, in flight and landed are exactly WRITE and UNFLUSHED together; a write that failed
is in UNFLUSHED and nowhere else, and then the range is about to fail. `Placed` says which of a worker's
buffers may be in use at which point of `push` and `flush`, `Balanced` that a row read and not exploded
is in exactly one counter or is the entry at hand. The permits are counted by the set of `Slots`, whose
cardinality every step changes by the permits it takes or returns.

`ValidateJobProofs` proves the five invariants of the validate job for every table, settings and number of
permits. `ValidateInv` says where a range's records are at each point (`Placed`); that the rows read are
classified, in error, in the batch or being issued (`Balanced`); that only the discrepancy under correction
has not been sent to the report, and that the file has no record and no mark but those of what was sent,
the sink being broken or not (`Reported`); that a compared record agreed untouched, was corrected as far as
it can be - still missing only below a newer tombstone -, or is one of the discrepancies the counters leave
uncorrected (`Settling`); and that a record in the batch still has the value its answer carries (`InBatch`,
part of `Placed`), which is what makes the difference of a counter safe to add.

`RateControlProofs` proves the three invariants of the limiter and the controller for every set of
workers, ceilings, window, burst and tick.

* `StoreInv`: unless two decisions overlapped, there is at most one decided rate still to be stored and
  it is the controller's; with none, the limiter has it. A reservation made at a stale time or rate costs
  at least the cost at the ceiling.
* `PaceInv`: the rows admitted or sleeping, at the ceiling's cost, fit below the theoretical arrival time,
  and for every moment from now on, those admitted or due to wake by then fit below it plus the burst. The
  quantification over moments replaces a sum over the sleepers.
* `WindowInv`: the window of the last cut is not after the open one, and windows advance by whole lengths.

`RateFollowsTheWindows` rests on `CatchupReachesCeiling`: the cap on the windows a late report may close
at once (`MAX_CATCHUP_WINDOWS`) must not cost the rate anything. It is assumed as
`Floor(c) + (MaxCatchup - 1) * Step(c) >= c`, because the window in which a cut was made gives no step
back; `MaxCatchup * Step(c) >= c`, the first formulation, is not enough, as the proof of `roll` showed.
The code's 600 windows, whose step is at least 1 and 5 for every whole 100 of the ceiling, satisfy it
for every ceiling, and so the comment at `adaptive.rs:83`, that beyond a few minutes "the arithmetic has
already saturated at the ceiling anyway", is right.

`TokenPlannerProofs` proves the three invariants of the planner, for every ring up to the largest integer,
all bounds, parts, coverages, node tokens, size estimates, multipliers and numbers of resumes. The
assumptions are those of `TokenPlanner`: a ring is not inverted and ends at or below `IMax`, a cluster has
finitely many tokens, all at or below `IMax`, bigints end below `IMax`, the multiplier and the fallback
size are positive, and an estimate is three numbers of which the partition count is natural. `PlannerInv`
counts, for a token `t`, the ranges emitted that hold it and the remainders of segments that hold it
(`Handled(t)`), and the ranges of the plan that hold it and did not complete (`Pending(t)`):

* `Splits`: while the first plan is being split, `Handled(t)` is 1 for the tokens of the bounds, 2 for the
  largest integer where a node owns it, and 0 for the others (`Want`), or at most that when only a sample
  is read; while a resume is being split, it is `Pending(t)`.
  Each turn of the loop moves tokens from the head of the segments to the emitted ranges, at the end of the
  integer range too. `Loop` has what that needs: the cursor stays in its segment, and only the first plan is
  sampled, which is what fails when a resume samples again.
* `Conserves`: no token is in two ranges of a plan, and a token of the first plan has been processed or is
  pending, once in all - the doubled token apart, whose plan cannot be tracked and is not resumed.
  `ResumesKeepTokens` and the fact that no resume is refused for overlapping follow (`OnceIsDisjoint`).
* `Counts`: after `k` turns of the loop in a segment the cursor has moved by `k` times the width of a part
  plus one, so a segment gives no more ranges than it has parts (`PartsSuffice`); and the shares of `n`
  segments sum to at most `num_parts + n - 1` (`SharesBound`): a share is rounded down, saturation only makes it
  smaller, and where that gives zero it is raised to 1. A ring has one segment more than it has node tokens.
* `Owners`: a segment has a node's token only at its end, and so has every piece of it.

What is computed in one step is a chain of ranges, each starting one token after the one before
(`Chained`), and `ChainCovers` says that a chain has each token from its start to its end once. The ring's
segments are one, apart from the doubled token (`RingSegmentsCover`), and so is an even split
(`EvenSplitCovers`); `FlattenCovers` adds the counts of the pieces that adaptive planning concatenates.
These, and that `InOrder` sorts, need an induction over the positions of a sequence. The library's
induction rules have an operator as a parameter; `NatSetInduction` states induction for a *set* of naturals
instead and rests on the least counterexample (`WFMin`), and `Iterates` shows that a function defined by
recursion on a position exists.

Each of these modules also proves its type invariant (`TrackerTypes`, `MigrateTypes`, `ValidateTypes`,
`RateTypes`, `PlannerTypes`); every part of an inductive invariant was checked by TLC before it was proved.

Only model-checked are the liveness properties `StopTerminates`, `EveryRangeEnds` (of both jobs),
`FinishReturns` and `JoinSettles`: fairness is out of the prover's reach. Every safety property that a
passing run checks has a theorem.

## 5. Not modelled

The map covers the code whose behaviour is a matter of steps and their order; that is a small part of
the lines of the repository. The rest, and why it is left out:

* `cdm-config`, `cdm-codec`, most of `cdm-cql` (sessions, TLS, statement text, binding rules) and
  `cdm-feature`: parsing, conversion and formatting of data, sequential and without state. Modelling
  them would restate them.
* `cdm-cli` commands and the terminal UI's drawing, the exporters and dashboards of `cdm-metrics`: I/O and
  display.
* `cdm-testkit`, `xtask` and the unit tests inside every source file: not part of the program.
* The memory and SQLite stores, which implement the traits whose Cassandra implementation is modelled;
  driver retries below a write that lands or fails; instruments, spans and log lines.
* `RunIdGenerator` (planned, below), the planner's shuffle and report (a permutation and a printout).
* Migrate's dry run (`DryRunSink`), the distributed run's command line, which does not exist yet.
* The placeholder crates `cdm-a2a`, `cdm-api`, `cdm-mcp`, `cdm-service` and `cdm-ui`.

## 6. Plan

1. Done: `Scheduler` with `PlanExecution`, `MigrateJob`, `ValidateJob`, `GuardrailJob`, `RateControl`,
   `TokenPlanner`, `Resume` and `RunTracker`, `Coordinator` and `RunElection`, each with theorems for
   every safety property its runs check.
2. `RunIds`: the compare-and-swap loop of `RunIdGenerator`.
3. A composition of `Scheduler` and `RunTracker`, so that what a resume reads is related to what the
   scheduler did.
