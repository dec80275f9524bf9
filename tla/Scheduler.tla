------------------------------ MODULE Scheduler ------------------------------
(***************************************************************************)
(* The range scheduler of cdm-engine: workers pull token ranges from a      *)
(* shared cursor, process each one in isolation, and drain when somebody    *)
(* stops the run (crates/cdm-engine/src/scheduler: mod.rs, control.rs,      *)
(* queue.rs, failure.rs, signal.rs).                                        *)
(*                                                                          *)
(* Every thread of control is an actor: the workers, the signal listener,   *)
(* the operator (the terminal UI or an embedding program, which holds a     *)
(* clone of the RunControl) and the grace watchdog.  RunControl has no lock *)
(* around it: `stop` records a reason, clears the pause and cancels a token *)
(* in three separate steps, so those are separate steps here, kept in a     *)
(* small call frame per actor.                                              *)
(***************************************************************************)
EXTENDS Integers, FiniteSets

CONSTANTS
    Workers,           \* perfops.workers tasks
    NumRanges,         \* ranges of the plan, in the order they are queued
    ErrorLimit,        \* perfops.error_limit; 0 means no limit
    RangeErrors,       \* the ERROR counts one range can end with
    Verdicts,          \* the successful RangeVerdicts a job can return
    MaxSignals,        \* bound: signals delivered during a run
    MaxOperatorCalls   \* bound: pause and stop calls of the operator

Services == {"listener", "operator", "watchdog"}

ASSUME WorkersAssumption == IsFiniteSet(Workers) /\ Workers # {} /\ Workers \cap Services = {}
ASSUME NumRangesAssumption == NumRanges \in Nat
ASSUME ErrorAssumption == ErrorLimit \in Nat /\ RangeErrors \subseteq Nat
ASSUME VerdictsAssumption == Verdicts \subseteq {"PASS", "DIFF", "DIFF_CORRECTED"}
ASSUME BoundsAssumption == MaxSignals \in Nat /\ MaxOperatorCalls \in Nat

Ranges == 1..NumRanges
NoRange == 0
Actors == Workers \cup Services

StopReason == {"Signal", "ErrorLimit", "Fatal", "Operator"}
NoReason == "NoReason"

\* What the scheduler records for a range: a verdict, FAIL, or STARTED when abandoned.
RangeStatus == Verdicts \cup {"FAIL", "STARTED"}
NoOutcome == "NoOutcome"

VARIABLES
    wpc,          \* where each worker is in `worker` and `process_range`
    held,         \* the range each worker is processing, or NoRange
    result,       \* the outcome each worker has computed and not yet published
    next,         \* WorkQueue::next, the shared cursor (ranges handed out)
    started,      \* ranges for which on_range_started was called
    outcomes,     \* the outcome pushed for each range
    runCounters,  \* the run's committed ERROR and partition counters
    paused, stopping, killed, reason,   \* ControlInner
    call,         \* each actor's frame inside stop() or kill()
    opPc,         \* the operator inside pause(): between its check and its write
    signals, opCalls,                   \* bounded environment counters
    watchdog,     \* "waiting" for a stop, or "fired" once the grace period is over
    run,          \* "running" or "finished"
    report,       \* the RunReport, once the run finished
    late          \* history: claims of each worker after the run should stop

controlVars == <<paused, stopping, killed, reason>>
envVars == <<opPc, signals, opCalls, watchdog>>
runVars == <<run, report>>
workVars == <<wpc, held, result, next, started, outcomes, runCounters>>
vars == <<workVars, controlVars, call, envVars, runVars, late>>

-----------------------------------------------------------------------------
(* RunControl: call frames of stop() and kill().                            *)

IdleFrame == [step |-> "idle", reason |-> NoReason, kill |-> FALSE]
StopFrame(r) == [step |-> "reason", reason |-> r, kill |-> FALSE]
KillFrame == [step |-> "reason", reason |-> "Signal", kill |-> TRUE]
AtStep(frame, step) == [step |-> step, reason |-> frame.reason, kill |-> frame.kill]
Idle(a) == call[a] = IdleFrame

NoResult == [status |-> NoOutcome, errors |-> 0]

Init ==
    /\ wpc = [w \in Workers |-> "wait"]
    /\ held = [w \in Workers |-> NoRange]
    /\ result = [w \in Workers |-> NoResult]
    /\ next = 0
    /\ started = {}
    /\ outcomes = [r \in Ranges |-> NoOutcome]
    /\ runCounters = [error |-> 0, passed |-> 0, failed |-> 0]
    /\ paused = FALSE /\ stopping = FALSE /\ killed = FALSE
    /\ reason = NoReason
    /\ call = [a \in Actors |-> IdleFrame]
    /\ opPc = "idle"
    /\ signals = 0 /\ opCalls = 0
    /\ watchdog = "waiting"
    /\ run = "running"
    /\ report = [reason |-> NoReason, status |-> "STARTED", unclaimed |-> {}]
    /\ late = [w \in Workers |-> 0]

\* stop(): the first reason recorded wins.
LastReasonWins(r) == r
FirstReasonWins(r) == IF reason = NoReason THEN r ELSE reason

RecordReason(a) ==
    /\ call[a].step = "reason"
    /\ reason' = FirstReasonWins(call[a].reason)
    /\ call' = [call EXCEPT ![a] = AtStep(call[a], "unpause")]
    /\ UNCHANGED <<paused, stopping, killed>>

ClearPause(a) ==
    /\ call[a].step = "unpause"
    /\ paused' = FALSE
    /\ call' = [call EXCEPT ![a] = AtStep(call[a], "cancel")]
    /\ UNCHANGED <<stopping, killed, reason>>

CancelStopping(a) ==
    /\ call[a].step = "cancel"
    /\ stopping' = TRUE
    /\ call' = [call EXCEPT ![a] = IF call[a].kill THEN AtStep(call[a], "kill")
                                                   ELSE IdleFrame]
    /\ UNCHANGED <<paused, killed, reason>>

\* The step that turns a stop into a kill().
CancelKilled(a) ==
    /\ call[a].step = "kill"
    /\ killed' = TRUE
    /\ call' = [call EXCEPT ![a] = IdleFrame]
    /\ UNCHANGED <<paused, stopping, reason>>

ControlStep(a) ==
    /\ \/ RecordReason(a) \/ ClearPause(a) \/ CancelStopping(a) \/ CancelKilled(a)
    /\ UNCHANGED <<workVars, envVars, runVars, late>>

-----------------------------------------------------------------------------
(* The worker loop.                                                         *)

AtPc(w, pc) == wpc[w] = pc /\ Idle(w)

\* wait_while_paused(): a stop ends the wait as a resume does.
MayProceedOnlyResumed == ~paused
MayProceed == ~paused \/ stopping

WaitWhilePaused(w) ==
    /\ AtPc(w, "wait")
    /\ MayProceed
    /\ wpc' = [wpc EXCEPT ![w] = "check"]
    /\ UNCHANGED <<held, result, next, started, outcomes, runCounters,
                   controlVars, call, envVars, runVars, late>>

\* is_stopping(): a stopping run claims nothing more.
AfterCheckKilledOnly == IF killed THEN "done" ELSE "claim"
AfterCheck == IF stopping THEN "done" ELSE "claim"

CheckStopping(w) ==
    /\ AtPc(w, "check")
    /\ wpc' = [wpc EXCEPT ![w] = AfterCheck]
    /\ UNCHANGED <<held, result, next, started, outcomes, runCounters,
                   controlVars, call, envVars, runVars, late>>

OverLimit == ErrorLimit > 0 /\ runCounters.error > ErrorLimit

\* WorkQueue::claim(): fetch_add on the cursor; past the end it yields None.
HasNext == next < NumRanges
AdvanceLossy == next' \in {next, next + 1}
Advance == next' = next + 1

Claim(w) ==
    /\ AtPc(w, "claim")
    /\ Advance
    /\ IF HasNext
         THEN /\ wpc' = [wpc EXCEPT ![w] = "start"]
              /\ held' = [held EXCEPT ![w] = next + 1]
              /\ late' = [late EXCEPT ![w] = @ + IF stopping \/ OverLimit THEN 1 ELSE 0]
         ELSE /\ wpc' = [wpc EXCEPT ![w] = "done"]
              /\ UNCHANGED <<held, late>>
    /\ UNCHANGED <<result, started, outcomes, runCounters,
                   controlVars, call, envVars, runVars>>

\* process_range() tells the observer STARTED before any work begins.
StartRange(w) ==
    /\ AtPc(w, "start")
    /\ started' = started \cup {held[w]}
    /\ wpc' = [wpc EXCEPT ![w] = "process"]
    /\ UNCHANGED <<held, result, next, outcomes, runCounters,
                   controlVars, call, envVars, runVars, late>>

\* The job ended, or was dropped, with this status and this many ERRORs.
Computed(w, status, errors) ==
    /\ result' = [result EXCEPT ![w] = [status |-> status, errors |-> errors]]
    /\ wpc' = [wpc EXCEPT ![w] = "merge"]
    /\ UNCHANGED <<held, next, started, outcomes, runCounters, controlVars, envVars, runVars, late>>

Succeed(w) ==
    /\ AtPc(w, "process")
    /\ \E v \in Verdicts, e \in RangeErrors : Computed(w, v, e)
    /\ UNCHANGED call

\* An error of a non-fatal kind, or a panic caught at the range boundary.
FailRange(w) ==
    /\ AtPc(w, "process")
    /\ \E e \in RangeErrors : Computed(w, "FAIL", e)
    /\ UNCHANGED call

\* An error whose kind is fatal stops the run before the range is accounted for.
FailFatally(w) ==
    /\ AtPc(w, "process")
    /\ \E e \in RangeErrors : Computed(w, "FAIL", e)
    /\ call' = [call EXCEPT ![w] = StopFrame("Fatal")]

\* A cooperating job sees the cancelled token at a page boundary and returns Err(Cancelled):
\* the biased select! takes the job's result, so this is an ordinary failed range.
GiveUp(w) ==
    /\ AtPc(w, "process")
    /\ killed
    /\ \E e \in RangeErrors : Computed(w, "FAIL", e)
    /\ UNCHANGED call

\* The select! takes its killed() arm: the job is dropped and the range left STARTED.
Abandon(w) ==
    /\ AtPc(w, "process")
    /\ killed
    /\ \E e \in RangeErrors : Computed(w, "STARTED", e)
    /\ UNCHANGED call

\* PARTITIONS_FAILED counts failed ranges; an abandoned one is neither passed nor failed.
FailedPartsAndLost(status) == IF status \in {"FAIL", "STARTED"} THEN 1 ELSE 0
FailedParts(status) == IF status = "FAIL" THEN 1 ELSE 0

\* run_counters.add(): the range's committed counters join the run's totals.
MergeCounters(w) ==
    /\ AtPc(w, "merge")
    /\ runCounters' =
         [error  |-> runCounters.error + result[w].errors,
          passed |-> runCounters.passed + IF result[w].status \in Verdicts THEN 1 ELSE 0,
          failed |-> runCounters.failed + FailedParts(result[w].status)]
    /\ wpc' = [wpc EXCEPT ![w] = "publish"]
    /\ UNCHANGED <<held, result, next, started, outcomes,
                   controlVars, call, envVars, runVars, late>>

\* on_range_finished(), then the outcome is pushed.
PublishOutcome(w) ==
    /\ AtPc(w, "publish")
    /\ outcomes' = [outcomes EXCEPT ![held[w]] = result[w].status]
    /\ held' = [held EXCEPT ![w] = NoRange]
    /\ result' = [result EXCEPT ![w] = NoResult]
    /\ wpc' = [wpc EXCEPT ![w] = "enforce"]
    /\ UNCHANGED <<next, started, runCounters, controlVars, call, envVars, runVars, late>>

\* enforce_error_limit(), after every range.
MustStopAfterFailure == OverLimit /\ ~stopping /\ runCounters.failed > 0
MustStop == OverLimit /\ ~stopping

EnforceErrorLimit(w) ==
    /\ AtPc(w, "enforce")
    /\ wpc' = [wpc EXCEPT ![w] = "wait"]
    /\ IF MustStop
         THEN call' = [call EXCEPT ![w] = StopFrame("ErrorLimit")]
         ELSE UNCHANGED call
    /\ UNCHANGED <<held, result, next, started, outcomes, runCounters,
                   controlVars, envVars, runVars, late>>

-----------------------------------------------------------------------------
(* Signals, the operator, the watchdog and the end of the run.              *)

\* signalled(): the check and the call it decides on are separate steps.
Signalled(a) ==
    /\ run = "running" /\ Idle(a) /\ ~(a = "listener" /\ killed)
    /\ a = "operator" => opPc = "idle"
    /\ signals < MaxSignals
    /\ signals' = signals + 1
    /\ call' = [call EXCEPT ![a] = IF stopping THEN KillFrame ELSE StopFrame("Signal")]
    /\ UNCHANGED <<workVars, controlVars, opPc, opCalls, watchdog, runVars, late>>

OperatorReady == run = "running" /\ Idle("operator") /\ opPc = "idle"

\* pause() looks at the stopping token first ...
BeginPause ==
    /\ OperatorReady /\ opCalls < MaxOperatorCalls
    /\ ~stopping
    /\ opPc' = "pausing"
    /\ opCalls' = opCalls + 1
    /\ UNCHANGED <<workVars, controlVars, call, signals, watchdog, runVars, late>>

\* ... and sets the flag afterwards, whatever happened in between.
SetPaused ==
    /\ opPc = "pausing"
    /\ paused' = TRUE
    /\ opPc' = "idle"
    /\ UNCHANGED <<workVars, stopping, killed, reason, call, signals, opCalls, watchdog,
                   runVars, late>>

Resume ==
    /\ OperatorReady /\ paused
    /\ paused' = FALSE
    /\ UNCHANGED <<workVars, stopping, killed, reason, call, envVars, runVars, late>>

OperatorStop ==
    /\ OperatorReady /\ opCalls < MaxOperatorCalls
    /\ opCalls' = opCalls + 1
    /\ call' = [call EXCEPT !["operator"] = StopFrame("Operator")]
    /\ UNCHANGED <<workVars, controlVars, opPc, signals, watchdog, runVars, late>>

\* grace_watchdog(): shutdown_grace after the stop, kill unless killed already.
GraceExpires ==
    /\ run = "running" /\ stopping /\ watchdog = "waiting"
    /\ watchdog' = "fired"
    /\ call' = [call EXCEPT !["watchdog"] = IF killed THEN IdleFrame ELSE KillFrame]
    /\ UNCHANGED <<workVars, controlVars, opPc, signals, opCalls, runVars, late>>

\* StopReason::run_status(), and Ended when nothing stopped the run.
RunStatusOf(r) ==
    CASE r = NoReason -> "ENDED"
      [] r = "Signal" -> "INTERRUPTED"
      [] OTHER -> "ABORTED"

\* WorkQueue::unclaimed().
UnclaimedOffByOne == {r \in Ranges : r >= next}
Unclaimed == {r \in Ranges : r > next}

\* The worker tasks are all joined before the report is built.
SomeJoined == \E w \in Workers : AtPc(w, "done")
AllJoined == \A w \in Workers : AtPc(w, "done")

\* run(): every worker joined, listener and watchdog aborted, the report built.
Finish ==
    /\ run = "running"
    /\ AllJoined
    /\ run' = "finished"
    /\ report' = [reason |-> reason, status |-> RunStatusOf(reason), unclaimed |-> Unclaimed]
    /\ UNCHANGED <<workVars, controlVars, call, envVars, late>>

\* Nothing is left to do; a call another thread had begun has returned.
Terminated ==
    /\ run = "finished" /\ opPc = "idle" /\ \A a \in Actors : Idle(a)
    /\ UNCHANGED vars

JobStep(w) == Succeed(w) \/ FailRange(w) \/ FailFatally(w) \/ GiveUp(w)

WorkerStep(w) ==
    \/ WaitWhilePaused(w) \/ CheckStopping(w) \/ Claim(w) \/ StartRange(w)
    \/ Abandon(w) \/ MergeCounters(w) \/ PublishOutcome(w) \/ EnforceErrorLimit(w)

OperatorStep == BeginPause \/ SetPaused \/ Resume \/ OperatorStop

Next ==
    \/ \E w \in Workers : WorkerStep(w) \/ JobStep(w)
    \/ \E a \in Actors : ControlStep(a)
    \/ \E a \in {"listener", "operator"} : Signalled(a)
    \/ OperatorStep
    \/ GraceExpires
    \/ Finish
    \/ Terminated

Spec == Init /\ [][Next]_vars

(***************************************************************************)
(* The runtime schedules every task that can run, the sleep of the watchdog *)
(* ends, and a synchronous call returns.  A job is NOT assumed to end: a    *)
(* range may hang on its database for ever.  Nor does the operator ever     *)
(* have to resume a paused run.                                             *)
(***************************************************************************)
Fairness ==
    /\ \A w \in Workers : WF_vars(WorkerStep(w))
    /\ \A a \in Actors : WF_vars(ControlStep(a))
    /\ WF_vars(GraceExpires)
    /\ WF_vars(Finish)

FairSpec == Spec /\ Fairness

-----------------------------------------------------------------------------
(* Properties.                                                              *)

WorkerPc == {"wait", "check", "claim", "start", "process", "merge", "publish", "enforce", "done"}
Frames == [step : {"idle", "reason", "unpause", "cancel", "kill"},
           reason : StopReason \cup {NoReason}, kill : BOOLEAN]

\* Type invariant of the scheduler's state (mod.rs WorkerShared, control.rs ControlInner).
TypeOK ==
    /\ wpc \in [Workers -> WorkerPc]
    /\ held \in [Workers -> Ranges \cup {NoRange}]
    /\ result \in [Workers -> [status : RangeStatus \cup {NoOutcome}, errors : Nat]]
    /\ next \in Nat
    /\ started \subseteq Ranges
    /\ outcomes \in [Ranges -> RangeStatus \cup {NoOutcome}]
    /\ runCounters \in [error : Nat, passed : Nat, failed : Nat]
    /\ paused \in BOOLEAN /\ stopping \in BOOLEAN /\ killed \in BOOLEAN
    /\ reason \in StopReason \cup {NoReason}
    /\ call \in [Actors -> Frames]
    /\ opPc \in {"idle", "pausing"}
    /\ signals \in Nat /\ opCalls \in Nat
    /\ watchdog \in {"waiting", "fired"}
    /\ run \in {"running", "finished"}
    /\ report \in [reason : StopReason \cup {NoReason},
                   status : {"STARTED", "ENDED", "INTERRUPTED", "ABORTED"},
                   unclaimed : SUBSET Ranges]
    /\ late \in [Workers -> Nat]

\* Every range is handed to exactly one caller (WorkQueue::claim): no two workers hold the same
\* range, and no worker holds a range that already has an outcome.
ExclusiveClaims ==
    \A w \in Workers : held[w] # NoRange =>
        /\ outcomes[held[w]] = NoOutcome
        /\ \A v \in Workers \ {w} : held[v] # held[w]

\* When the run is over the report is a partition of the plan: the ranges with an outcome are
\* exactly those recorded STARTED, and all the others are reported unclaimed (RunReport).
ReportPartitionsPlan ==
    run = "finished" =>
        /\ {r \in Ranges : outcomes[r] # NoOutcome} = started
        /\ report.unclaimed = Ranges \ started

\* The run's committed partition counters never miss or repeat a range, whatever the
\* interleaving of merging and publishing: together with what is merged but not yet published
\* they are the outcomes (process_range, JobCounters::add).
Published(S) == {r \in Ranges : outcomes[r] \in S}
Merged(S) == {w \in Workers : wpc[w] = "publish" /\ result[w].status \in S}
CountersMatchOutcomes ==
    /\ runCounters.passed = Cardinality(Published(Verdicts)) + Cardinality(Merged(Verdicts))
    /\ runCounters.failed = Cardinality(Published({"FAIL"})) + Cardinality(Merged({"FAIL"}))

\* A run whose committed ERROR total passed perfops.error_limit is never reported as one that
\* simply ended, even when the rows were lost without any range failing (enforce_error_limit).
ErrorLimitEnforced ==
    run = "finished" /\ OverLimit => report.status # "ENDED"

\* Workers stop claiming: once the run is stopping, or its ERROR total is over the limit, each
\* worker claims at most the one range it had already decided to claim (worker loop).
LateClaimsBounded == \A w \in Workers : late[w] <= 1

\* A stopping run always knows why it stops, a killed one is stopping: no observer can see the
\* token cancelled and find no reason (RunControl::stop records the reason first).
StoppingHasReason ==
    /\ stopping => reason # NoReason
    /\ killed => stopping

\* The reason a run reports is a cause that occurred: the watchdog, whose kill() also passes
\* StopReason::Signal, never turns an operator's stop, a fatal error or the error limit into an
\* INTERRUPTED run (RunControl::stop, RunControl::kill, grace_watchdog).
ReasonOccurred ==
    /\ reason = "Signal" => signals > 0
    /\ reason = "Operator" => opCalls > 0
    /\ reason = "ErrorLimit" => OverLimit
    /\ run = "finished" /\ reason = "Fatal" => Published({"FAIL"}) # {}

\* What an observer is told of a stop is complete and true: there is a reason whenever the run is
\* stopping, and it is one that occurred, however many stop() and kill() calls interleave.
StopIsExplained == StoppingHasReason /\ ReasonOccurred

\* The abstract plan execution this scheduler implements: a range is active from its claim until
\* its outcome is published.
Plan == INSTANCE PlanExecution WITH
    Plan <- Ranges,
    Settled <- RangeStatus,
    Lost <- "STARTED",
    todo <- Unclaimed,
    active <- {held[w] : w \in Workers} \ {NoRange},
    done <- [r \in Ranges |-> IF outcomes[r] = NoOutcome THEN "Unsettled" ELSE outcomes[r]],
    status <- report.status

\* Scheduler::run implements PlanExecution: in particular a run is only ENDED when every range
\* of its plan was processed, and nothing is in flight when the report is built.
ImplementsPlan == Plan!PlanSpec

\* Shutdown has a deadline that no job can extend: a stopping run finishes, even when every job
\* hangs and even when a pause raced the stop (grace_watchdog, wait_while_paused).
StopTerminates == stopping ~> (run = "finished")
=============================================================================
