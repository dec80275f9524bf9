--------------------------- MODULE SchedulerProofs ---------------------------
(***************************************************************************)
(* Proofs about the range scheduler, for every number of workers, every     *)
(* plan and every error limit.                                              *)
(*                                                                          *)
(* The inductive invariant comes in layers, each proved on top of the ones  *)
(* before it: types and what a worker holds (TypeInv), the cursor and the   *)
(* outcomes (WorkInv), the control calls and the reason (ControlInv), the   *)
(* error limit and late claims (LimitInv) and the report (ReportInv).  The  *)
(* partition counters and the refinement of PlanExecution rest on them.     *)
(***************************************************************************)
EXTENDS Scheduler, FiniteSetTheorems, TLAPS

-----------------------------------------------------------------------------
(* The inductive invariant, in named parts.                                 *)

Busy == {"start", "process", "merge", "publish"}
Computing == {"merge", "publish"}

\* A worker holds a range exactly while it works on it, and an outcome exactly until it is
\* published.
Holding ==
    \A w \in Workers :
        /\ wpc[w] \in Busy <=> held[w] # NoRange
        /\ wpc[w] \in Computing <=> result[w].status # NoOutcome

TypeInv == TypeOK /\ Holding

\* The cursor separates the ranges that were handed out from those that were not.
CursorCovers ==
    \A r \in Ranges :
        r <= next <=> outcomes[r] # NoOutcome \/ \E w \in Workers : held[w] = r

\* A range is recorded STARTED before it is processed, and only then.
StartedCovers ==
    \A r \in Ranges :
        r \in started <=> \/ outcomes[r] # NoOutcome
                          \/ \E w \in Workers : held[w] = r /\ wpc[w] # "start"

WorkInv == CursorCovers /\ StartedCovers /\ ExclusiveClaims

\* A frame past its first step has recorded a reason, one past its third has stopped the run.
FramesOrdered ==
    \A a \in Actors :
        /\ call[a].step = "reason" => call[a].reason # NoReason
        /\ call[a].step \in {"unpause", "cancel", "kill"} => reason # NoReason
        /\ call[a].step = "kill" => stopping

\* Some range failed, or is about to be recorded as failed.
SomeFailure ==
    \/ \E r \in Ranges : outcomes[r] = "FAIL"
    \/ \E w \in Workers : wpc[w] \in Computing /\ result[w].status = "FAIL"

\* The event a reason stands for happened.
Caused(r) ==
    /\ r = "Signal" => signals > 0
    /\ r = "Operator" => opCalls > 0
    /\ r = "ErrorLimit" => OverLimit
    /\ r = "Fatal" => SomeFailure

\* The recorded reason is caused, and so is the one of a call that could still record its own.
ReasonsCaused ==
    /\ Caused(reason)
    /\ \A a \in Actors : call[a].step = "reason" => reason # NoReason \/ Caused(call[a].reason)

ControlInv == FramesOrdered /\ StoppingHasReason /\ ReasonsCaused

\* A run over its limit is stopping, or some worker has yet to notice it.
LimitNoticed ==
    OverLimit =>
        \/ stopping
        \/ \E w \in Workers : wpc[w] \in {"publish", "enforce"} \/ ~Idle(w)

\* A worker that made a late claim will stop before it claims again.
LateStops ==
    \A w \in Workers :
        late[w] > 0 =>
            /\ late[w] = 1
            /\ wpc[w] # "claim"
            /\ \/ stopping
               \/ OverLimit /\ (wpc[w] \in Busy \cup {"enforce"} \/ ~Idle(w))

LimitInv == LimitNoticed /\ LateStops

\* Only a killed run abandons a range.
AbandonedIsKilled ==
    /\ \A w \in Workers : result[w].status = "STARTED" => killed
    /\ \A r \in Ranges : outcomes[r] = "STARTED" => killed

\* The report is built once, from the state the joined workers left.
ReportFinal ==
    /\ run = "running" => report.status = "STARTED"
    /\ run = "finished" =>
         /\ \A w \in Workers : AtPc(w, "done")
         /\ report.unclaimed = Unclaimed
         /\ report.status \in {"ENDED", "INTERRUPTED", "ABORTED"}
         /\ report.status = "ENDED" => ~OverLimit

\* A worker leaves its loop because the run stops or the queue is drained.
DoneIsJustified ==
    \A w \in Workers : wpc[w] = "done" => stopping \/ next >= NumRanges

ReportInv == AbandonedIsKilled /\ DoneIsJustified /\ ReportFinal

-----------------------------------------------------------------------------
(* Types.                                                                   *)

\* A new run is well typed and no worker holds a range (Scheduler::run).
LEMMA TypeInvInit == Init => TypeInv
<1> USE WorkersAssumption, NumRangesAssumption, ErrorAssumption, VerdictsAssumption
<1> SUFFICES ASSUME Init PROVE TypeInv
  OBVIOUS
<1>1. call \in [Actors -> Frames]
  BY DEF Init, IdleFrame, Frames
<1>2. TypeOK
  BY <1>1 DEF Init, TypeOK, NoResult, WorkerPc
<1>3. Holding
  BY DEF Init, Holding, NoResult, Busy, Computing
<1> QED
  BY <1>2, <1>3 DEF TypeInv

\* Every action keeps the types, and a worker holds a range exactly between claim and publication.
LEMMA TypeInvStep == TypeInv /\ [Next]_vars => TypeInv'
<1> USE WorkersAssumption, NumRangesAssumption, ErrorAssumption, VerdictsAssumption
<1> SUFFICES ASSUME TypeInv, [Next]_vars PROVE TypeInv'
  OBVIOUS
<1> USE DEF TypeInv, TypeOK, Holding, WorkerPc, Busy, Computing,
            controlVars, envVars, runVars, workVars
<1>1. ASSUME NEW w \in Workers, WaitWhilePaused(w) PROVE TypeInv'
  BY <1>1 DEF WaitWhilePaused, AtPc
<1>2. ASSUME NEW w \in Workers, CheckStopping(w) PROVE TypeInv'
  BY <1>2 DEF CheckStopping, AfterCheck, AtPc
<1>3. ASSUME NEW w \in Workers, Claim(w) PROVE TypeInv'
  <2>1. next + 1 \in Ranges \/ ~HasNext
    BY DEF HasNext, Ranges
  <2>2. late' \in [Workers -> Nat]
    <3>1. CASE stopping \/ OverLimit
      BY <1>3, <3>1 DEF Claim
    <3>2. CASE ~(stopping \/ OverLimit)
      BY <1>3, <3>2 DEF Claim
    <3> QED
      BY <3>1, <3>2
  <2>3. TypeOK'
    <3>1. CASE HasNext
      BY <1>3, <2>1, <2>2, <3>1, SMTT(30) DEF Claim, Advance
    <3>2. CASE ~HasNext
      BY <1>3, <2>2, <3>2 DEF Claim, Advance
    <3> QED
      BY <3>1, <3>2
  <2>4. Holding'
    BY <1>3 DEF Claim, Advance, AtPc, NoRange
  <2> QED
    BY <2>3, <2>4
<1>4. ASSUME NEW w \in Workers, StartRange(w) PROVE TypeInv'
  <2>1. held[w] \in Ranges
    BY <1>4 DEF StartRange, AtPc
  <2>2. wpc' \in [Workers -> WorkerPc] /\ started' \subseteq Ranges
    BY <1>4, <2>1 DEF StartRange
  <2>3. TypeOK'
    BY <1>4, <2>2 DEF StartRange
  <2>4. Holding'
    BY <1>4 DEF StartRange, AtPc
  <2> QED
    BY <2>3, <2>4
<1>5. ASSUME NEW w \in Workers, Succeed(w) PROVE TypeInv'
  BY <1>5 DEF Succeed, Computed, RangeStatus, NoOutcome, AtPc
<1>6. ASSUME NEW w \in Workers, FailRange(w) PROVE TypeInv'
  BY <1>6 DEF FailRange, Computed, RangeStatus, NoOutcome, AtPc
<1>7. ASSUME NEW w \in Workers, FailFatally(w) PROVE TypeInv'
  BY <1>7 DEF FailFatally, Computed, StopFrame, Frames, StopReason, Actors, RangeStatus, NoOutcome, AtPc
<1>8. ASSUME NEW w \in Workers, GiveUp(w) PROVE TypeInv'
  <2>1. held[w] \in Ranges
    BY <1>8 DEF GiveUp, AtPc
  <2>2. PICK e \in RangeErrors : Computed(w, "FAIL", e)
    BY <1>8 DEF GiveUp
  <2> QED
    BY <1>8, <2>1, <2>2 DEF GiveUp, Computed, RangeStatus, NoOutcome, AtPc
<1>9. ASSUME NEW w \in Workers, Abandon(w) PROVE TypeInv'
  BY <1>9 DEF Abandon, Computed, RangeStatus, NoOutcome, AtPc
<1>10. ASSUME NEW w \in Workers, MergeCounters(w) PROVE TypeInv'
  BY <1>10 DEF MergeCounters, FailedParts, AtPc
<1>11. ASSUME NEW w \in Workers, PublishOutcome(w) PROVE TypeInv'
  BY <1>11 DEF PublishOutcome, NoRange, NoResult, NoOutcome, RangeStatus, AtPc
<1>12. ASSUME NEW w \in Workers, EnforceErrorLimit(w) PROVE TypeInv'
  <2>1. call' \in [Actors -> Frames]
    <3>0. StopFrame("ErrorLimit") \in Frames
      BY DEF StopFrame, Frames, StopReason
    <3>1. CASE MustStop
      BY <1>12, <3>0, <3>1 DEF EnforceErrorLimit
    <3>2. CASE ~MustStop
      BY <1>12, <3>2 DEF EnforceErrorLimit
    <3> QED
      BY <3>1, <3>2
  <2> QED
    BY <1>12, <2>1 DEF EnforceErrorLimit, AtPc
<1>13. ASSUME NEW a \in Actors, ControlStep(a) PROVE TypeInv'
  <2>1. ASSUME RecordReason(a) PROVE TypeInv'
    <3>1. reason' \in StopReason \cup {NoReason}
      BY <2>1 DEF RecordReason, FirstReasonWins, Frames
    <3>2. call' \in [Actors -> Frames]
      BY <2>1 DEF RecordReason, AtStep, Frames
    <3> QED
      BY <1>13, <2>1, <3>1, <3>2 DEF ControlStep, RecordReason
  <2>2. ASSUME ClearPause(a) PROVE TypeInv'
    BY <1>13, <2>2 DEF ControlStep, ClearPause, AtStep, Frames
  <2>3. ASSUME CancelStopping(a) PROVE TypeInv'
    <3>1. call' \in [Actors -> Frames]
      BY <2>3 DEF CancelStopping, AtStep, IdleFrame, Frames
    <3> QED
      BY <1>13, <2>3, <3>1 DEF ControlStep, CancelStopping
  <2>4. ASSUME CancelKilled(a) PROVE TypeInv'
    BY <1>13, <2>4 DEF ControlStep, CancelKilled, IdleFrame, Frames
  <2> QED
    BY <1>13, <2>1, <2>2, <2>3, <2>4 DEF ControlStep
<1>14. ASSUME BeginPause PROVE TypeInv'
  BY <1>14 DEF BeginPause, OperatorReady
<1>15. ASSUME SetPaused PROVE TypeInv'
  BY <1>15 DEF SetPaused
<1>16. ASSUME Resume PROVE TypeInv'
  BY <1>16 DEF Resume
<1>17. ASSUME OperatorStop PROVE TypeInv'
  BY <1>17 DEF OperatorStop, StopFrame, Frames, StopReason, Actors, Services
<1>18. ASSUME GraceExpires PROVE TypeInv'
  BY <1>18 DEF GraceExpires, KillFrame, IdleFrame, NoReason, Frames, StopReason, Actors, Services
<1>19. ASSUME Finish PROVE TypeInv'
  BY <1>19 DEF Finish, RunStatusOf, Unclaimed
<1>20. ASSUME Terminated PROVE TypeInv'
  BY <1>20 DEF Terminated, vars
<1>21. ASSUME NEW a \in {"listener", "operator"}, Signalled(a) PROVE TypeInv'
  BY <1>21 DEF Signalled, StopFrame, KillFrame, Frames, StopReason, Actors, Services
<1>22. CASE UNCHANGED vars
  BY <1>22 DEF vars
<1> QED
  BY <1>1, <1>2, <1>3, <1>4, <1>5, <1>6, <1>7, <1>8, <1>9, <1>10, <1>11, <1>12, <1>13, <1>14, <1>15, <1>16, <1>17, <1>18, <1>19, <1>20, <1>21, <1>22
  DEF Next, WorkerStep, JobStep, OperatorStep

\* Type correctness of the scheduler: every step of every worker, of the control calls and of the
\* environment keeps the state in its type; a worker that starts a range really holds one.
THEOREM TypeCorrect == Spec => []TypeOK
<1>1. TypeInv => TypeOK
  BY DEF TypeInv
<1> QED
  BY <1>1, TypeInvInit, TypeInvStep, PTL DEF Spec

-----------------------------------------------------------------------------
(* The cursor and the outcomes.                                             *)

\* Only a worker's own step changes the work: the control calls, the environment and the end of
\* the run leave it alone.
LEMMA OnlyWorkersWork ==
    ASSUME [Next]_vars
    PROVE  UNCHANGED workVars \/ \E w \in Workers : WorkerStep(w) \/ JobStep(w)
BY DEF Next, vars, ControlStep, Signalled, OperatorStep, BeginPause, SetPaused, Resume,
       OperatorStop, GraceExpires, Finish, Terminated

\* Nothing is claimed, started or settled when the queue is built (WorkQueue::new).
LEMMA WorkInvInit == Init => WorkInv
BY NumRangesAssumption
DEF Init, WorkInv, CursorCovers, StartedCovers, ExclusiveClaims, Ranges, NoRange, NoOutcome

\* The claim is what keeps the workers apart: the cursor is past every range that was handed out,
\* so the range after it is nobody's.
LEMMA ClaimKeepsWork ==
    ASSUME TypeInv, WorkInv, NEW w \in Workers, Claim(w)
    PROVE  WorkInv'
<1> USE NumRangesAssumption DEF TypeInv, WorkInv
<1>1. CASE ~HasNext
  <2>1. UNCHANGED <<held, started, outcomes>> /\ next' = next + 1 /\ next >= NumRanges
        /\ wpc' = [wpc EXCEPT ![w] = "done"]
    BY <1>1 DEF Claim, Advance, HasNext, TypeOK
  <2>2. held[w] = NoRange
    BY DEF Claim, AtPc, Holding, Busy
  <2>3. CursorCovers'
    BY <2>1 DEF CursorCovers, Ranges, TypeOK
  <2>4. StartedCovers'
    BY <2>1, <2>2 DEF StartedCovers, Ranges, NoRange, TypeOK
  <2>5. ExclusiveClaims'
    BY <2>1 DEF ExclusiveClaims
  <2> QED
    BY <2>3, <2>4, <2>5
<1>2. CASE HasNext
  <2>1. /\ held' = [held EXCEPT ![w] = next + 1] /\ next' = next + 1
        /\ wpc' = [wpc EXCEPT ![w] = "start"] /\ UNCHANGED <<started, outcomes>>
    BY <1>2 DEF Claim, Advance
  <2>2. held[w] = NoRange
    BY DEF Claim, AtPc, Holding, Busy
  <2>3. next + 1 \in Ranges /\ ~(next + 1 <= next)
    BY <1>2 DEF HasNext, Ranges, TypeOK
  <2>4. outcomes[next + 1] = NoOutcome /\ \A v \in Workers : held[v] # next + 1
    BY <2>3 DEF CursorCovers
  <2>5. CursorCovers'
    BY <2>1, <2>2, <2>3, <2>4 DEF CursorCovers, Ranges, NoRange, TypeOK
  <2>6. StartedCovers'
    BY <2>1, <2>2, <2>3, <2>4 DEF StartedCovers, Ranges, NoRange, TypeOK
  <2>7. ExclusiveClaims'
    BY <2>1, <2>2, <2>3, <2>4 DEF ExclusiveClaims, NoRange, TypeOK
  <2> QED
    BY <2>5, <2>6, <2>7
<1> QED
  BY <1>1, <1>2

\* Claiming, starting and publishing keep claims exclusive and below the cursor (WorkQueue::claim).
LEMMA WorkInvStep == TypeInv /\ WorkInv /\ [Next]_vars => WorkInv'
<1> SUFFICES ASSUME TypeInv, WorkInv, [Next]_vars PROVE WorkInv'
  OBVIOUS
<1> USE DEF TypeInv, WorkInv
<1>1. CASE UNCHANGED workVars
  BY <1>1 DEF workVars, CursorCovers, StartedCovers, ExclusiveClaims
<1>2. ASSUME NEW w \in Workers, Claim(w) PROVE WorkInv'
  BY <1>2, ClaimKeepsWork
<1>3. ASSUME NEW w \in Workers, StartRange(w) PROVE WorkInv'
  <2>1. /\ started' = started \cup {held[w]} /\ wpc' = [wpc EXCEPT ![w] = "process"]
        /\ wpc[w] = "start" /\ UNCHANGED <<held, next, outcomes>>
    BY <1>3 DEF StartRange, AtPc
  <2>2. StartedCovers'
    BY <2>1 DEF StartedCovers, ExclusiveClaims, TypeOK, Ranges, NoRange
  <2> QED
    BY <2>1, <2>2 DEF CursorCovers, ExclusiveClaims
<1>4. ASSUME NEW w \in Workers, PublishOutcome(w) PROVE WorkInv'
  <2>1. /\ outcomes' = [outcomes EXCEPT ![held[w]] = result[w].status]
        /\ held' = [held EXCEPT ![w] = NoRange] /\ wpc' = [wpc EXCEPT ![w] = "enforce"]
        /\ UNCHANGED <<next, started>>
    BY <1>4 DEF PublishOutcome
  <2>2. wpc[w] = "publish" /\ held[w] \in Ranges /\ result[w].status # NoOutcome
    BY <1>4 DEF PublishOutcome, AtPc, Holding, TypeOK, Busy, Computing
  <2>3. CursorCovers'
    BY <2>1, <2>2 DEF CursorCovers, TypeOK, Ranges, NoRange
  <2>4. StartedCovers'
    BY <2>1, <2>2 DEF StartedCovers, TypeOK, Ranges, NoRange
  <2>5. ExclusiveClaims'
    BY <2>1, <2>2 DEF ExclusiveClaims, TypeOK, Ranges, NoRange
  <2> QED
    BY <2>3, <2>4, <2>5
<1>5. ASSUME NEW w \in Workers,
             WaitWhilePaused(w) \/ CheckStopping(w) \/ Abandon(w) \/ JobStep(w)
               \/ MergeCounters(w) \/ EnforceErrorLimit(w)
      PROVE  WorkInv'
  <2>1. UNCHANGED <<held, next, started, outcomes>>
    BY <1>5 DEF WaitWhilePaused, CheckStopping, Abandon, JobStep, Succeed, FailRange, FailFatally,
                GiveUp, Computed, MergeCounters, EnforceErrorLimit
  <2>2. wpc[w] # "start" /\ \E pc \in WorkerPc \ {"start"} : wpc' = [wpc EXCEPT ![w] = pc]
    BY <1>5 DEF WaitWhilePaused, CheckStopping, AfterCheck, Abandon, JobStep, Succeed, FailRange,
                FailFatally, GiveUp, Computed, MergeCounters, EnforceErrorLimit, AtPc, WorkerPc
  <2>3. \A v \in Workers : wpc'[v] # "start" <=> wpc[v] # "start"
    BY <2>2 DEF TypeOK
  <2> QED
    BY <2>1, <2>3 DEF CursorCovers, StartedCovers, ExclusiveClaims
<1> QED
  BY <1>1, <1>2, <1>3, <1>4, <1>5, OnlyWorkersWork DEF WorkerStep

\* No two workers ever process the same range, and no range is processed again once it has an
\* outcome, whatever the interleaving of claims on the shared cursor.
THEOREM ClaimsAreExclusive == Spec => []ExclusiveClaims
<1>1. Init => TypeInv /\ WorkInv
  BY TypeInvInit, WorkInvInit
<1>2. (TypeInv /\ WorkInv) /\ [Next]_vars => (TypeInv /\ WorkInv)'
  BY TypeInvStep, WorkInvStep
<1>3. TypeInv /\ WorkInv => ExclusiveClaims
  BY DEF WorkInv
<1> QED
  BY <1>1, <1>2, <1>3, PTL DEF Spec

-----------------------------------------------------------------------------
(* The control calls and the reason the run reports.                        *)

\* A new RunControl has no call in progress and no reason (RunControl::new).
LEMMA ControlInvInit == Init => ControlInv
BY DEF Init, ControlInv, FramesOrdered, StoppingHasReason, ReasonsCaused, Caused, IdleFrame,
       NoReason

\* The ERROR total only grows, so a run over its limit stays over it.
LEMMA OverLimitStays ==
    ASSUME TypeInv, [Next]_vars, OverLimit
    PROVE  OverLimit'
<1> USE ErrorAssumption DEF TypeInv
<1>1. CASE UNCHANGED runCounters
  BY <1>1 DEF OverLimit
<1>2. ASSUME NEW w \in Workers, MergeCounters(w) PROVE OverLimit'
  <2>1. runCounters'.error = runCounters.error + result[w].errors
    BY <1>2 DEF MergeCounters
  <2>2. runCounters.error \in Nat /\ result[w].errors \in Nat
    BY DEF TypeOK
  <2> QED
    BY <2>1, <2>2 DEF OverLimit
<1>3. ASSUME NEW w \in Workers, WorkerStep(w) \/ JobStep(w), ~MergeCounters(w)
      PROVE  UNCHANGED runCounters
  BY <1>3 DEF WorkerStep, JobStep, WaitWhilePaused, CheckStopping, Claim, StartRange, Abandon,
              Succeed, FailRange, FailFatally, GiveUp, Computed, PublishOutcome,
              EnforceErrorLimit
<1> QED
  BY <1>1, <1>2, <1>3, OnlyWorkersWork DEF workVars

\* A failure is never forgotten: it moves from the worker's hands to the outcomes, and no other
\* outcome is written over it.
LEMMA SomeFailureStays ==
    ASSUME TypeInv, WorkInv, [Next]_vars, SomeFailure
    PROVE  SomeFailure'
<1> USE DEF TypeInv, WorkInv
<1>1. CASE UNCHANGED <<wpc, result, outcomes>>
  BY <1>1 DEF SomeFailure
<1>2. ASSUME NEW w \in Workers, PublishOutcome(w) PROVE SomeFailure'
  <2>1. /\ outcomes' = [outcomes EXCEPT ![held[w]] = result[w].status]
        /\ result' = [result EXCEPT ![w] = NoResult] /\ wpc' = [wpc EXCEPT ![w] = "enforce"]
    BY <1>2 DEF PublishOutcome
  <2>2. held[w] \in Ranges /\ outcomes[held[w]] = NoOutcome
    BY <1>2 DEF PublishOutcome, AtPc, Holding, TypeOK, Busy, ExclusiveClaims
  <2>3. CASE \E r \in Ranges : outcomes[r] = "FAIL"
    BY <2>1, <2>2, <2>3 DEF SomeFailure, TypeOK, NoOutcome
  <2>4. CASE \E v \in Workers : wpc[v] \in Computing /\ result[v].status = "FAIL"
    <3>1. PICK v \in Workers : wpc[v] \in Computing /\ result[v].status = "FAIL"
      BY <2>4
    <3>2. CASE v = w
      BY <2>1, <2>2, <3>1, <3>2 DEF SomeFailure, TypeOK
    <3>3. CASE v # w
      BY <2>1, <3>1, <3>3 DEF SomeFailure, TypeOK
    <3> QED
      BY <3>2, <3>3
  <2> QED
    BY <2>3, <2>4 DEF SomeFailure
<1>3. ASSUME NEW w \in Workers, WorkerStep(w) \/ JobStep(w), ~PublishOutcome(w)
      PROVE  SomeFailure'
  <2>1. UNCHANGED outcomes
    BY <1>3 DEF WorkerStep, JobStep, WaitWhilePaused, CheckStopping, Claim, StartRange, Abandon,
                Succeed, FailRange, FailFatally, GiveUp, Computed, MergeCounters,
                EnforceErrorLimit
  <2>2. CASE MergeCounters(w)
    BY <2>1, <2>2 DEF MergeCounters, SomeFailure, Computing, TypeOK
  <2>3. CASE ~MergeCounters(w)
    <3>1. wpc[w] \notin Computing
      BY <1>3, <2>3 DEF WorkerStep, JobStep, WaitWhilePaused, CheckStopping, Claim, StartRange,
              Abandon, Succeed, FailRange, FailFatally, GiveUp, EnforceErrorLimit, AtPc, Computing
    <3>2. \A v \in Workers \ {w} : wpc'[v] = wpc[v] /\ result'[v] = result[v]
      BY <1>3, <2>3 DEF WorkerStep, JobStep, WaitWhilePaused, CheckStopping, Claim, StartRange,
              Abandon, Succeed, FailRange, FailFatally, GiveUp, Computed, EnforceErrorLimit, TypeOK
    <3> QED
      BY <2>1, <3>1, <3>2 DEF SomeFailure
  <2> QED
    BY <2>2, <2>3
<1> QED
  BY <1>1, <1>2, <1>3, OnlyWorkersWork DEF workVars

\* Signals and operator calls that were delivered stay counted, so a cause stays a cause.
LEMMA EnvironmentGrows ==
    ASSUME TypeInv, [Next]_vars
    PROVE  (signals > 0 => signals' > 0) /\ (opCalls > 0 => opCalls' > 0)
<1>1. signals \in Nat /\ opCalls \in Nat
  BY DEF TypeInv, TypeOK
<1>2. signals' \in {signals, signals + 1} /\ opCalls' \in {opCalls, opCalls + 1}
  BY DEF Next, vars, WorkerStep, JobStep, WaitWhilePaused, CheckStopping, Claim, StartRange,
         Abandon, Succeed, FailRange, FailFatally, GiveUp, Computed, MergeCounters, PublishOutcome,
         EnforceErrorLimit, ControlStep, Signalled, OperatorStep, BeginPause, SetPaused, Resume,
         OperatorStop, GraceExpires, Finish, Terminated, envVars
<1> QED
  BY <1>1, <1>2

\* The steps that leave the control calls alone.
LEMMA QuietKeepsControl ==
    ASSUME TypeInv, WorkInv, ControlInv, [Next]_vars, UNCHANGED <<call, reason, stopping, killed>>
    PROVE  ControlInv'
<1>1. FramesOrdered' /\ StoppingHasReason'
  BY DEF ControlInv, FramesOrdered, StoppingHasReason
<1>2. ReasonsCaused'
  BY OverLimitStays, SomeFailureStays, EnvironmentGrows DEF ControlInv, ReasonsCaused, Caused
<1> QED
  BY <1>1, <1>2 DEF ControlInv

\* A call that begins with a cause of its own, or when a reason is already recorded.
LEMMA CallKeepsControl ==
    ASSUME TypeInv, WorkInv, ControlInv, [Next]_vars, UNCHANGED <<reason, stopping, killed>>,
           NEW a \in Actors, NEW f \in Frames, call' = [call EXCEPT ![a] = f],
           f.step \in {"idle", "reason"},
           f.step = "reason" => /\ f.reason # NoReason
                                /\ reason # NoReason \/ /\ f.reason = "Signal" => signals' > 0
                                                        /\ f.reason = "Operator" => opCalls' > 0
                                                        /\ f.reason = "ErrorLimit" => OverLimit'
                                                        /\ f.reason = "Fatal" => SomeFailure'
    PROVE  ControlInv'
<1>1. \A b \in Actors : call'[b] = IF b = a THEN f ELSE call[b]
  BY DEF TypeInv, TypeOK
<1>2. FramesOrdered' /\ StoppingHasReason'
  BY <1>1 DEF ControlInv, FramesOrdered, StoppingHasReason
<1>3. ReasonsCaused'
  BY <1>1, OverLimitStays, SomeFailureStays, EnvironmentGrows
  DEF ControlInv, ReasonsCaused, Caused
<1> QED
  BY <1>2, <1>3 DEF ControlInv

\* Each step inside stop() or kill() keeps the frames ordered and their reasons caused.
LEMMA ControlStepKeepsControl ==
    ASSUME TypeInv, WorkInv, ControlInv, [Next]_vars, NEW a \in Actors, ControlStep(a)
    PROVE  ControlInv'
<1> USE DEF ControlInv
<1>0. call \in [Actors -> Frames] /\ UNCHANGED <<signals, opCalls>>
  BY DEF TypeInv, TypeOK, ControlStep, envVars
<1>1. CASE RecordReason(a)
  <2>1. /\ call[a].step = "reason" /\ reason' = (IF reason = NoReason THEN call[a].reason ELSE reason)
        /\ call' = [call EXCEPT ![a] = AtStep(call[a], "unpause")]
        /\ UNCHANGED <<stopping, killed>>
    BY <1>1 DEF RecordReason, FirstReasonWins
  <2>2. \A b \in Actors : /\ b # a => call'[b] = call[b]
                          /\ call'[a].step = "unpause"
    BY <1>0, <2>1 DEF AtStep
  <2>3. reason' # NoReason /\ (reason # NoReason => reason' = reason)
    BY <2>1 DEF FramesOrdered
  <2>4. FramesOrdered' /\ StoppingHasReason'
    BY <2>1, <2>2, <2>3 DEF FramesOrdered, StoppingHasReason
  <2>5. ReasonsCaused'
    BY <2>1, <2>2, <2>3, OverLimitStays, SomeFailureStays, EnvironmentGrows
    DEF ReasonsCaused, Caused
  <2> QED
    BY <2>4, <2>5
<1>2. CASE ClearPause(a) \/ CancelStopping(a) \/ CancelKilled(a)
  <2>1. reason' = reason /\ reason # NoReason
    BY <1>2 DEF ClearPause, CancelStopping, CancelKilled, FramesOrdered
  <2>2. \A b \in Actors : b # a => call'[b] = call[b]
    BY <1>0, <1>2 DEF ClearPause, CancelStopping, CancelKilled
  <2>3. call'[a].step # "reason" /\ (call'[a].step = "kill" => stopping')
    BY <1>0, <1>2 DEF ClearPause, CancelStopping, CancelKilled, AtStep, IdleFrame
  <2>4. (stopping => stopping') /\ (killed' => stopping')
    BY <1>2 DEF ClearPause, CancelStopping, CancelKilled, FramesOrdered, StoppingHasReason
  <2>5. FramesOrdered' /\ StoppingHasReason'
    BY <2>1, <2>2, <2>3, <2>4 DEF FramesOrdered, StoppingHasReason
  <2>6. ReasonsCaused'
    BY <2>1, <2>2, <2>3, OverLimitStays, SomeFailureStays, EnvironmentGrows
    DEF ReasonsCaused, Caused
  <2> QED
    BY <2>5, <2>6
<1> QED
  BY <1>1, <1>2 DEF ControlStep

\* Every action keeps the control invariant: a call begins with a reason that has a cause.
LEMMA ControlInvStep == TypeInv /\ WorkInv /\ ControlInv /\ [Next]_vars => ControlInv'
<1> SUFFICES ASSUME TypeInv, WorkInv, ControlInv, [Next]_vars PROVE ControlInv'
  OBVIOUS
<1>0. /\ \A r \in StopReason : StopFrame(r) \in Frames /\ StopFrame(r).step = "reason"
                               /\ StopFrame(r).reason = r
      /\ KillFrame \in Frames /\ KillFrame.step = "reason" /\ KillFrame.reason = "Signal"
      /\ IdleFrame \in Frames /\ IdleFrame.step = "idle"
      /\ NoReason \notin StopReason
  BY DEF StopFrame, KillFrame, IdleFrame, Frames, StopReason, NoReason
<1>1. ASSUME NEW a \in Actors, ControlStep(a) PROVE ControlInv'
  BY <1>1, ControlStepKeepsControl
<1>2. ASSUME NEW w \in Workers, FailFatally(w) PROVE ControlInv'
  <2>1. PICK e \in RangeErrors : Computed(w, "FAIL", e)
    BY <1>2 DEF FailFatally
  <2>2. SomeFailure'
    BY <2>1 DEF Computed, SomeFailure, Computing, TypeInv, TypeOK
  <2>3. call' = [call EXCEPT ![w] = StopFrame("Fatal")] /\ UNCHANGED <<reason, stopping, killed>>
    BY <1>2, <2>1 DEF FailFatally, Computed, controlVars
  <2> QED
    BY <1>0, <2>2, <2>3, CallKeepsControl DEF Actors, StopReason
<1>3. ASSUME NEW w \in Workers, EnforceErrorLimit(w) PROVE ControlInv'
  <2>1. UNCHANGED <<reason, stopping, killed, runCounters>>
    BY <1>3 DEF EnforceErrorLimit, controlVars
  <2>2. CASE MustStop
    <3>1. call' = [call EXCEPT ![w] = StopFrame("ErrorLimit")]
      BY <1>3, <2>2 DEF EnforceErrorLimit
    <3>2. OverLimit'
      BY <2>1, <2>2 DEF MustStop, OverLimit
    <3> QED
      BY <1>0, <2>1, <3>1, <3>2, CallKeepsControl DEF Actors, StopReason
  <2>3. CASE ~MustStop
    <3>1. UNCHANGED call
      BY <1>3, <2>3 DEF EnforceErrorLimit
    <3> QED
      BY <2>1, <3>1, QuietKeepsControl
  <2> QED
    BY <2>2, <2>3
<1>4. ASSUME NEW a \in {"listener", "operator"}, Signalled(a) PROVE ControlInv'
  <2>1. PICK f \in {KillFrame, StopFrame("Signal")} : call' = [call EXCEPT ![a] = f]
    BY <1>4 DEF Signalled
  <2>2. signals' > 0 /\ UNCHANGED <<reason, stopping, killed>>
    BY <1>4 DEF Signalled, controlVars, TypeInv, TypeOK
  <2> QED
    BY <1>0, <2>1, <2>2, CallKeepsControl DEF Actors, Services, StopReason
<1>5. ASSUME OperatorStop PROVE ControlInv'
  <2>1. call' = [call EXCEPT !["operator"] = StopFrame("Operator")]
        /\ opCalls' > 0 /\ UNCHANGED <<reason, stopping, killed>>
    BY <1>5 DEF OperatorStop, controlVars, TypeInv, TypeOK
  <2> QED
    BY <1>0, <2>1, CallKeepsControl DEF Actors, Services, StopReason
<1>6. ASSUME GraceExpires PROVE ControlInv'
  <2>1. PICK f \in {KillFrame, IdleFrame} : call' = [call EXCEPT !["watchdog"] = f]
    BY <1>6 DEF GraceExpires
  <2>2. reason # NoReason /\ UNCHANGED <<reason, stopping, killed>>
    BY <1>6 DEF GraceExpires, controlVars, ControlInv, StoppingHasReason
  <2> QED
    BY <1>0, <2>1, <2>2, CallKeepsControl DEF Actors, Services, StopReason
<1>7. CASE UNCHANGED <<call, reason, stopping, killed>>
  BY <1>7, QuietKeepsControl
<1>8. ASSUME NEW w \in Workers, WorkerStep(w) \/ JobStep(w), ~FailFatally(w), ~EnforceErrorLimit(w)
      PROVE  UNCHANGED <<call, reason, stopping, killed>>
  BY <1>8 DEF WorkerStep, JobStep, WaitWhilePaused, CheckStopping, Claim, StartRange, Abandon,
              Succeed, FailRange, GiveUp, Computed, MergeCounters, PublishOutcome, controlVars
<1>9. ASSUME BeginPause \/ SetPaused \/ Resume \/ Finish \/ Terminated \/ UNCHANGED vars
      PROVE  UNCHANGED <<call, reason, stopping, killed>>
  BY <1>9 DEF BeginPause, SetPaused, Resume, Finish, Terminated, vars, controlVars
<1> QED
  BY <1>1, <1>2, <1>3, <1>4, <1>5, <1>6, <1>7, <1>8, <1>9 DEF Next, OperatorStep

-----------------------------------------------------------------------------
(* The error limit and the claims made after it was passed.                 *)

\* The stopping token is never reset (RunControl::stop).
LEMMA StoppingStays == ASSUME [Next]_vars, stopping PROVE stopping'
BY DEF Next, vars, WorkerStep, JobStep, WaitWhilePaused, CheckStopping, Claim, StartRange,
       Abandon, Succeed, FailRange, FailFatally, GiveUp, Computed, MergeCounters, PublishOutcome,
       EnforceErrorLimit, ControlStep, RecordReason, ClearPause, CancelStopping, CancelKilled,
       Signalled, OperatorStep, BeginPause, SetPaused, Resume, OperatorStop, GraceExpires, Finish,
       Terminated, controlVars

\* What a step of one worker leaves alone.
LEMMA WorkersAlone ==
    ASSUME TypeInv, NEW w \in Workers, WorkerStep(w) \/ JobStep(w)
    PROVE  /\ Idle(w)
           /\ UNCHANGED <<reason, stopping, killed>>
           /\ \A v \in Workers \ {w} : wpc'[v] = wpc[v] /\ call'[v] = call[v] /\ late'[v] = late[v]
           /\ ~MergeCounters(w) => UNCHANGED runCounters
           /\ ~Claim(w) => UNCHANGED late
<1>1. Workers \subseteq Actors
  BY DEF Actors
<1> QED
  BY <1>1
  DEF WorkerStep, JobStep, WaitWhilePaused, CheckStopping, Claim, StartRange, Abandon,
      Succeed, FailRange, FailFatally, GiveUp, Computed, MergeCounters, PublishOutcome,
      EnforceErrorLimit, AtPc, TypeInv, TypeOK, controlVars

\* What the environment leaves alone: the services' calls are not the workers'.
LEMMA EnvironmentAlone ==
    ASSUME TypeInv,
           \/ \E a \in {"listener", "operator"} : Signalled(a)
           \/ OperatorStep \/ GraceExpires \/ Finish \/ Terminated \/ UNCHANGED vars
    PROVE  /\ UNCHANGED <<wpc, runCounters, late, stopping>>
           /\ \A w \in Workers : call'[w] = call[w]
<1>1. UNCHANGED <<wpc, runCounters, late, stopping>>
  BY DEF Signalled, OperatorStep, BeginPause, SetPaused, Resume, OperatorStop, GraceExpires,
         Finish, Terminated, vars, workVars, controlVars
<1>2. \A w \in Workers : w \in Actors /\ w \notin {"listener", "operator", "watchdog"}
  BY WorkersAssumption DEF Actors, Services
<1>3. \A w \in Workers : call'[w] = call[w]
  BY <1>2 DEF Signalled, OperatorStep, BeginPause, SetPaused, Resume, OperatorStop, GraceExpires,
              Finish, Terminated, vars, TypeInv, TypeOK
<1> QED
  BY <1>1, <1>3

\* A new run has no errors and no late claims (Scheduler::run).
LEMMA LimitInvInit == Init => LimitInv
BY ErrorAssumption
DEF Init, LimitInv, LimitNoticed, LateStops, OverLimit

\* A control step of a worker ends with the run stopping, or leaves the worker in its call.
LEMMA ControlStepStops ==
    ASSUME TypeInv, ControlInv, NEW a \in Actors, ControlStep(a)
    PROVE  /\ stopping' \/ ~Idle(a)'
           /\ \A b \in Actors \ {a} : call'[b] = call[b]
           /\ UNCHANGED <<wpc, runCounters, late>>
<1>1. UNCHANGED <<wpc, runCounters, late>>
  BY DEF ControlStep, workVars
<1>2. \A b \in Actors \ {a} : call'[b] = call[b]
  BY DEF ControlStep, RecordReason, ClearPause, CancelStopping, CancelKilled, TypeInv, TypeOK
<1>3. CASE RecordReason(a) \/ ClearPause(a)
  <2>1. call'[a].step # "idle"
    BY <1>3 DEF RecordReason, ClearPause, AtStep, TypeInv, TypeOK
  <2>2. IdleFrame.step = "idle"
    BY DEF IdleFrame
  <2> QED
    BY <1>1, <1>2, <2>1, <2>2 DEF Idle
<1>4. CASE CancelStopping(a) \/ CancelKilled(a)
  BY <1>1, <1>2, <1>4 DEF CancelStopping, CancelKilled, ControlInv, FramesOrdered
<1> QED
  BY <1>3, <1>4 DEF ControlStep

\* After every range the worker that finds the run over its limit stops it or is told it stops.
LEMMA EnforceStops ==
    ASSUME TypeInv, NEW w \in Workers, EnforceErrorLimit(w), OverLimit
    PROVE  stopping' \/ ~Idle(w)'
<1>1. CASE MustStop
  <2>1. call'[w] = StopFrame("ErrorLimit")
    BY <1>1 DEF EnforceErrorLimit, TypeInv, TypeOK, Actors
  <2> QED
    BY <2>1 DEF Idle, StopFrame, IdleFrame
<1>2. CASE ~MustStop
  BY <1>2 DEF EnforceErrorLimit, MustStop, controlVars
<1> QED
  BY <1>1, <1>2

\* While the run is over its limit, somebody still has to notice or has begun to stop it
\* (enforce_error_limit).
LEMMA LimitNoticedStep ==
    ASSUME TypeInv, ControlInv, LimitInv, [Next]_vars
    PROVE  LimitNoticed'
<1> SUFFICES ASSUME OverLimit', ~stopping'
             PROVE  \E w \in Workers : wpc'[w] \in {"publish", "enforce"} \/ ~Idle(w)'
  BY DEF LimitNoticed
<1>0. ~stopping
  BY StoppingStays
<1>1. ASSUME NEW w \in Workers, MergeCounters(w) PROVE wpc'[w] = "publish"
  BY <1>1 DEF MergeCounters, TypeInv, TypeOK
<1>2. ASSUME UNCHANGED runCounters
      PROVE  \E w \in Workers : wpc[w] \in {"publish", "enforce"} \/ ~Idle(w)
  BY <1>0, <1>2 DEF LimitInv, LimitNoticed, OverLimit
<1>3. ASSUME NEW w \in Workers, WorkerStep(w) \/ JobStep(w), ~MergeCounters(w)
      PROVE  \E v \in Workers : wpc'[v] \in {"publish", "enforce"} \/ ~Idle(v)'
  <2>1. PICK v \in Workers : wpc[v] \in {"publish", "enforce"} \/ ~Idle(v)
    BY <1>2, <1>3, WorkersAlone
  <2>2. CASE v # w
    BY <1>3, <2>1, <2>2, WorkersAlone DEF Idle
  <2>3. CASE v = w
    <3>1. wpc[w] \in {"publish", "enforce"}
      BY <1>3, <2>1, <2>3, WorkersAlone
    <3>2. PublishOutcome(w) \/ EnforceErrorLimit(w)
      BY <1>3, <3>1 DEF WorkerStep, JobStep, WaitWhilePaused, CheckStopping, Claim, StartRange,
              Abandon, Succeed, FailRange, FailFatally, GiveUp, AtPc
    <3>3. CASE PublishOutcome(w)
      BY <3>3 DEF PublishOutcome, TypeInv, TypeOK
    <3>4. CASE EnforceErrorLimit(w)
      <4>1. OverLimit
        BY <1>3, WorkersAlone DEF OverLimit
      <4> QED
        BY <3>4, <4>1, EnforceStops
    <3> QED
      BY <3>2, <3>3, <3>4
  <2> QED
    BY <2>2, <2>3
<1>4. ASSUME NEW a \in Actors, ControlStep(a)
      PROVE  \E v \in Workers : wpc'[v] \in {"publish", "enforce"} \/ ~Idle(v)'
  <2>1. PICK v \in Workers : wpc[v] \in {"publish", "enforce"} \/ ~Idle(v)
    BY <1>2, <1>4, ControlStepStops
  <2> QED
    BY <1>4, <2>1, ControlStepStops DEF Idle, Actors
<1>5. ASSUME \/ \E a \in {"listener", "operator"} : Signalled(a)
             \/ OperatorStep \/ GraceExpires \/ Finish \/ Terminated \/ UNCHANGED vars
      PROVE  \E v \in Workers : wpc'[v] \in {"publish", "enforce"} \/ ~Idle(v)'
  BY <1>2, <1>5, EnvironmentAlone DEF Idle
<1> QED
  BY <1>1, <1>3, <1>4, <1>5 DEF Next

\* A worker that claimed late finds the run stopping before it could claim again (worker).
LEMMA LateStopsStep ==
    ASSUME TypeInv, ControlInv, LimitInv, [Next]_vars
    PROVE  LateStops'
<1> DEFINE Late(w) == /\ late[w] = 1
                      /\ wpc[w] # "claim"
                      /\ \/ stopping
                         \/ OverLimit /\ (wpc[w] \in Busy \cup {"enforce"} \/ ~Idle(w))
<1>0. \A w \in Workers : late[w] > 0 => Late(w)
  BY DEF LimitInv, LateStops
<1>1. ASSUME NEW w \in Workers, Claim(w) PROVE late'[w] > 0 => Late(w)'
  <2>1. late[w] = 0
    BY <1>0, <1>1 DEF Claim, AtPc, TypeInv, TypeOK
  <2>2. late'[w] > 0 => (stopping \/ OverLimit) /\ late'[w] = 1 /\ wpc'[w] = "start"
    <3>1. CASE stopping \/ OverLimit
      BY <1>1, <2>1, <3>1 DEF Claim, TypeInv, TypeOK
    <3>2. CASE ~(stopping \/ OverLimit)
      BY <1>1, <2>1, <3>2 DEF Claim, TypeInv, TypeOK
    <3> QED
      BY <3>1, <3>2
  <2> QED
    BY <2>2, OverLimitStays, StoppingStays DEF Busy
<1>2. ASSUME NEW w \in Workers, WorkerStep(w) \/ JobStep(w), ~Claim(w) PROVE late'[w] > 0 => Late(w)'
  <2> SUFFICES ASSUME late[w] > 0, Late(w) PROVE late'[w] = 1 => Late(w)'
    BY <1>0, <1>2, WorkersAlone
  <2>1. Idle(w)
    BY <1>2, WorkersAlone
  <2>2. CASE stopping
    <3>1. wpc'[w] # "claim"
      BY <1>2, <2>2 DEF WorkerStep, JobStep, WaitWhilePaused, CheckStopping, AfterCheck, StartRange,
              Abandon, Succeed, FailRange, FailFatally, GiveUp, Computed, MergeCounters,
              PublishOutcome, EnforceErrorLimit, TypeInv, TypeOK
    <3> QED
      BY <2>2, <3>1, StoppingStays
  <2>3. CASE ~stopping
    <3>1. OverLimit /\ OverLimit' /\ wpc[w] \in Busy \cup {"enforce"}
      BY <2>1, <2>3, OverLimitStays
    <3>2. CASE EnforceErrorLimit(w)
      <4>1. wpc'[w] = "wait"
        BY <3>2 DEF EnforceErrorLimit, TypeInv, TypeOK
      <4> QED
        BY <3>1, <3>2, <4>1, EnforceStops
    <3>3. CASE ~EnforceErrorLimit(w)
      <4>1. wpc'[w] \in Busy \cup {"enforce"}
        BY <1>2, <3>1, <3>3 DEF Busy, WorkerStep, JobStep, WaitWhilePaused, CheckStopping, StartRange,
                Abandon, Succeed, FailRange, FailFatally, GiveUp, Computed, MergeCounters,
                PublishOutcome, AtPc, TypeInv, TypeOK
      <4> QED
        BY <3>1, <4>1 DEF Busy
    <3> QED
      BY <3>2, <3>3
  <2> QED
    BY <2>2, <2>3
<1>3. ASSUME NEW w \in Workers, wpc'[w] = wpc[w], call'[w] = call[w], late'[w] = late[w]
      PROVE  late'[w] > 0 => Late(w)'
  BY <1>0, <1>3, OverLimitStays, StoppingStays DEF Idle
<1>4. ASSUME NEW v \in Workers, WorkerStep(v) \/ JobStep(v), NEW w \in Workers
      PROVE  late'[w] > 0 => Late(w)'
  BY <1>1, <1>2, <1>3, <1>4, WorkersAlone
<1>5. ASSUME NEW a \in Actors, ControlStep(a), NEW w \in Workers PROVE late'[w] > 0 => Late(w)'
  <2>1. w \in Actors
    BY DEF Actors
  <2>2. CASE w # a
    BY <1>3, <1>5, <2>1, <2>2, ControlStepStops
  <2>3. CASE w = a
    <3>1. (stopping' \/ ~Idle(w)') /\ UNCHANGED <<wpc, late>>
      BY <1>5, <2>3, ControlStepStops
    <3> QED
      BY <1>0, <3>1, OverLimitStays, StoppingStays
  <2> QED
    BY <2>2, <2>3
<1>6. ASSUME NEW w \in Workers,
             \/ \E a \in {"listener", "operator"} : Signalled(a)
             \/ OperatorStep \/ GraceExpires \/ Finish \/ Terminated \/ UNCHANGED vars
      PROVE  late'[w] > 0 => Late(w)'
  BY <1>3, <1>6, EnvironmentAlone
<1>7. \A w \in Workers : late'[w] > 0 => Late(w)'
  BY <1>4, <1>5, <1>6 DEF Next
<1> QED
  BY <1>7 DEF LateStops

\* Every action keeps both parts of the limit invariant (enforce_error_limit, worker).
LEMMA LimitInvStep == TypeInv /\ ControlInv /\ LimitInv /\ [Next]_vars => LimitInv'
BY LimitNoticedStep, LateStopsStep DEF LimitInv

-----------------------------------------------------------------------------
(* The report.                                                              *)

\* A new run has neither outcomes nor a report, and no worker is done (Scheduler::run).
LEMMA ReportInvInit == Init => ReportInv
BY DEF Init, ReportInv, AbandonedIsKilled, DoneIsJustified, ReportFinal, NoResult, NoOutcome

\* Only a killed run abandons a range (the killed() arm of process_range).
LEMMA AbandonedIsKilledStep ==
    ASSUME TypeInv, ReportInv, [Next]_vars
    PROVE  AbandonedIsKilled'
<1> USE DEF ReportInv, AbandonedIsKilled, TypeInv, TypeOK
<1>1. killed => killed'
  BY DEF Next, vars, WorkerStep, JobStep, WaitWhilePaused, CheckStopping, Claim, StartRange,
       Abandon, Succeed, FailRange, FailFatally, GiveUp, Computed, MergeCounters, PublishOutcome,
       EnforceErrorLimit, ControlStep, RecordReason, ClearPause, CancelStopping, CancelKilled,
       Signalled, OperatorStep, BeginPause, SetPaused, Resume, OperatorStop, GraceExpires, Finish,
       Terminated, controlVars
<1>2. CASE UNCHANGED <<result, outcomes>>
  BY <1>1, <1>2
<1>3. ASSUME NEW w \in Workers, Abandon(w) PROVE killed'
  BY <1>1, <1>3 DEF Abandon
<1>4. ASSUME NEW w \in Workers, JobStep(w) PROVE AbandonedIsKilled'
  <2>1. PICK st \in Verdicts \cup {"FAIL"}, e \in RangeErrors : Computed(w, st, e)
    BY <1>4 DEF JobStep, Succeed, FailRange, FailFatally, GiveUp
  <2>2. st # "STARTED"
    BY VerdictsAssumption
  <2> QED
    BY <1>1, <2>1, <2>2 DEF Computed
<1>5. ASSUME NEW w \in Workers, PublishOutcome(w) PROVE AbandonedIsKilled'
  BY <1>1, <1>5 DEF PublishOutcome, NoResult, NoOutcome
<1>6. ASSUME NEW w \in Workers, WorkerStep(w), ~Abandon(w), ~PublishOutcome(w)
      PROVE  UNCHANGED <<result, outcomes>>
  BY <1>6 DEF WorkerStep, WaitWhilePaused, CheckStopping, Claim, StartRange, MergeCounters,
              EnforceErrorLimit
<1> QED
  BY <1>2, <1>3, <1>4, <1>5, <1>6, OnlyWorkersWork DEF workVars

\* A worker leaves its loop only for a stop or an exhausted queue (worker).
LEMMA DoneIsJustifiedStep ==
    ASSUME TypeInv, ReportInv, [Next]_vars
    PROVE  DoneIsJustified'
<1> USE NumRangesAssumption DEF TypeInv, TypeOK, ReportInv, DoneIsJustified
<1>1. next' \in {next, next + 1}
  BY DEF Next, vars, WorkerStep, JobStep, WaitWhilePaused, CheckStopping, Claim, Advance, StartRange,
       Abandon, Succeed, FailRange, FailFatally, GiveUp, Computed, MergeCounters, PublishOutcome,
       EnforceErrorLimit, ControlStep, Signalled, OperatorStep, BeginPause, SetPaused, Resume,
       OperatorStop, GraceExpires, Finish, Terminated, workVars
<1>2. \A w \in Workers : wpc'[w] = wpc[w] => (wpc'[w] = "done" => stopping' \/ next' >= NumRanges)
  <2>1. next \in Nat /\ (next >= NumRanges => next' >= NumRanges)
    BY <1>1
  <2> QED
    BY <2>1, StoppingStays
<1>3. ASSUME NEW w \in Workers, WorkerStep(w) \/ JobStep(w), wpc'[w] = "done"
      PROVE  stopping' \/ next' >= NumRanges
  <2>1. CheckStopping(w) \/ Claim(w)
    BY <1>3 DEF WorkerStep, JobStep, WaitWhilePaused, StartRange, Abandon, Succeed, FailRange,
            FailFatally, GiveUp, Computed, MergeCounters, PublishOutcome, EnforceErrorLimit
  <2>2. CASE CheckStopping(w)
    BY <1>3, <2>2, StoppingStays DEF CheckStopping, AfterCheck
  <2>3. CASE Claim(w)
    <3>1. ~HasNext
      BY <1>3, <2>3 DEF Claim
    <3> QED
      BY <1>1, <3>1 DEF HasNext
  <2> QED
    BY <2>1, <2>2, <2>3
<1>4. CASE UNCHANGED workVars
  BY <1>2, <1>4 DEF workVars
<1> QED
  BY <1>2, <1>3, <1>4, OnlyWorkersWork, WorkersAlone

\* Once every worker is joined no worker and no call of a worker can take a step.
LEMMA JoinedStaysJoined ==
    ASSUME TypeInv, ControlInv, [Next]_vars, AllJoined
    PROVE  AllJoined' /\ UNCHANGED <<next, runCounters>>
<1>1. ASSUME NEW w \in Workers, WorkerStep(w) \/ JobStep(w) PROVE FALSE
  BY <1>1 DEF AllJoined, WorkerStep, JobStep, WaitWhilePaused, CheckStopping, Claim, StartRange,
              Abandon, Succeed, FailRange, FailFatally, GiveUp, MergeCounters, PublishOutcome,
              EnforceErrorLimit, AtPc
<1>2. UNCHANGED workVars
  BY <1>1, OnlyWorkersWork
<1>3. ASSUME NEW a \in Actors, ControlStep(a), NEW w \in Workers PROVE call'[w] = call[w]
  <2>1. call[w].step = "idle"
    BY DEF AllJoined, AtPc, Idle, IdleFrame
  <2>2. w # a /\ w \in Actors
    BY <1>3, <2>1 DEF ControlStep, RecordReason, ClearPause, CancelStopping, CancelKilled, Actors
  <2> QED
    BY <1>3, <2>2, ControlStepStops
<1>4. \A w \in Workers : call'[w] = call[w]
  BY <1>1, <1>3, EnvironmentAlone DEF Next
<1> QED
  BY <1>2, <1>4 DEF AllJoined, AtPc, Idle, workVars

\* Once every worker was joined nothing the report says can change (Scheduler::run).
LEMMA ReportFinalStep ==
    ASSUME TypeInv, ControlInv, LimitInv, ReportInv, [Next]_vars
    PROVE  ReportFinal'
<1> USE DEF ReportInv
<1>1. ASSUME Finish PROVE ReportFinal'
  <2>1. /\ AllJoined /\ run' = "finished" /\ report'.unclaimed = Unclaimed
        /\ report'.status = RunStatusOf(reason) /\ UNCHANGED <<workVars, call, stopping>>
    BY <1>1 DEF Finish, controlVars
  <2>2. RunStatusOf(reason) \in {"ENDED", "INTERRUPTED", "ABORTED"}
    BY DEF RunStatusOf
  <2>3. RunStatusOf(reason) = "ENDED" => reason = NoReason
    BY DEF RunStatusOf
  <2>4. OverLimit => reason # NoReason
    BY <2>1 DEF AllJoined, AtPc, LimitInv, LimitNoticed, ControlInv, StoppingHasReason
  <2>5. OverLimit' <=> OverLimit
    BY <2>1 DEF OverLimit, workVars
  <2>6. Unclaimed' = Unclaimed /\ AllJoined'
    BY <2>1 DEF Unclaimed, AllJoined, AtPc, Idle, workVars
  <2> QED
    BY <2>1, <2>2, <2>3, <2>4, <2>5, <2>6 DEF ReportFinal, AllJoined
<1>2. ASSUME ~Finish PROVE UNCHANGED <<run, report>>
  BY <1>2 DEF Next, vars, WorkerStep, JobStep, WaitWhilePaused, CheckStopping, Claim, StartRange,
       Abandon, Succeed, FailRange, FailFatally, GiveUp, Computed, MergeCounters, PublishOutcome,
       EnforceErrorLimit, ControlStep, Signalled, OperatorStep, BeginPause, SetPaused, Resume,
       OperatorStop, GraceExpires, Terminated, runVars
<1>3. CASE UNCHANGED <<run, report>> /\ run = "finished"
  <2>1. AllJoined
    BY <1>3 DEF ReportFinal, AllJoined
  <2>2. AllJoined' /\ UNCHANGED <<next, runCounters>>
    BY <2>1, JoinedStaysJoined
  <2> QED
    BY <1>3, <2>2 DEF ReportFinal, AllJoined, Unclaimed, OverLimit
<1>4. CASE UNCHANGED <<run, report>> /\ run # "finished"
  BY <1>4 DEF ReportFinal
<1> QED
  BY <1>1, <1>2, <1>3, <1>4

-----------------------------------------------------------------------------
(* The theorems.                                                            *)

IndInv == TypeInv /\ WorkInv /\ ControlInv /\ LimitInv /\ ReportInv

\* The five layers together are an inductive invariant of the scheduler.
THEOREM Invariance == Spec => []IndInv
<1>1. Init => IndInv
  BY TypeInvInit, WorkInvInit, ControlInvInit, LimitInvInit, ReportInvInit DEF IndInv
<1>2. IndInv /\ [Next]_vars => IndInv'
  BY TypeInvStep, WorkInvStep, ControlInvStep, LimitInvStep, AbandonedIsKilledStep,
     DoneIsJustifiedStep, ReportFinalStep
  DEF IndInv, ReportInv
<1> QED
  BY <1>1, <1>2, PTL DEF Spec

\* A stopping run always knows why it stops and a killed run is stopping, however the control
\* calls of the workers, the listener, the operator and the watchdog interleave.
THEOREM StopsAreRecorded == Spec => []StoppingHasReason
<1>1. IndInv => StoppingHasReason
  BY DEF IndInv, ControlInv
<1> QED
  BY <1>1, Invariance, PTL

\* The reason the run reports is an event that happened during it.
THEOREM ReasonsAreTrue == Spec => []ReasonOccurred
<1>1. IndInv => ReasonOccurred
  <2> SUFFICES ASSUME IndInv PROVE ReasonOccurred
    OBVIOUS
  <2>1. Caused(reason)
    BY DEF IndInv, ControlInv, ReasonsCaused
  <2>2. ASSUME run = "finished", reason = "Fatal" PROVE Published({"FAIL"}) # {}
    <3>1. \A w \in Workers : wpc[w] = "done"
      BY <2>2 DEF IndInv, ReportInv, ReportFinal, AtPc
    <3> QED
      BY <2>1, <2>2, <3>1 DEF Caused, SomeFailure, Computing, Published
  <2> QED
    BY <2>1, <2>2 DEF ReasonOccurred, Caused
<1> QED
  BY <1>1, Invariance, PTL

\* Both together: what an observer is told of a stop is complete and true.
THEOREM StopsAreExplained == Spec => []StopIsExplained
<1>1. StoppingHasReason /\ ReasonOccurred => StopIsExplained
  BY DEF StopIsExplained
<1> QED
  BY <1>1, StopsAreRecorded, ReasonsAreTrue, PTL

\* Each worker claims at most one range after the run should have stopped.
THEOREM LateClaimsAreBounded == Spec => []LateClaimsBounded
<1>1. IndInv => LateClaimsBounded
  BY DEF IndInv, TypeInv, TypeOK, LimitInv, LateStops, LateClaimsBounded
<1> QED
  BY <1>1, Invariance, PTL

\* A run that passed its error limit is never reported as ENDED.
THEOREM ErrorLimitIsEnforced == Spec => []ErrorLimitEnforced
<1>1. IndInv => ErrorLimitEnforced
  BY DEF IndInv, ReportInv, ReportFinal, ErrorLimitEnforced
<1> QED
  BY <1>1, Invariance, PTL

\* The report of a finished run partitions its plan.
THEOREM ReportIsAPartition == Spec => []ReportPartitionsPlan
<1>1. IndInv => ReportPartitionsPlan
  <2> SUFFICES ASSUME IndInv, run = "finished"
               PROVE  /\ {r \in Ranges : outcomes[r] # NoOutcome} = started
                      /\ report.unclaimed = Ranges \ started
    BY DEF ReportPartitionsPlan
  <2>1. \A w \in Workers : wpc[w] = "done" /\ held[w] = NoRange
    BY DEF IndInv, ReportInv, ReportFinal, AtPc, TypeInv, Holding, Busy
  <2>2. \A r \in Ranges : \A w \in Workers : held[w] # r
    BY <2>1, NumRangesAssumption DEF Ranges, NoRange
  <2>3. \A r \in Ranges : r \in started <=> outcomes[r] # NoOutcome
    BY <2>2 DEF IndInv, WorkInv, StartedCovers
  <2>4. \A r \in Ranges : r <= next <=> outcomes[r] # NoOutcome
    BY <2>2 DEF IndInv, WorkInv, CursorCovers
  <2>5. started \subseteq Ranges /\ next \in Nat
    BY DEF IndInv, TypeInv, TypeOK
  <2>6. report.unclaimed = {r \in Ranges : r > next}
    BY DEF IndInv, ReportInv, ReportFinal, Unclaimed
  <2>7. \A r \in Ranges : r > next <=> r \notin started
    BY <2>3, <2>4, <2>5, NumRangesAssumption DEF Ranges
  <2> QED
    BY <2>3, <2>5, <2>6, <2>7
<1> QED
  BY <1>1, Invariance, PTL

-----------------------------------------------------------------------------
(* The counters.  A range counts from the moment its worker merged its      *)
(* counters: as one of the merged results, then as one of the outcomes.     *)

\* The ranges of these statuses that count.
Counted(S) == Cardinality(Published(S)) + Cardinality(Merged(S))

\* Both sets can be counted: there are finitely many ranges and workers.
LEMMA CountedFinite ==
    ASSUME NEW S
    PROVE  /\ IsFiniteSet(Published(S)) /\ Cardinality(Published(S)) \in Nat
           /\ IsFiniteSet(Merged(S)) /\ Cardinality(Merged(S)) \in Nat
<1>1. IsFiniteSet(Ranges)
  BY NumRangesAssumption, FS_Interval DEF Ranges
<1>2. Published(S) \in SUBSET Ranges /\ Merged(S) \in SUBSET Workers
  BY DEF Published, Merged
<1> QED
  BY <1>1, <1>2, WorkersAssumption, FS_Subset, FS_CardinalityType

\* A worker that merges joins the merged results of its status, and no others (run_counters.add).
LEMMA MergeCounts ==
    ASSUME TypeInv, NEW S, NEW w \in Workers, MergeCounters(w)
    PROVE  Counted(S)' = Counted(S) + IF result[w].status \in S THEN 1 ELSE 0
<1>1. /\ wpc[w] = "merge" /\ wpc' = [wpc EXCEPT ![w] = "publish"]
      /\ UNCHANGED <<result, outcomes>> /\ wpc \in [Workers -> WorkerPc]
  BY DEF MergeCounters, AtPc, TypeInv, TypeOK
<1>2. Published(S)' = Published(S) /\ w \notin Merged(S)
  BY <1>1 DEF Published, Merged
<1>3. CASE result[w].status \in S
  <2>1. Merged(S)' = Merged(S) \cup {w}
    BY <1>1, <1>3 DEF Merged
  <2>2. Cardinality(Merged(S) \cup {w}) = Cardinality(Merged(S)) + 1
    BY <1>2, CountedFinite, FS_AddElement
  <2> QED
    BY <1>1, <1>2, <1>3, <2>1, <2>2, CountedFinite DEF Counted
<1>4. CASE result[w].status \notin S
  <2>1. Merged(S)' = Merged(S)
    BY <1>1, <1>4 DEF Merged
  <2> QED
    BY <1>1, <1>2, <1>4, <2>1, CountedFinite DEF Counted
<1> QED
  BY <1>3, <1>4

\* A worker that publishes moves its range from the merged results to the outcomes: the range had
\* no outcome, because claims are exclusive, and its worker has no result afterwards.
LEMMA PublishCounts ==
    ASSUME TypeInv, WorkInv, NEW S, NoOutcome \notin S, NEW w \in Workers, PublishOutcome(w)
    PROVE  Counted(S)' = Counted(S)
<1> DEFINE r == held[w]
           st == result[w].status
<1>1. /\ wpc[w] = "publish" /\ wpc' = [wpc EXCEPT ![w] = "enforce"]
      /\ result' = [result EXCEPT ![w] = NoResult]
      /\ outcomes' = [outcomes EXCEPT ![r] = st]
      /\ wpc \in [Workers -> WorkerPc] /\ outcomes \in [Ranges -> RangeStatus \cup {NoOutcome}]
      /\ DOMAIN result = Workers
  BY DEF PublishOutcome, AtPc, TypeInv, TypeOK
<1>2. r \in Ranges /\ outcomes[r] = NoOutcome
  BY <1>1 DEF TypeInv, TypeOK, Holding, Busy, WorkInv, ExclusiveClaims
<1>3. Merged(S)' = Merged(S) \ {w}
  BY <1>1 DEF Merged
<1>4. r \notin Published(S)
  BY <1>2 DEF Published
<1>5. CASE st \in S
  <2>1. Published(S)' = Published(S) \cup {r}
    BY <1>1, <1>2, <1>5 DEF Published
  <2>2. Cardinality(Published(S) \cup {r}) = Cardinality(Published(S)) + 1
    BY <1>4, CountedFinite, FS_AddElement
  <2>3. w \in Merged(S)
    BY <1>1, <1>5 DEF Merged
  <2>4. Cardinality(Merged(S) \ {w}) = Cardinality(Merged(S)) - 1
    BY <2>3, CountedFinite, FS_RemoveElement
  <2> QED
    BY <1>3, <2>1, <2>2, <2>4, CountedFinite DEF Counted
<1>6. CASE st \notin S
  <2>1. Published(S)' = Published(S)
    BY <1>1, <1>2, <1>6 DEF Published
  <2>2. w \notin Merged(S)
    BY <1>6 DEF Merged
  <2>3. Merged(S)' = Merged(S)
    BY <1>3, <2>2
  <2> QED
    BY <2>1, <2>3 DEF Counted
<1> QED
  BY <1>5, <1>6

\* No other step counts anything: a worker's result only changes while it processes its range.
LEMMA OthersCountNothing ==
    ASSUME TypeInv, [Next]_vars, NEW S,
           \A w \in Workers : ~MergeCounters(w) /\ ~PublishOutcome(w)
    PROVE  Published(S)' = Published(S) /\ Merged(S)' = Merged(S) /\ UNCHANGED runCounters
<1> USE DEF TypeInv, TypeOK
<1>1. CASE UNCHANGED workVars
  BY <1>1 DEF workVars, Published, Merged
<1>2. ASSUME NEW w \in Workers, WorkerStep(w) \/ JobStep(w)
      PROVE  /\ UNCHANGED <<outcomes, runCounters>>
             /\ wpc[w] # "publish" /\ wpc'[w] # "publish"
             /\ \A v \in Workers \ {w} : wpc'[v] = wpc[v] /\ result'[v] = result[v]
  BY <1>2 DEF WorkerStep, JobStep, WaitWhilePaused, CheckStopping, AfterCheck, Claim, StartRange,
              Abandon, Succeed, FailRange, FailFatally, GiveUp, Computed, EnforceErrorLimit, AtPc
<1>3. ASSUME NEW w \in Workers, WorkerStep(w) \/ JobStep(w)
      PROVE  Published(S)' = Published(S) /\ Merged(S)' = Merged(S) /\ UNCHANGED runCounters
  BY <1>2, <1>3 DEF Published, Merged
<1> QED
  BY <1>1, <1>3, OnlyWorkersWork

\* The two partition counters of the run are the outcomes of its ranges, together with the results
\* that are merged and not yet published, whatever the interleaving of the workers.
THEOREM CountersAreTheOutcomes == Spec => []CountersMatchOutcomes
<1>1. Init => CountersMatchOutcomes
  <2> SUFFICES ASSUME Init PROVE CountersMatchOutcomes
    OBVIOUS
  <2>1. \A S : NoOutcome \notin S => Published(S) = {} /\ Merged(S) = {}
    BY DEF Init, Published, Merged
  <2>2. NoOutcome \notin Verdicts /\ NoOutcome \notin {"FAIL"}
    BY VerdictsAssumption DEF NoOutcome
  <2> QED
    BY <2>1, <2>2, FS_EmptySet, SMTT(30) DEF Init, CountersMatchOutcomes
<1>2. TypeInv /\ WorkInv /\ CountersMatchOutcomes /\ [Next]_vars => CountersMatchOutcomes'
  <2> SUFFICES ASSUME TypeInv, WorkInv, CountersMatchOutcomes, [Next]_vars
               PROVE  CountersMatchOutcomes'
    OBVIOUS
  <2>1. runCounters.passed = Counted(Verdicts) /\ runCounters.failed = Counted({"FAIL"})
    BY DEF CountersMatchOutcomes, Counted
  <2>2. ASSUME NEW w \in Workers, MergeCounters(w) PROVE CountersMatchOutcomes'
    <3>1. /\ runCounters'.passed = runCounters.passed + IF result[w].status \in Verdicts THEN 1 ELSE 0
          /\ runCounters'.failed = runCounters.failed + IF result[w].status \in {"FAIL"} THEN 1 ELSE 0
      BY <2>2 DEF MergeCounters, FailedParts
    <3>2. runCounters'.passed = Counted(Verdicts)' /\ runCounters'.failed = Counted({"FAIL"})'
      BY <2>1, <2>2, <3>1, MergeCounts
    <3> QED
      BY <3>2 DEF Counted, CountersMatchOutcomes
  <2>3. ASSUME NEW w \in Workers, PublishOutcome(w) PROVE CountersMatchOutcomes'
    <3>1. NoOutcome \notin Verdicts /\ NoOutcome \notin {"FAIL"}
      BY VerdictsAssumption DEF NoOutcome
    <3>2. UNCHANGED runCounters
      BY <2>3 DEF PublishOutcome
    <3>3. Counted(Verdicts)' = Counted(Verdicts) /\ Counted({"FAIL"})' = Counted({"FAIL"})
      BY <2>3, <3>1, PublishCounts
    <3> QED
      BY <2>1, <3>2, <3>3 DEF Counted, CountersMatchOutcomes
  <2>4. CASE \A w \in Workers : ~MergeCounters(w) /\ ~PublishOutcome(w)
    BY <2>4, OthersCountNothing DEF CountersMatchOutcomes
  <2> QED
    BY <2>2, <2>3, <2>4
<1>3. IndInv => TypeInv /\ WorkInv
  BY DEF IndInv
<1> QED
  BY <1>1, <1>2, <1>3, Invariance, PTL DEF Spec

-----------------------------------------------------------------------------
(* The refinement: the scheduler implements the abstract plan execution.     *)
(* The abstract state, under the mapping of Scheduler!Plan.                  *)

Active == {held[w] : w \in Workers} \ {NoRange}
Done == [r \in Ranges |-> IF outcomes[r] = NoOutcome THEN "Unsettled" ELSE outcomes[r]]
abstractVars == <<Unclaimed, Active, Done, report.status>>

\* A run that starts has its whole plan to do (WorkQueue::new).
LEMMA InitRefines == Init => Plan!PlanInit
<1> SUFFICES ASSUME Init PROVE Plan!PlanInit
  OBVIOUS
<1>1. Unclaimed = Ranges
  BY NumRangesAssumption DEF Init, Unclaimed, Ranges
<1>2. Active = {}
  BY DEF Init, Active
<1>3. Done = [r \in Ranges |-> "Unsettled"]
  BY DEF Init, Done
<1> QED
  BY <1>1, <1>2, <1>3 DEF Init, Plan!PlanInit, Plan!Unsettled, Active, Done

\* While a worker has not left its loop the run has no final status.
LEMMA WorkingIsStarted ==
    ASSUME IndInv, NEW w \in Workers, wpc[w] # "done"
    PROVE  report.status = "STARTED"
BY DEF IndInv, TypeInv, TypeOK, ReportInv, ReportFinal, AtPc

\* A claim takes the range after the cursor, or finds the queue drained and changes nothing.
LEMMA ClaimRefines ==
    ASSUME IndInv, NEW w \in Workers, Claim(w)
    PROVE  Plan!PlanNext \/ UNCHANGED abstractVars
<1> USE NumRangesAssumption
<1>0. /\ next \in Nat /\ next' = next + 1 /\ held \in [Workers -> Ranges \cup {NoRange}]
      /\ UNCHANGED <<outcomes, report>>
  BY DEF IndInv, TypeInv, TypeOK, Claim, Advance, runVars
<1>1. CASE ~HasNext
  <2>1. UNCHANGED held
    BY <1>1 DEF Claim
  <2>2. Unclaimed' = Unclaimed
    BY <1>0, <1>1 DEF Unclaimed, HasNext, Ranges
  <2> QED
    BY <1>0, <2>1, <2>2 DEF abstractVars, Active, Done
<1>2. CASE HasNext
  <2>1. held' = [held EXCEPT ![w] = next + 1]
    BY <1>2 DEF Claim
  <2>2. next + 1 \in Ranges /\ next + 1 \in Unclaimed
    BY <1>0, <1>2 DEF HasNext, Ranges, Unclaimed
  <2>3. Unclaimed' = Unclaimed \ {next + 1}
    BY <1>0 DEF Unclaimed, Ranges
  <2>4. held[w] = NoRange
    BY DEF Claim, AtPc, IndInv, TypeInv, Holding, Busy
  <2>5. Active' = Active \cup {next + 1}
    BY <1>0, <2>1, <2>2, <2>4 DEF Active, Ranges, NoRange
  <2>6. report.status = "STARTED"
    BY WorkingIsStarted DEF Claim, AtPc
  <2>7. PICK r \in Ranges : r = next + 1
    BY <2>2
  <2>8. Plan!Take(r)
    BY <1>0, <2>2, <2>3, <2>5, <2>6, <2>7 DEF Plan!Take, Active
  <2> QED
    BY <2>8 DEF Plan!PlanNext
<1> QED
  BY <1>1, <1>2

\* Publishing an outcome settles the one range the worker had taken.
LEMMA PublishRefines ==
    ASSUME IndInv, NEW w \in Workers, PublishOutcome(w)
    PROVE  Plan!PlanNext
<1> USE DEF IndInv
<1>1. /\ held \in [Workers -> Ranges \cup {NoRange}] /\ wpc[w] = "publish"
      /\ outcomes \in [Ranges -> RangeStatus \cup {NoOutcome}]
      /\ outcomes' = [outcomes EXCEPT ![held[w]] = result[w].status]
      /\ held' = [held EXCEPT ![w] = NoRange] /\ UNCHANGED <<next, report>>
  BY DEF TypeInv, TypeOK, PublishOutcome, AtPc, runVars
<1>2. held[w] \in Ranges /\ result[w].status \in RangeStatus /\ result[w].status # NoOutcome
  BY <1>1 DEF TypeInv, TypeOK, Holding, Busy, Computing
<1>3. \A v \in Workers \ {w} : held[v] # held[w]
  BY <1>2, NumRangesAssumption DEF WorkInv, ExclusiveClaims, Ranges, NoRange
<1>4. Active' = Active \ {held[w]}
  BY <1>1, <1>2, <1>3 DEF Active
<1>5. held[w] \in Active
  BY <1>2, NumRangesAssumption DEF Active, Ranges, NoRange
<1>6. Done' = [Done EXCEPT ![held[w]] = result[w].status]
  BY <1>1, <1>2 DEF Done
<1>7. report.status = "STARTED"
  BY <1>1, WorkingIsStarted
<1>8. Unclaimed' = Unclaimed
  BY <1>1 DEF Unclaimed
<1>9. PICK r \in Ranges, how \in RangeStatus : r = held[w] /\ how = result[w].status
  BY <1>2
<1>10. Plan!Settle(r, how)
  BY <1>1, <1>4, <1>5, <1>6, <1>7, <1>8, <1>9 DEF Plan!Settle, Active, Done
<1> QED
  BY <1>10 DEF Plan!PlanNext

\* The report ends the plan: nothing is in flight, and without a reason nothing was left or lost.
LEMMA FinishRefines ==
    ASSUME IndInv, Finish
    PROVE  Plan!PlanNext
<1> USE DEF IndInv
<1> DEFINE s == RunStatusOf(reason)
<1>1. /\ \A w \in Workers : wpc[w] = "done" /\ held[w] = NoRange
      /\ UNCHANGED <<next, held, outcomes>> /\ report'.status = s /\ report.status = "STARTED"
  BY DEF Finish, AllJoined, AtPc, TypeInv, Holding, Busy, ReportInv, ReportFinal, workVars
<1>2. Active = {}
  BY <1>1 DEF Active
<1>3. s \in {"ENDED", "INTERRUPTED", "ABORTED"} /\ (s = "ENDED" => reason = NoReason)
  BY DEF RunStatusOf
<1>4. ASSUME reason = NoReason PROVE Unclaimed = {} /\ \A r \in Ranges : Done[r] # "STARTED"
  <2>1. ~stopping /\ ~killed
    BY <1>4 DEF ControlInv, StoppingHasReason
  <2>2. next >= NumRanges
    BY <1>1, <2>1, WorkersAssumption DEF ReportInv, DoneIsJustified
  <2>3. Unclaimed = {}
    BY <2>2, NumRangesAssumption DEF Unclaimed, Ranges, TypeInv, TypeOK
  <2>4. \A r \in Ranges : outcomes[r] # "STARTED"
    BY <2>1 DEF ReportInv, AbandonedIsKilled
  <2> QED
    BY <2>3, <2>4 DEF Done
<1>5. UNCHANGED <<Unclaimed, Active, Done>>
  BY <1>1 DEF Unclaimed, Active, Done
<1>6. Plan!End(s)
  BY <1>1, <1>2, <1>3, <1>4, <1>5 DEF Plan!End, Active, Done
<1> QED
  BY <1>3, <1>6 DEF Plan!PlanNext

\* Every step of the scheduler is a step of PlanExecution or leaves it unchanged.
LEMMA StepRefines == IndInv /\ [Next]_vars => [Plan!PlanNext]_(Plan!planVars)
<1> SUFFICES ASSUME IndInv, [Next]_vars PROVE Plan!PlanNext \/ UNCHANGED abstractVars
  BY DEF Plan!planVars, abstractVars, Active, Done
<1>1. ASSUME NEW w \in Workers, Claim(w) PROVE Plan!PlanNext \/ UNCHANGED abstractVars
  BY <1>1, ClaimRefines
<1>2. ASSUME NEW w \in Workers, PublishOutcome(w) PROVE Plan!PlanNext
  BY <1>2, PublishRefines
<1>3. CASE Finish
  BY <1>3, FinishRefines
<1>4. CASE UNCHANGED <<next, held, outcomes, report>>
  BY <1>4 DEF abstractVars, Unclaimed, Active, Done
<1>5. ASSUME NEW w \in Workers, WorkerStep(w) \/ JobStep(w), ~Claim(w), ~PublishOutcome(w)
      PROVE  UNCHANGED <<next, held, outcomes, report>>
  BY <1>5 DEF WorkerStep, JobStep, WaitWhilePaused, CheckStopping, StartRange, Abandon, Succeed,
              FailRange, FailFatally, GiveUp, Computed, MergeCounters, EnforceErrorLimit, runVars
<1>6. ASSUME \/ \E a \in Actors : ControlStep(a)
             \/ \E a \in {"listener", "operator"} : Signalled(a)
             \/ OperatorStep \/ GraceExpires \/ Terminated \/ UNCHANGED vars
      PROVE  UNCHANGED <<next, held, outcomes, report>>
  BY <1>6 DEF ControlStep, Signalled, OperatorStep, BeginPause, SetPaused, Resume, OperatorStop,
              GraceExpires, Terminated, vars, workVars, runVars
<1> QED
  BY <1>1, <1>2, <1>3, <1>4, <1>5, <1>6 DEF Next

\* Scheduler::run implements PlanExecution: every range is taken at most once and settled by the
\* worker that took it, nothing is in flight when the report is built, and a run is only ENDED
\* when every range of its plan was processed.
THEOREM Refinement == Spec => ImplementsPlan
<1>1. Init => Plan!PlanInit
  BY InitRefines
<1>2. IndInv /\ [Next]_vars => [Plan!PlanNext]_(Plan!planVars)
  BY StepRefines
<1> QED
  BY <1>1, <1>2, Invariance, PTL DEF Spec, ImplementsPlan, Plan!PlanSpec
=============================================================================
