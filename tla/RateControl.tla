----------------------------- MODULE RateControl -----------------------------
(***************************************************************************)
(* Pacing the target: the row-rate limiter, the AIMD controller that moves  *)
(* its rate, and the request loop whose outcomes drive the controller       *)
(* (crates/cdm-engine/src/scheduler: ratelimit.rs, adaptive.rs, limits.rs;  *)
(* crates/cdm-cql/src: exec/write.rs, connect/policy.rs).                   *)
(*                                                                          *)
(* Each worker waits for its row to come due, sends the request, and        *)
(* reports every attempt.  The clock is read BEFORE a lock is taken, the    *)
(* limiter's rate before its tat lock, and a new rate is stored AFTER the   *)
(* controller's lock is released: each of these is a step of its own, so    *)
(* another worker may run in between.  Backoff sleeps are any delay.        *)
(***************************************************************************)
EXTENDS Integers, FiniteSets

CONSTANTS
    Workers,      \* tasks that send target requests
    Ceilings,     \* the values perfops.ratelimit.target may have; 0 is unlimited
    MinPercent,   \* perfops.adaptive_ratelimit_min_percent
    Second,       \* one second, in clock units: the burst and the control window
    MaxCatchup,   \* MAX_CATCHUP_WINDOWS
    MaxAttempts,  \* perfops.retry.max_attempts
    Tick,         \* bound: the granularity the clock is observed at
    MaxTime       \* bound: when the model stops the clock

IncreasePercent == 5     \* INCREASE_PERCENT_OF_CEILING
DecreaseDivisor == 2     \* DECREASE_DIVISOR
Window == Second         \* CONTROL_WINDOW
Burst == Second          \* burst_picos

Least(a, b) == IF a < b THEN a ELSE b
Most(a, b) == IF a > b THEN a ELSE b
Monus(a, b) == Most(a - b, 0)

\* floor_for(): a share of the ceiling, but never less than one row a second.
Floor(c) == IF c = 0 THEN 0 ELSE Least(Most((c * Least(MinPercent, 100)) \div 100, 1), c)

\* step_for(): what one quiet window gives back.
Step(c) == IF c = 0 THEN 0 ELSE Most((c \div 100) * IncreasePercent, 1)

ASSUME ClockAssumption ==
    /\ Second \in Nat \ {0} /\ Tick \in Nat \ {0} /\ MaxTime \in Nat
    /\ MaxAttempts \in Nat \ {0} /\ MaxCatchup \in Nat \ {0}
    /\ MinPercent \in Nat
ASSUME CeilingsAssumption == Ceilings \subseteq Nat /\ Ceilings # {}
ASSUME WorkersFinite == IsFiniteSet(Workers)
\* The cap loses nothing: the quiet windows it leaves after a cut, one less than the 600 of the
\* code, bring the floor back to any ceiling ("the arithmetic has already saturated").
ASSUME CatchupReachesCeiling ==
    \A c \in Ceilings : Floor(c) + (MaxCatchup - 1) * Step(c) >= c

VARIABLES
    now,       \* the runtime clock
    conf,      \* the run: its ceiling, whether the rate adapts, whether it writes counters
    ctl,       \* AdaptiveRateController::state
    rate,      \* RateLimiter::rows_per_second of the target limiter
    tat,       \* RateLimiter::tat, the theoretical arrival time
    call,      \* what each worker is doing
    hist       \* history: rows admitted, rate cuts, overlapping decisions

vars == <<now, conf, ctl, rate, tat, call, hist>>

-----------------------------------------------------------------------------
Idle == [pc |-> "idle", kind |-> "write", at |-> 0, cost |-> 0, wake |-> 0,
         attempts |-> 0, outcome |-> "ok", decided |-> 0]
NewState(c) == [effective |-> c, windowStart |-> 0, overloaded |-> FALSE]

Init ==
    /\ now = 0
    /\ \E c \in Ceilings : \E a, k \in BOOLEAN :
         /\ conf = [ceiling |-> c, adaptive |-> a, counter |-> k]
         /\ ctl = NewState(c)
         /\ rate = c
         /\ hist = [admitted |-> 0, cuts |-> 0, cutRate |-> c, cutStart |-> 0,
                    raced |-> FALSE]
    /\ tat = 0
    /\ call = [w \in Workers |-> Idle]

At(w, pc) == call[w].pc = pc

\* The request is sent, for the first time or again: nothing of the wait is kept.
Sending(t) == [Idle EXCEPT !.pc = "send", !.kind = t.kind, !.attempts = t.attempts]

PassTime ==
    /\ now + Tick <= MaxTime
    /\ now' = now + Tick
    /\ UNCHANGED <<conf, ctl, rate, tat, call, hist>>

-----------------------------------------------------------------------------
(* RateLimiter::acquire(1).                                                 *)

\* A counter row is looked up and then updated; any other row is written.
Kinds == IF conf.counter THEN {"lookup", "counter"} ELSE {"write"}

\* now_picos(): the clock is read before anything is reserved.
Arrive(w) ==
    /\ At(w, "idle")
    /\ \E k \in Kinds :
         call' = [call EXCEPT ![w] = [Idle EXCEPT !.pc = "arrived", !.kind = k, !.at = now]]
    /\ UNCHANGED <<now, conf, ctl, rate, tat, hist>>

\* Picoseconds per row, truncated.
Cost(r) == Second \div r

ReadRate(w) ==
    /\ At(w, "arrived")
    /\ call' = [call EXCEPT ![w] =
         IF rate = 0 THEN Sending(@)
                     ELSE [@ EXCEPT !.pc = "costed", !.cost = Cost(rate)]]
    /\ UNCHANGED <<now, conf, ctl, rate, tat, hist>>

DueUnqueued(at, cost) == at + cost
Due(at, cost) == Most(tat, at) + cost
Delay(due, at) == Monus(Monus(due, Burst), at)

Admit == hist' = [hist EXCEPT !.admitted = @ + 1]

\* The reservation is unconditional; the sleep starts from the real clock.
Reserve(w) ==
    /\ At(w, "costed")
    /\ LET due == Due(call[w].at, call[w].cost)
           delay == Delay(due, call[w].at)
       IN /\ tat' = due
          /\ call' = [call EXCEPT ![w] =
               IF delay = 0 THEN Sending(@)
                            ELSE [Idle EXCEPT !.pc = "sleep", !.kind = call[w].kind,
                                              !.wake = now + delay]]
          /\ IF delay = 0 THEN Admit ELSE UNCHANGED hist
    /\ UNCHANGED <<now, conf, ctl, rate>>

Wake(w) ==
    /\ At(w, "sleep") /\ now >= call[w].wake
    /\ call' = [call EXCEPT ![w] = Sending(@)]
    /\ Admit
    /\ UNCHANGED <<now, conf, ctl, rate, tat>>

-----------------------------------------------------------------------------
(* TargetWriter: retrying(), write_counter() and counter_row().             *)

\* CON-012: a counter update is the one request that is never sent twice.
Retried(kind) == kind # "counter"
MayRetry(t) == t.outcome # "ok" /\ Retried(t.kind) /\ t.attempts < MaxAttempts

\* The request is answered, or the caller gives up; the loop sends it again or returns.
Returned(t) == IF MayRetry(t) THEN Sending(t) ELSE Idle

\* An observer is attached only when the rate adapts, and lookups are not reported; a report
\* starts by reading the clock.
Attempt(w) ==
    /\ At(w, "send")
    /\ \E outcome \in {"ok", "overload", "fault"} :
         LET t == [call[w] EXCEPT !.attempts = @ + 1, !.outcome = outcome]
         IN  call' = [call EXCEPT ![w] =
                 IF conf.adaptive /\ t.kind # "lookup"
                 THEN [t EXCEPT !.pc = "report", !.at = now]
                 ELSE Returned(t)]
    /\ UNCHANGED <<now, conf, ctl, rate, tat, hist>>

-----------------------------------------------------------------------------
(* AdaptiveRateController::roll().                                          *)

Decrease(r) == Most(r \div DecreaseDivisor, Floor(conf.ceiling))
IncreaseBy(r, times) == Least(r + Step(conf.ceiling) * times, conf.ceiling)

Signal(w) == call[w].outcome = "overload"
Elapsed(w) == Monus(call[w].at, ctl.windowStart)

\* A ceiling of 0 leaves nothing to control.
IgnoreSignal(w) ==
    /\ At(w, "report") /\ conf.ceiling = 0
    /\ call' = [call EXCEPT ![w] = Returned(@)]
    /\ UNCHANGED <<now, conf, ctl, rate, tat, hist>>

InsideWindow(w) == Elapsed(w) < Window

\* Inside the open window: remember an overload, change nothing.
Remember(w) ==
    /\ At(w, "report") /\ conf.ceiling > 0
    /\ InsideWindow(w)
    /\ ctl' = [ctl EXCEPT !.overloaded = @ \/ Signal(w)]
    /\ call' = [call EXCEPT ![w] = Returned(@)]
    /\ UNCHANGED <<now, conf, rate, tat, hist>>

\* The first closed window moves the rate by what it saw, every further one was quiet.
Rolled(windows) ==
    IF ctl.overloaded THEN IncreaseBy(Decrease(ctl.effective), windows - 1)
                      ELSE IncreaseBy(IncreaseBy(ctl.effective, 1), windows - 1)

\* The next window starts where the last closed one ended, or now if the cap was hit.
NextStartAfterQuiet(windows, at) ==
    IF windows >= MaxCatchup THEN at
    ELSE ctl.windowStart + IF ctl.overloaded THEN 0 ELSE windows * Window
NextStart(windows, at) ==
    IF windows >= MaxCatchup THEN at ELSE ctl.windowStart + windows * Window

\* Whether the caller has something to store.
ChangedDown(before, after) == after < before
Changed(before, after) == after # before

CloseWindow(w) ==
    /\ At(w, "report") /\ conf.ceiling > 0
    /\ ~InsideWindow(w)
    /\ LET windows == Least(Elapsed(w) \div Window, MaxCatchup)
           new == Rolled(windows)
       IN /\ ctl' = [effective |-> new,
                     windowStart |-> NextStart(windows, call[w].at),
                     overloaded |-> Signal(w)]
          /\ call' = [call EXCEPT ![w] =
               IF Changed(ctl.effective, new)
               THEN [@ EXCEPT !.pc = "apply", !.at = 0, !.decided = new]
               ELSE Returned(@)]
          /\ hist' = [hist EXCEPT
               !.cuts = @ + IF ctl.overloaded THEN 1 ELSE 0,
               !.cutRate = IF ctl.overloaded THEN Decrease(ctl.effective) ELSE @,
               !.cutStart = IF ctl.overloaded THEN ctl.windowStart + Window ELSE @,
               !.raced = @ \/ \E v \in Workers : At(v, "apply")]
    /\ UNCHANGED <<now, conf, rate, tat>>

\* record_target_signal(): the limiter is told after the controller's lock is released.
Apply(w) ==
    /\ At(w, "apply")
    /\ rate' = call[w].decided
    /\ call' = [call EXCEPT ![w] = Returned(@)]
    /\ UNCHANGED <<now, conf, ctl, tat, hist>>

\* The model's clock has stopped; sleepers stay asleep.
TimeUp == now + Tick > MaxTime /\ UNCHANGED vars

WorkerStep(w) ==
    \/ Arrive(w) \/ ReadRate(w) \/ Reserve(w) \/ Wake(w) \/ Attempt(w)
    \/ IgnoreSignal(w) \/ Remember(w) \/ CloseWindow(w) \/ Apply(w)

Next == PassTime \/ (\E w \in Workers : WorkerStep(w)) \/ TimeUp

Spec == Init /\ [][Next]_vars

-----------------------------------------------------------------------------
(* Properties.                                                              *)

Calls == [pc: {"idle", "arrived", "costed", "sleep", "send", "report", "apply"},
          kind: {"write", "lookup", "counter"}, at: Nat, cost: Nat, wake: Nat, attempts: Nat,
          outcome: {"ok", "overload", "fault"}, decided: Nat]
Confs == [ceiling: Ceilings, adaptive: BOOLEAN, counter: BOOLEAN]
States == [effective: Nat, windowStart: Nat, overloaded: BOOLEAN]
Histories == [admitted: Nat, cuts: Nat, cutRate: Nat, cutStart: Nat, raced: BOOLEAN]

\* Type invariant of the limiter, the controller and the calls: no clock reading is ahead of the
\* clock, and no request has more attempts than it may (RateLimiter, AdaptiveRateController).
TypeOK ==
    /\ now \in 0..MaxTime /\ tat \in Nat /\ rate \in Nat
    /\ conf \in Confs /\ ctl \in States /\ hist \in Histories
    /\ ctl.windowStart <= now
    /\ call \in [Workers -> Calls]
    /\ \A w \in Workers : call[w].at <= now /\ call[w].attempts <= MaxAttempts

InBounds(r) == r \in Floor(conf.ceiling)..conf.ceiling
Pending == {w \in Workers : At(w, "apply")}

\* ENG-006: whatever is reported, and however stale, the rate in force, the controller's rate and
\* a decided rate not yet stored stay between the floor and the configured ceiling, and a limited
\* run never becomes unlimited (0) or stops.  A decided rate "is applied to the target limiter here
\* and nowhere else": when no two decisions have overlapped and none is pending, the limiter paces
\* at the controller's rate (roll, record_target_signal).
RateInForce ==
    /\ InBounds(rate) /\ InBounds(ctl.effective)
    /\ \A w \in Pending : InBounds(call[w].decided)
    /\ conf.ceiling > 0 => Floor(conf.ceiling) > 0
    /\ ~hist.raced /\ Pending = {} => rate = ctl.effective

\* ENG-005: no schedule of arrivals, stale clock reads and rate changes lets more rows through
\* than the ceiling allows for the time that has passed, plus one second of burst
\* (RateLimiter::reserve, acquire).
PacedAtCeiling ==
    conf.ceiling > 0 => hist.admitted * Cost(conf.ceiling) <= now + Burst

\* "One congestion event must cost one halving, however many requests observed it": there are
\* never more cuts than control windows that have passed; and after a cut the rate comes back by
\* exactly one step per window, whether the windows are closed one by one or many at once by a
\* late report (roll, increase_by).
RateFollowsWindows ==
    /\ hist.cuts * Window <= ctl.windowStart
    /\ conf.ceiling > 0 =>
        ctl.effective = Least(conf.ceiling,
            hist.cutRate + Step(conf.ceiling) * ((ctl.windowStart - hist.cutStart) \div Window))
=============================================================================
