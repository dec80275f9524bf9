-------------------------- MODULE RateControlProofs --------------------------
(***************************************************************************)
(* Proofs about pacing the target, for any number of workers, any ceiling,  *)
(* any floor and any clock.                                                 *)
(*                                                                          *)
(* The invariant has four parts: what a worker carries through its call     *)
(* (CallsGood), where the rates are and who has yet to store one (RateInv), *)
(* what the rows admitted and the rows asleep have reserved (PaceInv), and  *)
(* how far the windows have brought the rate back since the last cut        *)
(* (WindowInv).                                                             *)
(***************************************************************************)
EXTENDS RateControl, FiniteSetTheorems, TLAPS

-----------------------------------------------------------------------------
(* Arithmetic.                                                              *)

\* Division with remainder.
LEMMA DivBounds ==
    ASSUME NEW a \in Nat, NEW b \in Nat \ {0}
    PROVE  a \div b \in Nat /\ b * (a \div b) <= a /\ a < b * (a \div b) + b
OBVIOUS

\* A faster rate makes a row cost less.
LEMMA DivAntitone ==
    ASSUME NEW a \in Nat, NEW b \in Nat \ {0}, NEW c \in Nat, c >= b
    PROVE  a \div c <= a \div b
<1> DEFINE p == a \div b
           q == a \div c
<1>1. p \in Nat /\ q \in Nat /\ c * q <= a /\ a < b * p + b
  BY DivBounds
<1> HIDE DEF p, q
<1>2. ASSUME q >= p + 1 PROVE FALSE
  <2>1. b * (p + 1) <= c * q
    BY <1>1, <1>2
  <2>2. b * (p + 1) = b * p + b
    BY <1>1
  <2> QED
    BY <1>1, <2>1, <2>2
<1> QED
  BY <1>1, <1>2 DEF p, q

\* Longer takes as many windows or more.
LEMMA DivMonotone ==
    ASSUME NEW a \in Nat, NEW d \in Nat, NEW b \in Nat \ {0}, a <= d
    PROVE  a \div b <= d \div b
<1> DEFINE p == a \div b
           q == d \div b
<1>1. p \in Nat /\ q \in Nat /\ b * p <= a /\ d < b * q + b
  BY DivBounds
<1> HIDE DEF p, q
<1>2. ASSUME p >= q + 1 PROVE FALSE
  <2>1. b * (q + 1) <= b * p
    BY <1>1, <1>2
  <2>2. b * (q + 1) = b * q + b
    BY <1>1
  <2> QED
    BY <1>1, <2>1, <2>2
<1> QED
  BY <1>1, <1>2 DEF p, q

\* Whole windows are counted as such.
LEMMA DivAdds ==
    ASSUME NEW a \in Nat, NEW b \in Nat \ {0}, NEW k \in Nat
    PROVE  (a + k * b) \div b = (a \div b) + k
<1> DEFINE p == a \div b
           q == (a + k * b) \div b
<1>0. k * b \in Nat
  OBVIOUS
<1>1. p \in Nat /\ q \in Nat /\ b * p <= a /\ a < b * p + b
      /\ b * q <= a + k * b /\ a + k * b < b * q + b
  BY <1>0, DivBounds
<1> HIDE DEF p, q
<1>2. q = p + k
  BY <1>1
<1> QED
  BY <1>2 DEF p, q

\* A longer product.
LEMMA ProductMonotone ==
    ASSUME NEW a \in Nat, NEW b \in Nat, NEW c \in Nat, a <= b
    PROVE  a * c <= b * c /\ a * c \in Nat
OBVIOUS

\* The floor of a limited run is a rate, and not above its ceiling (floor_for).
LEMMA FloorBounds ==
    ASSUME NEW c \in Ceilings
    PROVE  /\ c \in Nat /\ Floor(c) \in Nat /\ Floor(c) <= c
           /\ c > 0 => Floor(c) > 0
<1>1. c \in Nat /\ Least(MinPercent, 100) \in Nat
  BY CeilingsAssumption, ClockAssumption DEF Least
<1>2. c * Least(MinPercent, 100) \in Nat
  BY <1>1
<1>3. (c * Least(MinPercent, 100)) \div 100 \in Nat
  BY <1>2, DivBounds
<1> QED
  BY <1>1, <1>3 DEF Floor, Least, Most

\* A quiet window gives something back (step_for).
LEMMA StepType ==
    ASSUME NEW c \in Ceilings
    PROVE  Step(c) \in Nat
<1>1. c \in Nat /\ c \div 100 \in Nat
  BY CeilingsAssumption, DivBounds
<1>2. (c \div 100) * IncreasePercent \in Nat
  BY <1>1 DEF IncreasePercent
<1> QED
  BY <1>2 DEF Step, Most

-----------------------------------------------------------------------------
(* The calls.                                                               *)

\* What a worker carries: clock readings of the past, attempts it was allowed to make, a cost no
\* lower than the ceiling's and a rate within the bounds.
GoodCall(t, c, clock) ==
    /\ t \in Calls /\ t.at <= clock /\ t.attempts <= MaxAttempts
    /\ t.pc \in {"report", "apply"} \/ t.attempts < MaxAttempts
    /\ t.pc = "costed" /\ c > 0 => t.cost >= Cost(c)
    /\ t.pc = "apply" => t.decided \in Floor(c)..c

CallsGood ==
    /\ call \in [Workers -> Calls]
    /\ \A w \in Workers : GoodCall(call[w], conf.ceiling, now)

\* The other variables.
StateOK ==
    /\ now \in 0..MaxTime /\ tat \in Nat /\ rate \in Nat
    /\ conf \in Confs /\ ctl \in States /\ hist \in Histories
    /\ ctl.windowStart <= now

\* The rates stay between the floor and the ceiling.
RatesBounded == InBounds(rate) /\ InBounds(ctl.effective)

Base == StateOK /\ CallsGood /\ RatesBounded

\* An idle worker carries nothing.
LEMMA IdleGood ==
    ASSUME NEW c, NEW clock \in Nat
    PROVE  GoodCall(Idle, c, clock)
<1>1. Idle \in Calls
  BY DEF Idle, Calls
<1> QED
  BY <1>1, ClockAssumption DEF GoodCall, Idle

\* A request that is sent keeps its kind and its attempts, nothing else.
LEMMA SendingFields ==
    ASSUME NEW t \in Calls
    PROVE  /\ Sending(t) \in Calls
           /\ Sending(t).pc = "send" /\ Sending(t).at = 0 /\ Sending(t).attempts = t.attempts
BY DEF Sending, Idle, Calls

\* A call that may make another attempt sends it, with nothing left of its wait (acquire).
LEMMA SendingGood ==
    ASSUME NEW c, NEW clock \in Nat, NEW t \in Calls, t.attempts < MaxAttempts
    PROVE  GoodCall(Sending(t), c, clock) /\ Sending(t).pc = "send"
<1>1. MaxAttempts \in Nat /\ t.attempts \in Nat
  BY ClockAssumption DEF Calls
<1> QED
  BY <1>1, SendingFields DEF GoodCall

\* A request that was answered is sent again or done with (retrying).
LEMMA ReturnedGood ==
    ASSUME NEW c, NEW clock \in Nat, NEW t \in Calls
    PROVE  GoodCall(Returned(t), c, clock) /\ Returned(t).pc \in {"send", "idle"}
<1>1. CASE MayRetry(t)
  <2>1. t.attempts < MaxAttempts /\ Returned(t) = Sending(t)
    BY <1>1 DEF MayRetry, Returned
  <2> QED
    BY <2>1, SendingGood
<1>2. CASE ~MayRetry(t)
  <2>1. Returned(t) = Idle /\ Idle.pc = "idle"
    BY <1>2 DEF Returned, Idle
  <2> QED
    BY <2>1, IdleGood
<1> QED
  BY <1>1, <1>2

\* Time passing spoils no call.
LEMMA GoodLater ==
    ASSUME NEW c, NEW clock \in Nat, NEW later \in Nat, clock <= later,
           NEW t, GoodCall(t, c, clock)
    PROVE  GoodCall(t, c, later)
BY DEF GoodCall, Calls

-----------------------------------------------------------------------------
(* The steps of a worker.                                                   *)

\* What the invariant says of one worker, with the fields it carries.
LEMMA CallFacts ==
    ASSUME Base, NEW w \in Workers
    PROVE  /\ call[w] \in Calls /\ GoodCall(call[w], conf.ceiling, now) /\ call \in [Workers -> Calls]
           /\ call[w].at \in Nat /\ call[w].at <= now /\ call[w].attempts \in Nat
           /\ call[w].cost \in Nat /\ call[w].wake \in Nat
           /\ now \in Nat /\ tat \in Nat /\ rate \in Nat
           /\ conf.ceiling \in Ceilings /\ conf.ceiling \in Nat
           /\ hist \in Histories /\ ctl \in States
<1>1. call[w] \in Calls /\ GoodCall(call[w], conf.ceiling, now) /\ call \in [Workers -> Calls]
  BY DEF Base, CallsGood
<1>2. /\ call[w].at \in Nat /\ call[w].attempts \in Nat /\ call[w].cost \in Nat
      /\ call[w].wake \in Nat
  BY <1>1 DEF Calls
<1>3. conf.ceiling \in Ceilings /\ conf.ceiling \in Nat
  BY CeilingsAssumption DEF Base, StateOK, Confs
<1>4. now \in Nat /\ tat \in Nat /\ rate \in Nat /\ hist \in Histories /\ ctl \in States
  BY DEF Base, StateOK
<1> QED
  BY <1>1, <1>2, <1>3, <1>4 DEF GoodCall

\* A row waits for its turn: the steps of acquire() before the reservation.
LEMMA WaitMoves ==
    ASSUME Base, NEW w \in Workers, Arrive(w) \/ ReadRate(w)
    PROVE  \E t : /\ call' = [call EXCEPT ![w] = t] /\ GoodCall(t, conf.ceiling, now)
                 /\ t.pc \in {"arrived", "costed", "send"}
<1>0. /\ call[w] \in Calls /\ now \in Nat /\ GoodCall(call[w], conf.ceiling, now)
      /\ call[w].at \in Nat /\ call[w].at <= now /\ rate \in Nat
      /\ conf.ceiling \in Ceilings /\ conf.ceiling \in Nat
  BY CallFacts
<1>1. CASE Arrive(w)
  <2>1. PICK k \in Kinds :
          call' = [call EXCEPT ![w] = [Idle EXCEPT !.pc = "arrived", !.kind = k, !.at = now]]
    BY <1>1 DEF Arrive
  <2> DEFINE t == [Idle EXCEPT !.pc = "arrived", !.kind = k, !.at = now]
  <2>2. t \in Calls /\ t.pc = "arrived" /\ t.at = now /\ t.attempts = 0
    BY <1>0 DEF Idle, Calls, Kinds
  <2>3. call' = [call EXCEPT ![w] = t]
    BY <2>1
  <2> HIDE DEF t
  <2>4. GoodCall(t, conf.ceiling, now)
    BY <1>0, <2>2, ClockAssumption DEF GoodCall
  <2> QED
    BY <2>2, <2>3, <2>4
<1>2. CASE ReadRate(w)
  <2>0. call[w].pc = "arrived" /\ call[w].attempts < MaxAttempts
    BY <1>0, <1>2 DEF ReadRate, At, GoodCall
  <2>1. CASE rate = 0
    <3>1. call' = [call EXCEPT ![w] = Sending(call[w])]
      BY <1>2, <2>1 DEF ReadRate
    <3> QED
      BY <1>0, <2>0, <3>1, SendingGood
  <2>2. CASE rate # 0
    <3> DEFINE t == [call[w] EXCEPT !.pc = "costed", !.cost = Cost(rate)]
    <3>1. call' = [call EXCEPT ![w] = t]
      BY <1>2, <2>2 DEF ReadRate
    <3>2. Cost(rate) \in Nat
      BY <1>0, <2>2, DivBounds, ClockAssumption DEF Cost
    <3>3. t \in Calls /\ t.pc = "costed" /\ t.cost = Cost(rate) /\ t.at = call[w].at
          /\ t.attempts = call[w].attempts
      BY <1>0, <3>2 DEF Calls
    <3>4. rate <= conf.ceiling
      BY <1>0, FloorBounds DEF Base, RatesBounded, InBounds
    <3>5. conf.ceiling > 0 => Cost(rate) >= Cost(conf.ceiling)
      <4>1. Second \div conf.ceiling <= Second \div rate
        BY <1>0, <2>2, <3>4, DivAntitone, ClockAssumption
      <4>2. conf.ceiling > 0 => Second \div conf.ceiling \in Nat
        BY <1>0, DivBounds, ClockAssumption
      <4> QED
        BY <3>2, <4>1, <4>2 DEF Cost
    <3> HIDE DEF t
    <3>6. GoodCall(t, conf.ceiling, now)
      BY <1>0, <2>0, <3>3, <3>5 DEF GoodCall
    <3> QED
      BY <3>1, <3>3, <3>6
  <2> QED
    BY <2>1, <2>2
<1> QED
  BY <1>1, <1>2

\* A reservation either lets the row through at once or puts its worker to sleep (reserve).
LEMMA ReserveMoves ==
    ASSUME Base, NEW w \in Workers, Reserve(w)
    PROVE  LET due == Due(call[w].at, call[w].cost)
               delay == Delay(due, call[w].at)
           IN  /\ due \in Nat /\ delay \in Nat /\ tat' = due
               /\ due >= tat + call[w].cost /\ due <= delay + Burst + call[w].at
               /\ \E t : /\ call' = [call EXCEPT ![w] = t] /\ GoodCall(t, conf.ceiling, now)
                        /\ \/ /\ delay = 0 /\ t.pc = "send"
                              /\ hist' = [hist EXCEPT !.admitted = @ + 1]
                           \/ /\ delay # 0 /\ t.pc = "sleep" /\ t.wake = now + delay
                              /\ hist' = hist
<1> DEFINE due == Due(call[w].at, call[w].cost)
           delay == Delay(due, call[w].at)
<1>0. /\ call[w] \in Calls /\ now \in Nat /\ GoodCall(call[w], conf.ceiling, now)
      /\ call[w].at \in Nat /\ call[w].cost \in Nat /\ tat \in Nat
  BY CallFacts
<1>1. due \in Nat /\ due >= tat + call[w].cost
  BY <1>0 DEF Due, Most
<1> HIDE DEF due
<1>2. delay \in Nat /\ due <= delay + Burst + call[w].at
  BY <1>0, <1>1, ClockAssumption DEF Delay, Monus, Most, Burst
<1>3. tat' = due
  BY DEF Reserve, due
<1>4. call[w].pc = "costed" /\ call[w].attempts < MaxAttempts
  BY <1>0 DEF Reserve, At, GoodCall
<1>5. CASE delay = 0
  <2>1. call' = [call EXCEPT ![w] = Sending(call[w])] /\ hist' = [hist EXCEPT !.admitted = @ + 1]
    BY <1>5 DEF Reserve, Admit, due
  <2>2. GoodCall(Sending(call[w]), conf.ceiling, now) /\ Sending(call[w]).pc = "send"
    BY <1>0, <1>4, SendingGood
  <2> QED
    BY <1>1, <1>2, <1>3, <1>5, <2>1, <2>2 DEF due
<1>6. CASE delay # 0
  <2> DEFINE t == [Idle EXCEPT !.pc = "sleep", !.kind = call[w].kind, !.wake = now + delay]
  <2>1. call' = [call EXCEPT ![w] = t] /\ hist' = hist
    BY <1>6 DEF Reserve, due
  <2>2. call[w].kind \in {"write", "lookup", "counter"} /\ now + delay \in Nat
    BY <1>0, <1>2 DEF Calls
  <2>3. t \in Calls /\ t.pc = "sleep" /\ t.at = 0 /\ t.attempts = 0 /\ t.wake = now + delay
    BY <2>2 DEF Idle, Calls
  <2> HIDE DEF t
  <2>4. GoodCall(t, conf.ceiling, now)
    BY <1>0, <2>3, ClockAssumption DEF GoodCall
  <2> QED
    BY <1>1, <1>2, <1>3, <1>6, <2>1, <2>3, <2>4 DEF due
<1> QED
  BY <1>5, <1>6

\* A sleeper whose time has come sends its row (acquire).
LEMMA WakeMoves ==
    ASSUME Base, NEW w \in Workers, Wake(w)
    PROVE  \E t : /\ call' = [call EXCEPT ![w] = t] /\ GoodCall(t, conf.ceiling, now)
                 /\ t.pc = "send"
<1>1. /\ call[w] \in Calls /\ now \in Nat /\ call[w].attempts < MaxAttempts
      /\ call' = [call EXCEPT ![w] = Sending(call[w])]
  BY CallFacts DEF Wake, At, GoodCall
<1> QED
  BY <1>1, SendingGood

\* An attempt is reported or returns (retrying).
LEMMA AttemptMoves ==
    ASSUME Base, NEW w \in Workers, Attempt(w)
    PROVE  \E t : /\ call' = [call EXCEPT ![w] = t] /\ GoodCall(t, conf.ceiling, now)
                 /\ t.pc \in {"report", "send", "idle"}
<1>0. /\ call[w] \in Calls /\ now \in Nat /\ GoodCall(call[w], conf.ceiling, now)
      /\ call[w].attempts \in Nat
  BY CallFacts
<1>1. call[w].attempts + 1 <= MaxAttempts /\ MaxAttempts \in Nat
  BY <1>0, ClockAssumption DEF Attempt, At, GoodCall
<1>2. PICK outcome \in {"ok", "overload", "fault"} :
        LET t == [call[w] EXCEPT !.attempts = @ + 1, !.outcome = outcome]
        IN  call' = [call EXCEPT ![w] = IF conf.adaptive /\ t.kind # "lookup"
                                        THEN [t EXCEPT !.pc = "report", !.at = now]
                                        ELSE Returned(t)]
  BY DEF Attempt
<1> DEFINE s == [call[w] EXCEPT !.attempts = @ + 1, !.outcome = outcome]
           u == [s EXCEPT !.pc = "report", !.at = now]
<1>3. s \in Calls /\ s.attempts = call[w].attempts + 1
  <2>1. outcome \in {"ok", "overload", "fault"} /\ call[w].attempts + 1 \in Nat
    BY <1>0, <1>2
  <2> QED
    BY <1>0, <2>1 DEF Calls
<1>4. u \in Calls /\ u.pc = "report" /\ u.at = now /\ u.attempts = call[w].attempts + 1
  BY <1>0, <1>3 DEF Calls
<1>5. call' = [call EXCEPT ![w] = u] \/ call' = [call EXCEPT ![w] = Returned(s)]
  BY <1>2
<1> HIDE DEF s, u
<1>6. GoodCall(u, conf.ceiling, now)
  BY <1>0, <1>1, <1>4 DEF GoodCall
<1>7. GoodCall(Returned(s), conf.ceiling, now) /\ Returned(s).pc \in {"send", "idle"}
  BY <1>0, <1>3, ReturnedGood
<1> QED
  BY <1>4, <1>5, <1>6, <1>7

\* A report that changes nothing, and a stored rate, end the attempt (record_target_signal).
LEMMA ReportMoves ==
    ASSUME Base, NEW w \in Workers, IgnoreSignal(w) \/ Remember(w) \/ Apply(w)
    PROVE  \E t : /\ call' = [call EXCEPT ![w] = t] /\ GoodCall(t, conf.ceiling, now)
                 /\ t.pc \in {"send", "idle"}
<1>1. call[w] \in Calls /\ now \in Nat /\ call' = [call EXCEPT ![w] = Returned(call[w])]
  BY CallFacts DEF IgnoreSignal, Remember, Apply
<1> QED
  BY <1>1, ReturnedGood

-----------------------------------------------------------------------------
(* The windows.                                                             *)

\* The windows a report closes and where the next one starts: never before the last closed one
\* ended, never after the report, and exactly there unless the cap was hit (roll).
LEMMA ClosedWindows ==
    ASSUME Base, NEW w \in Workers, CloseWindow(w)
    PROVE  LET k == Least(Elapsed(w) \div Window, MaxCatchup)
               start == NextStart(k, call[w].at)
           IN  /\ k \in Nat \ {0} /\ k <= MaxCatchup /\ k * Window \in Nat
               /\ start \in Nat /\ start <= now /\ start >= ctl.windowStart + k * Window
               /\ k < MaxCatchup => start = ctl.windowStart + k * Window
<1> DEFINE at == call[w].at
           ws == ctl.windowStart
           e == Elapsed(w)
           k == Least(e \div Window, MaxCatchup)
           start == NextStart(k, at)
<1>1. at \in Nat /\ at <= now /\ ws \in Nat /\ now \in Nat
  BY CallFacts DEF States
<1>2. Window \in Nat \ {0} /\ MaxCatchup \in Nat \ {0}
  BY ClockAssumption DEF Window
<1>3. e \in Nat /\ e = at - ws /\ e >= Window
  <2>1. e = Most(at - ws, 0) /\ ~(e < Window)
    BY DEF CloseWindow, InsideWindow, Elapsed, Monus
  <2> QED
    BY <1>1, <1>2, <2>1 DEF Most
<1>4. start = IF k >= MaxCatchup THEN at ELSE ws + k * Window
  BY DEF NextStart
<1> HIDE DEF at, ws, e
<1> DEFINE q == e \div Window
<1>5. q \in Nat /\ Window * q <= e /\ e < Window * q + Window
  BY <1>2, <1>3, DivBounds
<1>6. k = Least(q, MaxCatchup)
  OBVIOUS
<1> HIDE DEF q, k, start
<1>7. q # 0
  BY <1>2, <1>3, <1>5
<1>8. k \in Nat \ {0} /\ k <= MaxCatchup /\ k <= q
  BY <1>2, <1>5, <1>6, <1>7 DEF Least
<1>9. k * Window \in Nat /\ k * Window <= e
  <2>1. k * Window <= q * Window /\ k * Window \in Nat
    BY <1>2, <1>5, <1>8, ProductMonotone
  <2>2. q * Window = Window * q /\ q * Window \in Nat
    BY <1>2, <1>5
  <2> QED
    BY <1>3, <1>5, <2>1, <2>2
<1>10. /\ start \in Nat /\ start <= now /\ start >= ws + k * Window
       /\ k < MaxCatchup => start = ws + k * Window
  <2> DEFINE kw == k * Window
  <2>1. kw \in Nat /\ kw <= at - ws
    BY <1>3, <1>9
  <2>2. start = IF k >= MaxCatchup THEN at ELSE ws + kw
    BY <1>4
  <2> HIDE DEF kw
  <2>3. /\ start \in Nat /\ start <= now /\ start >= ws + kw
        /\ k < MaxCatchup => start = ws + kw
    BY <1>1, <1>2, <1>8, <2>1, <2>2
  <2> QED
    BY <2>3 DEF kw
<1> QED
  BY <1>8, <1>9, <1>10 DEF k, start, q, e, ws, at

\* A cut and quiet windows keep a rate between the floor and the ceiling (decrease, increase_by).
LEMMA RatesStayBounded ==
    ASSUME Base, NEW r, InBounds(r)
    PROVE  /\ InBounds(Decrease(r))
           /\ \A n \in Nat : InBounds(IncreaseBy(r, n))
<1> DEFINE c == conf.ceiling
           fl == Floor(conf.ceiling)
<1>1. c \in Nat /\ fl \in Nat /\ fl <= c /\ Step(c) \in Nat
  <2>1. c \in Ceilings
    BY DEF Base, StateOK, Confs
  <2> QED
    BY <2>1, FloorBounds, StepType
<1>2. r \in Nat /\ fl <= r /\ r <= c
  BY <1>1 DEF InBounds
<1>3. Decrease(r) = Most(r \div 2, fl)
  BY DEF Decrease, DecreaseDivisor
<1>4. \A n \in Nat : IncreaseBy(r, n) = Least(r + Step(c) * n, c) /\ Step(c) * n \in Nat
  BY <1>1 DEF IncreaseBy
<1> HIDE DEF c, fl
<1>5. r \div 2 \in Nat /\ r \div 2 <= r
  BY <1>2, DivBounds
<1>6. Decrease(r) \in fl..c
  BY <1>1, <1>2, <1>3, <1>5 DEF Most
<1>7. \A n \in Nat : IncreaseBy(r, n) \in fl..c
  <2> SUFFICES ASSUME NEW n \in Nat PROVE IncreaseBy(r, n) \in fl..c
    OBVIOUS
  <2> DEFINE m == Step(c) * n
  <2>1. m \in Nat /\ IncreaseBy(r, n) = Least(r + m, c)
    BY <1>4
  <2> HIDE DEF m
  <2> QED
    BY <1>1, <1>2, <2>1 DEF Least
<1> QED
  BY <1>6, <1>7 DEF InBounds, c, fl

\* So does every report that closes windows (roll).
LEMMA RolledBounded ==
    ASSUME Base, NEW k \in Nat \ {0}
    PROVE  InBounds(Rolled(k))
<1>1. InBounds(ctl.effective) /\ k - 1 \in Nat
  BY DEF Base, RatesBounded
<1>2. InBounds(Decrease(ctl.effective)) /\ InBounds(IncreaseBy(ctl.effective, 1))
  BY <1>1, RatesStayBounded
<1> QED
  BY <1>1, <1>2, RatesStayBounded DEF Rolled

\* A closed window's rate is stored next when it differs (roll).
LEMMA CloseMoves ==
    ASSUME Base, NEW w \in Workers, CloseWindow(w)
    PROVE  \E t : /\ call' = [call EXCEPT ![w] = t] /\ GoodCall(t, conf.ceiling, now)
                 /\ \/ t.pc \in {"send", "idle"} /\ ctl'.effective = ctl.effective
                    \/ t.pc = "apply" /\ t.decided = ctl'.effective
<1> DEFINE k == Least(Elapsed(w) \div Window, MaxCatchup)
           new == Rolled(k)
<1>0. call[w] \in Calls /\ now \in Nat /\ GoodCall(call[w], conf.ceiling, now)
      /\ conf.ceiling \in Nat /\ conf.ceiling \in Ceilings
  BY CallFacts
<1>1. k \in Nat \ {0}
  BY ClosedWindows
<1>2. ctl'.effective = new
  BY DEF CloseWindow
<1>3. new \in Floor(conf.ceiling)..conf.ceiling
  <2> HIDE DEF k
  <2> QED
    BY <1>1, RolledBounded DEF InBounds
<1>4. CASE Changed(ctl.effective, new)
  <2> DEFINE t == [call[w] EXCEPT !.pc = "apply", !.at = 0, !.decided = new]
  <2>1. call' = [call EXCEPT ![w] = t]
    BY <1>4 DEF CloseWindow
  <2>2. new \in Nat
    BY <1>0, <1>3, FloorBounds
  <2> HIDE DEF new
  <2>3. t \in Calls /\ t.pc = "apply" /\ t.at = 0 /\ t.decided = new /\ t.attempts = call[w].attempts
    BY <1>0, <2>2 DEF Calls
  <2> HIDE DEF t
  <2>4. GoodCall(t, conf.ceiling, now)
    BY <1>0, <1>3, <2>3 DEF GoodCall
  <2> QED
    BY <1>2, <2>1, <2>3, <2>4
<1>5. CASE ~Changed(ctl.effective, new)
  <2>1. call' = [call EXCEPT ![w] = Returned(call[w])] /\ new = ctl.effective
    BY <1>5 DEF CloseWindow, Changed
  <2> QED
    BY <1>0, <1>2, <2>1, ReturnedGood
<1> QED
  BY <1>4, <1>5

-----------------------------------------------------------------------------
(* Types, calls and bounds together.                                        *)

\* A run starts at its ceiling, which is not below its floor (RuntimeLimits::new).
LEMMA BaseInit == Init => Base
<1> SUFFICES ASSUME Init PROVE Base
  OBVIOUS
<1>1. PICK c \in Ceilings, a \in BOOLEAN, k \in BOOLEAN :
        /\ conf = [ceiling |-> c, adaptive |-> a, counter |-> k]
        /\ ctl = NewState(c) /\ rate = c
        /\ hist = [admitted |-> 0, cuts |-> 0, cutRate |-> c, cutStart |-> 0, raced |-> FALSE]
  BY DEF Init
<1>2. c \in Nat /\ Floor(c) \in Nat /\ Floor(c) <= c
  BY FloorBounds
<1>3. conf.ceiling = c /\ conf \in Confs
  BY <1>1 DEF Confs
<1>4. ctl \in States /\ ctl.effective = c /\ ctl.windowStart = 0 /\ hist \in Histories
  BY <1>1, <1>2 DEF NewState, States, Histories
<1>5. StateOK
  BY <1>1, <1>2, <1>3, <1>4, ClockAssumption DEF StateOK, Init
<1>6. CallsGood
  <2>1. \A w \in Workers : GoodCall(call[w], conf.ceiling, now)
    BY IdleGood DEF Init
  <2>2. Idle \in Calls
    BY DEF Idle, Calls
  <2> QED
    BY <2>1, <2>2 DEF Init, CallsGood
<1>7. RatesBounded
  BY <1>1, <1>2, <1>3, <1>4 DEF RatesBounded, InBounds
<1> QED
  BY <1>5, <1>6, <1>7 DEF Base

\* What a worker's step does to its call.
LEMMA WorkerMoves ==
    ASSUME Base, NEW w \in Workers, WorkerStep(w)
    PROVE  \E t : call' = [call EXCEPT ![w] = t] /\ GoodCall(t, conf.ceiling, now)
<1>1. CASE Arrive(w) \/ ReadRate(w)
  BY <1>1, WaitMoves
<1>2. CASE Reserve(w)
  BY <1>2, ReserveMoves
<1>3. CASE Wake(w)
  BY <1>3, WakeMoves
<1>4. CASE Attempt(w)
  BY <1>4, AttemptMoves
<1>5. CASE IgnoreSignal(w) \/ Remember(w) \/ Apply(w)
  BY <1>5, ReportMoves
<1>6. CASE CloseWindow(w)
  BY <1>6, CloseMoves
<1> QED
  BY <1>1, <1>2, <1>3, <1>4, <1>5, <1>6 DEF WorkerStep

\* What it does to the rest.
LEMMA WorkerKeepsState ==
    ASSUME Base, NEW w \in Workers, WorkerStep(w)
    PROVE  StateOK' /\ RatesBounded' /\ UNCHANGED <<now, conf>>
<1>0. UNCHANGED <<now, conf>>
  BY DEF WorkerStep, Arrive, ReadRate, Reserve, Wake, Attempt, IgnoreSignal, Remember, CloseWindow, Apply
<1>00. hist \in Histories /\ ctl \in States /\ StateOK /\ RatesBounded
  BY DEF Base, StateOK
<1>1. CASE Arrive(w) \/ ReadRate(w) \/ Attempt(w) \/ IgnoreSignal(w)
  <2>1. UNCHANGED <<ctl, rate, tat, hist>>
    BY <1>1 DEF Arrive, ReadRate, Attempt, IgnoreSignal
  <2> QED
    BY <1>0, <1>00, <2>1 DEF StateOK, RatesBounded, InBounds
<1>2. CASE Reserve(w)
  <2>1. tat' \in Nat /\ (hist' = [hist EXCEPT !.admitted = @ + 1] \/ hist' = hist)
    BY <1>2, ReserveMoves
  <2>2. hist' \in Histories
    BY <1>00, <2>1 DEF Histories
  <2>3. UNCHANGED <<ctl, rate>>
    BY <1>2 DEF Reserve
  <2> QED
    BY <1>0, <1>00, <2>1, <2>2, <2>3 DEF StateOK, RatesBounded, InBounds
<1>3. CASE Wake(w)
  <2>1. UNCHANGED <<ctl, rate, tat>> /\ hist' = [hist EXCEPT !.admitted = @ + 1]
    BY <1>3 DEF Wake, Admit
  <2>2. hist' \in Histories
    BY <1>00, <2>1 DEF Histories
  <2> QED
    BY <1>0, <1>00, <2>1, <2>2 DEF StateOK, RatesBounded, InBounds
<1>4. CASE Remember(w)
  <2>1. UNCHANGED <<rate, tat, hist>> /\ ctl' = [ctl EXCEPT !.overloaded = @ \/ Signal(w)]
    BY <1>4 DEF Remember
  <2>2. ctl' \in States /\ ctl'.windowStart = ctl.windowStart /\ ctl'.effective = ctl.effective
    BY <1>00, <2>1 DEF States, Signal
  <2> QED
    BY <1>0, <1>00, <2>1, <2>2 DEF StateOK, RatesBounded, InBounds
<1>5. CASE CloseWindow(w)
  <2> DEFINE k == Least(Elapsed(w) \div Window, MaxCatchup)
             start == NextStart(k, call[w].at)
  <2>1. k \in Nat \ {0} /\ start \in Nat /\ start <= now
    BY <1>5, ClosedWindows
  <2>2. /\ ctl' = [effective |-> Rolled(k), windowStart |-> start, overloaded |-> Signal(w)]
        /\ UNCHANGED <<rate, tat>>
    BY <1>5 DEF CloseWindow
  <2>3. hist' = [hist EXCEPT
               !.cuts = @ + IF ctl.overloaded THEN 1 ELSE 0,
               !.cutRate = IF ctl.overloaded THEN Decrease(ctl.effective) ELSE @,
               !.cutStart = IF ctl.overloaded THEN ctl.windowStart + Window ELSE @,
               !.raced = @ \/ \E v \in Workers : At(v, "apply")]
    BY <1>5 DEF CloseWindow
  <2> HIDE DEF k, start
  <2>4. InBounds(Rolled(k)) /\ InBounds(Decrease(ctl.effective))
    BY <1>00, <2>1, RolledBounded, RatesStayBounded DEF RatesBounded
  <2>5. \A r : InBounds(r) => r \in Nat
    <3>1. conf.ceiling \in Ceilings
      BY <1>00 DEF StateOK, Confs
    <3> QED
      BY <3>1, FloorBounds DEF InBounds
  <2>6. ctl' \in States /\ ctl'.windowStart = start /\ ctl'.effective = Rolled(k)
    BY <2>1, <2>2, <2>4, <2>5 DEF States, Signal
  <2>7. hist' \in Histories
    <3>1. /\ hist.cuts + (IF ctl.overloaded THEN 1 ELSE 0) \in Nat
          /\ (IF ctl.overloaded THEN Decrease(ctl.effective) ELSE hist.cutRate) \in Nat
          /\ (IF ctl.overloaded THEN ctl.windowStart + Window ELSE hist.cutStart) \in Nat
          /\ (hist.raced \/ \E v \in Workers : At(v, "apply")) \in BOOLEAN
      BY <1>00, <2>4, <2>5, ClockAssumption DEF Histories, States, Window
    <3> QED
      BY <1>00, <2>3, <3>1 DEF Histories
  <2> QED
    BY <1>0, <1>00, <2>1, <2>2, <2>4, <2>6, <2>7 DEF StateOK, RatesBounded, InBounds
<1>6. CASE Apply(w)
  <2>1. UNCHANGED <<ctl, tat, hist>> /\ rate' = call[w].decided
    BY <1>6 DEF Apply
  <2>2. InBounds(rate') /\ rate' \in Nat
    <3>1. GoodCall(call[w], conf.ceiling, now) /\ conf.ceiling \in Ceilings
      BY CallFacts
    <3> QED
      BY <1>6, <2>1, <3>1, FloorBounds DEF Apply, At, GoodCall, InBounds
  <2> QED
    BY <1>0, <1>00, <2>1, <2>2 DEF StateOK, RatesBounded, InBounds
<1> QED
  BY <1>1, <1>2, <1>3, <1>4, <1>5, <1>6 DEF WorkerStep

\* Every step keeps types, calls and bounds.
LEMMA BaseStep == Base /\ [Next]_vars => Base'
<1> SUFFICES ASSUME Base, [Next]_vars PROVE Base'
  OBVIOUS
<1>1. ASSUME NEW w \in Workers, WorkerStep(w) PROVE Base'
  <2>1. PICK t : call' = [call EXCEPT ![w] = t] /\ GoodCall(t, conf.ceiling, now)
    BY <1>1, WorkerMoves
  <2>2. StateOK' /\ RatesBounded' /\ UNCHANGED <<now, conf>>
    BY <1>1, WorkerKeepsState
  <2>3. call \in [Workers -> Calls] /\ \A v \in Workers : GoodCall(call[v], conf.ceiling, now)
    BY DEF Base, CallsGood
  <2>4. t \in Calls
    BY <2>1 DEF GoodCall
  <2>5. \A v \in Workers : call'[v] = IF v = w THEN t ELSE call[v]
    BY <2>1, <2>3
  <2>6. \A v \in Workers : GoodCall(call'[v], conf.ceiling, now)
    BY <2>1, <2>3, <2>5
  <2>7. call' \in [Workers -> Calls]
    BY <2>1, <2>3, <2>4
  <2> QED
    BY <2>2, <2>6, <2>7 DEF Base, CallsGood
<1>2. CASE PassTime
  <2>1. /\ now' = now + Tick /\ now + Tick <= MaxTime /\ now \in 0..MaxTime /\ Tick \in Nat
        /\ UNCHANGED <<conf, ctl, rate, tat, call, hist>> /\ MaxTime \in Nat
    BY <1>2, ClockAssumption DEF PassTime, Base, StateOK
  <2>2. now \in Nat /\ now' \in 0..MaxTime /\ now' \in Nat /\ now <= now'
    BY <2>1
  <2>3. CallsGood'
    <3>1. \A v \in Workers : GoodCall(call[v], conf.ceiling, now')
      BY <2>2, GoodLater DEF Base, CallsGood
    <3> QED
      BY <2>1, <3>1 DEF Base, CallsGood
  <2>4. ctl.windowStart \in Nat
    BY DEF Base, StateOK, States
  <2>5. StateOK' /\ RatesBounded'
    BY <2>1, <2>2, <2>4 DEF Base, StateOK, RatesBounded, InBounds
  <2> QED
    BY <2>3, <2>5 DEF Base
<1>3. CASE UNCHANGED vars
  BY <1>3 DEF vars, Base, StateOK, CallsGood, RatesBounded, InBounds
<1> QED
  BY <1>1, <1>2, <1>3 DEF Next, TimeUp

\* The limiter, the controller and the calls keep their types, no clock reading is ahead of the
\* clock, and no request has more attempts than it may, for any number of workers.
THEOREM RateTypes == Spec => []TypeOK
<1>1. Base => TypeOK
  BY DEF Base, StateOK, CallsGood, GoodCall, TypeOK
<1> QED
  BY <1>1, BaseInit, BaseStep, PTL DEF Spec

-----------------------------------------------------------------------------
(* The rate in force.                                                       *)

\* Unless two decisions overlapped, at most one is waiting to be stored: the controller's.
StoreInv ==
    ~hist.raced =>
        /\ \A v, w \in Pending : v = w
        /\ \A w \in Pending : call[w].decided = ctl.effective
        /\ Pending = {} => rate = ctl.effective

\* Nothing was decided yet.
LEMMA StoreInit == Init => StoreInv
<1> SUFFICES ASSUME Init PROVE StoreInv
  OBVIOUS
<1>1. Pending = {}
  BY DEF Init, Idle, Pending, At
<1>2. rate = ctl.effective
  BY DEF Init, NewState
<1> QED
  BY <1>1, <1>2 DEF StoreInv

\* A decision is stored before the next one is made, or the two overlapped (record_target_signal).
LEMMA StoreStep == Base /\ StoreInv /\ [Next]_vars => StoreInv'
<1> SUFFICES ASSUME Base, StoreInv, [Next]_vars PROVE StoreInv'
  OBVIOUS
<1>0. call \in [Workers -> Calls] /\ hist \in Histories /\ ctl \in States
  BY DEF Base, CallsGood, StateOK
<1>1. ASSUME NEW w \in Workers, CloseWindow(w) PROVE StoreInv'
  <2>1. PICK t : /\ call' = [call EXCEPT ![w] = t]
                 /\ \/ t.pc \in {"send", "idle"} /\ ctl'.effective = ctl.effective
                    \/ t.pc = "apply" /\ t.decided = ctl'.effective
    BY <1>1, CloseMoves
  <2>2. hist'.raced = (hist.raced \/ Pending # {}) /\ rate' = rate
    <3>1. hist'.raced = (hist.raced \/ \E v \in Workers : At(v, "apply"))
      BY <1>0, <1>1 DEF CloseWindow, Histories
    <3> QED
      BY <1>1, <3>1 DEF CloseWindow, Pending
  <2>3. \A v \in Workers : call'[v] = IF v = w THEN t ELSE call[v]
    BY <1>0, <2>1
  <2>4. ASSUME ~hist'.raced PROVE /\ \A v \in Pending' : v = w /\ call'[v].decided = ctl'.effective
                                  /\ Pending' = {} => rate' = ctl'.effective
    <3>1. Pending = {} /\ rate = ctl.effective
      BY <2>2, <2>4 DEF StoreInv
    <3>2. \A v \in Pending' : v = w /\ t.pc = "apply"
      BY <2>3, <3>1 DEF Pending, At
    <3>3. t.pc = "apply" => w \in Pending'
      BY <2>3 DEF Pending, At
    <3> QED
      BY <2>1, <2>2, <2>3, <3>1, <3>2, <3>3
  <2> QED
    BY <2>4 DEF StoreInv
<1>2. ASSUME NEW w \in Workers, Apply(w) PROVE StoreInv'
  <2>1. PICK t : call' = [call EXCEPT ![w] = t] /\ t.pc \in {"send", "idle"}
    BY <1>2, ReportMoves
  <2>2. rate' = call[w].decided /\ UNCHANGED <<hist, ctl>> /\ w \in Pending
    BY <1>2 DEF Apply, Pending
  <2>3. \A v \in Workers : call'[v] = IF v = w THEN t ELSE call[v]
    BY <1>0, <2>1
  <2>4. Pending' = Pending \ {w}
    BY <2>1, <2>3 DEF Pending, At
  <2> QED
    BY <2>2, <2>4 DEF StoreInv
<1>3. ASSUME NEW w \in Workers, WorkerStep(w), ~CloseWindow(w), ~Apply(w) PROVE StoreInv'
  <2>1. call[w].pc # "apply"
    BY <1>3 DEF WorkerStep, Arrive, ReadRate, Reserve, Wake, Attempt, IgnoreSignal, Remember, At
  <2>2. PICK t : call' = [call EXCEPT ![w] = t] /\ t.pc # "apply"
    <3>1. CASE Arrive(w) \/ ReadRate(w)
      BY <3>1, WaitMoves
    <3>2. CASE Reserve(w)
      BY <3>2, ReserveMoves
    <3>3. CASE Wake(w)
      BY <3>3, WakeMoves
    <3>4. CASE Attempt(w)
      BY <3>4, AttemptMoves
    <3>5. CASE IgnoreSignal(w) \/ Remember(w)
      BY <3>5, ReportMoves
    <3> QED
      BY <1>3, <3>1, <3>2, <3>3, <3>4, <3>5 DEF WorkerStep
  <2>3. rate' = rate /\ ctl'.effective = ctl.effective /\ hist'.raced = hist.raced
    <3>1. rate' = rate /\ ctl'.effective = ctl.effective
      BY <1>0, <1>3 DEF WorkerStep, Arrive, ReadRate, Reserve, Wake, Attempt, IgnoreSignal, Remember,
                        States
    <3>2. hist'.raced = hist.raced
      BY <1>0, <1>3 DEF WorkerStep, Arrive, ReadRate, Reserve, Wake, Attempt, IgnoreSignal, Remember,
                        Admit, Histories
    <3> QED
      BY <3>1, <3>2
  <2>4. \A v \in Workers : call'[v] = IF v = w THEN t ELSE call[v]
    BY <1>0, <2>2
  <2>5. Pending' = Pending /\ \A v \in Pending : call'[v] = call[v]
    BY <2>1, <2>2, <2>4 DEF Pending, At
  <2> QED
    BY <2>3, <2>5 DEF StoreInv
<1>4. CASE PassTime \/ UNCHANGED vars
  BY <1>4 DEF PassTime, vars, StoreInv, Pending, At
<1> QED
  BY <1>1, <1>2, <1>3, <1>4 DEF Next, TimeUp

\* The rates stay between floor and ceiling, a limited run stays limited, and a decided rate is the
\* one in force once it is stored, for any number of workers reporting in any order (roll,
\* record_target_signal).
THEOREM RateStaysInForce == Spec => []RateInForce
<1>1. Base /\ StoreInv => RateInForce
  <2> SUFFICES ASSUME Base, StoreInv PROVE RateInForce
    OBVIOUS
  <2>1. conf.ceiling > 0 => Floor(conf.ceiling) > 0
    BY FloorBounds DEF Base, StateOK, Confs
  <2>2. \A w \in Pending : InBounds(call[w].decided)
    BY DEF Base, CallsGood, GoodCall, Pending, At, InBounds
  <2> QED
    BY <2>1, <2>2 DEF RateInForce, Base, RatesBounded, StoreInv
<1> QED
  BY <1>1, BaseInit, BaseStep, StoreInit, StoreStep, PTL DEF Spec

-----------------------------------------------------------------------------
(* Pacing.                                                                  *)

\* Every admitted or sleeping row has moved the arrival time by what a row costs at the ceiling, and
\* those that are admitted or will be awake at some moment fit into the time until then.
Sleepers == {w \in Workers : At(w, "sleep")}
AwakeAt(x) == {w \in Sleepers : call[w].wake <= x}
Reserved == hist.admitted + Cardinality(Sleepers)
AdmittedBy(x) == hist.admitted + Cardinality(AwakeAt(x))
PaceInv ==
    conf.ceiling > 0 =>
        /\ Reserved * Cost(conf.ceiling) <= tat
        /\ \A x \in Nat : now <= x => AdmittedBy(x) * Cost(conf.ceiling) <= x + Burst

\* The sleepers can be counted, and so can those that will be awake.
LEMMA SleepersFinite ==
    ASSUME Base, NEW x
    PROVE  /\ IsFiniteSet(Sleepers) /\ Cardinality(Sleepers) \in Nat
           /\ IsFiniteSet(AwakeAt(x)) /\ Cardinality(AwakeAt(x)) \in Nat
           /\ Cardinality(AwakeAt(x)) <= Cardinality(Sleepers)
           /\ hist.admitted \in Nat /\ Reserved \in Nat /\ AdmittedBy(x) \in Nat
           /\ AdmittedBy(x) <= Reserved
<1>1. Sleepers \in SUBSET Workers /\ AwakeAt(x) \in SUBSET Sleepers
  BY DEF Sleepers, AwakeAt
<1>2. IsFiniteSet(Sleepers)
  BY <1>1, WorkersFinite, FS_Subset
<1>3. IsFiniteSet(AwakeAt(x)) /\ Cardinality(AwakeAt(x)) <= Cardinality(Sleepers)
  BY <1>1, <1>2, FS_Subset
<1>4. hist.admitted \in Nat /\ Cardinality(Sleepers) \in Nat /\ Cardinality(AwakeAt(x)) \in Nat
  BY <1>2, <1>3, FS_CardinalityType DEF Base, StateOK, Histories
<1> QED
  BY <1>2, <1>3, <1>4 DEF Reserved, AdmittedBy

\* No row was admitted yet.
LEMMA PaceInit == Init => PaceInv
<1> SUFFICES ASSUME Init, conf.ceiling > 0
             PROVE  /\ Reserved * Cost(conf.ceiling) <= tat
                    /\ \A x \in Nat : now <= x => AdmittedBy(x) * Cost(conf.ceiling) <= x + Burst
  BY DEF PaceInv
<1>1. Sleepers = {} /\ \A x : AwakeAt(x) = {}
  BY DEF Init, Idle, Sleepers, AwakeAt, At
<1>2. Reserved = 0 /\ \A x : AdmittedBy(x) = 0
  BY <1>1, FS_EmptySet DEF Init, Reserved, AdmittedBy
<1>3. Cost(conf.ceiling) \in Nat
  <2>1. conf.ceiling \in Nat
    BY CeilingsAssumption DEF Init
  <2> QED
    BY <2>1, DivBounds, ClockAssumption DEF Cost
<1> QED
  BY <1>2, <1>3, ClockAssumption DEF Init, Burst

\* A reservation moves the arrival time by at least one row at the ceiling, and its row is let
\* through no earlier than one burst before that time (reserve).
LEMMA ReserveKeepsPace ==
    ASSUME Base, PaceInv, NEW w \in Workers, Reserve(w), conf.ceiling > 0
    PROVE  /\ Reserved' * Cost(conf.ceiling) <= tat'
           /\ \A x \in Nat : now <= x => AdmittedBy(x)' * Cost(conf.ceiling) <= x + Burst
<1> DEFINE C == Cost(conf.ceiling)
           due == Due(call[w].at, call[w].cost)
           delay == Delay(due, call[w].at)
<1>0. /\ call \in [Workers -> Calls] /\ call[w].at \in Nat /\ call[w].at <= now /\ now \in Nat
      /\ call[w].cost \in Nat /\ tat \in Nat /\ conf.ceiling \in Nat /\ hist \in Histories
      /\ GoodCall(call[w], conf.ceiling, now)
  BY CallFacts
<1>1. C \in Nat /\ call[w].cost >= C /\ call[w].pc = "costed"
  BY <1>0, DivBounds, ClockAssumption DEF Cost, Reserve, At, GoodCall
<1>2. /\ due \in Nat /\ delay \in Nat /\ tat' = due
      /\ due >= tat + call[w].cost /\ due <= delay + Burst + call[w].at
  BY ReserveMoves
<1>3. PICK t : /\ call' = [call EXCEPT ![w] = t]
               /\ \/ /\ delay = 0 /\ t.pc = "send"
                     /\ hist' = [hist EXCEPT !.admitted = @ + 1]
                  \/ /\ delay # 0 /\ t.pc = "sleep" /\ t.wake = now + delay
                     /\ hist' = hist
  BY ReserveMoves
<1> HIDE DEF due, delay, C
<1>4. Burst \in Nat
  BY ClockAssumption DEF Burst
<1>5. \A v \in Workers : call'[v] = IF v = w THEN t ELSE call[v]
  BY <1>0, <1>3
<1>6. w \notin Sleepers
  BY <1>1 DEF Sleepers, At
<1>7. Reserved' = Reserved + 1 /\ \A x \in Nat : AdmittedBy(x)' \in {AdmittedBy(x), AdmittedBy(x) + 1}
  <2>1. CASE delay = 0
    <3>1. Sleepers' = Sleepers
      BY <1>3, <1>5, <1>6, <2>1 DEF Sleepers, At
    <3>2. \A x : AwakeAt(x)' = AwakeAt(x)
      BY <1>5, <1>6, <3>1 DEF AwakeAt, Sleepers
    <3>3. hist'.admitted = hist.admitted + 1
      BY <1>0, <1>3, <2>1 DEF Histories
    <3> QED
      BY <3>1, <3>2, <3>3, SleepersFinite DEF Reserved, AdmittedBy
  <2>2. CASE delay # 0
    <3>1. Sleepers' = Sleepers \cup {w} /\ hist' = hist
      BY <1>3, <1>5, <1>6, <2>2 DEF Sleepers, At
    <3>2. Cardinality(Sleepers \cup {w}) = Cardinality(Sleepers) + 1
      BY <1>6, SleepersFinite, FS_AddElement
    <3>3. ASSUME NEW x \in Nat PROVE AdmittedBy(x)' \in {AdmittedBy(x), AdmittedBy(x) + 1}
      <4>1. AwakeAt(x)' = AwakeAt(x) \/ AwakeAt(x)' = AwakeAt(x) \cup {w}
        BY <1>5, <1>6, <3>1 DEF AwakeAt, Sleepers
      <4>2. w \notin AwakeAt(x)
        BY <1>6 DEF AwakeAt
      <4>3. Cardinality(AwakeAt(x) \cup {w}) = Cardinality(AwakeAt(x)) + 1
        BY <4>2, SleepersFinite, FS_AddElement
      <4>4. hist.admitted \in Nat /\ Cardinality(AwakeAt(x)) \in Nat
        BY SleepersFinite
      <4>5. CASE AwakeAt(x)' = AwakeAt(x)
        BY <3>1, <4>5 DEF AdmittedBy
      <4>6. CASE AwakeAt(x)' = AwakeAt(x) \cup {w}
        <5>1. AdmittedBy(x)' = hist.admitted + (Cardinality(AwakeAt(x)) + 1)
          BY <3>1, <4>3, <4>6 DEF AdmittedBy
        <5> QED
          BY <4>4, <5>1 DEF AdmittedBy
      <4> QED
        BY <4>1, <4>5, <4>6
    <3> QED
      BY <3>1, <3>2, <3>3, SleepersFinite DEF Reserved
  <2> QED
    BY <2>1, <2>2
<1>8. Reserved \in Nat /\ Reserved * C <= tat /\ Reserved * C \in Nat
  BY <1>1, SleepersFinite DEF PaceInv, C
<1>9. (Reserved + 1) * C <= due
  <2>1. (Reserved + 1) * C = Reserved * C + C
    BY <1>1, <1>8
  <2> DEFINE R == Reserved * C
  <2>2. R \in Nat /\ R <= tat
    BY <1>8
  <2> HIDE DEF R
  <2>3. R + C <= due
    BY <1>0, <1>1, <1>2, <2>2
  <2> QED
    BY <2>1, <2>3 DEF R
<1>10. ASSUME NEW x \in Nat, now <= x PROVE AdmittedBy(x)' * C <= x + Burst
  <2>1. AdmittedBy(x) \in Nat /\ AdmittedBy(x) <= Reserved /\ AdmittedBy(x) * C <= x + Burst
    BY <1>10, SleepersFinite DEF PaceInv, C
  <2>2. CASE AdmittedBy(x)' = AdmittedBy(x)
    BY <2>1, <2>2
  <2>3. CASE AdmittedBy(x)' = AdmittedBy(x) + 1
    <3>1. (AdmittedBy(x) + 1) * C <= (Reserved + 1) * C /\ (AdmittedBy(x) + 1) * C \in Nat
      BY <1>1, <1>8, <2>1, ProductMonotone
    <3>2. delay = 0 \/ now + delay <= x
      <4> SUFFICES ASSUME delay # 0, ~(now + delay <= x) PROVE FALSE
        OBVIOUS
      <4>1. Sleepers' = Sleepers \cup {w} /\ hist' = hist /\ t.wake = now + delay
        BY <1>3, <1>5, <1>6 DEF Sleepers, At
      <4>2. AwakeAt(x)' = AwakeAt(x)
        BY <1>5, <1>6, <4>1 DEF AwakeAt, Sleepers
      <4>3. AdmittedBy(x)' = AdmittedBy(x)
        BY <4>1, <4>2 DEF AdmittedBy
      <4> QED
        BY <2>1, <2>3, <4>3
    <3>3. due <= x + Burst
      BY <1>0, <1>2, <1>4, <1>10, <3>2
    <3> DEFINE P == (AdmittedBy(x) + 1) * C
               Q == (Reserved + 1) * C
    <3>4. P \in Nat /\ P <= Q /\ Q <= due /\ Q \in Nat
      BY <1>1, <1>8, <1>9, <3>1
    <3> HIDE DEF P, Q
    <3>5. P <= x + Burst
      BY <1>2, <1>4, <3>3, <3>4
    <3> QED
      BY <2>3, <3>5 DEF P
  <2> QED
    BY <1>7, <2>2, <2>3
<1> QED
  BY <1>2, <1>7, <1>9, <1>10 DEF C

\* A sleeper that wakes is admitted instead of asleep (acquire).
LEMMA WakeKeepsPace ==
    ASSUME Base, NEW w \in Workers, Wake(w)
    PROVE  Reserved' = Reserved /\ \A x \in Nat : now <= x => AdmittedBy(x)' = AdmittedBy(x)
<1>0. /\ call \in [Workers -> Calls] /\ call[w].wake \in Nat /\ now \in Nat /\ hist \in Histories
  BY CallFacts
<1>1. PICK t : call' = [call EXCEPT ![w] = t] /\ t.pc = "send"
  BY WakeMoves
<1>2. hist'.admitted = hist.admitted + 1 /\ w \in Sleepers /\ call[w].wake <= now
  BY <1>0 DEF Wake, Admit, Histories, Sleepers
<1>3. \A v \in Workers : call'[v] = IF v = w THEN t ELSE call[v]
  BY <1>0, <1>1
<1>4. Sleepers' = Sleepers \ {w}
  BY <1>1, <1>3 DEF Sleepers, At
<1>5. Cardinality(Sleepers \ {w}) = Cardinality(Sleepers) - 1
  BY <1>2, SleepersFinite, FS_RemoveElement
<1>6. ASSUME NEW x \in Nat, now <= x PROVE AdmittedBy(x)' = AdmittedBy(x)
  <2>1. AwakeAt(x)' = AwakeAt(x) \ {w}
    BY <1>3, <1>4 DEF AwakeAt, Sleepers
  <2>2. w \in AwakeAt(x)
    BY <1>0, <1>2, <1>6 DEF AwakeAt
  <2>3. Cardinality(AwakeAt(x) \ {w}) = Cardinality(AwakeAt(x)) - 1
    BY <2>2, SleepersFinite, FS_RemoveElement
  <2> QED
    BY <1>2, <2>1, <2>3, SleepersFinite DEF AdmittedBy
<1> QED
  BY <1>2, <1>4, <1>5, <1>6, SleepersFinite DEF Reserved

\* Every step keeps the pace.
LEMMA PaceStep == Base /\ PaceInv /\ [Next]_vars => PaceInv'
<1> SUFFICES ASSUME Base, PaceInv, [Next]_vars PROVE PaceInv'
  OBVIOUS
<1>0. call \in [Workers -> Calls] /\ hist \in Histories
  BY DEF Base, CallsGood, StateOK
<1>1. ASSUME NEW w \in Workers, Reserve(w) PROVE PaceInv'
  <2>1. UNCHANGED <<now, conf>>
    BY <1>1 DEF Reserve
  <2> QED
    BY <1>1, <2>1, ReserveKeepsPace DEF PaceInv
<1>2. ASSUME NEW w \in Workers, Wake(w) PROVE PaceInv'
  <2>1. UNCHANGED <<now, conf, tat>>
    BY <1>2 DEF Wake
  <2> QED
    BY <1>2, <2>1, WakeKeepsPace DEF PaceInv
<1>3. ASSUME NEW w \in Workers, WorkerStep(w), ~Reserve(w), ~Wake(w) PROVE PaceInv'
  <2>1. call[w].pc # "sleep" /\ UNCHANGED <<now, conf, tat>>
    BY <1>3 DEF WorkerStep, Arrive, ReadRate, Attempt, IgnoreSignal, Remember, CloseWindow, Apply, At
  <2>2. PICK t : call' = [call EXCEPT ![w] = t] /\ t.pc # "sleep"
    <3>1. CASE Arrive(w) \/ ReadRate(w)
      BY <3>1, WaitMoves
    <3>2. CASE Attempt(w)
      BY <3>2, AttemptMoves
    <3>3. CASE IgnoreSignal(w) \/ Remember(w) \/ Apply(w)
      BY <3>3, ReportMoves
    <3>4. CASE CloseWindow(w)
      BY <3>4, CloseMoves
    <3> QED
      BY <1>3, <3>1, <3>2, <3>3, <3>4 DEF WorkerStep
  <2>3. hist'.admitted = hist.admitted
    <3>1. CASE CloseWindow(w)
      BY <1>0, <3>1 DEF CloseWindow, Histories
    <3>2. CASE ~CloseWindow(w)
      BY <1>3, <3>2 DEF WorkerStep, Arrive, ReadRate, Attempt, IgnoreSignal, Remember, Apply
    <3> QED
      BY <3>1, <3>2
  <2>4. \A v \in Workers : call'[v] = IF v = w THEN t ELSE call[v]
    BY <1>0, <2>2
  <2>5. Sleepers' = Sleepers /\ \A v \in Sleepers : call'[v] = call[v]
    BY <2>1, <2>2, <2>4 DEF Sleepers, At
  <2>6. \A x : AwakeAt(x)' = AwakeAt(x)
    BY <2>5 DEF AwakeAt
  <2> QED
    BY <2>1, <2>3, <2>5, <2>6 DEF PaceInv, Reserved, AdmittedBy
<1>4. CASE PassTime
  <2>1. UNCHANGED <<conf, tat, call, hist>> /\ now' = now + Tick
    BY <1>4 DEF PassTime
  <2>2. Sleepers' = Sleepers /\ \A x : AwakeAt(x)' = AwakeAt(x)
    BY <2>1 DEF Sleepers, AwakeAt, At
  <2>3. \A x \in Nat : now' <= x => now <= x
    BY <2>1, ClockAssumption DEF Base, StateOK
  <2> QED
    BY <2>1, <2>2, <2>3 DEF PaceInv, Reserved, AdmittedBy
<1>5. CASE UNCHANGED vars
  BY <1>5 DEF vars, PaceInv, Reserved, AdmittedBy, Sleepers, AwakeAt, At
<1> QED
  BY <1>1, <1>2, <1>3, <1>4, <1>5 DEF Next, TimeUp

\* No schedule of arrivals, stale clock readings and rate changes lets more rows through than the
\* ceiling allows for the time that has passed, plus one burst (reserve, acquire).
THEOREM RowsArePaced == Spec => []PacedAtCeiling
<1>1. Base /\ PaceInv => PacedAtCeiling
  <2> SUFFICES ASSUME Base, PaceInv, conf.ceiling > 0
               PROVE  hist.admitted * Cost(conf.ceiling) <= now + Burst
    BY DEF PacedAtCeiling
  <2> DEFINE C == Cost(conf.ceiling)
  <2>1. now \in Nat /\ conf.ceiling \in Nat /\ Burst \in Nat
    <3>1. now \in Nat /\ conf \in Confs
      BY DEF Base, StateOK
    <3>2. conf.ceiling \in Nat
      BY <3>1, CeilingsAssumption DEF Confs
    <3> QED
      BY <3>1, <3>2, ClockAssumption DEF Burst
  <2>2. C \in Nat
    BY <2>1, DivBounds, ClockAssumption DEF Cost
  <2>3. AdmittedBy(now) * C <= now + Burst
    BY <2>1 DEF PaceInv
  <2>4. hist.admitted \in Nat /\ AdmittedBy(now) \in Nat /\ hist.admitted <= AdmittedBy(now)
    BY SleepersFinite DEF AdmittedBy
  <2> HIDE DEF C
  <2>5. hist.admitted * C <= AdmittedBy(now) * C
    BY <2>2, <2>4, ProductMonotone
  <2>6. hist.admitted * C \in Nat /\ AdmittedBy(now) * C \in Nat
    BY <2>2, <2>4
  <2>7. hist.admitted * C <= now + Burst
    BY <2>1, <2>3, <2>5, <2>6
  <2> QED
    BY <2>7 DEF C
<1> QED
  BY <1>1, BaseInit, BaseStep, PaceInit, PaceStep, PTL DEF Spec

-----------------------------------------------------------------------------
(* The rate and the windows.                                                *)

\* The windows between two starts, when the later one comes k windows after the earlier or later.
LEMMA WindowsBetween ==
    ASSUME NEW W \in Nat \ {0}, NEW cs \in Nat, NEW ws \in Nat, NEW s \in Nat, NEW k \in Nat,
           cs <= ws, s >= ws + k * W
    PROVE  /\ (ws - cs) \div W \in Nat /\ (s - cs) \div W \in Nat
           /\ (s - cs) \div W >= ((ws - cs) \div W) + k
           /\ s = ws + k * W => (s - cs) \div W = ((ws - cs) \div W) + k
<1> DEFINE a == ws - cs
           kw == k * W
           b == s - cs
<1>1. a \in Nat /\ kw \in Nat
  OBVIOUS
<1>2. (a + kw) \div W = (a \div W) + k
  BY <1>1, DivAdds
<1>3. b \in Nat /\ a + kw \in Nat /\ a + kw <= b /\ (s = ws + kw => b = a + kw)
  <2>1. s >= ws + kw
    OBVIOUS
  <2> HIDE DEF kw
  <2> QED
    BY <1>1, <2>1
<1> HIDE DEF a, b, kw
<1>4. (a + kw) \div W <= b \div W
  BY <1>3, DivMonotone
<1>5. a \div W \in Nat /\ b \div W \in Nat
  BY <1>1, <1>3, DivBounds
<1>6. /\ b \div W >= (a \div W) + k
      /\ s = ws + kw => b \div W = (a \div W) + k
  BY <1>2, <1>3, <1>4, <1>5
<1> QED
  BY <1>5, <1>6 DEF a, b, kw

\* Windows given back one by one or at once: the same rate (increase_by).
LEMMA GivenBack ==
    ASSUME NEW c \in Nat, NEW st \in Nat, NEW r \in Nat, NEW k \in Nat \ {0}
    PROVE  Least(Least(r + st * 1, c) + st * (k - 1), c) = Least(r + st * k, c)
<1> DEFINE m == st * (k - 1)
<1>1. m \in Nat
  <2>1. k - 1 \in Nat
    OBVIOUS
  <2> QED
    BY <2>1
<1>2. st * k = st + m /\ st * 1 = st
  OBVIOUS
<1> HIDE DEF m
<1>3. Least(Least(r + st, c) + m, c) = Least(r + (st + m), c)
  BY <1>1 DEF Least
<1> QED
  BY <1>2, <1>3 DEF m

\* From a rate that n windows have brought back, k more bring it to where n2 windows would: exactly
\* k further on, or as far as the cap lets them, when both have reached the ceiling.
Back(c, st, R, n) == Least(c, R + st * n)
Further(c, st, r, k) == Least(r + st * k, c)
Catches(c, st, R, n, n2, k) ==
    /\ {c, st, R, n, n2, k} \subseteq Nat
    /\ n2 >= n + k
    /\ n2 = n + k \/ Back(c, st, R, n) + st * k >= c

\* Then both rates are the same.
LEMMA BroughtBack ==
    ASSUME NEW c, NEW st, NEW R, NEW n, NEW n2, NEW k, Catches(c, st, R, n, n2, k)
    PROVE  Further(c, st, Back(c, st, R, n), k) = Back(c, st, R, n2)
<1> DEFINE x == st * n
           y == st * k
           z == st * n2
<1>0. /\ c \in Nat /\ st \in Nat /\ R \in Nat /\ n \in Nat /\ n2 \in Nat /\ k \in Nat
      /\ n2 >= n + k
  BY DEF Catches
<1>1. x \in Nat /\ y \in Nat /\ z \in Nat
  BY <1>0
<1>2. st * (n + k) = x + y
  BY <1>0
<1>3. z >= x + y
  <2>1. st * (n + k) <= st * n2
    BY <1>0
  <2> QED
    BY <1>2, <2>1
<1>4. n2 = n + k => z = x + y
  BY <1>2
<1>5. z = x + y \/ Least(c, R + x) + y >= c
  BY <1>4 DEF Catches, Back
<1> HIDE DEF x, y, z
<1>6. Least(Least(c, R + x) + y, c) = Least(c, R + z)
  BY <1>0, <1>1, <1>3, <1>5 DEF Least
<1> QED
  BY <1>6 DEF x, y, z, Back, Further

\* The cap is only hit when the windows before it reach the ceiling from any rate in bounds.
LEMMA CapReachesCeiling ==
    ASSUME NEW c \in Ceilings, NEW r \in Nat, Floor(c) <= r, NEW k \in Nat,
           k >= MaxCatchup - 1
    PROVE  r + Step(c) * k >= c
<1>1. /\ c \in Nat /\ Floor(c) \in Nat /\ Step(c) \in Nat /\ MaxCatchup - 1 \in Nat
  BY FloorBounds, StepType, ClockAssumption
<1>2. Floor(c) + (MaxCatchup - 1) * Step(c) >= c
  BY CatchupReachesCeiling
<1> DEFINE m == MaxCatchup - 1
           st == Step(c)
           fl == Floor(c)
<1> HIDE DEF m, st, fl
<1>3. m * st <= k * st /\ m * st \in Nat
  BY <1>1, ProductMonotone DEF m, st
<1>4. k * st = st * k /\ k * st \in Nat
  BY <1>1 DEF st
<1> DEFINE p == m * st
           q == k * st
<1>5. p \in Nat /\ q \in Nat /\ p <= q /\ fl + p >= c /\ fl \in Nat /\ fl <= r /\ c \in Nat
  BY <1>1, <1>2, <1>3, <1>4 DEF m, st, fl
<1> HIDE DEF p, q
<1>6. r + q >= c
  BY <1>5
<1> QED
  BY <1>4, <1>6 DEF q, st

\* The cut starts no later than the open window.
WindowInv == RateFollowsWindows /\ hist.cutStart <= ctl.windowStart

\* The rate starts at the ceiling.
LEMMA WindowInit == Init => WindowInv
<1> SUFFICES ASSUME Init PROVE WindowInv
  OBVIOUS
<1>1. PICK c \in Ceilings :
        /\ conf.ceiling = c /\ ctl.effective = c /\ ctl.windowStart = 0
        /\ hist.cuts = 0 /\ hist.cutRate = c /\ hist.cutStart = 0
  BY DEF Init, NewState
<1>2. c \in Nat /\ Step(c) \in Nat /\ Window \in Nat \ {0}
  BY StepType, CeilingsAssumption, ClockAssumption DEF Window
<1>3. (0 - 0) \div Window = 0
  BY <1>2
<1>4. Least(c, c + Step(c) * 0) = c /\ 0 * Window <= 0
  BY <1>2 DEF Least
<1> QED
  BY <1>1, <1>3, <1>4 DEF WindowInv, RateFollowsWindows

\* A report that closes windows moves the rate by exactly what they are worth (roll).
LEMMA CloseKeepsWindows ==
    ASSUME Base, WindowInv, NEW w \in Workers, CloseWindow(w)
    PROVE  WindowInv'
<1> DEFINE c == conf.ceiling
           st == Step(conf.ceiling)
           k == Least(Elapsed(w) \div Window, MaxCatchup)
           s == NextStart(k, call[w].at)
           ws == ctl.windowStart
           eff == ctl.effective
           cs == hist.cutStart
           R == hist.cutRate
<1>1. /\ k \in Nat \ {0} /\ k <= MaxCatchup /\ k * Window \in Nat /\ s \in Nat
      /\ s >= ws + k * Window /\ (k < MaxCatchup => s = ws + k * Window)
  BY ClosedWindows
<1>2. /\ ctl'.effective = Rolled(k) /\ ctl'.windowStart = s /\ conf' = conf /\ c > 0
  BY DEF CloseWindow
<1>3. /\ hist'.cuts = hist.cuts + IF ctl.overloaded THEN 1 ELSE 0
      /\ hist'.cutRate = IF ctl.overloaded THEN Decrease(eff) ELSE R
      /\ hist'.cutStart = IF ctl.overloaded THEN ws + Window ELSE cs
  <2>1. hist \in Histories
    BY DEF Base, StateOK
  <2> QED
    BY <2>1 DEF CloseWindow, Histories
<1>4. /\ ws \in Nat /\ eff \in Nat /\ cs \in Nat /\ R \in Nat /\ hist.cuts \in Nat
      /\ c \in Ceilings /\ c \in Nat /\ st \in Nat /\ Floor(c) \in Nat /\ Floor(c) <= c
      /\ Window \in Nat \ {0} /\ MaxCatchup \in Nat \ {0} /\ Floor(c) <= eff
  <2>1. ctl \in States /\ hist \in Histories /\ conf \in Confs /\ InBounds(eff)
    BY DEF Base, StateOK, RatesBounded
  <2>2. c \in Ceilings /\ ws \in Nat /\ eff \in Nat /\ cs \in Nat /\ R \in Nat /\ hist.cuts \in Nat
    BY <2>1 DEF States, Histories, Confs
  <2>3. c \in Nat /\ st \in Nat /\ Floor(c) \in Nat /\ Floor(c) <= c
    BY <2>2, FloorBounds, StepType
  <2>4. Floor(c) <= eff
    BY <2>1, <2>2, <2>3 DEF InBounds
  <2> QED
    BY <2>2, <2>3, <2>4, ClockAssumption DEF Window
<1>5. /\ cs <= ws /\ hist.cuts * Window <= ws
      /\ eff = Least(c, R + st * ((ws - cs) \div Window))
  BY <1>2 DEF WindowInv, RateFollowsWindows
<1>6. Window <= k * Window
  <2>1. 1 * Window <= k * Window
    BY <1>1, <1>4, ProductMonotone
  <2> QED
    BY <1>4, <2>1
<1>7. k - 1 \in Nat /\ (k >= MaxCatchup \/ s = ws + k * Window)
  BY <1>1, <1>4
<1>8. CASE ~ctl.overloaded
  <2>1. Rolled(k) = Least(Least(eff + st * 1, c) + st * (k - 1), c)
    BY <1>8 DEF Rolled, IncreaseBy
  <2>2. hist'.cuts = hist.cuts /\ hist'.cutRate = R /\ hist'.cutStart = cs
    BY <1>3, <1>4, <1>8
  <2> DEFINE n == (ws - cs) \div Window
             n2 == (s - cs) \div Window
  <2> HIDE DEF c, st, k, s, ws, eff, cs, R
  <2>3. n \in Nat /\ n2 \in Nat /\ n2 >= n + k /\ (s = ws + k * Window => n2 = n + k)
    BY <1>1, <1>4, <1>5, WindowsBetween
  <2>4. Rolled(k) = Least(eff + st * k, c)
    <3>1. c \in Nat /\ st \in Nat /\ eff \in Nat /\ k \in Nat \ {0}
      BY <1>1, <1>4
    <3>2. Least(Least(eff + st * 1, c) + st * (k - 1), c) = Least(eff + st * k, c)
      BY <3>1, GivenBack, Zenon
    <3> QED
      BY <2>1, <3>2, Zenon
  <2>5. k >= MaxCatchup => eff + st * k >= c
    BY <1>1, <1>4, CapReachesCeiling DEF st, c
  <2>6. eff = Least(c, R + st * n)
    BY <1>5
  <2> HIDE DEF n, n2
  <2>7. Catches(c, st, R, n, n2, k)
    <3>1. n2 = n + k \/ Back(c, st, R, n) + st * k >= c
      BY <1>7, <2>3, <2>5, <2>6 DEF Back
    <3>2. {c, st, R, n, n2, k} \subseteq Nat /\ n2 >= n + k
      BY <1>1, <1>4, <2>3
    <3> QED
      BY <3>1, <3>2 DEF Catches
  <2>8. Further(c, st, Back(c, st, R, n), k) = Back(c, st, R, n2)
    BY <2>7, BroughtBack
  <2>9. Rolled(k) = Least(c, R + st * n2)
    BY <2>4, <2>6, <2>8 DEF Back, Further
  <2>10. hist.cuts * Window <= s /\ cs <= s
    BY <1>1, <1>4, <1>5
  <2> QED
    BY <1>2, <2>2, <2>9, <2>10 DEF WindowInv, RateFollowsWindows, c, st, k, s, ws, eff, cs, R, n2
<1>9. CASE ctl.overloaded
  <2> DEFINE D == Decrease(ctl.effective)
             d == ws + Window
             n2 == (s - d) \div Window
  <2>1. Rolled(k) = Least(D + st * (k - 1), c)
    BY <1>9 DEF Rolled, IncreaseBy
  <2>2. hist'.cuts = hist.cuts + 1 /\ hist'.cutRate = D /\ hist'.cutStart = d
    BY <1>3, <1>4, <1>9
  <2>3. D \in Nat /\ Floor(c) <= D /\ D <= c
    <3>1. InBounds(ctl.effective)
      BY DEF Base, RatesBounded
    <3>2. InBounds(D)
      BY <3>1, RatesStayBounded
    <3> HIDE DEF D
    <3> QED
      BY <1>4, <3>2 DEF InBounds
  <2> HIDE DEF c, st, k, s, ws, eff, cs, R, D
  <2>4. s >= d + (k - 1) * Window /\ (s = ws + k * Window => s = d + (k - 1) * Window) /\ d \in Nat
    <3>1. k * Window = Window + (k - 1) * Window
      BY <1>1, <1>4
    <3>2. (k - 1) * Window \in Nat
      BY <1>4, <1>7
    <3> DEFINE v == (k - 1) * Window
               u == k * Window
    <3>3. u = Window + v /\ v \in Nat /\ s >= ws + u
      BY <1>1, <3>1, <3>2
    <3> HIDE DEF v, u
    <3>4. s >= d + v /\ (s = ws + u => s = d + v)
      BY <1>1, <1>4, <3>3
    <3> QED
      BY <1>4, <3>4 DEF v, u
  <2> HIDE DEF d
  <2>5. n2 \in Nat /\ n2 >= ((d - d) \div Window) + (k - 1)
        /\ (s = d + (k - 1) * Window => n2 = ((d - d) \div Window) + (k - 1))
    BY <1>1, <1>4, <1>7, <2>4, WindowsBetween
  <2>6. (d - d) \div Window = 0
    <3>1. d - d = 0
      BY <2>4
    <3> QED
      BY <1>4, <3>1
  <2> HIDE DEF n2
  <2>7. n2 >= 0 + (k - 1) /\ (s = ws + k * Window => n2 = 0 + (k - 1))
    BY <2>4, <2>5, <2>6
  <2>8. k >= MaxCatchup => D + st * (k - 1) >= c
    <3> SUFFICES ASSUME k >= MaxCatchup PROVE D + st * (k - 1) >= c
      OBVIOUS
    <3>1. k - 1 >= MaxCatchup - 1
      BY <1>1, <1>4
    <3> DEFINE j == k - 1
    <3>2. j \in Nat /\ j >= MaxCatchup - 1
      BY <1>7, <3>1
    <3> HIDE DEF j
    <3>3. D + Step(c) * j >= c
      BY <1>4, <2>3, <3>2, CapReachesCeiling
    <3> QED
      BY <3>3 DEF j, st, c
  <2>9. Least(c, D + st * 0) = D
    BY <1>4, <2>3 DEF Least
  <2>10. Catches(c, st, D, 0, n2, k - 1)
    <3>1. n2 = 0 + (k - 1) \/ Back(c, st, D, 0) + st * (k - 1) >= c
      BY <1>7, <2>7, <2>8, <2>9 DEF Back
    <3>2. {c, st, D, 0, n2, k - 1} \subseteq Nat /\ n2 >= 0 + (k - 1)
      BY <1>4, <1>7, <2>3, <2>5, <2>7
    <3> QED
      BY <3>1, <3>2 DEF Catches
  <2>11. Further(c, st, Back(c, st, D, 0), k - 1) = Back(c, st, D, n2)
    BY <2>10, BroughtBack
  <2>12. Rolled(k) = Least(c, D + st * n2)
    BY <2>1, <2>9, <2>11 DEF Back, Further
  <2>13. (hist.cuts + 1) * Window <= s /\ d <= s
    <3>1. (hist.cuts + 1) * Window = hist.cuts * Window + Window
      BY <1>4
    <3>2. hist.cuts * Window \in Nat
      BY <1>4
    <3> DEFINE p == hist.cuts * Window
               u == k * Window
    <3>3. p \in Nat /\ p <= ws /\ u \in Nat /\ Window <= u /\ s >= ws + u
      BY <1>1, <1>5, <1>6, <3>2
    <3> HIDE DEF p, u
    <3>4. p + Window <= s /\ ws + Window <= s
      BY <1>1, <1>4, <3>3
    <3> QED
      BY <3>1, <3>4 DEF p, d
  <2> QED
    BY <1>2, <2>2, <2>12, <2>13 DEF WindowInv, RateFollowsWindows, c, st, k, s, ws, eff, cs, R, n2, D, d
<1> QED
  BY <1>8, <1>9

\* No other step moves the controller's rate or its window.
LEMMA WindowStep == Base /\ WindowInv /\ [Next]_vars => WindowInv'
<1> SUFFICES ASSUME Base, WindowInv, [Next]_vars PROVE WindowInv'
  OBVIOUS
<1>0. hist \in Histories /\ ctl \in States
  BY DEF Base, StateOK
<1>1. ASSUME NEW w \in Workers, CloseWindow(w) PROVE WindowInv'
  BY <1>1, CloseKeepsWindows
<1>2. ASSUME /\ conf' = conf /\ ctl'.effective = ctl.effective /\ ctl'.windowStart = ctl.windowStart
             /\ hist'.cuts = hist.cuts /\ hist'.cutRate = hist.cutRate
             /\ hist'.cutStart = hist.cutStart
      PROVE  WindowInv'
  BY <1>2 DEF WindowInv, RateFollowsWindows
<1>3. ASSUME NEW w \in Workers, WorkerStep(w), ~CloseWindow(w) PROVE WindowInv'
  <2>1. conf' = conf /\ ctl'.effective = ctl.effective /\ ctl'.windowStart = ctl.windowStart
    BY <1>0, <1>3 DEF WorkerStep, Arrive, ReadRate, Reserve, Wake, Attempt, IgnoreSignal, Remember,
                      Apply, States
  <2>2. /\ hist'.cuts = hist.cuts /\ hist'.cutRate = hist.cutRate
        /\ hist'.cutStart = hist.cutStart
    BY <1>0, <1>3 DEF WorkerStep, Arrive, ReadRate, Reserve, Wake, Attempt, IgnoreSignal, Remember,
                      Apply, Admit, Histories
  <2> QED
    BY <1>2, <2>1, <2>2
<1>4. CASE PassTime \/ UNCHANGED vars
  BY <1>2, <1>4 DEF PassTime, vars
<1> QED
  BY <1>1, <1>3, <1>4 DEF Next, TimeUp

\* One congestion event costs one cut, and after it the rate comes back by one step per window,
\* however many windows one late report closes, for every ceiling the cap can reach (roll).
THEOREM RateFollowsTheWindows == Spec => []RateFollowsWindows
<1>1. WindowInv => RateFollowsWindows
  BY DEF WindowInv
<1> QED
  BY <1>1, BaseInit, BaseStep, WindowInit, WindowStep, PTL DEF Spec
=============================================================================
