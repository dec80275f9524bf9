---------------------------- MODULE ClusterProofs ----------------------------
(***************************************************************************)
(* Proofs about leases, for every set of nodes and ranges, every lease      *)
(* duration and heartbeat, every clock skew and every limit on attempts.    *)
(***************************************************************************)
EXTENDS Coordinator, RunElection, TLAPS

-----------------------------------------------------------------------------
(* Attempts.                                                                *)

\* A node that is not idle works on a range.
Placed == \A n \in Nodes : pc[n] # "idle" => range[n] \in Ranges

\* A row counts some of the claims that were applied, and at least one once there was one.
RowCounts ==
    \A r \in Ranges : row[r].attempt <= granted[r] /\ (granted[r] > 0 => row[r].attempt > 0)

\* What a node has seen of the row it will claim or abandon was true once.
HintCounts ==
    \A n \in Nodes :
        /\ pc[n] \in {"claim", "exhausted"} => mem[n].hint.attempt <= granted[range[n]]
        /\ pc[n] = "claim" => mem[n].hint.attempt < MaxAttempts
        /\ pc[n] = "exhausted" => mem[n].hint.attempt >= MaxAttempts

\* Under the Refuse policy only a range without a row is claimed.
HintRefuses == ~reclaim => \A n \in Nodes : pc[n] = "claim" => mem[n].hint = NoRow

AttemptInv ==
    /\ TypeOK /\ Placed
    /\ RowCounts /\ HintCounts /\ HintRefuses
    /\ RefuseGrantsOnce /\ AbandonedWasTried

-----------------------------------------------------------------------------
(* What the two conditional writes do to the lease table.                   *)

\* A granted claim replaces the row of the range and leaves the others alone.
LEMMA GrantedRow ==
    ASSUME TypeOK, Placed, HintCounts,
           NEW n \in Nodes, pc[n] = "claim", Grant(n)
    PROVE  /\ row' \in [Ranges -> Rows] /\ granted' \in [Ranges -> Nat]
           /\ \A r \in Ranges : row'[r].attempt <= MaxAttempts
           /\ row'[range[n]].node = n
           /\ row'[range[n]].until = mem[n].now + LeaseDuration
           /\ row'[range[n]].attempt = mem[n].hint.attempt + 1
           /\ granted'[range[n]] = granted[range[n]] + 1
           /\ \A r \in Ranges : r # range[n] => row'[r] = row[r] /\ granted'[r] = granted[r]
<1> DEFINE new == [node |-> n, until |-> mem[n].now + LeaseDuration,
                   attempt |-> mem[n].hint.attempt + 1]
<1>1. range[n] \in Ranges /\ mem[n].hint \in Rows /\ mem[n].now \in Nat
  BY DEF Placed, TypeOK, Leases
<1>2. /\ new \in Rows /\ new.attempt <= MaxAttempts
      /\ new.node = n /\ new.until = mem[n].now + LeaseDuration
      /\ new.attempt = mem[n].hint.attempt + 1
  BY <1>1, SettingsAssumption DEF Rows, HintCounts
<1>3. row' = [row EXCEPT ![range[n]] = new] /\ granted' = [granted EXCEPT ![range[n]] = @ + 1]
  BY DEF Grant, Claimed, ExpiresAt
<1> HIDE DEF new
<1> QED
  BY <1>1, <1>2, <1>3 DEF TypeOK

\* A renewal or a release changes nothing but the expiry of the range's row.
LEMMA ExtendedRow ==
    ASSUME TypeOK, Placed,
           NEW n \in Nodes, pc[n] # "idle", NEW until \in Nat, Extend(n, until)
    PROVE  /\ row' \in [Ranges -> Rows]
           /\ \A r \in Ranges : row'[r].node = row[r].node /\ row'[r].attempt = row[r].attempt
           /\ row'[range[n]].until = until
           /\ \A r \in Ranges : r # range[n] => row'[r] = row[r]
<1>1. range[n] \in Ranges
  BY DEF Placed
<1>2. row[range[n]] \in Rows
  BY <1>1 DEF TypeOK
<1> DEFINE new == [row[range[n]] EXCEPT !.until = until]
<1>3. /\ new \in Rows /\ new.until = until
      /\ new.node = row[range[n]].node /\ new.attempt = row[range[n]].attempt
  BY <1>2 DEF Rows
<1>4. row' = [row EXCEPT ![range[n]] = new]
  BY DEF Extend
<1> HIDE DEF new
<1> QED
  BY <1>1, <1>3, <1>4 DEF TypeOK

\* A lease that was granted or renewed runs from the clock reading before the transaction.
LEMMA RenewedLease ==
    ASSUME TypeOK, NEW n \in Nodes,
           mem' = [mem EXCEPT ![n] = [@ EXCEPT !.expires = ExpiresAt(mem[n].now), !.renewed = mem[n].now]]
    PROVE  /\ mem' \in [Nodes -> Leases]
           /\ mem'[n].now = mem[n].now /\ mem'[n].hint = mem[n].hint
           /\ mem'[n].renewed = mem[n].now
           /\ mem'[n].expires = mem[n].now + LeaseDuration
           /\ \A m \in Nodes : m # n => mem'[m] = mem[m]
<1>1. mem[n] \in Leases
  BY DEF TypeOK
<1> DEFINE new == [mem[n] EXCEPT !.expires = ExpiresAt(mem[n].now), !.renewed = mem[n].now]
<1>2. mem' = [mem EXCEPT ![n] = new]
  OBVIOUS
<1>3. mem[n].now \in Nat /\ ExpiresAt(mem[n].now) \in Nat
  BY <1>1, SettingsAssumption DEF Leases, ExpiresAt
<1>4. /\ new \in Leases
      /\ new.now = mem[n].now /\ new.hint = mem[n].hint
      /\ new.renewed = mem[n].now /\ new.expires = ExpiresAt(mem[n].now)
  BY <1>1, <1>3 DEF Leases
<1> HIDE DEF new
<1> QED
  BY <1>2, <1>4 DEF TypeOK, ExpiresAt

-----------------------------------------------------------------------------
(* The invariant of the attempts.                                           *)

\* Steps that leave the lease table alone and read nothing.
Quiet(n) == Abandon(n) \/ ClaimDenied(n) \/ BeginRenew(n) \/ Lost(n) \/ Cancel(n) \/ Die(n)

\* Each step of a node keeps the types.
LEMMA NodeKeepsTypes ==
    ASSUME TypeOK, Placed, HintCounts,
           NEW n \in Nodes, NodeStep(n)
    PROVE  TypeOK' /\ Placed'
<1>1. ASSUME NEW r \in Ranges, ReadClock(n, r) PROVE TypeOK' /\ Placed'
  BY <1>1, ClockAssumption DEF ReadClock, Goto, Now, NoLease, NoRow, Epoch, TypeOK, Placed, Leases, Rows
<1>2. CASE ReadLease(n)
  BY <1>2 DEF ReadLease, Goto, TypeOK, Placed, Leases
<1>3. CASE Quiet(n)
  <2>1. CASE Abandon(n)
    BY <2>1 DEF Abandon, Goto, TypeOK, Placed
  <2>2. CASE BeginRenew(n)
    BY <2>2, ClockAssumption DEF BeginRenew, Goto, Now, TypeOK, Placed, Leases
  <2>3. CASE ClaimDenied(n) \/ Lost(n) \/ Cancel(n) \/ Die(n)
    BY <2>3 DEF ClaimDenied, Lost, Cancel, Die, Goto, TypeOK, Placed
  <2> QED
    BY <1>3, <2>1, <2>2, <2>3 DEF Quiet
<1>4. CASE ClaimGranted(n)
  <2>1. row' \in [Ranges -> Rows] /\ granted' \in [Ranges -> Nat] /\ \A r \in Ranges : row'[r].attempt <= MaxAttempts
    BY <1>4, GrantedRow DEF ClaimGranted
  <2>2. mem' \in [Nodes -> Leases]
    BY <1>4, RenewedLease DEF ClaimGranted
  <2> QED
    BY <1>4, <2>1, <2>2 DEF ClaimGranted, Goto, TypeOK, Placed
<1>5. CASE ClaimFails(n)
  <2>1. CASE UNCHANGED <<row, granted>>
    BY <1>5, <2>1 DEF ClaimFails, Goto, TypeOK, Placed
  <2>2. CASE Applies(n) /\ Grant(n)
    BY <1>5, <2>2, GrantedRow DEF ClaimFails, Goto, TypeOK, Placed
  <2> QED
    BY <1>5, <2>1, <2>2 DEF ClaimFails
<1>6. CASE Renewed(n)
  <2>1. ExpiresAt(mem[n].now) \in Nat
    BY SettingsAssumption DEF ExpiresAt, TypeOK, Leases
  <2> QED
    BY <1>6, <2>1, ExtendedRow, RenewedLease DEF Renewed, Goto, TypeOK, Placed
<1>7. CASE RenewFails(n)
  <2>1. ExpiresAt(mem[n].now) \in Nat
    BY SettingsAssumption DEF ExpiresAt, TypeOK, Leases
  <2> QED
    BY <1>7, <2>1, ExtendedRow DEF RenewFails, Goto, TypeOK, Placed
<1>8. CASE Release(n)
  BY <1>8, ExtendedRow DEF Release, Goto, Epoch, TypeOK, Placed
<1> QED
  BY <1>1, <1>2, <1>3, <1>4, <1>5, <1>6, <1>7, <1>8 DEF NodeStep, Quiet

\* Each step of a node keeps the accounts of attempts.
LEMMA NodeKeepsAttempts ==
    ASSUME AttemptInv, TypeOK', NEW n \in Nodes, NodeStep(n)
    PROVE  (RowCounts /\ HintCounts /\ HintRefuses /\ RefuseGrantsOnce /\ AbandonedWasTried)'
<1>0. TypeOK /\ Placed /\ RowCounts /\ HintCounts /\ HintRefuses /\ RefuseGrantsOnce /\ AbandonedWasTried
  BY DEF AttemptInv
<1>1. ASSUME NEW r \in Ranges, ReadClock(n, r) PROVE (RowCounts /\ HintCounts /\ HintRefuses /\ RefuseGrantsOnce /\ AbandonedWasTried)'
  BY <1>0, <1>1 DEF ReadClock, Goto, TypeOK, RowCounts, HintCounts,
      HintRefuses, RefuseGrantsOnce, AbandonedWasTried
<1>2. CASE ReadLease(n)
  BY <1>0, <1>2, SettingsAssumption
  DEF ReadLease, Goto, MayTake, IsExhausted, NoRow, Rows, Leases, TypeOK, Placed, RowCounts, HintCounts,
      HintRefuses, RefuseGrantsOnce, AbandonedWasTried
<1>3. CASE Quiet(n)
  <2>1. CASE Abandon(n)
    <3>1. granted[range[n]] >= MaxAttempts
      BY <1>0, <2>1, SettingsAssumption DEF Abandon, HintCounts, TypeOK, Placed, Leases, Rows
    <3> QED
      BY <1>0, <2>1, <3>1 DEF Abandon, Goto, TypeOK, RowCounts, HintCounts,
      HintRefuses, RefuseGrantsOnce, AbandonedWasTried
  <2>2. CASE BeginRenew(n)
    BY <1>0, <2>2 DEF BeginRenew, Goto, TypeOK, Placed, Leases, RowCounts, HintCounts,
      HintRefuses, RefuseGrantsOnce, AbandonedWasTried
  <2>3. CASE ClaimDenied(n) \/ Lost(n) \/ Cancel(n) \/ Die(n)
    BY <1>0, <2>3 DEF ClaimDenied, Lost, Cancel, Die, Goto, TypeOK, Placed, RowCounts, HintCounts,
      HintRefuses, RefuseGrantsOnce, AbandonedWasTried
  <2> QED
    BY <1>3, <2>1, <2>2, <2>3 DEF Quiet
<1>4. ASSUME pc[n] = "claim", Applies(n), Grant(n), UNCHANGED <<reclaim, range, abandoned>>,
             pc'[n] \in {"hold", "idle"},
             \A m \in Nodes : m # n => pc'[m] = pc[m] /\ mem'[m] = mem[m]
      PROVE (RowCounts /\ HintCounts /\ HintRefuses /\ RefuseGrantsOnce /\ AbandonedWasTried)'
  <2>1. /\ range[n] \in Ranges /\ mem[n].hint.attempt \in Nat /\ mem[n].hint.attempt <= granted[range[n]]
        /\ granted[range[n]] \in Nat
    BY <1>0, <1>4 DEF TypeOK, Leases, Rows, Placed, HintCounts
  <2>2. /\ granted' \in [Ranges -> Nat]
        /\ row'[range[n]].attempt = mem[n].hint.attempt + 1
        /\ granted'[range[n]] = granted[range[n]] + 1
        /\ \A r \in Ranges : r # range[n] => row'[r] = row[r] /\ granted'[r] = granted[r]
    BY <1>0, <1>4, GrantedRow
  <2>3. RowCounts'
    BY <1>0, <2>1, <2>2 DEF RowCounts
  <2>4. HintCounts' /\ HintRefuses'
    <3>1. \A r \in Ranges : granted[r] <= granted'[r]
      BY <1>0, <2>1, <2>2 DEF TypeOK
    <3>2. ASSUME NEW m \in Nodes, m # n, pc[m] \in {"claim", "exhausted"}
          PROVE  mem[m].hint.attempt <= granted'[range[m]]
      BY <1>0, <2>2, <3>1, <3>2 DEF HintCounts, TypeOK, Leases, Rows, Placed
    <3> QED
      BY <1>0, <1>4, <3>2 DEF HintCounts, HintRefuses
  <2>5. RefuseGrantsOnce'
    <3>1. ~reclaim => granted[range[n]] = 0
      BY <1>0, <1>4, <2>1 DEF HintRefuses, Applies, NoRow, RowCounts
    <3> QED
      BY <1>0, <1>4, <2>1, <2>2, <3>1 DEF RefuseGrantsOnce
  <2>6. AbandonedWasTried'
    <3>1. \A r \in Ranges : granted[r] <= granted'[r]
      BY <1>0, <2>1, <2>2 DEF TypeOK
    <3> QED
      BY <1>0, <1>4, <2>2, <2>3, <3>1, SettingsAssumption DEF AbandonedWasTried, RowCounts, TypeOK
  <2> QED
    BY <2>3, <2>4, <2>5, <2>6
<1>5. CASE ClaimGranted(n)
  BY <1>0, <1>4, <1>5, RenewedLease DEF ClaimGranted, Goto, TypeOK
<1>9. CASE ClaimFails(n)
  <2>1. CASE UNCHANGED <<row, granted>>
    BY <1>0, <1>9, <2>1 DEF ClaimFails, Goto, TypeOK, Placed, RowCounts, HintCounts,
      HintRefuses, RefuseGrantsOnce, AbandonedWasTried
  <2>2. CASE Applies(n) /\ Grant(n)
    BY <1>0, <1>4, <1>9, <2>2 DEF ClaimFails, Goto, TypeOK
  <2> QED
    BY <1>9, <2>1, <2>2 DEF ClaimFails
<1>6. CASE Renewed(n)
  <2>1. ExpiresAt(mem[n].now) \in Nat
    BY <1>0, SettingsAssumption DEF ExpiresAt, TypeOK, Leases
  <2>2. \A r \in Ranges : row'[r].attempt = row[r].attempt
    BY <1>0, <1>6, <2>1, ExtendedRow DEF Renewed
  <2>3. RowCounts' /\ RefuseGrantsOnce' /\ AbandonedWasTried'
    BY <1>0, <1>6, <2>2 DEF Renewed, RowCounts, RefuseGrantsOnce, AbandonedWasTried
  <2>4. \A m \in Nodes : mem'[m].hint = mem[m].hint
    BY <1>0, <1>6, RenewedLease DEF Renewed
  <2>5. HintCounts' /\ HintRefuses'
    BY <1>0, <1>6, <2>4 DEF Renewed, Goto, TypeOK, HintCounts, HintRefuses
  <2> QED
    BY <2>3, <2>5
<1>7. CASE RenewFails(n)
  <2>1. ExpiresAt(mem[n].now) \in Nat
    BY <1>0, SettingsAssumption DEF ExpiresAt, TypeOK, Leases
  <2>2. \A r \in Ranges : row'[r].attempt = row[r].attempt
    <3>1. CASE UNCHANGED row
      BY <3>1
    <3>2. CASE StillHolder(n) /\ Extend(n, ExpiresAt(mem[n].now))
      BY <1>0, <1>7, <2>1, <3>2, ExtendedRow DEF RenewFails, TypeOK, Placed
    <3> QED
      BY <1>7, <3>1, <3>2 DEF RenewFails
  <2>3. RowCounts'
    BY <1>0, <1>7, <2>2 DEF RenewFails, RowCounts
  <2> QED
    BY <1>0, <1>7, <2>2, <2>3 DEF RenewFails, Goto, TypeOK, Placed, HintCounts, HintRefuses,
      RefuseGrantsOnce, AbandonedWasTried
<1>8. CASE Release(n)
  BY <1>0, <1>8, ExtendedRow DEF Release, Goto, Epoch, TypeOK, Placed, RowCounts, HintCounts,
      HintRefuses, RefuseGrantsOnce, AbandonedWasTried
<1> QED
  BY <1>1, <1>2, <1>3, <1>5, <1>6, <1>7, <1>8, <1>9 DEF NodeStep, Quiet

\* The accounts of attempts hold at first and after every step, for any nodes, ranges, clocks and
\* limit: `claim_range` counts no claim that was not applied.
THEOREM AttemptInvariance == Spec => []AttemptInv
<1>1. Init => AttemptInv
  <2>1. NoRow \in Rows /\ NoRow.attempt = 0
    BY DEF NoRow, Rows, Epoch
  <2>2. NoLease \in Leases
    BY <2>1 DEF NoLease, Leases, Epoch
  <2>3. Init => TypeOK
    <3> SUFFICES ASSUME Init PROVE TypeOK
      OBVIOUS
    <3>1. reclaim \in BOOLEAN /\ late \in BOOLEAN /\ clock \in Nat /\ skew \in [Nodes -> Skews]
      BY DEF Init
    <3>2. row \in [Ranges -> Rows] /\ mem \in [Nodes -> Leases] /\ granted \in [Ranges -> Nat]
      BY <2>1, <2>2 DEF Init
    <3>3. pc \in [Nodes -> {"idle", "read", "claim", "exhausted", "hold", "renew", "release"}]
      BY DEF Init
    <3>4. range \in [Nodes -> Ranges \cup {None}] /\ abandoned \subseteq Ranges
      BY DEF Init
    <3>5. \A r \in Ranges : row[r].attempt <= MaxAttempts
      BY <2>1, SettingsAssumption DEF Init
    <3> QED
      BY <3>1, <3>2, <3>3, <3>4, <3>5 DEF TypeOK
  <2> QED
    BY <2>1, <2>3
    DEF Init, AttemptInv, Placed, RowCounts, HintCounts, HintRefuses, RefuseGrantsOnce, AbandonedWasTried
<1>2. ASSUME AttemptInv, [Next]_vars PROVE AttemptInv'
  <2>1. CASE Tick
    BY <1>2, <2>1
    DEF Tick, AttemptInv, TypeOK, Placed, RowCounts, HintCounts, HintRefuses, RefuseGrantsOnce,
        AbandonedWasTried
  <2>2. ASSUME NEW n \in Nodes, NodeStep(n) PROVE AttemptInv'
    <3>1. TypeOK' /\ Placed'
      BY <1>2, <2>2, NodeKeepsTypes DEF AttemptInv
    <3> QED
      BY <1>2, <2>2, <3>1, NodeKeepsAttempts DEF AttemptInv
  <2>3. CASE UNCHANGED vars
    BY <1>2, <2>3
    DEF vars, AttemptInv, TypeOK, Placed, RowCounts, HintCounts, HintRefuses, RefuseGrantsOnce,
        AbandonedWasTried
  <2> QED
    BY <1>2, <2>1, <2>2, <2>3 DEF Next
<1> QED
  BY <1>1, <1>2, PTL DEF Spec

\* The lease table and what the nodes remember keep their types; no row counts more than
\* max_attempts.
THEOREM TypeCorrect == Spec => []TypeOK
<1>1. AttemptInv => TypeOK
  BY DEF AttemptInv
<1> QED
  BY <1>1, AttemptInvariance, PTL

\* ReclaimPolicy::Refuse grants each range of a counter table once, whatever the clocks say and
\* whichever calls fail or are applied in spite of an error.
THEOREM CountersGrantedOnce == Spec => []RefuseGrantsOnce
<1>1. AttemptInv => RefuseGrantsOnce
  BY DEF AttemptInv
<1> QED
  BY <1>1, AttemptInvariance, PTL

\* DST-013: `abandon` gives a range up only after max_attempts claims of it were applied.
THEOREM AbandonedRangesWereTried == Spec => []AbandonedWasTried
<1>1. AttemptInv => AbandonedWasTried
  BY DEF AttemptInv
<1> QED
  BY <1>1, AttemptInvariance, PTL

-----------------------------------------------------------------------------
(* Holders.                                                                 *)

\* What a node has read of the clock lies behind it.
ClockReadings == \A n \in Nodes : mem[n].now <= Now(n)

\* A lease runs from the clock reading of the last renewal that is known to have been applied.
LeaseDates ==
    \A n \in Nodes : Holding(n) =>
        /\ mem[n].renewed <= mem[n].now
        /\ mem[n].expires = mem[n].renewed + LeaseDuration

\* While nobody is late, no heartbeat has passed since a renewal, nor since a claim began.
Punctual ==
    ~late => \A n \in Nodes :
        /\ Holding(n) => Now(n) <= mem[n].renewed + Heartbeat
        /\ pc[n] \in {"read", "claim"} => Now(n) <= mem[n].now + Heartbeat

\* The two reasons for which a holder's row is still its own: the lease has not expired on the one
\* clock there is, or the holder is punctual and the clocks are close enough.
Secure(n) == Holding(n) /\ ((OneClock /\ ~IsExpired(n)) \/ (~late /\ SafeSkew))

\* The table may promise a node more time than it knows of, never less.
Keeps(n) == row[range[n]].node = n /\ mem[n].expires <= row[range[n]].until
HoldersKeep == \A n \in Nodes : Secure(n) => Keeps(n)

TimeInv == ClockReadings /\ LeaseDates /\ Punctual
LeaseInv == AttemptInv /\ TimeInv /\ HoldersKeep

\* Numbers, for the arithmetic below.
LEMMA Times ==
    ASSUME TypeOK
    PROVE  /\ clock \in Nat /\ LeaseDuration \in Nat /\ Heartbeat \in Nat
           /\ \A n \in Nodes : /\ skew[n] \in Nat /\ mem[n].now \in Nat
                               /\ mem[n].expires \in Nat /\ mem[n].renewed \in Nat
           /\ \A r \in Ranges : row[r].until \in Nat
BY SettingsAssumption, ClockAssumption DEF TypeOK, Leases, Rows

\* A node's step moves neither the clock nor another node.
LEMMA Frame ==
    ASSUME TypeOK, NEW n \in Nodes, NodeStep(n)
    PROVE  /\ UNCHANGED <<clock, skew, late>>
           /\ \A m \in Nodes : m # n => pc'[m] = pc[m] /\ range'[m] = range[m] /\ mem'[m] = mem[m]
<1>1. ASSUME NEW r \in Ranges, ReadClock(n, r)
      PROVE  /\ UNCHANGED <<clock, skew, late>>
             /\ \A m \in Nodes : m # n => pc'[m] = pc[m] /\ range'[m] = range[m] /\ mem'[m] = mem[m]
  BY <1>1 DEF ReadClock, Goto, TypeOK
<1>2. CASE ReadLease(n)
  BY <1>2 DEF ReadLease, Goto, TypeOK
<1>3. CASE Quiet(n)
  BY <1>3 DEF Quiet, Abandon, ClaimDenied, BeginRenew, Lost, Cancel, Die, Goto, TypeOK
<1>4. CASE ClaimGranted(n) \/ Renewed(n)
  BY <1>4, RenewedLease DEF ClaimGranted, Renewed, Goto, TypeOK
<1>5. CASE ClaimFails(n) \/ RenewFails(n) \/ Release(n)
  BY <1>5 DEF ClaimFails, RenewFails, Release, Goto, TypeOK
<1> QED
  BY <1>1, <1>2, <1>3, <1>4, <1>5 DEF NodeStep, Quiet

\* The lease table changes only by a claim that applies and by a holder's own renewal or release.
LEMMA RowSteps ==
    ASSUME TypeOK, NEW n \in Nodes, NodeStep(n)
    PROVE  \/ UNCHANGED row
           \/ pc[n] = "claim" /\ Applies(n) /\ Grant(n)
           \/ pc[n] # "idle" /\ StillHolder(n) /\ \E until \in Nat : Extend(n, until)
<1>1. ExpiresAt(mem[n].now) \in Nat /\ Epoch \in Nat
  BY Times DEF ExpiresAt, Epoch
<1> QED
  BY <1>1
  DEF NodeStep, ReadClock, ReadLease, Abandon, ClaimGranted, ClaimDenied, ClaimFails, BeginRenew,
      Renewed, Lost, RenewFails, Cancel, Release, Die

\* The heart of the matter: no claim applies to the range of a secure holder.
LEMMA ClaimSparesHolders ==
    ASSUME LeaseInv, NEW n \in Nodes, pc[n] = "claim",
           NEW m \in Nodes, Secure(m), range[m] = range[n]
    PROVE  ~Applies(n)
<1>1. TypeOK /\ range[m] \in Ranges /\ Keeps(m)
  BY DEF LeaseInv, AttemptInv, HoldersKeep, Placed, Secure, Holding
<1>2. row[range[n]] # NoRow
  BY <1>1, NamesAssumption DEF Keeps, NoRow
<1>3. mem[n].now <= clock + skew[n]
  BY DEF LeaseInv, TimeInv, ClockReadings, Now
<1>4. CASE OneClock /\ ~IsExpired(m)
  BY <1>1, <1>2, <1>3, <1>4, Times DEF OneClock, IsExpired, Now, Keeps, Applies, Expired
<1>5. CASE ~late /\ SafeSkew
  <2>1. clock + skew[m] <= mem[m].renewed + Heartbeat /\ mem[m].expires = mem[m].renewed + LeaseDuration
    BY <1>5 DEF LeaseInv, TimeInv, Punctual, LeaseDates, Secure, Now
  <2>2. skew[n] - skew[m] <= LeaseDuration - Heartbeat
    BY <1>5 DEF SafeSkew
  <2>3. mem[n].now <= row[range[n]].until
    BY <1>1, <1>3, <2>1, <2>2, Times DEF Keeps
  <2> QED
    BY <1>1, <1>2, <2>3, Times DEF Applies, Expired
<1> QED
  BY <1>4, <1>5 DEF Secure

\* So a node's step takes nothing from another that is secure.
LEMMA OthersKeep ==
    ASSUME LeaseInv, NEW n \in Nodes, NodeStep(n), NEW m \in Nodes, m # n, Secure(m)'
    PROVE  Keeps(m)'
<1>0. TypeOK /\ Placed /\ HintCounts
  BY DEF LeaseInv, AttemptInv
<1>1. /\ UNCHANGED <<clock, skew, late>>
      /\ pc'[m] = pc[m] /\ range'[m] = range[m] /\ mem'[m] = mem[m]
  BY <1>0, Frame
<1>2. Secure(m) /\ Keeps(m) /\ range[m] \in Ranges
  <2>1. Secure(m)
    BY <1>1 DEF Secure, Holding, OneClock, IsExpired, Now, SafeSkew
  <2> QED
    BY <1>0, <2>1 DEF LeaseInv, HoldersKeep, Placed, Secure, Holding
<1>3. row'[range[m]] = row[range[m]]
  <2>1. CASE UNCHANGED row
    BY <2>1
  <2>2. CASE pc[n] = "claim" /\ Applies(n) /\ Grant(n)
    BY <1>0, <1>2, <2>2, ClaimSparesHolders, GrantedRow
  <2>3. CASE pc[n] # "idle" /\ StillHolder(n) /\ \E until \in Nat : Extend(n, until)
    <3>1. range[m] # range[n]
      BY <1>2, <2>3 DEF Keeps, StillHolder
    <3> QED
      BY <1>0, <1>2, <2>3, <3>1, ExtendedRow
  <2> QED
    BY <1>0, <2>1, <2>2, <2>3, RowSteps
<1> QED
  BY <1>1, <1>2, <1>3 DEF Keeps

\* Nor does its own step make a holder trust a row that is not its own.
LEMMA OwnKeeps ==
    ASSUME LeaseInv, NEW n \in Nodes, NodeStep(n), Secure(n)'
    PROVE  Keeps(n)'
<1>0. TypeOK /\ Placed /\ HintCounts /\ UNCHANGED <<clock, skew, late>>
  BY Frame DEF LeaseInv, AttemptInv
<1>1. pc'[n] \in {"hold", "renew"}
  BY DEF Secure, Holding
<1>2. ExpiresAt(mem[n].now) = mem[n].now + LeaseDuration /\ ExpiresAt(mem[n].now) \in Nat
  BY <1>0, Times DEF ExpiresAt
<1>3. CASE ClaimGranted(n)
  <2>1. row'[range[n]].node = n /\ row'[range[n]].until = mem[n].now + LeaseDuration /\ range' = range
    BY <1>0, <1>3, GrantedRow DEF ClaimGranted
  <2>2. mem'[n].expires = mem[n].now + LeaseDuration
    BY <1>0, <1>3, RenewedLease DEF ClaimGranted
  <2> QED
    BY <1>0, <2>1, <2>2, Times DEF Keeps
<1>4. CASE BeginRenew(n)
  <2>1. /\ mem'[n].expires = mem[n].expires /\ range' = range /\ row' = row
        /\ Holding(n)
    BY <1>0, <1>4 DEF BeginRenew, TypeOK, Leases, Holding
  <2>2. Secure(n)
    BY <1>0, <2>1 DEF Secure, OneClock, IsExpired, Now, SafeSkew
  <2> QED
    BY <2>1, <2>2 DEF LeaseInv, HoldersKeep, Keeps
<1>5. CASE Renewed(n)
  <2>1. range[n] \in Ranges /\ range' = range /\ pc[n] # "idle" /\ row[range[n]].node = n
    BY <1>0, <1>5 DEF Renewed, StillHolder, Placed
  <2>2. row'[range[n]].node = n /\ row'[range[n]].until = mem[n].now + LeaseDuration
    BY <1>0, <1>2, <1>5, <2>1, ExtendedRow DEF Renewed
  <2>3. mem'[n].expires = mem[n].now + LeaseDuration
    BY <1>0, <1>5, RenewedLease DEF Renewed
  <2> QED
    BY <1>0, <2>1, <2>2, <2>3, Times DEF Keeps
<1>6. CASE RenewFails(n)
  <2>1. /\ range[n] \in Ranges /\ UNCHANGED <<range, mem>> /\ pc[n] = "renew"
    BY <1>0, <1>6 DEF RenewFails, Placed
  <2>2. Secure(n) /\ Keeps(n)
    <3>1. Secure(n)
      BY <1>0, <2>1 DEF Secure, Holding, OneClock, IsExpired, Now, SafeSkew
    <3> QED
      BY <3>1 DEF LeaseInv, HoldersKeep
  <2>3. mem[n].expires <= mem[n].now + LeaseDuration
    BY <1>0, <2>2, Times DEF LeaseInv, TimeInv, LeaseDates, Secure
  <2>4. CASE UNCHANGED row
    BY <2>1, <2>2, <2>4 DEF Keeps
  <2>5. CASE Extend(n, ExpiresAt(mem[n].now))
    BY <1>0, <1>2, <2>1, <2>2, <2>3, <2>5, ExtendedRow DEF Keeps
  <2> QED
    BY <1>6, <2>4, <2>5 DEF RenewFails
<1>7. CASE \E r \in Ranges : ReadClock(n, r)
  BY <1>0, <1>1, <1>7 DEF ReadClock, Goto, TypeOK
<1>8. CASE ReadLease(n)
  BY <1>0, <1>1, <1>8 DEF ReadLease, Goto, TypeOK
<1>9. CASE Abandon(n) \/ ClaimDenied(n) \/ ClaimFails(n) \/ Lost(n) \/ Cancel(n) \/ Release(n) \/ Die(n)
  BY <1>0, <1>1, <1>9 DEF Abandon, ClaimDenied, ClaimFails, Lost, Cancel, Release, Die, Goto, TypeOK
<1> QED
  BY <1>3, <1>4, <1>5, <1>6, <1>7, <1>8, <1>9 DEF NodeStep

\* A node's step keeps its dates in order.
LEMMA NodeKeepsTimes ==
    ASSUME AttemptInv, TimeInv, AttemptInv', NEW n \in Nodes, NodeStep(n)
    PROVE  TimeInv'
<1> DEFINE Dates(m) ==
        /\ mem[m].now <= Now(m)
        /\ Holding(m) => mem[m].renewed <= mem[m].now /\ mem[m].expires = mem[m].renewed + LeaseDuration
        /\ ~late => /\ Holding(m) => Now(m) <= mem[m].renewed + Heartbeat
                    /\ pc[m] \in {"read", "claim"} => Now(m) <= mem[m].now + Heartbeat
<1>0. /\ TypeOK /\ UNCHANGED <<clock, skew, late>> /\ \A m \in Nodes : Dates(m)
      /\ \A m \in Nodes : m # n => pc'[m] = pc[m] /\ range'[m] = range[m] /\ mem'[m] = mem[m]
  BY Frame DEF AttemptInv, TimeInv, ClockReadings, LeaseDates, Punctual
<1>1. \A m \in Nodes : m # n => Dates(m)'
  BY <1>0 DEF Holding, Now
<1>2. Dates(n)'
  <2>1. CASE \E r \in Ranges : ReadClock(n, r)
    BY <1>0, <2>1, Times DEF ReadClock, Goto, Holding, Now, NoLease, TypeOK
  <2>2. CASE ReadLease(n)
    BY <1>0, <2>2, Times DEF ReadLease, Goto, Holding, Now, TypeOK, Leases
  <2>3. CASE ClaimGranted(n)
    <3>1. /\ mem'[n].now = mem[n].now /\ mem'[n].renewed = mem[n].now
          /\ mem'[n].expires = mem[n].now + LeaseDuration
      BY <1>0, <2>3, RenewedLease DEF ClaimGranted
    <3>2. pc[n] = "claim" /\ pc'[n] = "hold"
      BY <1>0, <2>3 DEF ClaimGranted, Goto, TypeOK
    <3> QED
      BY <1>0, <3>1, <3>2, Times DEF Holding, Now
  <2>4. CASE BeginRenew(n)
    BY <1>0, <2>4, Times DEF BeginRenew, Goto, Holding, Now, TypeOK, Leases
  <2>5. CASE Renewed(n)
    <3>1. /\ mem'[n].now = mem[n].now /\ mem'[n].renewed = mem[n].now
          /\ mem'[n].expires = mem[n].now + LeaseDuration
      BY <1>0, <2>5, RenewedLease DEF Renewed
    <3>2. pc[n] = "renew" /\ pc'[n] = "hold"
      BY <1>0, <2>5 DEF Renewed, Goto, TypeOK
    <3> QED
      BY <1>0, <3>1, <3>2, Times DEF Holding, Now
  <2>6. CASE RenewFails(n)
    BY <1>0, <2>6, Times DEF RenewFails, Goto, Holding, Now, TypeOK
  <2>7. CASE Abandon(n) \/ ClaimDenied(n) \/ ClaimFails(n) \/ Lost(n) \/ Cancel(n) \/ Release(n) \/ Die(n)
    BY <1>0, <2>7
    DEF Abandon, ClaimDenied, ClaimFails, Lost, Cancel, Release, Die, Goto, Holding, Now, TypeOK
  <2> QED
    BY <2>1, <2>2, <2>3, <2>4, <2>5, <2>6, <2>7 DEF NodeStep
<1> QED
  BY <1>1, <1>2 DEF TimeInv, ClockReadings, LeaseDates, Punctual

\* The clock moves on: a holder that has become late, or whose lease has just expired, is not secure.
LEMMA TickKeepsLeases ==
    ASSUME LeaseInv, Tick, AttemptInv'
    PROVE  TimeInv' /\ HoldersKeep'
<1>0. TypeOK /\ clock' = clock + 1 /\ UNCHANGED <<skew, row, pc, range, mem>>
  BY DEF LeaseInv, AttemptInv, Tick
<1>1. ClockReadings' /\ LeaseDates'
  BY <1>0, Times DEF LeaseInv, TimeInv, ClockReadings, LeaseDates, Holding, Now
<1>2. Punctual'
  <2>1. ~late' => ~late /\ \A n \in Nodes : ~Due(n)
    BY DEF Tick
  <2> QED
    BY <1>0, <2>1, Times DEF LeaseInv, TimeInv, Punctual, Due, Holding, Now
<1>3. \A n \in Nodes : Secure(n)' => Secure(n)
  <2>1. ~late' => ~late
    BY DEF Tick
  <2>2. \A n \in Nodes : ~IsExpired(n)' => ~IsExpired(n)
    BY <1>0, Times DEF IsExpired, Now
  <2> QED
    BY <1>0, <2>1, <2>2 DEF Secure, Holding, OneClock, SafeSkew
<1> QED
  BY <1>0, <1>1, <1>2, <1>3 DEF TimeInv, LeaseInv, HoldersKeep, Keeps

\* Whoever stalls, dies or loses the answer of a transaction, a secure holder's row in the lease
\* table is its own.
THEOREM LeaseInvariance == Spec => []LeaseInv
<1>1. Init => TimeInv /\ HoldersKeep
  <2> SUFFICES ASSUME Init PROVE TimeInv /\ HoldersKeep
    OBVIOUS
  <2>1. \A n \in Nodes : pc[n] = "idle" /\ mem[n].now = 0 /\ skew[n] \in Nat
    BY ClockAssumption DEF Init, NoLease, Epoch
  <2>2. clock = 1
    BY DEF Init
  <2> QED
    BY <2>1, <2>2
    DEF TimeInv, ClockReadings, LeaseDates, Punctual, HoldersKeep, Secure, Holding, Now
<1>2. LeaseInv /\ AttemptInv' /\ [Next]_vars => LeaseInv'
  <2> SUFFICES ASSUME LeaseInv, AttemptInv', [Next]_vars PROVE TimeInv' /\ HoldersKeep'
    BY DEF LeaseInv
  <2>1. ASSUME NEW n \in Nodes, NodeStep(n) PROVE TimeInv' /\ HoldersKeep'
    BY <2>1, NodeKeepsTimes, OthersKeep, OwnKeeps DEF LeaseInv, HoldersKeep
  <2>2. CASE UNCHANGED vars
    BY <2>2
    DEF vars, LeaseInv, TimeInv, ClockReadings, LeaseDates, Punctual, HoldersKeep, Secure, Keeps, Holding,
        Now, OneClock, IsExpired, SafeSkew
  <2> QED
    BY <2>1, <2>2, TickKeepsLeases DEF Next
<1> QED
  BY <1>1, <1>2, AttemptInvariance, PTL DEF Spec, LeaseInv

\* With one clock no two nodes believe in a lease on the same range (`claim_range`, `renew_lease`).
THEOREM HoldersAreAlone == Spec => []OneHolder
<1>1. LeaseInv => OneHolder
  <2> SUFFICES ASSUME LeaseInv, OneClock, NEW r \in Ranges, NEW m \in Nodes, NEW n \in Nodes,
                      Believes(m, r), Believes(n, r)
               PROVE  m = n
    BY DEF OneHolder
  <2>1. Keeps(m) /\ Keeps(n)
    BY DEF LeaseInv, HoldersKeep, Secure, Believes
  <2>2. range[m] = range[n]
    BY DEF Believes
  <2> QED
    BY <2>1, <2>2 DEF Keeps
<1> QED
  BY <1>1, LeaseInvariance, PTL

\* DST-012: a node that renews on the heartbeat keeps its lease while the clocks are no further apart
\* than lease_duration - heartbeat.
THEOREM PunctualNodesKeepLeases == Spec => []PunctualKeepsLease
<1>1. LeaseInv => PunctualKeepsLease
  BY DEF LeaseInv, HoldersKeep, Secure, Keeps, PunctualKeepsLease
<1> QED
  BY <1>1, LeaseInvariance, PTL

-----------------------------------------------------------------------------
(* Joining: for every set of nodes, ranges and configuration digests and    *)
(* every lease duration.  JoinedSeesEveryRange and JoinedAgree speak of     *)
(* nodes that have joined.  They are not inductive: they need what is known *)
(* of the nodes that are about to join, and of the run row those nodes      *)
(* decide from.                                                             *)

\* Nodes that hold the row's digest: they wrote it or have compared theirs with it.
Checked(n) == at[n] \in {"insert", "await", "joined"}

\* Before the election there is nobody past it.
NobodyBeforeTheRow ==
    runRow.status = Absent => \A n \in Nodes : at[n] \in {"elect", "failed"}

\* The initialiser is alone, and works on a run that has not started.
InitialiserIsAlone ==
    \A n \in Nodes : at[n] = "insert" =>
        /\ runRow.status = "NOT_STARTED"
        /\ \A m \in Nodes : at[m] = "insert" => m = n

\* STARTED, and whatever comes after it, is written over a complete plan.
StartedIsComplete == runRow.status \in {"STARTED", "ENDED"} => rangeRows = Ranges

\* Nobody joins before STARTED.
JoinedAfterStart == \A n \in Nodes : at[n] = "joined" => runRow.status \in {"STARTED", "ENDED"}

\* Until the run ends its row carries the digest of everyone who passed the check; the metrics that
\* replace it agree with nobody's.
RowHasDigest ==
    /\ runRow.status \in {"NOT_STARTED", "STARTED"} => \A n \in Nodes : Checked(n) => runRow.info = hash[n]
    /\ runRow.status = "ENDED" => runRow.info = "metrics"

CheckedAgree == \A m, n \in Nodes : Checked(m) /\ Checked(n) => hash[m] = hash[n]

JoinInv ==
    /\ JoinTypeOK
    /\ NobodyBeforeTheRow /\ InitialiserIsAlone
    /\ StartedIsComplete /\ JoinedAfterStart
    /\ RowHasDigest /\ CheckedAgree

\* The nodes start with an empty store.
LEMMA JoinInvInit == JoinInit => JoinInv
BY SettingsAssumption
DEF JoinInit, JoinInv, JoinTypeOK, NobodyBeforeTheRow, InitialiserIsAlone, StartedIsComplete,
    JoinedAfterStart, RowHasDigest, CheckedAgree, Checked, Absent

\* Each step of a node keeps the invariant.
LEMMA JoinStepKeeps ==
    ASSUME JoinInv, NEW n \in Nodes, JoinStep(n) \/ Fail(n)
    PROVE  JoinInv'
<1> USE SettingsAssumption, DigestAssumption
<1> USE DEF JoinInv, JoinTypeOK, NobodyBeforeTheRow, InitialiserIsAlone, StartedIsComplete,
            JoinedAfterStart, RowHasDigest, CheckedAgree, Checked, Absent, JoinGoto
<1>1. CASE Elect(n)
  BY <1>1 DEF Elect, Wins
<1>2. CASE Lose(n)
  BY <1>2 DEF Lose, Wins
<1>3. CASE InsertRange(n)
  BY <1>3 DEF InsertRange
<1>4. CASE MarkStarted(n)
  BY <1>4 DEF MarkStarted, AllInserted
<1>5. CASE CheckConfigHash(n)
  BY <1>5 DEF CheckConfigHash, HashAgrees
<1>6. CASE SeesStarted(n)
  BY <1>6 DEF SeesStarted
<1>7. CASE SeesFinished(n) \/ GivesUp(n) \/ Fail(n)
  BY <1>7 DEF SeesFinished, GivesUp, Fail
<1> QED
  BY <1>1, <1>2, <1>3, <1>4, <1>5, <1>6, <1>7 DEF JoinStep

\* So does every step of the system.
LEMMA JoinInvStep == JoinInv /\ [JoinNext]_joinVars => JoinInv'
<1> SUFFICES ASSUME JoinInv, [JoinNext]_joinVars PROVE JoinInv'
  OBVIOUS
<1> USE DEF JoinInv, JoinTypeOK, NobodyBeforeTheRow, InitialiserIsAlone, StartedIsComplete,
            JoinedAfterStart, RowHasDigest, CheckedAgree, Checked, Absent
<1>1. CASE \E n \in Nodes : JoinStep(n) \/ Fail(n)
  BY <1>1, JoinStepKeeps
<1>2. CASE EndRun
  BY <1>2 DEF EndRun
<1>3. CASE JoinTick
  BY <1>3, SettingsAssumption DEF JoinTick, Elapse
<1>4. CASE UNCHANGED joinVars
  BY <1>4 DEF joinVars
<1> QED
  BY <1>1, <1>2, <1>3, <1>4 DEF JoinNext, Over

\* The inductive invariant of the election holds for any nodes, plan and configurations: what
\* `join` and `initialise_run` did so far is what the tables show.
THEOREM JoinInvariance == JoinSpec => []JoinInv
<1> QED
  BY JoinInvInit, JoinInvStep, PTL DEF JoinSpec

\* The election's state keeps its type: in particular no remaining time becomes negative.
THEOREM JoinTypeCorrect == JoinSpec => []JoinTypeOK
<1>1. JoinInv => JoinTypeOK
  BY DEF JoinInv
<1> QED
  BY <1>1, JoinInvariance, PTL

\* Whoever joins a run sees its whole plan, whichever nodes failed on the way.
THEOREM JoinersSeeThePlan == JoinSpec => []JoinedSeesEveryRange
<1>1. JoinInv => JoinedSeesEveryRange
  BY DEF JoinInv, JoinedAfterStart, StartedIsComplete, JoinedSeesEveryRange
<1> QED
  BY <1>1, JoinInvariance, PTL

\* All nodes that take part in one run have the same configuration.
THEOREM JoinersAgree == JoinSpec => []JoinedAgree
<1>1. JoinInv => JoinedAgree
  BY DEF JoinInv, CheckedAgree, Checked, JoinedAgree
<1> QED
  BY <1>1, JoinInvariance, PTL
=============================================================================
