----------------------------- MODULE Coordinator -----------------------------
(***************************************************************************)
(* Leases on token ranges, shared by the nodes of a distributed run         *)
(* (crates/cdm-cluster/src: coordinator.rs, lease.rs, settings.rs; the      *)
(* conditional writes of crates/cdm-track/src/store/cassandra.rs and        *)
(* crates/cdm-track/src/schema.rs).                                         *)
(*                                                                          *)
(* A lightweight transaction is one step; reading the clock, reading the    *)
(* lease row and issuing the transaction are three, and a node may stall    *)
(* between any two of them.  A call that returns an error may have been     *)
(* applied.  Each node works on one range at a time; which range it tries   *)
(* next is free, as claim_first leaves the candidates to its caller.        *)
(***************************************************************************)
EXTENDS CoordinatorSettings, FiniteSets

CONSTANTS
    Skews,           \* how far a node's clock can be ahead
    MayFail,         \* whether calls of the store may return errors and nodes may die
    MaxTime          \* bound: ticks of the clock

ASSUME ClockAssumption ==
    /\ Skews \subseteq Nat /\ Skews # {} /\ MaxTime \in Nat
    /\ MayFail \in BOOLEAN

Epoch == 0                      \* DateTime::UNIX_EPOCH, before every clock reading
None == "None"
ASSUME NamesAssumption == None \notin Nodes
NoRow == [node |-> None, until |-> Epoch, attempt |-> 0]
NoLease == [now |-> Epoch, hint |-> NoRow, expires |-> Epoch, renewed |-> Epoch]

VARIABLES
    reclaim,       \* whether the ReclaimPolicy is Reclaim; it is Refuse for a counter table
    clock, skew,   \* true time, and how far each node's clock is ahead of it
    row,           \* cdm_run_leases: the row of each range, or NoRow
    pc, range,     \* what each node is doing, and to which range
    mem,           \* what it has read, and the Lease it holds
    granted,       \* history: claims applied, per range
    abandoned,     \* ranges recorded FAIL by abandon()
    late           \* history: some claim or renewal was not applied within a heartbeat

vars == <<reclaim, clock, skew, row, pc, range, mem, granted, abandoned, late>>

Now(n) == clock + skew[n]
Goto(n, label) == pc' = [pc EXCEPT ![n] = label]

Init ==
    /\ reclaim \in BOOLEAN
    /\ clock = 1
    /\ skew \in [Nodes -> Skews]
    /\ row = [r \in Ranges |-> NoRow]
    /\ pc = [n \in Nodes |-> "idle"]
    /\ range \in [Nodes -> {None}]
    /\ mem = [n \in Nodes |-> NoLease]
    /\ granted = [r \in Ranges |-> 0]
    /\ abandoned = {}
    /\ late = FALSE

-----------------------------------------------------------------------------
(* claim().                                                                 *)

ReadClock(n, r) ==
    /\ pc[n] = "idle"
    /\ Goto(n, "read")
    /\ range' = [range EXCEPT ![n] = r]
    /\ mem' = [mem EXCEPT ![n] = [NoLease EXCEPT !.now = Now(n)]]
    /\ UNCHANGED <<reclaim, clock, skew, row, granted, abandoned, late>>

\* DST-013: the range has been claimed max_attempts times already.
IsExhaustedEarly(seen) == seen.attempt + 1 >= MaxAttempts
IsExhausted(seen) == seen.attempt >= MaxAttempts

\* ReclaimPolicy::Refuse: an expired lease is never taken over.
MayTakeAlways(seen) == TRUE
MayTake(seen) == seen = NoRow \/ reclaim

\* The row that was observed decides between Held, Exhausted, ReclaimRefused and a transaction.
ReadLease(n) ==
    LET seen == row[range[n]] IN
    /\ pc[n] = "read"
    /\ mem' = [mem EXCEPT ![n].hint = seen]
    /\ Goto(n, CASE seen # NoRow /\ seen.until > mem[n].now -> "idle"
                 [] seen # NoRow /\ IsExhausted(seen) -> "exhausted"
                 [] ~MayTake(seen) -> "idle"
                 [] OTHER -> "claim")
    /\ UNCHANGED <<reclaim, clock, skew, row, range, granted, abandoned, late>>

\* abandon(), which the caller uses for a range that is Exhausted.
Abandon(n) ==
    /\ pc[n] = "exhausted"
    /\ abandoned' = abandoned \cup {range[n]}
    /\ Goto(n, "idle")
    /\ UNCHANGED <<reclaim, clock, skew, row, range, mem, granted, late>>

\* INSERT ... IF NOT EXISTS, or UPDATE ... IF lease_until < now.
ExpiredAtEquality(r, now) == row[r].until <= now
Expired(r, now) == row[r].until < now
Applies(n) ==
    IF mem[n].hint = NoRow THEN row[range[n]] = NoRow ELSE Expired(range[n], mem[n].now)

ExpiresAt(now) == now + LeaseDuration
Claimed(n) == [node |-> n, until |-> ExpiresAt(mem[n].now), attempt |-> mem[n].hint.attempt + 1]

Grant(n) ==
    /\ row' = [row EXCEPT ![range[n]] = Claimed(n)]
    /\ granted' = [granted EXCEPT ![range[n]] = @ + 1]

ClaimGranted(n) ==
    /\ pc[n] = "claim" /\ Applies(n)
    /\ Grant(n)
    /\ mem' = [mem EXCEPT ![n] = [@ EXCEPT !.expires = ExpiresAt(mem[n].now), !.renewed = mem[n].now]]
    /\ Goto(n, "hold")
    /\ UNCHANGED <<reclaim, clock, skew, range, abandoned, late>>

ClaimDenied(n) ==
    /\ pc[n] = "claim" /\ ~Applies(n)
    /\ Goto(n, "idle")
    /\ UNCHANGED <<reclaim, clock, skew, row, range, mem, granted, abandoned, late>>

\* The transaction returned an error; it may have been applied.
ClaimFails(n) ==
    /\ MayFail /\ pc[n] = "claim"
    /\ \/ Applies(n) /\ Grant(n)
       \/ UNCHANGED <<row, granted>>
    /\ Goto(n, "idle")
    /\ UNCHANGED <<reclaim, clock, skew, range, mem, abandoned, late>>

-----------------------------------------------------------------------------
(* keep_alive(): renew on the heartbeat until cancelled or lost.            *)

BeginRenew(n) ==
    /\ pc[n] = "hold"
    /\ mem' = [mem EXCEPT ![n].now = Now(n)]
    /\ Goto(n, "renew")
    /\ UNCHANGED <<reclaim, clock, skew, row, range, granted, abandoned, late>>

\* UPDATE ... IF node_id = ?
RenewUnconditionally(n) == TRUE
StillHolder(n) == row[range[n]].node = n
Extend(n, until) == row' = [row EXCEPT ![range[n]].until = until]

Renewed(n) ==
    /\ pc[n] = "renew" /\ StillHolder(n)
    /\ Extend(n, ExpiresAt(mem[n].now))
    /\ mem' = [mem EXCEPT ![n] = [@ EXCEPT !.expires = ExpiresAt(mem[n].now), !.renewed = mem[n].now]]
    /\ Goto(n, "hold")
    /\ UNCHANGED <<reclaim, clock, skew, range, granted, abandoned, late>>

\* LeaseEnd::Lost.
Lost(n) ==
    /\ pc[n] = "renew" /\ ~StillHolder(n)
    /\ Goto(n, "idle")
    /\ UNCHANGED <<reclaim, clock, skew, row, range, mem, granted, abandoned, late>>

\* Lease::is_expired_at().
IsExpired(n) == Now(n) >= mem[n].expires

\* A renewal that fails is not a lost lease, until the lease's own expiry has passed.
RenewFails(n) ==
    /\ MayFail /\ pc[n] = "renew"
    /\ \/ StillHolder(n) /\ Extend(n, ExpiresAt(mem[n].now))
       \/ UNCHANGED row
    /\ Goto(n, IF IsExpired(n) THEN "idle" ELSE "hold")
    /\ UNCHANGED <<reclaim, clock, skew, range, mem, granted, abandoned, late>>

\* The range is finished, or the run shuts down: the work is over before the lease is released.
Cancel(n) ==
    /\ pc[n] = "hold"
    /\ Goto(n, "release")
    /\ UNCHANGED <<reclaim, clock, skew, row, range, mem, granted, abandoned, late>>

\* release_lease() renews to the epoch, under the same condition; an error is only logged.
Release(n) ==
    /\ pc[n] = "release"
    /\ \/ StillHolder(n) /\ Extend(n, Epoch)
       \/ (MayFail \/ ~StillHolder(n)) /\ UNCHANGED row
    /\ Goto(n, "idle")
    /\ UNCHANGED <<reclaim, clock, skew, range, mem, granted, abandoned, late>>

-----------------------------------------------------------------------------
(* The environment.                                                         *)

\* The process dies and comes back under its old name; its rows stay.
Die(n) ==
    /\ MayFail /\ pc[n] # "idle"
    /\ Goto(n, "idle")
    /\ UNCHANGED <<reclaim, clock, skew, row, range, mem, granted, abandoned, late>>

Holding(n) == pc[n] \in {"hold", "renew"}
Due(n) == \/ Holding(n) /\ Now(n) >= mem[n].renewed + Heartbeat
          \/ pc[n] \in {"read", "claim"} /\ Now(n) >= mem[n].now + Heartbeat

Tick ==
    /\ clock < MaxTime
    /\ clock' = clock + 1
    /\ late' = (late \/ \E n \in Nodes : Due(n))
    /\ UNCHANGED <<reclaim, skew, row, pc, range, mem, granted, abandoned>>

NodeStep(n) ==
    \/ \E r \in Ranges : ReadClock(n, r)
    \/ ReadLease(n) \/ Abandon(n) \/ ClaimGranted(n) \/ ClaimDenied(n) \/ ClaimFails(n)
    \/ BeginRenew(n) \/ Renewed(n) \/ Lost(n) \/ RenewFails(n)
    \/ Cancel(n) \/ Release(n) \/ Die(n)

Next == Tick \/ \E n \in Nodes : NodeStep(n)

Spec == Init /\ [][Next]_vars

-----------------------------------------------------------------------------
(* Properties.                                                              *)

Rows == [node : Nodes \cup {None}, until : Nat, attempt : Nat]
Leases == [now : Nat, hint : Rows, expires : Nat, renewed : Nat]

\* Type invariant of the lease table and of what a node remembers (LeaseRecord, Lease).
TypeOK ==
    /\ {reclaim, late} \subseteq BOOLEAN
    /\ clock \in Nat /\ skew \in [Nodes -> Skews]
    /\ row \in [Ranges -> Rows]
    /\ pc \in [Nodes -> {"idle", "read", "claim", "exhausted", "hold", "renew", "release"}]
    /\ range \in [Nodes -> Ranges \cup {None}]
    /\ mem \in [Nodes -> Leases]
    /\ granted \in [Ranges -> Nat]
    /\ abandoned \subseteq Ranges
    /\ \A r \in Ranges : row[r].attempt <= MaxAttempts

OneClock == \A m, n \in Nodes : skew[m] = skew[n]
Believes(n, r) == Holding(n) /\ range[n] = r /\ ~IsExpired(n)

\* lib.rs: "at most one node holds the lease on a range at a time".  With one clock, no two nodes
\* both hold a lease on a range that neither considers expired, whoever stalls, dies or is told
\* an error for a transaction that was applied (claim_range, renew_lease, is_expired_at).
OneHolder ==
    OneClock => \A r \in Ranges : \A m, n \in Nodes : Believes(m, r) /\ Believes(n, r) => m = n

\* ReclaimPolicy::Refuse: whatever the clocks say, a range of a counter table is granted once and
\* never again, not even when its holder released it (claim, INSERT ... IF NOT EXISTS).
RefuseGrantsOnce == ~reclaim => \A r \in Ranges : granted[r] <= 1

\* DST-012: a node that renews within every heartbeat never loses its lease, as long as no other
\* clock is ahead of its own by more than lease_duration - heartbeat: the strict comparison of
\* reclaim_if_expired makes exactly that skew still safe.
SafeSkew == \A m, n \in Nodes : skew[m] - skew[n] <= LeaseDuration - Heartbeat
PunctualKeepsLease ==
    ~late /\ SafeSkew => \A n \in Nodes : Holding(n) => row[range[n]].node = n

\* DST-013: a range is abandoned only after it was really claimed max_attempts times (claim,
\* abandon), and no lease ever records more attempts than were made.
AbandonedWasTried ==
    /\ \A r \in abandoned : granted[r] >= MaxAttempts
    /\ \A r \in Ranges : row[r].attempt <= granted[r]
=============================================================================
