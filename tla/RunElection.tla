---------------------------- MODULE RunElection ------------------------------
(***************************************************************************)
(* Joining a distributed run: one node wins the insertion of the run row    *)
(* and initialises the run, the others compare configurations and wait for  *)
(* STARTED (crates/cdm-cluster/src/coordinator.rs: join, await_started,     *)
(* check_config_hash; crates/cdm-track/src/store/cassandra.rs:              *)
(* initialise_run).  Any node may die or be told an error at any step.      *)
(***************************************************************************)
EXTENDS CoordinatorSettings

CONSTANT Hashes     \* the digests an effective configuration may have

\* A digest is never mistaken for the metrics that replace it.
ASSUME DigestAssumption == "metrics" \notin Hashes

Absent == "Absent"

VARIABLES
    hash,        \* the digest of each node's effective configuration
    runRow,      \* cdm_run_info: its status, and the digest in run_info while it is there
    rangeRows,   \* cdm_run_details: the ranges that have a row
    at,          \* where each node is in join()
    left         \* the time a waiting node has left

joinVars == <<hash, runRow, rangeRows, at, left>>

JoinInit ==
    /\ hash \in [Nodes -> Hashes]
    /\ runRow = [status |-> Absent, info |-> Absent]
    /\ rangeRows = {}
    /\ at = [n \in Nodes |-> "elect"]
    /\ left = [n \in Nodes |-> 0]

JoinGoto(n, label) == at' = [at EXCEPT ![n] = label]

-----------------------------------------------------------------------------
(* initialise_run().                                                        *)

\* INSERT ... IF NOT EXISTS on the run row.
Wins == runRow.status = Absent

Elect(n) ==
    /\ at[n] = "elect" /\ Wins
    /\ runRow' = [status |-> "NOT_STARTED", info |-> hash[n]]
    /\ JoinGoto(n, "insert")
    /\ UNCHANGED <<hash, rangeRows, left>>

Lose(n) ==
    /\ at[n] = "elect" /\ ~Wins
    /\ JoinGoto(n, "lost")
    /\ UNCHANGED <<hash, runRow, rangeRows, left>>

InsertRange(n) ==
    /\ at[n] = "insert"
    /\ \E r \in Ranges \ rangeRows : rangeRows' = rangeRows \cup {r}
    /\ UNCHANGED <<hash, runRow, at, left>>

\* STARTED comes last, and the row's run_info keeps the digest.
AllInsertedNotChecked == TRUE
AllInserted == rangeRows = Ranges

MarkStarted(n) ==
    /\ at[n] = "insert" /\ AllInserted
    /\ runRow' = [runRow EXCEPT !.status = "STARTED"]
    /\ JoinGoto(n, "joined")
    /\ UNCHANGED <<hash, rangeRows, left>>

-----------------------------------------------------------------------------
(* The losers: check_config_hash(), then await_started().                   *)

HashIgnored(n) == TRUE
HashAgrees(n) == runRow.info = hash[n]

CheckConfigHash(n) ==
    /\ at[n] = "lost"
    /\ IF HashAgrees(n)
         THEN JoinGoto(n, "await") /\ left' = [left EXCEPT ![n] = LeaseDuration]
         ELSE JoinGoto(n, "refused") /\ UNCHANGED left
    /\ UNCHANGED <<hash, runRow, rangeRows>>

\* One poll sees STARTED, a run that is over, or NOT_STARTED; only then the deadline matters.
SeesStarted(n) ==
    /\ at[n] = "await" /\ runRow.status = "STARTED"
    /\ JoinGoto(n, "joined")
    /\ UNCHANGED <<hash, runRow, rangeRows, left>>

SeesFinished(n) ==
    /\ at[n] = "await" /\ runRow.status \notin {"NOT_STARTED", "STARTED"}
    /\ JoinGoto(n, "refused")
    /\ UNCHANGED <<hash, runRow, rangeRows, left>>

WaitsForever(n) == FALSE
DeadlinePassed(n) == left[n] = 0

GivesUp(n) ==
    /\ at[n] = "await" /\ runRow.status = "NOT_STARTED" /\ DeadlinePassed(n)
    /\ JoinGoto(n, "failed")
    /\ UNCHANGED <<hash, runRow, rangeRows, left>>

-----------------------------------------------------------------------------
(* The environment.                                                         *)

\* A store error ends the join, and so does the death of the process.
Fail(n) ==
    /\ at[n] \in {"elect", "insert", "lost", "await"}
    /\ JoinGoto(n, "failed")
    /\ UNCHANGED <<hash, runRow, rangeRows, left>>

\* TRK-022: the run ends and its metrics replace the digest.
EndRun ==
    /\ runRow.status = "STARTED"
    /\ runRow' = [status |-> "ENDED", info |-> "metrics"]
    /\ UNCHANGED <<hash, rangeRows, at, left>>

Elapse(t) == IF t > 0 THEN t - 1 ELSE 0

JoinTick ==
    /\ \E n \in Nodes : at[n] = "await"
    /\ left' = [n \in Nodes |-> IF at[n] = "await" THEN Elapse(left[n]) ELSE left[n]]
    /\ UNCHANGED <<hash, runRow, rangeRows, at>>

Settled(n) == at[n] \in {"joined", "refused", "failed"}
Over == (\A n \in Nodes : Settled(n)) /\ UNCHANGED joinVars

JoinStep(n) ==
    \/ Elect(n) \/ Lose(n) \/ InsertRange(n) \/ MarkStarted(n) \/ CheckConfigHash(n)
    \/ SeesStarted(n) \/ SeesFinished(n) \/ GivesUp(n)

JoinNext == (\E n \in Nodes : JoinStep(n) \/ Fail(n)) \/ EndRun \/ JoinTick \/ Over

JoinSpec == JoinInit /\ [][JoinNext]_joinVars

(***************************************************************************)
(* Every live node keeps executing join() and time passes.  A node that     *)
(* died is one that took Fail; nothing forces or forbids that.              *)
(***************************************************************************)
JoinFairSpec == JoinSpec /\ (\A n \in Nodes : WF_joinVars(JoinStep(n))) /\ WF_joinVars(JoinTick)

-----------------------------------------------------------------------------
(* Properties.                                                              *)

\* Type invariant of the election: a waiting node's remaining time never goes below zero.
JoinTypeOK ==
    /\ hash \in [Nodes -> Hashes]
    /\ runRow \in [status: {Absent, "NOT_STARTED", "STARTED", "ENDED"},
                   info: Hashes \cup {Absent, "metrics"}]
    /\ rangeRows \subseteq Ranges
    /\ at \in [Nodes -> {"elect", "insert", "lost", "await", "joined", "refused", "failed"}]
    /\ left \in [Nodes -> 0..LeaseDuration]

\* LeaseStore::initialise_run: "a node that observes `STARTED` may trust that the range rows
\* exist": whoever takes part in the run sees its whole plan, whatever failed before.
JoinedSeesEveryRange == \A n \in Nodes : at[n] = "joined" => rangeRows = Ranges

\* DST-003: nodes that take part in one run have the same configuration, even though the digest is
\* overwritten when the run ends (check_config_hash).
JoinedAgree ==
    \A m, n \in Nodes : at[m] = "joined" /\ at[n] = "joined" => hash[m] = hash[n]

\* await_started is bounded: no node waits for ever for an initialiser that died before STARTED.
JoinSettles == \A n \in Nodes : (at[n] = "lost") ~> Settled(n)
=============================================================================
