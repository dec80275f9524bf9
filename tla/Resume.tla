------------------------------- MODULE Resume --------------------------------
(***************************************************************************)
(* Choosing a previous run and turning its recorded ranges into the work    *)
(* list of the next one (crates/cdm-track/src/resume.rs, with the statuses  *)
(* of crates/cdm-core/src/domain/run.rs).  Pure operators: a run row is a   *)
(* record with its status and whether its metrics string reports failed     *)
(* partitions, the range rows a function from ranges to statuses.           *)
(* Subdivision and shuffling change which sub-ranges carry the work and in  *)
(* which order, not which tokens are re-planned, and are left out.          *)
(***************************************************************************)

\* No row in the table for this run or this range.
Absent == "Absent"

\* RunStatus::is_pending().
PendingStatus == {"NOT_STARTED", "STARTED", "FAIL", "DIFF"}

\* RerunPolicy::for_job() and is_counter_restricted().
WritesToTarget(job, correcting) ==
    CASE job = "migrate" -> TRUE
      [] job = "validate" -> correcting
      [] job = "guardrail" -> FALSE
Restricted(job, counterTable, correcting) == counterTable /\ WritesToTarget(job, correcting)

\* RerunPolicy::rerunnable_statuses().
RerunnableWithFailed(restricted) == IF restricted THEN {"NOT_STARTED", "FAIL"} ELSE PendingStatus
Rerunnable(restricted) == IF restricted THEN {"NOT_STARTED"} ELSE PendingStatus

\* RerunPolicy::disposition() of a recorded status.
Disposition(restricted, status) ==
    CASE status \in Rerunnable(restricted) -> "Rerun"
      [] restricted /\ status \in PendingStatus -> "Quarantined"
      [] OTHER -> "Complete"

\* is_resumable(): auto_rerun adopts a run that did not end, or ended with failed partitions.
IsResumable(run) == run.status # "ENDED" \/ run.failed

\* plan_resume(): the fallbacks first, then the disposition of every recorded range.
Recorded(rows) == {r \in DOMAIN rows : rows[r] # Absent}
IsFallback(run, rows) ==
    \/ run.status \in {Absent, "NOT_STARTED"}
    \/ Recorded(rows) = {}
Replanned(rows, restricted) ==
    {r \in Recorded(rows) : Disposition(restricted, rows[r]) = "Rerun"}
=============================================================================
