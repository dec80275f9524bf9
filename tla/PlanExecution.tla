---------------------------- MODULE PlanExecution ----------------------------
(***************************************************************************)
(* What executing a plan promises, whoever does it: every range is handed   *)
(* out at most once, is settled by the one who took it, and when the run    *)
(* is over nothing is in flight and the report names exactly the ranges     *)
(* nobody took.  A run may only call itself ENDED when every range of the   *)
(* plan was settled.                                                        *)
(***************************************************************************)
CONSTANTS Plan,      \* the ranges of the plan
          Settled,   \* the ways one range can end
          Lost       \* the one of them that leaves the range unprocessed

VARIABLES
    todo,     \* ranges nobody took
    active,   \* ranges in flight
    done,     \* how each settled range ended
    status    \* the status of the run

planVars == <<todo, active, done, status>>

Unsettled == "Unsettled"

PlanInit ==
    /\ todo = Plan
    /\ active = {}
    /\ done = [r \in Plan |-> Unsettled]
    /\ status = "STARTED"

Take(r) ==
    /\ status = "STARTED"
    /\ r \in todo
    /\ todo' = todo \ {r}
    /\ active' = active \cup {r}
    /\ UNCHANGED <<done, status>>

Settle(r, how) ==
    /\ status = "STARTED"
    /\ r \in active
    /\ active' = active \ {r}
    /\ done' = [done EXCEPT ![r] = how]
    /\ UNCHANGED <<todo, status>>

End(s) ==
    /\ status = "STARTED"
    /\ active = {}
    /\ s = "ENDED" => todo = {} /\ \A r \in Plan : done[r] # Lost
    /\ status' = s
    /\ UNCHANGED <<todo, active, done>>

PlanNext ==
    \/ \E r \in Plan : Take(r)
    \/ \E r \in Plan, how \in Settled : Settle(r, how)
    \/ \E s \in {"ENDED", "INTERRUPTED", "ABORTED"} : End(s)

PlanSpec == PlanInit /\ [][PlanNext]_planVars
=============================================================================
