---- MODULE CoordinatorSettings ----
(* The lease policy a node of a distributed run is built with, before it joins the run
   (RunElection) and leases its ranges (Coordinator): CoordinatorSettings::new of
   crates/cdm-cluster/src/settings.rs.  Durations are in ticks.  Whether an expired lease may be
   reclaimed is no constant: Coordinator considers both policies. *)
EXTENDS Integers

CONSTANTS
    LeaseDuration,    \* cluster.lease_duration; also how long await_started waits
    Heartbeat,        \* cluster.heartbeat_interval
    MaxAttempts       \* cluster.max_attempts

\* What new() refuses: a lease that is over when it is granted, a renewal without a pause, a node
\* that cannot miss one renewal, and a range that is abandoned untried.
ASSUME SettingsAssumption ==
    /\ LeaseDuration \in Nat \ {0} /\ Heartbeat \in Nat \ {0}
    /\ 2 * Heartbeat <= LeaseDuration
    /\ MaxAttempts \in Nat \ {0}

CONSTANTS
    Nodes,            \* the processes that take part in the run
    Ranges            \* the token ranges of its plan
====
