---------------------------- MODULE HealthMonitor ----------------------------
(***************************************************************************)
(* ConnectorHealthMonitor of core/connector_health.py on each gateway        *)
(* replica, for one connector instance: polls read the enabled rows, ask     *)
(* GET /health, count consecutive failures in the replica's memory and      *)
(* disable the row at the threshold.  The status copy for the dashboard is   *)
(* left out.                                                                 *)
(***************************************************************************)
EXTENDS ConnectorHttp

CONSTANTS
    Monitors,          \* one per replica
    DisableThreshold   \* auto_disable_threshold

ASSUME MonitorAssumption == DisableThreshold \in Nat \ {0}

VARIABLES
    enabled,      \* is_enabled of the instance
    poll,         \* where a monitor's poll is
    count         \* _failure_counts of each monitor

monitor == <<enabled, poll, count>>

MonitorTypeOK ==
    /\ enabled \in BOOLEAN
    /\ poll \in [Monitors -> {"idle", "checking", "disabling"}]
    /\ count \in [Monitors -> Nat]

MonitorInit ==
    /\ enabled = TRUE
    /\ poll = [m \in Monitors |-> "idle"]
    /\ count = [m \in Monitors |-> 0]

\* _get_active_targets
StartPoll(m) ==
    /\ poll[m] = "idle"
    /\ enabled
    /\ poll' = [poll EXCEPT ![m] = "checking"]
    /\ UNCHANGED <<enabled, count, connector>>

Reached(n) == n >= DisableThreshold

\* Mutant: every poll begins to count anew.
CheckForgets(m) ==
    /\ poll[m] = "checking"
    /\ \/ /\ up
          /\ count' = [count EXCEPT ![m] = 0]
          /\ UNCHANGED faults
       \/ /\ IF up THEN Fault ELSE UNCHANGED faults
          /\ count' = [count EXCEPT ![m] = 1]
    /\ poll' = [poll EXCEPT ![m] = IF Reached(count'[m]) THEN "disabling" ELSE "idle"]
    /\ UNCHANGED <<enabled, up, account, breaker, failures, cooled, spare, req, effects>>

\* GET /health: a running SDK connector answers 200, also when degraded; it may
\* be too slow for the request timeout.
CheckOne(m) ==
    /\ poll[m] = "checking"
    /\ \/ /\ up
          /\ count' = [count EXCEPT ![m] = 0]
          /\ UNCHANGED faults
       \/ /\ IF up THEN Fault ELSE UNCHANGED faults
          /\ count' = [count EXCEPT ![m] = @ + 1]
    /\ poll' = [poll EXCEPT ![m] = IF Reached(count'[m]) THEN "disabling" ELSE "idle"]
    /\ UNCHANGED <<enabled, up, account, breaker, failures, cooled, spare,
                   req, effects>>

\* _auto_disable_instance: the count is reset only after the commit.
AutoDisable(m) ==
    /\ poll[m] = "disabling"
    /\ \/ /\ enabled' = FALSE
          /\ count' = [count EXCEPT ![m] = 0]
          /\ UNCHANGED faults
       \/ /\ Fault
          /\ UNCHANGED <<enabled, count>>
    /\ poll' = [poll EXCEPT ![m] = "idle"]
    /\ UNCHANGED <<up, account, breaker, failures, cooled, spare, req, effects>>

\* activate_connector of an instance that exists.
Activate ==
    /\ ~ enabled
    /\ enabled' = TRUE
    /\ UNCHANGED <<poll, count, connector>>

MonitorStep(m) == StartPoll(m) \/ CheckOne(m) \/ AutoDisable(m)
=============================================================================
