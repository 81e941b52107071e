----------------------------- MODULE AgentState -----------------------------
(***************************************************************************)
(* internal/state: the life-cycle machine that the goroutines of the agent *)
(* share.  Machine.mu makes every Transition and every Snapshot atomic;    *)
(* the reason, the timestamp and the onChange callback (which copies the   *)
(* state to a metric) are left out.                                        *)
(***************************************************************************)
VARIABLE machine        \* Machine.state

AgentStates == {"PENDING_KEY", "REGISTERED", "CONNECTING", "ONLINE",
                "DEGRADED", "OFFLINE", "REVOKED"}

\* Mutant of allowed: a degraded agent cannot come online.
allowedNoRecovery ==
  [s \in AgentStates |->
     CASE s = "PENDING_KEY" -> {"REGISTERED", "REVOKED"}
       [] s = "REGISTERED"  -> {"CONNECTING", "REVOKED", "OFFLINE"}
       [] s = "DEGRADED"    -> {"OFFLINE", "CONNECTING", "REVOKED"}
       [] s = "OFFLINE"     -> {"CONNECTING", "REGISTERED", "REVOKED"}
       [] s = "REVOKED"     -> {}
       [] OTHER -> {"ONLINE", "DEGRADED", "OFFLINE", "CONNECTING", "REVOKED"}]

\* Mutant of allowed: a revoked agent can still be degraded.
allowedAfterRevoke ==
  [s \in AgentStates |->
     CASE s = "PENDING_KEY" -> {"REGISTERED", "REVOKED"}
       [] s = "REGISTERED"  -> {"CONNECTING", "REVOKED", "OFFLINE"}
       [] s = "OFFLINE"     -> {"CONNECTING", "REGISTERED", "REVOKED"}
       [] s = "REVOKED"     -> {"DEGRADED"}
       [] OTHER -> {"ONLINE", "DEGRADED", "OFFLINE", "CONNECTING", "REVOKED"}]

\* The edges of the life cycle.
allowed ==
  [s \in AgentStates |->
     CASE s = "PENDING_KEY" -> {"REGISTERED", "REVOKED"}
       [] s = "REGISTERED"  -> {"CONNECTING", "REVOKED", "OFFLINE"}
       [] s = "CONNECTING"  -> {"ONLINE", "DEGRADED", "OFFLINE", "REVOKED"}
       [] s = "ONLINE"      -> {"DEGRADED", "OFFLINE", "CONNECTING", "REVOKED"}
       [] s = "DEGRADED"    -> {"ONLINE", "OFFLINE", "CONNECTING", "REVOKED"}
       [] s = "OFFLINE"     -> {"CONNECTING", "REGISTERED", "REVOKED"}
       [] s = "REVOKED"     -> {}]

\* Transition returns an error exactly when this is false.
Permits(next) == next = machine \/ next \in allowed[machine]

\* Mutant of Transition: no check.
TransitionUnchecked(next) == machine' = next

\* Machine.Transition as its callers use it: all of them discard the error,
\* so a refused transition silently leaves the state as it was.
Transition(next) == machine' = IF Permits(next) THEN next ELSE machine
=============================================================================
