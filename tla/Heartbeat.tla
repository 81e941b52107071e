------------------------------ MODULE Heartbeat ------------------------------
(***************************************************************************)
(* internal/heartbeat: the goroutine that collects the cluster's health    *)
(* and reports it, together with the state of the machine, every interval. *)
(***************************************************************************)
EXTENDS AgentState, Registration

VARIABLES hb,           \* where Runner.Run / once is
          hbState,      \* payload.State of the heartbeat being sent
          hbTries,      \* failed attempts of the current heartbeat
          kube,         \* the Kubernetes API answers
          reported      \* control plane: State of the last heartbeat it took

heartbeatVars == <<hb, hbState, hbTries, kube, reported>>

HeartbeatPCs == {"off", "collect", "degrade", "snapshot", "post", "wait", "done"}

HeartbeatInit ==
  /\ hb = "off"
  /\ hbState = "PENDING_KEY"
  /\ hbTries = 0
  /\ kube = TRUE
  /\ reported = "PENDING_KEY"

shared == <<token, issued, oldest, handed, ctxDone>>

\* kube.Health: five lists, of which one failing fails the whole.
Collect ==
  /\ hb = "collect"
  /\ hb' = IF kube THEN "snapshot" ELSE "degrade"
  /\ UNCHANGED <<machine, hbState, hbTries, kube, reported, shared>>

\* Mutant of Degrade: the error ends Run, not the beat.
DegradeEndsRun ==
  /\ hb = "degrade"
  /\ Transition("DEGRADED")
  /\ hb' = "done"
  /\ UNCHANGED <<hbState, hbTries, kube, reported, shared>>

\* Health failed: the beat ends here and nothing is sent.
Degrade ==
  /\ hb = "degrade"
  /\ Transition("DEGRADED")
  /\ hb' = "wait"
  /\ UNCHANGED <<hbState, hbTries, kube, reported, shared>>

\* Mutant of TakeSnapshot: State is not filled in.
TakeSnapshotForgotten ==
  /\ hb = "snapshot"
  /\ hbState' = ""
  /\ hb' = "post"
  /\ UNCHANGED <<machine, hbTries, kube, reported, shared>>

\* The payload is built once; every retry sends it again.
TakeSnapshot ==
  /\ hb = "snapshot"
  /\ hbState' = machine
  /\ hb' = "post"
  /\ UNCHANGED <<machine, hbTries, kube, reported, shared>>

\* once returns: payload and retry counter go out of scope.
Return ==
  /\ hb' = "wait"
  /\ hbState' = "PENDING_KEY"
  /\ hbTries' = 0

\* One attempt of api.Heartbeat, with the token of that moment.
PostOk ==
  /\ hb = "post"
  /\ ~ctxDone
  /\ Accepted
  /\ reported' = hbState
  /\ Return
  /\ UNCHANGED <<machine, kube, shared>>

\* The attempt failed; the control plane may have taken the payload and only
\* the answer was lost.  A cancelled context ends the loop without an attempt.
PostFail ==
  /\ hb = "post"
  /\ \/ /\ MayRetry(hbTries)
        /\ hbTries' = hbTries + 1
        /\ UNCHANGED <<hb, hbState>>
     \/ /\ MayStop(hbTries)
        /\ Return
  /\ reported' \in {reported} \cup (IF Accepted THEN {hbState} ELSE {})
  /\ UNCHANGED <<machine, kube, shared>>

PostCancelled ==
  /\ hb = "post"
  /\ ctxDone
  /\ Return
  /\ UNCHANGED <<machine, kube, reported, shared>>

\* The select on the context and the ticker.
Wait ==
  /\ hb = "wait"
  /\ \/ hb' = "collect"
     \/ ctxDone /\ hb' = "done"
  /\ UNCHANGED <<machine, hbState, hbTries, kube, reported, shared>>

HeartbeatStep ==
  \/ Collect \/ Degrade \/ TakeSnapshot \/ PostOk \/ PostFail \/ PostCancelled \/ Wait

\* The Kubernetes API goes away and comes back.
KubeToggles ==
  /\ kube' = ~kube
  /\ UNCHANGED <<machine, hb, hbState, hbTries, reported, shared>>
=============================================================================
