------------------------------- MODULE Agent -------------------------------
(***************************************************************************)
(* cmd/agent: the boot sequence of run, the two goroutines that share the  *)
(* life-cycle machine and the token store (tunnel and heartbeat), the      *)
(* control plane and the network around them, and the death and restart of *)
(* the process.                                                            *)
(***************************************************************************)
EXTENDS Tunnel, Heartbeat

CONSTANT MaxRestarts    \* bound: how often the process is started again

ASSUME AgentAssumption == MaxRestarts \in Nat

VARIABLES main,         \* where run is
          bootTries,    \* failed attempts of the boot request in progress
          restarts      \* how often Kubernetes restarted the container

bootVars == <<main, bootTries, restarts>>
vars == <<machine, tunnelVars, tokenVars, ctxDone, heartbeatVars, bootVars>>

MainPCs == {"metadata", "register", "registered", "capabilities", "running", "exited"}

Init ==
  /\ machine = "PENDING_KEY"
  /\ token = 0 /\ issued = 0 /\ oldest = 1 /\ handed = 0
  /\ ctxDone = FALSE
  /\ TunnelInit
  /\ HeartbeatInit
  /\ main = "metadata" /\ bootTries = 0 /\ restarts = 0

-----------------------------------------------------------------------------
(* The boot sequence.  Until it is over only run itself touches the state. *)

\* The process ends: with it goes all it had in memory, and its connection.
Exit ==
  /\ main' = "exited"
  /\ machine' = "PENDING_KEY"
  /\ token' = 0 /\ handed' = 0
  /\ ctxDone' = FALSE
  /\ tunnel' = "off" /\ connected' = FALSE /\ link' = "none" /\ inbox' = <<>>
  /\ reg' = [ws |-> NoEndpoint, url |-> NoEndpoint] /\ announced' = NoEndpoint
  /\ hb' = "off" /\ hbState' = "PENDING_KEY" /\ hbTries' = 0
  /\ bootTries' = 0
  /\ UNCHANGED <<issued, oldest, kube, reported, restarts>>

\* The JWTs the control plane may put into a registration response: the
\* current one, while it is good, or the next.
Fresh == {jwt \in {issued, issued + 1} \cap Jwts : jwt >= oldest}

\* ClusterMetadata, which is asked for once.
MetadataOk ==
  /\ main = "metadata"
  /\ ~ctxDone
  /\ kube
  /\ main' = "register"
  /\ UNCHANGED <<machine, tokenVars, ctxDone, tunnelVars, heartbeatVars, bootTries, restarts>>

\* The control plane takes a registration, and the agent may never see the answer.
TakeRegistration ==
  /\ main = "register"
  /\ issued' \in Fresh
  /\ reported' = machine
  /\ UNCHANGED <<machine, token, oldest, handed, ctxDone, tunnelVars, hb, hbState, hbTries,
                 kube, bootVars>>

\* The request carries the machine's state.
RegisterOk ==
  /\ main = "register"
  /\ ~ctxDone
  /\ \E jwt \in Fresh, ws \in Optional, url \in Optional :
       /\ Set(jwt)
       /\ issued' = jwt /\ handed' = jwt
       /\ reg' = Registered(ws, url)
  /\ reported' = machine
  /\ main' = "registered"
  /\ bootTries' = 0
  /\ UNCHANGED <<machine, oldest, ctxDone, tunnel, connected, link, inbox, announced,
                 hb, hbState, hbTries, kube, restarts>>

MarkRegistered ==
  /\ main = "registered"
  /\ Transition("REGISTERED")
  /\ main' = "capabilities"
  /\ UNCHANGED <<tokenVars, ctxDone, tunnelVars, heartbeatVars, bootTries, restarts>>

\* RegisterCapabilities succeeds and run starts the goroutines.
CapabilitiesOk ==
  /\ main = "capabilities"
  /\ ~ctxDone
  /\ Accepted
  /\ main' = "running"
  /\ tunnel' = "check"
  /\ hb' = "collect"
  /\ bootTries' = 0
  /\ UNCHANGED <<machine, tokenVars, ctxDone, connected, link, inbox, reg, announced,
                 hbState, hbTries, kube, reported, restarts>>

\* An attempt of a boot request failed and backoff.Retry has time for another.
BootRetry ==
  /\ main \in {"register", "capabilities"}
  /\ ~ctxDone
  /\ MayRetry(bootTries)
  /\ bootTries' = bootTries + 1
  /\ UNCHANGED <<machine, tokenVars, ctxDone, tunnelVars, heartbeatVars, main, restarts>>

\* Any other error of a boot request ends the process.
BootFail ==
  /\ \/ main \in {"register", "capabilities"} /\ (MayStop(bootTries) \/ ctxDone)
     \/ main = "metadata" /\ (~kube \/ ctxDone)
  /\ Exit

\* SIGTERM or SIGINT cancels the context.
Signal ==
  /\ main # "exited"
  /\ ~ctxDone
  /\ ctxDone' = TRUE
  /\ UNCHANGED <<machine, tokenVars, tunnelVars, heartbeatVars, bootVars>>

\* run returns without waiting for the goroutines.
Shutdown == main = "running" /\ ctxDone /\ Exit

\* The container is killed at any moment.
Crash == main # "exited" /\ restarts < MaxRestarts /\ Exit

Restart ==
  /\ main = "exited"
  /\ restarts < MaxRestarts
  /\ restarts' = restarts + 1
  /\ main' = "metadata"
  /\ UNCHANGED <<machine, tokenVars, ctxDone, tunnelVars, heartbeatVars, bootTries>>

BootStep ==
  \/ MetadataOk \/ RegisterOk \/ MarkRegistered \/ CapabilitiesOk \/ BootRetry \/ BootFail
  \/ Shutdown \/ Restart

-----------------------------------------------------------------------------
(* The goroutines and what surrounds them.                                 *)

TunnelRuns == TunnelStep /\ UNCHANGED <<heartbeatVars, bootVars>>
HeartbeatRuns == HeartbeatStep /\ UNCHANGED <<tunnelVars, bootVars>>

Environment ==
  \/ TakeRegistration
  \/ (SendEnvelope \/ CutLink) /\ UNCHANGED <<heartbeatVars, bootVars>>
  \/ ExpireJwt /\ UNCHANGED <<machine, tunnelVars, heartbeatVars, bootVars>>
  \/ KubeToggles /\ UNCHANGED <<tunnelVars, bootVars>>

Next ==
  \/ BootStep \/ Signal \/ Crash
  \/ TunnelRuns \/ HeartbeatRuns \/ Environment

Spec == Init /\ [][Next]_vars

\* The Go scheduler runs every goroutine that can run, timers fire, and a
\* container that exited is started again.
Scheduling ==
  /\ WF_vars(BootStep)
  /\ WF_vars(TunnelRuns)
  /\ WF_vars(HeartbeatRuns)

\* Requests that could succeed do not fail for ever.
NetworkRecovers ==
  /\ SF_vars(DialOk /\ UNCHANGED <<heartbeatVars, bootVars>>)
  /\ SF_vars(PostOk /\ UNCHANGED <<tunnelVars, bootVars>>)

FairSpec == Spec /\ Scheduling /\ NetworkRecovers

-----------------------------------------------------------------------------
(* What the state looks like.                                              *)

\* Every variable has its type.
TypeOK ==
  /\ machine \in AgentStates
  /\ token \in Jwts /\ issued \in Jwts /\ handed \in Jwts /\ oldest \in 1..(MaxJwt + 1)
  /\ ctxDone \in BOOLEAN
  /\ tunnel \in TunnelPCs
  /\ connected \in BOOLEAN
  /\ link \in {"none", "open", "cut"}
  /\ inbox \in Seq(Envelopes) /\ Len(inbox) <= MaxInbox
  /\ reg \in [ws : Optional, url : Optional]
  /\ announced \in Optional
  /\ hb \in HeartbeatPCs
  /\ hbState \in AgentStates
  /\ hbTries \in Nat
  /\ kube \in BOOLEAN
  /\ reported \in AgentStates
  /\ main \in MainPCs
  /\ bootTries \in Nat
  /\ restarts \in 0..MaxRestarts

\* The states the machine can be in at each point of the tunnel goroutine
\* while the heartbeat goroutine may degrade it between any two steps.
StatesAt ==
  [pc \in TunnelPCs |->
     CASE pc = "off" -> {"PENDING_KEY", "REGISTERED"}
       [] pc \in {"check", "done"} -> {"REGISTERED", "OFFLINE", "REVOKED"}
       [] pc = "connecting" -> {"REGISTERED", "OFFLINE"}
       [] pc \in {"dial", "publish", "online"} -> {"CONNECTING", "DEGRADED"}
       [] pc = "serve" -> {"ONLINE", "DEGRADED"}
       [] pc = "close" -> {"ONLINE", "DEGRADED", "REVOKED"}
       [] pc \in {"drop", "recheck"} -> {"CONNECTING", "ONLINE", "DEGRADED", "REVOKED"}
       [] pc = "offline" -> {"CONNECTING", "ONLINE", "DEGRADED"}
       [] pc = "backoff" -> {"OFFLINE", "REVOKED"}]

\* The reported state and the tunnel's progress agree at every interleaving
\* of the two goroutines: a revoked agent never connects or serves, an agent
\* without a tunnel never stays ONLINE.
MachineFollowsTunnel == machine \in StatesAt[tunnel]

\* No caller looks at the error of Transition.  No interleaving makes the
\* machine refuse a transition of boot or tunnel; what it refuses is to let a
\* failed heartbeat degrade an agent that is revoked or has no tunnel up.
RefusedOnlyWithoutTunnel ==
  /\ main = "registered" => Permits("REGISTERED")
  /\ tunnel = "connecting" => Permits("CONNECTING")
  /\ tunnel = "online" => Permits("ONLINE")
  /\ tunnel = "serve" => Permits("REVOKED")
  /\ tunnel = "offline" => Permits("OFFLINE")
  /\ hb = "degrade" =>
       \/ Permits("DEGRADED")
       \/ machine = "REVOKED"
       \/ tunnel \in {"backoff", "check", "connecting", "done"}

\* /readyz says "ready" for as long as the tunnel serves; and when it says so
\* there is a connection (which the peer may have cut, the reader not having
\* noticed yet), but for the one step between the deferred Close of
\* connectAndServe and the connected.Store(false) of Run.
ReadyzHonest ==
  /\ tunnel \in {"online", "serve", "close"} => connected
  /\ connected => link # "none" \/ tunnel = "drop"

\* After a rotation that names an endpoint every later dial of this process
\* goes to it, whatever registration had said.
EndpointFollowsRotation ==
  tunnel = "dial" /\ announced # NoEndpoint => Endpoint = announced

\* No envelope behind this one carries a JWT, but this one does.
CarriesLastJwt(i) ==
  inbox[i].jwt # 0 /\ \A j \in DOMAIN inbox : i < j => inbox[j].jwt = 0

\* The JWT handed out last wins, be it newer than the others or not, whatever
\* rotations without a JWT, repeated ones and lost connections there are: it
\* is the last one under way to the agent, or the agent holds it.
LastJwtWins ==
  /\ \A i \in DOMAIN inbox : CarriesLastJwt(i) => inbox[i].jwt = handed
  /\ (\A i \in DOMAIN inbox : inbox[i].jwt = 0) => token = handed

(* What makes these inductive.                                             *)

\* Until the goroutines run, run alone decides on the state.
BootOrder ==
  /\ main \in {"metadata", "register", "registered", "exited"} => machine = "PENDING_KEY"
  /\ main = "capabilities" => machine = "REGISTERED"
  /\ main \in {"registered", "capabilities"} => reported = "PENDING_KEY"
  /\ main # "running" =>
       /\ tunnel = "off" /\ connected = FALSE /\ link = "none" /\ inbox = <<>>
       /\ announced = NoEndpoint
       /\ hb = "off" /\ hbState = "PENDING_KEY"
  /\ main = "running" => tunnel # "off"

\* A heartbeat that says REVOKED, sent or about to be, is never ahead of the
\* machine, and behind one nothing else is under way.
ReportFollowsMachine ==
  /\ hbState = "REVOKED" => machine = "REVOKED"
  /\ reported = "REVOKED" /\ main = "running" =>
       machine = "REVOKED" /\ (hb = "post" => hbState = "REVOKED")

\* There is a connection from its dial to its close, and only it holds
\* envelopes; /readyz lags behind it by one step at either end.
LinkFollowsTunnel ==
  /\ link # "none" <=> tunnel \in {"publish", "online", "serve", "close"}
  /\ link = "none" => inbox = <<>>
  /\ connected => tunnel \in {"online", "serve", "close", "drop"}

\* Only rotations carry JWTs.
JwtsInRotations ==
  \A i \in DOMAIN inbox : inbox[i].jwt # 0 => inbox[i].type = "credential_rotation"

\* A rotated endpoint is in both fields TunnelURL reads.
RotationInForce ==
  announced # NoEndpoint => reg = [ws |-> announced, url |-> announced]

\* Everything the agent's shared state obeys between two steps of any goroutine.
IInv ==
  /\ TypeOK
  /\ BootOrder
  /\ MachineFollowsTunnel
  /\ ReadyzHonest
  /\ LinkFollowsTunnel
  /\ JwtsInRotations
  /\ LastJwtWins
  /\ ReportFollowsMachine
  /\ RotationInForce

-----------------------------------------------------------------------------
(* What a step may never do.                                               *)

\* Within one life of the process a revocation is final, whatever the
\* heartbeat does at the same time.
RevokedIsFinal == [][machine = "REVOKED" => machine' = "REVOKED" \/ main' = "exited"]_vars

\* Once the control plane has heard REVOKED, no heartbeat of this agent takes
\* that back, not even one retried late; only a new registration does.
RevocationNotTakenBack ==
  [][reported = "REVOKED" => reported' = "REVOKED" \/ main = "register"]_vars

-----------------------------------------------------------------------------
(* What must happen.                                                       *)

Alive == main = "running" /\ ~ctxDone

\* While the agent's JWT is good, a tunnel that goes down comes back: backoff
\* never gives up and no transition gets stuck.
Reconnects ==
  <>[](Alive /\ Accepted /\ machine # "REVOKED") => []<>(tunnel = "serve")

\* A revoked agent takes its tunnel down for good.
RevokedStops == machine = "REVOKED" ~> tunnel = "done" \/ ~Alive

\* When the machine's state has settled and both the control plane and the
\* Kubernetes API answer, the control plane learns that state and keeps it.
HeartbeatCatchesUp ==
  \A s \in AgentStates :
    <>[](Alive /\ Accepted /\ kube /\ machine = s) => <>[](reported = s)

\* docs/operational-runbook.md:64, on a Kubernetes API that is unavailable:
\* "heartbeat enters `DEGRADED`".
OutageReported ==
  <>[](Alive /\ Accepted /\ ~kube /\ machine = "DEGRADED") => <>[](reported = "DEGRADED")

\* docs/operational-runbook.md:51, on an unavailable backend: "No pod restart
\* should be required; reconnect uses exponential backoff".
ReconnectsWithoutRestart ==
  tunnel = "backoff" ~> tunnel = "serve" \/ machine = "REVOKED" \/ ~Alive
=============================================================================
