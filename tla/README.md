# Hive Agent: specifications and proofs

This directory holds a TLA+ model of the Hive Agent (the Go program of this
repository), the TLC configurations that check it on small instances, and the
proofs that the TLA+ proof system checks. The models are read off the code in
`cmd/` and `internal/`, not off the documents; where the two disagree, a run
shows it (see *Where code and documents disagree*).

## 1. The system

One process per Kubernetes cluster. `run` (`cmd/agent/main.go`) registers with
the control plane, reports capabilities and starts three goroutines that live
until the process ends: the tunnel, the heartbeat and the inventory. A command
that arrives on the tunnel gets a goroutine of its own, and so do the pings of
each connection. `internal/holmesprovider` is a library for the other side, the
backend that turns agents into tools; it runs in no agent.

| Component | State it keeps | Operations | Talks to |
|---|---|---|---|
| life-cycle machine (`internal/state`) | the agent's state, behind a lock | `Transition`, `Snapshot` | called by boot, tunnel and heartbeat |
| registration client, token store (`internal/registration`, `internal/auth`) | the current JWT | `Register`, `RegisterCapabilities`, `Heartbeat`, `InventoryDelta`, `ApplyRotation`, `Refresh`, the retry loop | control plane over HTTPS; called by all goroutines |
| tunnel manager (`internal/websocket`) | connection, `connected` flag, endpoints of the registration | `Run`, `connectAndServe`, `Send`, `ping` | control plane over a WebSocket; writes machine and token store, starts commands |
| heartbeat (`internal/heartbeat`) | none between beats | `Run`, `once` | read client, machine, registration client |
| inventory (`internal/inventory`) | queue of 4096 events, batch of 200 | informer handlers, `enqueue`, `flush`, `send` | client-go informers, registration client |
| command executor (`internal/executor`, `internal/commands`) | two counters | `Execute` | read client; writes through `Send` |
| HolmesGPT provider (`internal/holmesprovider`) | registry of clusters and tools, behind a lock | `RegisterAgent`, `UnregisterAgent`, `RegisterTool`, `Invoke` | a dispatcher and an audit sink, both interfaces |
| read client (`internal/kubernetes`) | none | twenty list and get commands, `Health`, `ClusterMetadata` | Kubernetes API; called by boot, heartbeat, commands |
| capability and tool tables (`internal/capabilities`, `internal/commands`, `holmesprovider/tools.go`) | constants | three tables of the same names | registration, `Execute`, the backend |
| metrics, HTTP server, configuration, gRPC contract, chart | | | |

Everything is in memory: the agent persists nothing, so a restart begins with
an empty token store, an empty queue and a new registration.

What is hard here, and what makes each part correct:

* **Machine, tunnel, heartbeat.** Two goroutines drive one state machine and
  throw away the errors of `Transition`. At no interleaving may the machine
  refuse a transition of boot or tunnel; the heartbeat's own to `DEGRADED` is
  refused of an agent that is revoked or has no tunnel up, and of no other. A
  revocation must be final; `/readyz` and the reported state must say what the
  tunnel does; an old heartbeat, retried for two minutes, must not take back a
  revocation.
* **Tokens and endpoints.** Registration, rotations and repeated rotations
  write the token store while others read it. The JWT handed out last must win,
  whether it is the newest or not (`ApplyRotation` looks at no age), and a
  rotated endpoint must be used by every later dial.
* **Reconnection.** The loop must survive any sequence of failures. A peer that
  answers must not be cut off by a read deadline, one that is gone must be
  noticed, and a backoff that grows for ever must stay bounded.
* **Inventory.** A bounded queue with a policy to drop, batches cut by count or
  by time, retries of a delta whose answer was lost, restarts. Nothing may be
  lost without being counted or arrive out of order.
* **Commands.** Goroutines that outlive the connection their command came from
  write to whatever connection is current, concurrently with the pings.
  Results must arrive once and after their status, and be lost only with a
  connection.
* **Reads.** An answer is put together from several requests, while the cluster
  changes between them and each may fail. It must hold what was there and no
  gaps, and a command that one table offers must be understood by the others.
* **Provider.** A registry that changes while a target is being resolved, and
  dispatches that finish in any order. Targets, results and audit record must
  fit the registry and each other.

The hazards are listed one by one, with the line where each bites and the
properties aimed at it, in `PROJECT.json`.

## 2. The modules

    AgentState   Retry
        |        |   |
        |  Registration  \                  DeltaFeed     ToolRegistry    Capabilities
        |    /      |     \                     ^              |               |
        Tunnel      |   Heartbeat           Inventory    HolmesProvider   ReadClient
             \      |    /                      |              |               |
                 Agent                    MCInventory  MCHolmesProvider  MCReadClient
                 /   \
          MCAgent  AgentProofs Keepalive       <-  KeepaliveProofs
                               Commands        <-  CommandsProofs, MCCommands
                               Inventory       <-  InventoryProofs
                               HolmesProvider  <-  HolmesProviderProofs
                               ReadClient      <-  ReadClientProofs

| Module | Code | State and steps |
|---|---|---|
| `AgentState` | `state.go` | `machine`; `allowed` is the table of edges, `Transition` keeps the state when the table refuses, as every caller ignores the error |
| `Retry` | `client.go:186-199` | how many attempts fit in the two minutes of `retry`: at least two, at most `MaxTries` |
| `Registration` | `client.go`, `token.go` | `token`, and the control plane's side of JWTs: `issued` (newest), `oldest` (oldest accepted) and `handed` (handed out last) |
| `Tunnel` | `manager.go` `Run`, `connectAndServe` | `tunnel` is the program counter; each access to machine, token store, `connected` and `conn` is a step; `inbox` holds the envelopes under way |
| `Heartbeat` | `heartbeat.go` | `hb` is the program counter; `hbState` the payload that every retry repeats; `reported` what the control plane last took |
| `Agent` | `main.go` `run` | boot sequence, signals, shutdown, crash, restart, and the composition of the above with network, control plane and Kubernetes |
| `AgentProofs`, `KeepaliveProofs`, `CommandsProofs`, `InventoryProofs`, `HolmesProviderProofs`, `ReadClientProofs` | | theorems about `Agent`, `Keepalive`, `Commands`, `Inventory`, `HolmesProvider`, `ReadClient` |
| `Keepalive` | `manager.go` in time | `phase` is dial, serve or wait; `timer` counts down to the handshake timeout, the read deadline or the next dial; `flight` holds the ages of unanswered pings |
| `Capabilities` | `capabilities.go`, `allowed`, `tools.go` | the tables as sets, and the parameters each tool asks for |
| `ReadClient` | `kubernetes/client.go`, `Executor.run` | `Reads` turns a command into requests to the API, made one per step; `Answer`, `Health`, `ClusterHealth` compute what is said of them |
| `DeltaFeed` | | what the inventory promises, without queues and batches |
| `Inventory` | `inventory.go` | informers (client-go), `queue`, `batch`, `events` in `send`, `view` at the control plane |
| `Commands` | `executor.go`, `commands.go`, `manager.go` `Send`, `ping` | one program counter per command and per ping goroutine; `writing` and `mixed` follow overlapping writes |
| `ToolRegistry` | `registry.go` | `clusters`, `tools`; each method is one step, as it holds the lock throughout |
| `HolmesProvider` | `provider.go` | `Invoke` from the check of the tool to the audit record, one program counter per invocation |

The `MC` modules only add symmetry sets and constant values; a module whose
constants need none is checked directly. Definitions named
*Mutant of ...* are plausible bugs of the definition that follows; replacing it
by its mutant must break the property `PROJECT.json` pairs it with.

Steps of a goroutine are as fine as its accesses to what others can see; what
only it can see is folded into the neighbouring step. So `connected.Store` and
`Transition(Online)` are two steps of `Tunnel` (`Publish`, `GoOnline`), with
room for the heartbeat in between, while unmarshalling an envelope is part of
reading it. In the provider, targets by name are resolved one lookup per step,
because the code takes the lock once per name, and every other target in one.

Variables marked *history* are not the program's: `announced` (last endpoint
rotated to), `handed` (the JWT handed out last, unless it was lost with a
connection) and `seen` (contents the registry had since an invocation began)
let properties speak of the past. `seen` also carries the bound `MaxSeen`.
`quiet` in `Keepalive` is the time since the peer was heard or dialled, `seen`
in `ReadClient` what the cluster held since the call began.

### Choices that deserve a word

* JWTs are numbers in the order of issue. The control plane accepts an interval
  of them, whose lower end only rises. A restarted agent is given the current
  JWT or the next one, a rotation any JWT issued so far or the next one.
* A registration that fails may have been taken as well (`TakeRegistration`):
  the control plane then has issued a JWT that nobody holds, and forgotten the
  state it knew.
* A post that fails may have been taken by the control plane all the same:
  `PostFail` and `SendFail` apply the payload or do not. A request that is
  delayed in the network and applied after a later one is not modelled.
* `Inventory` abstracts an object to its version and whether it exists.
  Informers may skip versions, as client-go's queue does, but never reorder
  those of one object. Each kind has its informer, store and event buffer.
* gorilla/websocket supports one concurrent writer. In `Commands` writes that
  do not overlap succeed as long as the connection works; writes that overlap
  come out whole, mixed up, or as a panic, which the library raises when it
  notices. A connection whose write side broke is `"failing"` until its reader
  finds out.
* `commands.Execute` comes to success, failure or refusal; the read client is
  behind that choice. The request identifiers of commands are distinct.
* `Keepalive` counts time in units of five seconds and has `Tick` wait for what
  is due: a ticker that fired, the pong of a peer that is there. `MaxDelay`
  bounds how late such a pong may be. That a ping and its pong fit into the
  shorter deadline is an assumption of the module; 20 s of ticker leave 40 s.
* `ReadClient` follows one call, as calls share nothing. The API answers a
  request with the contents of that moment or fails. A `Get` of an object that
  is not there fails. Objects keep the fields that decide something; the four
  sums of `GetResourceUsage` have one form, of which one is kept. It is the
  number of units of CPU, each told from the others by its pod and container
  (`CpuUnits`): a count says what the sum of the loop is, and can be compared
  without induction. What the API server guarantees of objects is
  `ObjectAssumption`: no namespace is called `"*"`, a node has one condition
  of a type, a pod one container of a name, requests are not negative. The
  answer of `get_restart_analysis` is made of containers, not of objects
  (`RestartEntry`).
* `Executor.run` has a default that is an error. No command reaches it today,
  as the allowlist comes before it; `Cases` keeps it.
* `sort.Slice` by identifier, and the filters that keep the order of a list, are
  one operator, `Sorted`: place `i` has the element of rank `i` (`Nth`).
* The zero result in `HolmesProvider` is Go's zero value of a slice element, so
  a goroutine that had not been waited for would show.

## 3. What is checked

Every passing run has TLC look for deadlocks too, unless noted.

| Run | Instance | States | What it shows |
|---|---|---|---|
| `agent_safety` | 2 JWTs, 2 attempts, 1 envelope under way, 1 restart, 2 announced endpoints (symmetric) | 4.4 million | type, state against tunnel, which transitions are refused, `/readyz`, the last JWT wins, a dial goes to the endpoint of the last rotation; revocation final and not taken back |
| `agent_liveness` | 1 JWT, 1 envelope under way, 1 restart, no announced endpoint | 125 000 | reconnection, stop after revocation, the settled state is reported if Kubernetes answers |
| `keepalive` | the program's periods in units of 5 s, pongs up to 35 s late | 51 000 | a live peer is kept, a dead one noticed in 75 s and redialled within another 90 s |
| `inventory` | 2 objects of 2 kinds, 3 versions, queue of 2, batch of 2, 2 attempts, 1 restart, requests fail | 1 million | nothing lost uncounted, bounds, order, the refinement of `DeltaFeed`; the control plane catches up unless a failure was counted |
| `commands` | 1 command, 3 connections | 76 000 | its result comes once and last and is lost only with a connection; commands and ping goroutines end |
| `reads` | 20 commands and one unknown, with every shape of parameter; 18 objects, 3 changes during a call | 677 000 | answers and verdicts fit what was there, each number was true at a moment of the call, the three tables agree |
| `provider` | 1 invocation, 2 clusters, 7 shapes of target, 2 registry contents while it resolves | 0.5 million | results, targets and audit record fit; `Invoke` returns |

Why the bounds are enough to see the interesting cases: two JWTs are an old and
a new one. The reader takes one envelope at a time and keeps nothing of it but
the JWT and the endpoint, so one under way at a time gives every order of
envelopes, repeated and old rotations among them; what more of them under way
would add, that several are lost together, is covered by the proofs. Two
attempts are the fewest the retry loop makes, and all that tell a first attempt
from a repeated one. Two endpoints are needed for `EndpointFollowsRotation`:
with one, the registered and the rotated endpoint never differ, and a rotation
that writes one of the two fields passes (`HandleRotationOneField`); they are
interchangeable, so TLC takes them as symmetric. The theorem is for any set of
them. No liveness property depends on the endpoint. In `keepalive` the 1 s of `InitialInterval` are one unit of 5 s, which
only makes the first waits longer; every other period is a multiple of it. A
queue and a batch of two overflow and fill up with three events of two
objects. Three connections are the one a command came from and one more for
each of its two messages. What `commands` checks is said of each command by
itself, and the other commands reach it only through writes that overlap with
its own, which the pings bring about as well; the violation runs have two
commands. In `reads` three changes let an object go, come back and
change between the requests of one call; two pods in two namespaces
tell one namespace from all. Two clusters are the fewest with an order, and two registry contents let the
registry change while two names are looked up.
One invocation suffices for the provider because invocations share only the
registry, which changes freely, and the sink.

`CHECK_DEADLOCK FALSE` is set for `Inventory` (the cluster stops changing at
`MaxRv` and all is delivered), `Commands` (all commands done and connections
used up, or the process gone in a panic), `ReadClient` (the one call is over)
and `HolmesProvider` (with `MaxSeen` reached and the invocation over). In
`Keepalive` the check says that time can always go on: `Tick` waits for what is
due, and what is due can always happen. In `Agent` it says nothing, as the
Kubernetes API may always come or go (`KubeToggles`): that the process itself
goes on is what the liveness properties are for.

### Fairness

* `Agent.Scheduling`: weak fairness of boot, tunnel and heartbeat. The Go
  scheduler runs every runnable goroutine, timers fire, Kubernetes restarts the
  container. No fairness for signals, crashes, cuts, expiry or envelopes.
* `Agent.NetworkRecovers`: strong fairness of a dial and a heartbeat that could
  succeed. Without it the network may fail each attempt, and no retry loop can
  help. The properties still demand a good JWT for as long as they claim, and
  `HeartbeatCatchesUp` that the Kubernetes API answers: without it the agent
  sends nothing, which `agent_outage` shows.
* `Inventory.Fairness`: informers list, watch and call their handlers
  (client-go's contract), the runner goes on, and `SendOk` is strongly fair,
  for the same reason.
* `Commands.FairSpec`: each command and ping goroutine goes on; the Kubernetes
  API answers or fails. Nothing is assumed of the tunnel: properties hold even
  if it never reconnects.
* `HolmesProvider.FairSpec`: each invocation goes on and `DispatchTool`
  returns. `Invoke` has no deadline of its own, so without that it may hang.

### Where code and documents disagree

Each of these runs has one property, taken from a document or a help text, and
TLC finds it violated by what the code does.

| Run | Property | In short |
|---|---|---|
| `agent_reconnect` | `ReconnectsWithoutRestart` | `Refresh` is never called: when the JWT expires while the tunnel is down the agent redials with it for ever (runbook, lines 51 and 60) |
| `inventory_overflow` | `CatchesUpRegardless` | events arrive during the first list, before `flush` runs; a cluster with more objects than the queue holds loses the rest (runbook, line 106) |
| `commands_overlap` | `StructuredJsonOnly` | writes of commands and pings overlap on one connection (runbook, line 12) |
| `agent_outage` | `OutageReported` | while the Kubernetes API is down the agent is `DEGRADED` but sends no heartbeat, so nobody hears of it (runbook, lines 10 and 64) |
| `provider_audit` | `AuditsEveryInvocation` | refused invocations leave no audit record, and the sink's error is ignored (README, line 57; production guide, line 19) |

Three more disagreements have no run:

* The executor counts a failure if the status is `failed`, and
  `commands.Execute` says `error` (`executor.go:27`, `commands.go:88`), so
  failed commands are counted as executed ones, against the help text "Failed
  allowlisted commands" (`telemetry.go:33`). The theorems `Counted` and
  `Uncounted` prove it for every instance.
* `get_failed_workloads` returns pods that are pending and pods that wait after
  a crash, where `tools.go:44` says "failed pods". `AnswerIsRegular` demands
  the failed ones and the unavailable deployments, and tolerates of other pods
  just those two (`TakenForFailed`).
* The schema of `get_pod`, `describe_pod` and `get_logs` asks for two strings
  (`tools.go:63-69`), and the agent refuses empty ones (`client.go:144`, `154`).
  `ToolsUnderstood` has this as its one exception.

Met while modelling, but contradicting no document:

* After a Kubernetes outage the machine stays `DEGRADED` until the tunnel
  reconnects; no heartbeat sets it back.
* A delta that outlives its two minutes of retries is lost until its objects
  change or the pod restarts, as nothing resyncs; it is counted.
* The tunnel's backoff is never reset, so after some reconnects each one waits
  half a minute to a minute and a half. `RedialsInTime` bounds it.
* When the writes of a connection break nobody closes it. A control plane that
  sends something every 75 seconds keeps it open, and all results written in
  that time are lost; `LostOnlyWithConnection` excuses them.
* A registration whose answer is lost leaves a JWT that nobody holds.
* A cluster may be reported `"healthy"` although at every moment of the call
  something was in trouble, if the trouble moves while the lists are read.
  `VerdictIsTrue` states what holds. Pods in `CrashLoopBackOff` are in phase
  Running and do not make a cluster degraded.
* `podCrashLooping` and `GetRestartAnalysis` do not look at init containers.
* A rotation with an old JWT replaces a newer one.
* `/readyz` says ready for one step after the connection was closed: `Run`
  clears the flag when `connectAndServe` has returned.
* A `namespace` that is no string silently means all namespaces.
* A cluster that is asked for by name and lacks the capability is left out of
  the answer without a word, whereas one that is not registered is an error.
  `NamedTargetsKept` states the exact rule.
* A new process reports nothing about objects deleted while the old one was
  going down. The exception for restarts in `QuietMeansInSync` and `CatchesUp`
  is wider: after a restart it excuses every object that is gone.

## 4. What is proved

For every value of the constants that satisfies the assumptions of the modules.
TLC evaluates those assumptions in the runs.

`AgentProofs`, any number of JWTs, attempts, envelopes and restarts, any set of
endpoints:

| Theorem | States |
|---|---|
| `TypeCorrect` | `Spec => []TypeOK` |
| `Invariance` | `Spec => []IInv` |
| `StateFollowsTunnel` | `Spec => []MachineFollowsTunnel` |
| `Readiness` | `Spec => []ReadyzHonest` |
| `JwtHandedOut` | `Spec => []LastJwtWins` |
| `RefusalsHarmless` | `Spec => []RefusedOnlyWithoutTunnel` |
| `EndpointInForce` | `Spec => []EndpointFollowsRotation` |
| `RevocationFinal` | `Spec => RevokedIsFinal` |
| `RevocationKept` | `Spec => RevocationNotTakenBack` |

It assumes `MaxTries` at least 2, `MaxJwt` and `MaxInbox` positive, and that
the empty and the fallback endpoint differ from the announced ones. The
argument: `RefusedOnlyWithoutTunnel` is not inductive, as whether the machine
permits `ONLINE` depends on how it got where it is. `MachineFollowsTunnel` says
which states are possible at each point of the tunnel goroutine while the
heartbeat may degrade the machine between any two of its steps; the table of
edges then permits every transition of boot and tunnel, and every one of the
heartbeat's that does not come with the tunnel down or revoked. It needs
`BootOrder`: until the goroutines run, `run` alone moves the machine.
`LinkFollowsTunnel` says when there is a connection and that only one holds
envelopes; `ReadyzHonest` rests on it, and so does `LastJwtWins`, which follows
the JWT handed out last from the envelopes into the store and needs to know
that only rotations carry one (`JwtsInRotations`). `ReportFollowsMachine` says that a payload
with `REVOKED` is never ahead of the machine and, once one was heard, none
without it is under way; that is what a late retry would have to break.
`RotationInForce` says that a rotated endpoint is in both fields `TunnelURL`
reads. Their conjunction with `TypeOK`, `IInv`, is inductive. The proof goes
through the steps of boot, tunnel, heartbeat and environment, one lemma each
for types, control and tokens.

`KeepaliveProofs`, all periods and deadlines of which a ping and its pong fit
into the shorter read deadline:

| Theorem | States |
|---|---|
| `TypeCorrect` | `Spec => []TypeOK` |
| `Invariance` | `Spec => []KeepaliveInv` |
| `LiveKept` | `Spec => []LivePeerKept` |
| `DeadNoticed` | `Spec => []DeadPeerNoticed` |
| `RedialBounded` | `Spec => []RedialsInTime` |

`LivePeerKept` alone says nothing of when the next sign of the peer comes.
`SignInTime` does: either no ping is out and the next one, with the longest
delay of its pong, is back before the deadline, or one is out whose pong is.
`QuietBounded` adds what is left on the timer to the silence so far.

`CommandsProofs`, any set of commands and any number of connections:

| Theorem | States |
|---|---|
| `TypeCorrect` | `Spec => []TypeOK` |
| `Invariance` | `Spec => []IInv` |
| `ResultsOnce` | `Spec => []ResultOnceAndLast` |
| `LostWithConnection` | `Spec => []LostOnlyWithConnection` |
| `Forward` | `Spec => StepsForward`: a command takes at most eight steps and none back, a ping goroutine ends with its connection |
| `Counted` | `Spec => []CountedOnce`: every executed command is booked once on `commands`, `failures` stays 0 |
| `Uncounted` | `Spec => [](... => ~FailuresCounted)`: after any failed command the counters are wrong |

What makes the promises inductive: `ConnsInOrder` (a goroutine past its first
load has a connection, and connections are opened in the order of their
numbers) and `FramesFollowRequest` (no result before the request is done, no
frame on a connection later than the one loaded, so that a result goes behind
its status even if the tunnel reconnected in between). A step either writes no
frame, for which one lemma says what it may change (`Unwritten`), or puts one
at the end of a wire (`AtAppend`, `Written`). `Forward` adds `PingersFollow` (no
pinger before its connection opens), and `Counted` adds `OutcomeFollows` (no
outcome before the execution). `Uncounted` follows: `failures` stays 0, so what
the help text says of it (`FailuresCounted`) is false as soon as a command has
failed.

`InventoryProofs`, any set of objects and kinds, any capacity and batch size,
any number of versions, attempts and restarts, requests that fail or not:

| Theorem | States |
|---|---|
| `TypeCorrect` | `Spec => []TypeOK` |
| `Bounded` | `Spec => []DeltaBounds` |
| `LostOnlyCounted` | `Spec => []NothingLostUncounted` |
| `QuietInSync` | `Spec => []QuietMeansInSync` |
| `Implements` | `Spec => KeepsPromise`, the refinement of `DeltaFeed` |
| `NeverBack` | `Spec => ViewNeverGoesBack` |

It assumes of the constants what `InventoryAssumption` says: a kind for every
object, and at least one place in the queue, event in a batch and version.
First come facts about what `Apply` makes of a sequence: the latest event of an
object decides (`LatestExists`, by well-founded induction on the distance from
the end), so applying a concatenation is applying its parts one after the other,
and applying a delta twice is applying it once. With them `NothingLostUncounted`
becomes a statement about stages, `NothingLostOnTheWay`, which each action
preserves: an event goes from one stage to the next, and the runner never
changes what queue, batch and delta make of the picture. That an event the
handler takes cannot be news of an object of another kind is `EventsOfKind`; in
a first process the statement holds of objects no store has had, too, and
`QuietMeansInSync` follows. For the refinement `pending` is `OnTheWay`: `Enqueue`
is an `Accept` or a `Refuse`, the runner's own moves stutter, and `Split` says
that what `send` holds is the prefix that `DeltaFeed` delivers or gives up.
`NeverBack` needs `Ages`: what is on its way is in the order of its versions and
no older than the picture, but for a delta that may have arrived already, and a
first list finds nothing of its objects under way.

`HolmesProviderProofs`, any number of invocations, any finite set of clusters,
any groups, tools and targets, any number of changes of the registry:

| Theorem | States |
|---|---|
| `TypeCorrect` | `Spec => []TypeOK` |
| `Invariant` | `Spec => []IInv` |
| `ResultsMatch` | `Spec => []ResultsMatchTargets` |
| `OnlyOffered` | `Spec => []TargetsOfferedTool` |
| `OneMoment` | `Spec => []TargetsOfOneMoment` |
| `NamedKept` | `Spec => []NamedTargetsKept` |
| `AuditMatches` | `Spec => []AuditMatchesAnswer` |
| `Forward` | `Spec => StepsForward`: what moves an invocation brings it nearer to its end |
| `ClustersInOrder` | `Clusters` lists every registered cluster once and in order |

It assumes that identifiers are positive numbers, finitely many
(`RegistryAssumption`), and that targets are made of known clusters and groups
(`ProviderAssumption`). None of the properties is inductive, as they speak of
the list that `resolveClusters` returns, and the filter has thrown away what it
was made of. `Resolution` keeps that: while names are looked up, each entry was
in one of the registries seen and the entries follow the names (`FromSeen`,
`Follows`); once resolved, there is a list (`Chosen`) of which the filter's
result is `selected`. `Dispatches` ties the results to the goroutines that are
out. The registry may change at every step of an invocation, and other
invocations go on: `Bystander` says that both leave alone what the invariant
says of one. `OneMoment` needs that filtering a sorted list is sorting a
filtered set (`SortedPart`), which is proved by counting ranks. `Forward` is as
much of `InvokeReturns` as can be said without fairness.

`ReadClientProofs`, any cluster of any size, any commands and parameters, any
number of changes during a call:

| Theorem | States |
|---|---|
| `TypeCorrect` | `Spec => []TypeOK` |
| `Invariant` | `Spec => []IInv` |
| `AnswerRegular` | `Spec => []AnswerIsRegular` |
| `VerdictTrue` | `Spec => []VerdictIsTrue` |
| `NumbersTrue` | `Spec => []NumbersOfMoments` |
| `ToolsAgree` | `Spec => []ToolsUnderstood` |

It assumes `ReadAssumption` and `ObjectAssumption`. The invariant is small:
`ReadsOfMoments` says that every part was found at some moment of the call, a
later part not at an earlier one, and that a `Get` found something. Each promise then is about how a command's
requests fit its answer. `PartOfMoment` puts every part between what stayed and
what ever was; `Asked` says that a part is all of one kind that the request
names at one moment, which takes the three defaults of a namespace apart
(`ListedPart`, `ClusterPart`, `NamedPart`; a pod asked for in namespace `"*"`
would be missed, but is never found); `PartsAsked` that each kind a tool
promises has its part; `AnswerIs` that the filters keep just what qualifies, or
is taken for failed; `RestartEntries` what is said of containers, each once, as
a list holds a pod once and a pod a name once. For the numbers `PartsOfMoments`
gives the moments; what is counted of a list is what there was to count at its
moment (`HealthNumbers`).

Every invariant and action property that a run checks, and the refinement, is
proved. Only model-checked is liveness: `Reconnects`, `RevokedStops`,
`HeartbeatCatchesUp`, `CatchesUp`, `EveryCommandEnds`, `PingersEnd` and
`InvokeReturns`. Liveness under fairness and `ENABLED` are out of the prover's
reach, and so are recursive operators and induction over data; the models are
written with sets and functions where they are proved about.

## 5. What is not modelled

* Metrics. The counters that properties need are variables of `Commands` and
  `Inventory`; the gauges are written only, under the machine's lock or by the
  tunnel goroutine, and read by Prometheus. A scrape in the middle of
  `SetState` sees no state or two.
* The HTTP server, but for what `/readyz` answers from. Logging, tracing,
  configuration: read once before anything runs.
* Of the read client: the fallback of `ClusterUID`, the contents of logs and
  the number of lines, the fields that are only copied.
* Shutdown of the inventory and of commands under way: `run` returns without
  waiting for them, and the process takes them with it (`Restart` of
  `Inventory`; in `Agent` the whole exit is one step).
* `Client.Refresh`, which nothing calls, and `capabilities.Contains`, which a
  test calls. `internal/grpc` and `api/proto`: unused.
* A dispatcher or an informer that never answers: both are behind interfaces
  of other people's code, and the fairness of the runs assumes they do.

## 6. Plan

Done: every module of section 2, and the proofs of section 4. Next, what of the
liveness properties can be proved without fairness, as the two `Forward`
do for the provider and the commands:

1. `Inventory`: a send that is under way ends after `MaxTries` attempts, and the
   view only changes by what is delivered.
2. `Keepalive`: a bound on the time from the loss of a peer to the next attempt,
   out of `DeadPeerNoticed` and `RedialsInTime`.
3. `Agent`: the steps of boot and of a revocation are final; once the control
   plane has revoked the cluster, nothing is dialled.
