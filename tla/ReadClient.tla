----------------------------- MODULE ReadClient -----------------------------
(***************************************************************************)
(* internal/kubernetes, and the part of internal/commands that calls it.   *)
(* A command becomes one or more requests to the Kubernetes API, one after *)
(* the other, while the cluster goes on changing; its answer is computed   *)
(* from what they returned.  Neither package keeps any state, so calls do  *)
(* not meet and one of them is followed at a time.                         *)
(***************************************************************************)
EXTENDS Capabilities, Naturals, Sequences, FiniteSets

CONSTANTS Objects,      \* the objects the cluster may hold, as the API returns them
          Clusters,     \* what the cluster may hold when a call begins
          Requests,     \* the commands that arrive
          Absent,       \* a parameter that is not there
          NotAString,   \* a parameter of another JSON type
          MaxChanges    \* bound: changes of the cluster during a call

Key(o) == <<o.kind, o.ns, o.name>>

\* The contents of a cluster: one object at most of a kind, namespace and name.
Contents ==
  {c \in SUBSET Objects : IsFiniteSet(c) /\ \A o, p \in c : Key(o) = Key(p) => o = p}

ASSUME ReadAssumption ==
  /\ Clusters \subseteq Contents
  /\ \A o \in Objects : {"kind", "ns", "name"} \subseteq DOMAIN o
  /\ \A r \in Requests : DOMAIN r = {"command", "namespace", "name"}
  /\ Absent # NotAString
  /\ MaxChanges \in Nat

\* What the API server sees to: "*" is no namespace, a node has one condition at
\* most of a type, the containers of a pod have names of their own, and what one
\* asks for is not negative.
ASSUME ObjectAssumption ==
  \A o \in Objects :
    /\ o.ns # "*"
    /\ o.kind = "nodes" =>
         /\ o.conditions \in Seq([type : STRING, status : STRING])
         /\ \A i, j \in DOMAIN o.conditions :
              o.conditions[i].type = o.conditions[j].type => i = j
    /\ o.kind = "pods" =>
         /\ o.containers \in Seq([name : STRING, waiting : STRING, restarts : Nat, cpu : Nat])
         /\ \A i, j \in DOMAIN o.containers :
              o.containers[i].name = o.containers[j].name => i = j

VARIABLES cluster,      \* the contents of the cluster
          pc,           \* where the call is; "refused" before anything was read
          request,      \* the command that is executed
          parts,        \* what each request to the API returned
          seen          \* history: the contents since the call began

vars == <<cluster, pc, request, parts, seen>>

Boot == [command |-> "ClusterMetadata", namespace |-> Absent, name |-> Absent]

Init ==
  /\ cluster \in Clusters
  /\ pc = "idle"
  /\ request = Boot
  /\ parts = <<>>
  /\ seen = <<>>

-----------------------------------------------------------------------------
(* From a command to requests to the API.                                  *)

\* A string parameter, or the default if it is missing or no string.
str(parameter, default) == IF parameter \in {Absent, NotAString} THEN default ELSE parameter

ns(namespace) == IF namespace = "*" THEN "" ELSE namespace

\* A List of a kind in a namespace, or in all of them; a Get of one object.
ListOf(kind, namespace) == [kind |-> kind, ns |-> namespace, name |-> ""]
GetOf(kind, namespace, name) == [kind |-> kind, ns |-> namespace, name |-> name]

Found(contents, read) ==
  {o \in contents : /\ o.kind = read.kind
                    /\ read.ns = "" \/ o.ns = read.ns
                    /\ read.name = "" \/ o.name = read.name}

ClusterMetadataReads ==
  <<ListOf("version", ""), GetOf("namespaces", "", "kube-system"), ListOf("nodes", "")>>

HealthReads ==
  <<ListOf("nodes", ""), ListOf("pods", ""), ListOf("deployments", ""),
    ListOf("statefulsets", ""), ListOf("daemonsets", "")>>

GetWorkloadHealthReads(namespace) ==
  <<ListOf("deployments", ns(namespace)), ListOf("statefulsets", ns(namespace)),
    ListOf("daemonsets", ns(namespace))>>

\* Mutant of GetFailedWorkloadsReads: the deployments of every namespace.
GetFailedWorkloadsReadsWide(namespace) ==
  <<ListOf("pods", ns(namespace)), ListOf("deployments", "")>>

GetFailedWorkloadsReads(namespace) ==
  <<ListOf("pods", ns(namespace)), ListOf("deployments", ns(namespace))>>

\* The commands about one pod.
PodCommands == {"get_pod", "describe_pod", "get_logs"}

\* The cases of run's switch; any other command is an error.
Cases ==
  PodCommands \cup
  {"get_pods", "get_events", "get_nodes", "get_namespaces", "get_deployments", "get_statefulsets",
   "get_daemonsets", "get_services", "get_ingresses", "get_resource_usage", "get_cluster_health",
   "get_workload_health", "get_restart_analysis", "get_failed_workloads", "get_pending_pods",
   "get_crashloop_pods", "get_node_conditions"}

\* The commands that are one List or one Get.
SingleRead(req) ==
  LET inNamespace == ns(str(req.namespace, "*"))
  IN  CASE req.command \in PodCommands ->
             GetOf("pods", str(req.namespace, ""), str(req.name, ""))
        [] req.command \in {"get_nodes", "get_node_conditions"} -> ListOf("nodes", "")
        [] req.command = "get_namespaces"   -> ListOf("namespaces", "")
        [] req.command = "get_events"       -> ListOf("events", inNamespace)
        [] req.command = "get_deployments"  -> ListOf("deployments", inNamespace)
        [] req.command = "get_statefulsets" -> ListOf("statefulsets", inNamespace)
        [] req.command = "get_daemonsets"   -> ListOf("daemonsets", inNamespace)
        [] req.command = "get_services"     -> ListOf("services", inNamespace)
        [] req.command = "get_ingresses"    -> ListOf("ingresses", inNamespace)
        [] req.command \in {"get_pods", "get_resource_usage", "get_restart_analysis",
                            "get_pending_pods", "get_crashloop_pods"} -> ListOf("pods", inNamespace)

\* Executor.run, and ClusterMetadata, which run calls at boot: the requests in
\* the order in which they are made.
Reads(req) ==
  CASE req.command = "ClusterMetadata"      -> ClusterMetadataReads
    [] req.command = "get_cluster_health"   -> HealthReads
    [] req.command = "get_workload_health"  -> GetWorkloadHealthReads(str(req.namespace, "*"))
    [] req.command = "get_failed_workloads" -> GetFailedWorkloadsReads(str(req.namespace, "*"))
    [] OTHER -> <<SingleRead(req)>>

-----------------------------------------------------------------------------
(* From what the API returned to the answer.                               *)

\* Mutant of nodeReady: a node is ready unless it says that it is not.
nodeReadyByDefault(node) ==
  ~\E i \in DOMAIN node.conditions :
     node.conditions[i].type = "Ready" /\ node.conditions[i].status = "False"

\* The first condition of type Ready decides; a node without one is not ready.
nodeReady(node) ==
  \E i \in DOMAIN node.conditions :
    /\ node.conditions[i].type = "Ready" /\ node.conditions[i].status = "True"
    /\ \A j \in DOMAIN node.conditions : j < i => node.conditions[j].type # "Ready"

\* The waiting reasons with "crash" in them, in any case.
CrashReasons == {"CrashLoopBackOff", "RunContainerCrash"}

Waiting(pod) == {pod.containers[i].waiting : i \in DOMAIN pod.containers}

podFailing(pod) == pod.phase \in {"Failed", "Pending"} \/ Waiting(pod) \cap CrashReasons # {}

podCrashLooping(pod) == "CrashLoopBackOff" \in Waiting(pod)

\* What is said of the i-th container of a pod.
RestartEntry(pod, i) ==
  [namespace |-> pod.ns, pod |-> pod.name,
   container |-> pod.containers[i].name, restartCount |-> pod.containers[i].restarts]

Restarted(pod) == {i \in DOMAIN pod.containers : pod.containers[i].restarts > 0}

\* Mutant of GetRestartAnalysis: every container of a pod with restarts.
GetRestartAnalysisOfPods(pods) ==
  UNION {{RestartEntry(p, i) : i \in DOMAIN p.containers} : p \in {q \in pods : Restarted(q) # {}}}

GetRestartAnalysis(pods) == UNION {{RestartEntry(p, i) : i \in Restarted(p)} : p \in pods}

\* The units of CPU that the containers of pods ask for, one by one: there are as
\* many as the requests add up to.
CpuUnits(pods) ==
  UNION {UNION {{<<p, i, u>> : u \in 1..p.containers[i].cpu} : i \in DOMAIN p.containers} : p \in pods}

\* Four sums of one form over the containers of all pods; one of them stands here.
GetResourceUsage(pods) ==
  [podCount |-> Cardinality(pods), cpuRequests |-> Cardinality(CpuUnits(pods))]

CountOf(objects, Is(_)) == Cardinality({o \in objects : Is(o)})

Health(lists) ==
  [NodesReady    |-> CountOf(lists[1], LAMBDA n : nodeReady(n)),
   NodesNotReady |-> CountOf(lists[1], LAMBDA n : ~nodeReady(n)),
   PodsRunning   |-> CountOf(lists[2], LAMBDA p : p.phase = "Running"),
   PodsPending   |-> CountOf(lists[2], LAMBDA p : p.phase = "Pending"),
   PodsFailed    |-> CountOf(lists[2], LAMBDA p : p.phase = "Failed"),
   Deployments   |-> Cardinality(lists[3]),
   StatefulSets  |-> Cardinality(lists[4]),
   DaemonSets    |-> Cardinality(lists[5])]

\* Mutant of ClusterHealth: all nodes must be in trouble.
ClusterHealthOfNodes(h) == IF h.NodesNotReady > 0 /\ h.NodesReady = 0 THEN "degraded" ELSE "healthy"

ClusterHealth(h) == IF h.NodesNotReady > 0 \/ h.PodsFailed > 0 THEN "degraded" ELSE "healthy"

GetFailedWorkloads(lists) ==
  {p \in lists[1] : podFailing(p)} \cup {d \in lists[2] : d.unavailable > 0}

\* What the answer of a command lists.
Answer ==
  CASE request.command = "get_failed_workloads" -> GetFailedWorkloads(parts)
    [] request.command = "get_pending_pods"     -> {p \in parts[1] : p.phase = "Pending"}
    [] request.command = "get_crashloop_pods"   -> {p \in parts[1] : podCrashLooping(p)}
    [] request.command = "get_restart_analysis" -> GetRestartAnalysis(parts[1])
    [] OTHER -> UNION {parts[i] : i \in DOMAIN parts}

-----------------------------------------------------------------------------
(* The steps of a call.                                                    *)

\* Execute's allowlist, run's default, and the check of GetPod and GetLogs.
Refused(req) ==
  \/ req.command \notin allowed \cap Cases
  \/ req.command \in PodCommands /\ "" \in {str(req.namespace, ""), str(req.name, "")}

Begin(req, refused) ==
  /\ pc = "idle"
  /\ request' = req
  /\ pc' = IF refused THEN "refused" ELSE "reading"
  /\ seen' = <<cluster>>
  /\ UNCHANGED <<cluster, parts>>

Execute == \E req \in Requests : Begin(req, Refused(req))

\* run asks for the cluster's metadata once, before it registers.
ClusterMetadata == Begin(Boot, FALSE)

\* The API answers the next request with the contents of this moment.
ReadOk ==
  LET k == Len(parts) + 1
      read == Reads(request)[k]
  IN  /\ pc = "reading"
      /\ read.name # "" => Found(cluster, read) # {}
      /\ parts' = Append(parts, Found(cluster, read))
      /\ pc' = IF k = Len(Reads(request)) THEN "success" ELSE "reading"
      /\ UNCHANGED <<cluster, request, seen>>

\* Mutant of ReadFails: what was read so far is the answer.
ReadFailsPartly ==
  /\ pc = "reading"
  /\ pc' = "success"
  /\ UNCHANGED <<cluster, request, parts, seen>>

\* A request fails, or names an object that is not there: the call is over.
ReadFails ==
  /\ pc = "reading"
  /\ pc' = "error"
  /\ UNCHANGED <<cluster, request, parts, seen>>

\* An object comes, changes or goes while a call is reading; of a kind the call
\* does not read, this makes no difference to it.
ClusterChanges ==
  /\ pc = "reading"
  /\ Len(seen) <= MaxChanges
  /\ \E o \in Objects :
       /\ \E k \in DOMAIN Reads(request) : Reads(request)[k].kind = o.kind
       /\ LET others == {p \in cluster : Key(p) # Key(o)}
          IN  cluster' \in {others, others \cup {o}} \ {cluster}
  /\ seen' = Append(seen, cluster')
  /\ UNCHANGED <<pc, request, parts>>

Next == Execute \/ ClusterMetadata \/ ReadOk \/ ReadFails \/ ClusterChanges

Spec == Init /\ [][Next]_vars

-----------------------------------------------------------------------------
\* Every variable has its type, and a call succeeds with all its parts only.
TypeOK ==
  /\ cluster \in Contents
  /\ pc \in {"idle", "refused", "reading", "success", "error"}
  /\ request \in Requests \cup {Boot}
  /\ parts \in Seq(SUBSET Objects)
  /\ seen \in Seq(Contents) /\ Len(seen) <= MaxChanges + 1
  /\ pc = "success" => Len(parts) = Len(Reads(request))

\* What was there at some moment of the call, and what stayed all along.
Ever   == UNION {seen[i] : i \in DOMAIN seen}
Steady == {o \in Ever : \A i \in DOMAIN seen : o \in seen[i]}

\* The tools that answer with objects, by what tools.go says they return.
KindOf ==
  [c \in allowed \ {"get_cluster_health", "get_resource_usage", "get_restart_analysis"} |->
     CASE c = "get_events"        -> {"events"}
       [] c \in {"get_nodes", "get_node_conditions"} -> {"nodes"}
       [] c = "get_namespaces"    -> {"namespaces"}
       [] c = "get_deployments"   -> {"deployments"}
       [] c = "get_statefulsets"  -> {"statefulsets"}
       [] c = "get_daemonsets"    -> {"daemonsets"}
       [] c = "get_services"      -> {"services"}
       [] c = "get_ingresses"     -> {"ingresses"}
       [] c = "get_workload_health"  -> {"deployments", "statefulsets", "daemonsets"}
       [] c = "get_failed_workloads" -> {"pods", "deployments"}
       [] OTHER -> {"pods"}]

\* The namespace a request names, if it names one.
Names(req, o) ==
  /\ o.kind \in {"nodes", "namespaces"} \/ str(req.namespace, "*") \in {"*", "", o.ns}
  /\ req.command \in PodCommands => o.name = req.name

\* What the descriptions in tools.go say of the objects a tool returns.
Qualifies(command, o) ==
  CASE command = "get_pending_pods"     -> o.phase = "Pending"
    [] command = "get_crashloop_pods"   ->
         \E i \in DOMAIN o.containers : o.containers[i].waiting = "CrashLoopBackOff"
    [] command = "get_failed_workloads" ->
         IF o.kind = "deployments" THEN o.unavailable > 0 ELSE o.phase = "Failed"
    [] OTHER -> TRUE

\* tools.go has get_failed_workloads return "failed pods"; the code adds pods that
\* are pending, however briefly, and pods that wait after a crash.
TakenForFailed(command, o) ==
  /\ command = "get_failed_workloads" /\ o.kind = "pods"
  /\ \/ o.phase = "Pending"
     \/ \E i \in DOMAIN o.containers : o.containers[i].waiting \in CrashReasons

AskedFor(req, o) == o.kind \in KindOf[req.command] /\ Names(req, o)

\* What entry says of the i-th container of a pod is so.
Tells(entry, pod, i) ==
  /\ entry.namespace = pod.ns /\ entry.pod = pod.name
  /\ entry.container = pod.containers[i].name
  /\ entry.restartCount = pod.containers[i].restarts

\* However the cluster changes while the lists are read, the answer holds what
\* was asked for and stayed as it was, and nothing that was never there, is of
\* another kind or namespace, or does not fit what tools.go says of the tool; a
\* list that fails leaves no gap in it.  The pods of get_failed_workloads are the
\* exception: there may be pending pods and pods that wait after a crash as well.
\* get_restart_analysis says of each container of a pod that stayed how often it
\* restarted, if it did; and of none something that was never so, or two things.
AnswerIsRegular ==
  /\ pc = "success" /\ request.command \in DOMAIN KindOf =>
       /\ \A o \in Answer :
            /\ o \in Ever /\ AskedFor(request, o)
            /\ Qualifies(request.command, o) \/ TakenForFailed(request.command, o)
       /\ \A o \in Steady : AskedFor(request, o) /\ Qualifies(request.command, o) => o \in Answer
  /\ pc = "success" /\ request.command = "get_restart_analysis" =>
       /\ \A entry \in Answer :
            \E p \in Ever : /\ p.kind = "pods" /\ Names(request, p)
                            /\ \E i \in DOMAIN p.containers : Tells(entry, p, i)
                            /\ entry.restartCount > 0
       /\ \A p \in Steady : p.kind = "pods" /\ Names(request, p) =>
            \A i \in DOMAIN p.containers :
              p.containers[i].restarts > 0 => \E entry \in Answer : Tells(entry, p, i)
       /\ \A e, f \in Answer :
            e.namespace = f.namespace /\ e.pod = f.pod /\ e.container = f.container => e = f

Trouble(o) ==
  \/ /\ o.kind = "nodes"
     /\ ~\E i \in DOMAIN o.conditions :
           o.conditions[i].type = "Ready" /\ o.conditions[i].status = "True"
  \/ o.kind = "pods" /\ o.phase = "Failed"

\* The health that heartbeats and get_cluster_health report comes from lists of
\* different moments.  "degraded" is never a false alarm, and trouble that lasts
\* is never missed; trouble that moves from a pod to a node may be.
VerdictIsTrue ==
  pc = "success" /\ request.command = "get_cluster_health" =>
    IF ClusterHealth(Health(parts)) = "degraded"
    THEN \E o \in Ever : Trouble(o)
    ELSE \A o \in Steady : ~Trouble(o)

\* The numbers of a health report are those of the contents at five moments.
HealthOf(h, nodes, pods, deployments, statefulsets, daemonsets) ==
  /\ h.NodesReady    = CountOf(nodes, LAMBDA o : o.kind = "nodes" /\ ~Trouble(o))
  /\ h.NodesNotReady = CountOf(nodes, LAMBDA o : o.kind = "nodes" /\ Trouble(o))
  /\ h.PodsRunning   = CountOf(pods, LAMBDA o : o.kind = "pods" /\ o.phase = "Running")
  /\ h.PodsPending   = CountOf(pods, LAMBDA o : o.kind = "pods" /\ o.phase = "Pending")
  /\ h.PodsFailed    = CountOf(pods, LAMBDA o : o.kind = "pods" /\ Trouble(o))
  /\ h.Deployments   = CountOf(deployments, LAMBDA o : o.kind = "deployments")
  /\ h.StatefulSets  = CountOf(statefulsets, LAMBDA o : o.kind = "statefulsets")
  /\ h.DaemonSets    = CountOf(daemonsets, LAMBDA o : o.kind = "daemonsets")

\* Every number of a health report, a usage report and the cluster's metadata is
\* what the cluster had at a moment of the call.  The numbers of one list are of
\* one moment, and those of a later list not of an earlier one.
NumbersOfMoments ==
  /\ pc = "success" /\ request.command = "get_cluster_health" =>
       \E when \in [1..5 -> DOMAIN seen] :
         /\ \A j, k \in 1..5 : j < k => when[j] <= when[k]
         /\ HealthOf(Health(parts), seen[when[1]], seen[when[2]], seen[when[3]],
                     seen[when[4]], seen[when[5]])
  /\ pc = "success" /\ request.command = "get_resource_usage" =>
       \E i \in DOMAIN seen :
         GetResourceUsage(parts[1]) =
           GetResourceUsage({o \in seen[i] : o.kind = "pods" /\ Names(request, o)})
  /\ pc = "success" /\ request.command = "ClusterMetadata" =>
       \E i \in DOMAIN seen : Cardinality(parts[3]) = CountOf(seen[i], LAMBDA o : o.kind = "nodes")

\* Whether a value of a parameter, or its absence, fits the schema of a tool.
\* No schema asks for more of a string than to be one: "" fits.
Fits(definition, parameter, value) ==
  IF parameter \in definition.properties
  THEN value # NotAString /\ (value = Absent => parameter \notin definition.required)
  ELSE value = Absent \/ definition.additionalProperties

\* The backend builds its requests from the tool definitions, the agent takes
\* them apart by its own tables.  A command that one of the tables has, all have:
\* nothing is registered that has no definition or is refused, and nothing else
\* is read.  A request that fits its tool's definition is refused for one reason
\* only: the namespace or the name of a single pod is "", which podParams admits
\* and GetPod and GetLogs do not.
ToolsUnderstood ==
  LET definition == KubernetesToolDefinitions[request.command]
      fits == /\ Fits(definition, "namespace", request.namespace)
              /\ Fits(definition, "name", request.name)
  IN  pc # "idle" /\ request # Boot =>
        /\ request.command \in All <=> request.command \in DOMAIN KubernetesToolDefinitions
        /\ pc # "refused" => request.command \in All
        /\ pc = "refused" /\ request.command \in All /\ fits =>
             request.command \in PodCommands /\ "" \in {request.namespace, request.name}
=============================================================================
