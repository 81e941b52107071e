---------------------------- MODULE MCReadClient ----------------------------
(***************************************************************************)
(* ReadClient for TLC: a cluster of one node, two pods in two namespaces   *)
(* and one object of every other kind, which come, go and change.          *)
(***************************************************************************)
EXTENDS ReadClient

Object(kind, namespace, name) == [kind |-> kind, ns |-> namespace, name |-> name]

Node(conditions) == [kind |-> "nodes", ns |-> "", name |-> "n1", conditions |-> conditions]

Condition(type, status) == [type |-> type, status |-> status]

Container(name, waiting, restarts) ==
  [name |-> name, waiting |-> waiting, restarts |-> restarts, cpu |-> 1]

Pod(namespace, name, phase, containers) ==
  [kind |-> "pods", ns |-> namespace, name |-> name, phase |-> phase, containers |-> containers]

Deployment(unavailable) ==
  [kind |-> "deployments", ns |-> "x", name |-> "d", unavailable |-> unavailable]

Ready == Node(<<Condition("DiskPressure", "True"), Condition("Ready", "True")>>)
Steadfast == Container("main", "none", 0)
Fine == Pod("x", "a", "Running", <<Steadfast>>)
Other == Pod("y", "b", "Running", <<Container("main", "none", 1), Container("sidecar", "none", 0)>>)

Fixed ==
  {Object("version", "", "v"), Object("namespaces", "", "kube-system"),
   Object("events", "x", "e"), Object("services", "y", "s"), Object("ingresses", "x", "i"),
   Object("statefulsets", "x", "t"), Object("daemonsets", "y", "d")}

MCObjects ==
  Fixed \cup
  {Ready, Node(<<>>), Node(<<Condition("Ready", "Unknown")>>),
   Fine, Pod("x", "a", "Pending", <<Steadfast>>), Pod("x", "a", "Failed", <<Steadfast>>),
   Pod("x", "a", "Running", <<Steadfast, Container("sidecar", "CrashLoopBackOff", 1)>>),
   Other, Pod("y", "b", "Running", <<Container("main", "RunContainerCrash", 0)>>),
   Deployment(0), Deployment(1)}

MCClusters ==
  {{}, Fixed \cup {Ready, Fine, Other, Deployment(0)},
   Fixed \cup {Node(<<>>), Pod("x", "a", "Failed", <<Steadfast>>), Other, Deployment(1)}}

Namespaces == {Absent, NotAString, "", "*", "x", "y"}

Commands == All \cup allowed \cup DOMAIN KubernetesToolDefinitions \cup {"delete_pod"}

MCRequests ==
  [command : Commands \ (NamespaceParamsTools \cup PodParamsTools),
   namespace : {Absent, "x"}, name : {Absent}]
    \cup [command : NamespaceParamsTools, namespace : Namespaces, name : {Absent}]
    \cup [command : PodParamsTools, namespace : Namespaces, name : {Absent, NotAString, "", "a"}]
=============================================================================
