---------------------------- MODULE Capabilities ----------------------------
(***************************************************************************)
(* The names of what an agent can be asked, which are written down in      *)
(* three packages: internal/capabilities, which the agent registers with,  *)
(* the allowlist of internal/commands, and the tool definitions of         *)
(* internal/holmesprovider, from which the backend builds its requests.    *)
(***************************************************************************)

\* capabilities.All.
All ==
  {"get_pods", "get_pod", "describe_pod", "get_logs", "get_events", "get_nodes",
   "get_namespaces", "get_deployments", "get_statefulsets", "get_daemonsets",
   "get_services", "get_ingresses", "get_resource_usage", "get_cluster_health",
   "get_workload_health", "get_restart_analysis", "get_failed_workloads",
   "get_pending_pods", "get_crashloop_pods", "get_node_conditions"}

\* Mutant of allowed: a capability that was added to the other tables only.
allowedIncomplete == All \ {"get_crashloop_pods"}

\* commands.allowed, a table of its own.
allowed ==
  {"get_pods", "get_pod", "describe_pod", "get_logs", "get_events", "get_nodes",
   "get_namespaces", "get_deployments", "get_statefulsets", "get_daemonsets", "get_services",
   "get_ingresses", "get_resource_usage", "get_cluster_health", "get_workload_health",
   "get_restart_analysis", "get_failed_workloads", "get_pending_pods", "get_crashloop_pods",
   "get_node_conditions"}

\* The parameter schemas: the string parameters that are described, those that must
\* be there, and whether there may be others.
emptyParams ==
  [properties |-> {}, required |-> {}, additionalProperties |-> FALSE]

namespaceParams ==
  [properties |-> {"namespace"}, required |-> {}, additionalProperties |-> TRUE]

podParams ==
  [properties |-> {"namespace", "name"}, required |-> {"namespace", "name"},
   additionalProperties |-> TRUE]

EmptyParamsTools ==
  {"get_nodes", "get_namespaces", "get_cluster_health", "get_node_conditions"}

NamespaceParamsTools ==
  {"get_pods", "get_events", "get_deployments", "get_statefulsets", "get_daemonsets",
   "get_services", "get_ingresses", "get_resource_usage", "get_workload_health",
   "get_restart_analysis", "get_failed_workloads", "get_pending_pods", "get_crashloop_pods"}

\* get_logs takes a container and a number of lines as well, both optional.
PodParamsTools == {"get_pod", "describe_pod", "get_logs"}

KubernetesToolDefinitions ==
  [t \in EmptyParamsTools \cup NamespaceParamsTools \cup PodParamsTools |->
     CASE t \in EmptyParamsTools     -> emptyParams
       [] t \in NamespaceParamsTools -> namespaceParams
       [] t \in PodParamsTools       -> podParams]
=============================================================================
