---------------------------- MODULE ToolRegistry ----------------------------
(***************************************************************************)
(* internal/holmesprovider/registry.go: the clusters and the tools the     *)
(* backend knows of.  Every method holds the registry's lock from its      *)
(* first to its last line, so each is one step, and readers get copies.    *)
(***************************************************************************)
EXTENDS Naturals, FiniteSets, Sequences

CONSTANTS ClusterIDs,   \* cluster identifiers, numbers so that they sort
          Groups,       \* cluster groups
          Tools,        \* tools and capabilities, which share their names
          Definitions   \* the tools NewToolRegistry is given

ASSUME RegistryAssumption ==
  /\ ClusterIDs \subseteq Nat \ {0} /\ IsFiniteSet(ClusterIDs)
  /\ Definitions \subseteq Tools

VARIABLES clusters,     \* ToolRegistry.clusters, by identifier
          tools         \* the names of ToolRegistry.tools

registryVars == <<clusters, tools>>

ClusterInfo == [id : ClusterIDs, groups : SUBSET Groups, capabilities : SUBSET Tools]

Registries ==
  UNION {{f \in [ids -> ClusterInfo] : \A c \in ids : f[c].id = c} : ids \in SUBSET ClusterIDs}

NewToolRegistry ==
  /\ clusters = <<>>
  /\ tools = Definitions

\* A tool is added, or its definition replaced.
RegisterTool(t) ==
  /\ tools' = tools \cup {t}
  /\ UNCHANGED clusters

\* A cluster is added, or all that is known of it is replaced.
RegisterAgent(info) ==
  /\ clusters' = [c \in DOMAIN clusters \cup {info.id} |->
                    IF c = info.id THEN info ELSE clusters[c]]
  /\ UNCHANGED tools

UnregisterAgent(id) ==
  /\ clusters' = [c \in DOMAIN clusters \ {id} |-> clusters[c]]
  /\ UNCHANGED tools

\* The i-th smallest of ids.
Nth(ids, i) == CHOOSE c \in ids : Cardinality({d \in ids : d <= c}) = i

\* What a registry, or a list, has at ids, in the order of ids.
Sorted(registry, ids) == [i \in 1..Cardinality(ids) |-> registry[Nth(ids, i)]]

Clusters(registry) == Sorted(registry, DOMAIN registry)

GetClustersForCapability(registry, capability) ==
  Sorted(registry, {c \in DOMAIN registry : capability \in registry[c].capabilities})
=============================================================================
