--------------------------- MODULE HolmesProvider ---------------------------
(***************************************************************************)
(* internal/holmesprovider/provider.go: Invoke resolves a target to        *)
(* clusters, dispatches the tool to all of them at once, waits, aggregates *)
(* and records.  Several invocations run at a time, while agents come, go  *)
(* and change what they offer.  The dispatcher and the audit sink are      *)
(* interfaces; the first may fail or answer in any order, the second fail. *)
(***************************************************************************)
EXTENDS ToolRegistry

CONSTANTS Requests,     \* invocations
          NoGroup,      \* the empty group
          Targets,      \* the targets that are asked for
          MaxSeen       \* bound: registry contents an invocation may meet while it resolves

ASSUME ProviderAssumption ==
  /\ NoGroup \notin Groups
  /\ Targets \subseteq [ids : Seq(ClusterIDs), group : Groups \cup {NoGroup}, all : BOOLEAN]
  /\ MaxSeen \in Nat

VARIABLES hasDispatcher, hasAudit,   \* whether NewProvider was given them
          pc,           \* where Invoke is, per request
          invocation,   \* the tool and the target of a request
          selected,     \* the clusters chosen so far, as read from the registry
          dispatching,  \* the dispatch goroutines that have not called Done
          results,      \* the results, by position
          audit,        \* the records the sink has kept
          seen          \* history: the registry contents between Invoke and its resolution

requestVars == <<pc, invocation, selected, dispatching, results>>
configuration == <<hasDispatcher, hasAudit>>
vars == <<registryVars, configuration, requestVars, audit, seen>>

PCs == {"idle", "lookup", "resolve", "filter", "wait", "audit", "ok", "error"}

\* The zero NormalizedResult, and the others.
Zero == [cluster |-> 0, status |-> "none"]
Result(id, status) == [cluster |-> id, status |-> status]

NoTarget == [ids |-> <<>>, group |-> NoGroup, all |-> FALSE]
NoInvocation == [tool |-> "none", target |-> NoTarget]

IDs(infos) == [i \in DOMAIN infos |-> infos[i].id]

Init ==
  /\ NewToolRegistry
  /\ hasDispatcher \in BOOLEAN /\ hasAudit \in BOOLEAN
  /\ pc = [r \in Requests |-> "idle"]
  /\ invocation = [r \in Requests |-> NoInvocation]
  /\ selected = [r \in Requests |-> <<>>]
  /\ dispatching = [r \in Requests |-> {}]
  /\ results = [r \in Requests |-> <<>>]
  /\ audit = <<>>
  /\ seen = [r \in Requests |-> {}]

Resolving(r) == pc[r] \in {"lookup", "resolve"}

\* What the control plane does to the registry.
RegistryStep ==
  /\ \/ \E t \in Tools : RegisterTool(t)
     \/ \E info \in ClusterInfo : RegisterAgent(info)
     \/ \E c \in ClusterIDs : UnregisterAgent(c)
  /\ seen' = [r \in Requests |->
                IF Resolving(r) THEN seen[r] \cup {clusters'} ELSE seen[r]]
  /\ \A r \in Requests : Cardinality(seen'[r]) <= MaxSeen
  /\ UNCHANGED <<configuration, requestVars, audit>>

-----------------------------------------------------------------------------
(* Provider.Invoke.                                                        *)

Goto(r, next) == pc' = [pc EXCEPT ![r] = next]

Invoke(r, tool, target) ==
  /\ pc[r] = "idle"
  /\ invocation' = [invocation EXCEPT ![r] = [tool |-> tool, target |-> target]]
  /\ Goto(r, IF hasDispatcher THEN "lookup" ELSE "error")
  /\ seen' = [seen EXCEPT ![r] = {clusters}]
  /\ UNCHANGED <<registryVars, configuration, selected, dispatching, results, audit>>

\* registry.Tool.
Lookup(r) ==
  /\ pc[r] = "lookup"
  /\ Goto(r, IF invocation[r].tool \in tools THEN "resolve" ELSE "error")
  /\ UNCHANGED <<registryVars, configuration, invocation, selected, dispatching, results, audit, seen>>

\* Mutant of ResolveNext: a cluster that is not registered ends the list.
ResolveNextBreaks(r) ==
  LET ids == invocation[r].target.ids
      id  == ids[Len(selected[r]) + 1]
  IN  /\ pc[r] = "resolve"
      /\ ids # <<>>
      /\ IF id \in DOMAIN clusters
         THEN /\ selected' = [selected EXCEPT ![r] = Append(@, clusters[id])]
              /\ Goto(r, IF Len(selected'[r]) = Len(ids) THEN "filter" ELSE "resolve")
         ELSE Goto(r, "filter") /\ UNCHANGED selected
      /\ UNCHANGED <<registryVars, configuration, invocation, dispatching, results, audit, seen>>

\* resolveClusters with identifiers looks up one at a time and gives up at the
\* first that is not registered.
ResolveNext(r) ==
  LET ids == invocation[r].target.ids
      id  == ids[Len(selected[r]) + 1]
  IN  /\ pc[r] = "resolve"
      /\ ids # <<>>
      /\ IF id \in DOMAIN clusters
         THEN /\ selected' = [selected EXCEPT ![r] = Append(@, clusters[id])]
              /\ Goto(r, IF Len(selected'[r]) = Len(ids) THEN "filter" ELSE "resolve")
         ELSE Goto(r, "error") /\ UNCHANGED selected
      /\ UNCHANGED <<registryVars, configuration, invocation, dispatching, results, audit, seen>>

\* The clusters of a list that are in a group, and those that have a capability.
InGroup(infos, group) == Sorted(infos, {i \in DOMAIN infos : group \in infos[i].groups})
Capable(infos, tool) == Sorted(infos, {i \in DOMAIN infos : tool \in infos[i].capabilities})

\* Without identifiers it reads the registry once.
SelectedBy(target, tool, registry) ==
  CASE target.group # NoGroup -> InGroup(Clusters(registry), target.group)
    [] target.group = NoGroup /\ target.all -> Clusters(registry)
    [] OTHER -> GetClustersForCapability(registry, tool)

\* Mutant of ResolveAll: all goes before group.
ResolveAllFirst(r) ==
  /\ pc[r] = "resolve"
  /\ invocation[r].target.ids = <<>>
  /\ selected' = [selected EXCEPT ![r] =
                    IF invocation[r].target.all THEN Clusters(clusters)
                    ELSE SelectedBy(invocation[r].target, invocation[r].tool, clusters)]
  /\ Goto(r, "filter")
  /\ UNCHANGED <<registryVars, configuration, invocation, dispatching, results, audit, seen>>

ResolveAll(r) ==
  /\ pc[r] = "resolve"
  /\ invocation[r].target.ids = <<>>
  /\ selected' = [selected EXCEPT ![r] =
                    SelectedBy(invocation[r].target, invocation[r].tool, clusters)]
  /\ Goto(r, "filter")
  /\ UNCHANGED <<registryVars, configuration, invocation, dispatching, results, audit, seen>>

\* Mutant of Dispatch: the capability is not asked for.
DispatchUnfiltered(r) ==
  LET kept == selected[r]
  IN  /\ pc[r] = "filter"
      /\ IF kept = <<>>
         THEN Goto(r, "error") /\ UNCHANGED <<dispatching, results>>
         ELSE /\ Goto(r, "wait")
              /\ dispatching' = [dispatching EXCEPT ![r] = DOMAIN kept]
              /\ results' = [results EXCEPT ![r] = [i \in DOMAIN kept |-> Zero]]
      /\ UNCHANGED <<registryVars, configuration, invocation, selected, audit, seen>>

\* The clusters that have the capability are kept, in order and in place.
Dispatch(r) ==
  LET kept == Capable(selected[r], invocation[r].tool)
  IN  /\ pc[r] = "filter"
      /\ selected' = [selected EXCEPT ![r] = kept]
      /\ IF kept = <<>>
         THEN Goto(r, "error") /\ UNCHANGED <<dispatching, results>>
         ELSE /\ Goto(r, "wait")
              /\ dispatching' = [dispatching EXCEPT ![r] = DOMAIN kept]
              /\ results' = [results EXCEPT ![r] = [i \in DOMAIN kept |-> Zero]]
      /\ UNCHANGED <<registryVars, configuration, invocation, audit, seen>>

\* Mutant of Return: results are stored in the order in which they arrive.
ReturnInOrder(r, i) ==
  /\ i \in dispatching[r]
  /\ \E status \in {"success", "failed"} :
       results' = [results EXCEPT
         ![r][Len(results[r]) - Cardinality(dispatching[r]) + 1] = Result(selected[r][i].id, status)]
  /\ dispatching' = [dispatching EXCEPT ![r] = @ \ {i}]
  /\ UNCHANGED <<registryVars, configuration, pc, invocation, selected, audit, seen>>

\* DispatchTool returns to goroutine i: what the agent answered, or an error,
\* which normalize turns into "failed".
Return(r, i) ==
  /\ i \in dispatching[r]
  /\ \E status \in {"success", "failed"} :
       results' = [results EXCEPT ![r][i] = Result(selected[r][i].id, status)]
  /\ dispatching' = [dispatching EXCEPT ![r] = @ \ {i}]
  /\ UNCHANGED <<registryVars, configuration, pc, invocation, selected, audit, seen>>

\* Mutant of Gather: it does not wait.
GatherEarly(r) ==
  /\ pc[r] = "wait"
  /\ Goto(r, IF hasAudit THEN "audit" ELSE "ok")
  /\ UNCHANGED <<registryVars, configuration, invocation, selected, dispatching, results, audit, seen>>

\* Mutant of Gather: a goroutine whose dispatch failed never calls Done.
GatherSuccesses(r) ==
  /\ pc[r] = "wait"
  /\ \A i \in DOMAIN results[r] : results[r][i].status = "success"
  /\ Goto(r, IF hasAudit THEN "audit" ELSE "ok")
  /\ UNCHANGED <<registryVars, configuration, invocation, selected, dispatching, results, audit, seen>>

\* wg.Wait and the aggregation.
Gather(r) ==
  /\ pc[r] = "wait"
  /\ dispatching[r] = {}
  /\ Goto(r, IF hasAudit THEN "audit" ELSE "ok")
  /\ UNCHANGED <<registryVars, configuration, invocation, selected, dispatching, results, audit, seen>>

AuditRecord(r) ==
  [request |-> r, tool |-> invocation[r].tool,
   targeted |-> IDs(selected[r]), count |-> Len(results[r])]

\* Mutant of RecordToolInvocation: a failure is retried, though the sink may
\* have kept the record.
RecordToolInvocationRetries(r) ==
  /\ pc[r] = "audit"
  /\ \/ audit' = Append(audit, AuditRecord(r)) /\ Goto(r, "ok")
     \/ Len(audit) < 2 /\ audit' = Append(audit, AuditRecord(r)) /\ UNCHANGED pc
  /\ UNCHANGED <<registryVars, configuration, invocation, selected, dispatching, results, seen>>

\* The sink keeps the record or fails; Invoke does not ask.
RecordToolInvocation(r) ==
  /\ pc[r] = "audit"
  /\ \/ audit' = Append(audit, AuditRecord(r))
     \/ UNCHANGED audit
  /\ Goto(r, "ok")
  /\ UNCHANGED <<registryVars, configuration, invocation, selected, dispatching, results, seen>>

InvokeStep(r) ==
  \/ Lookup(r) \/ ResolveNext(r) \/ ResolveAll(r) \/ Dispatch(r)
  \/ \E i \in DOMAIN results[r] : Return(r, i)
  \/ Gather(r) \/ RecordToolInvocation(r)

Next ==
  \/ RegistryStep
  \/ \E r \in Requests :
       \/ \E t \in Tools, target \in Targets : Invoke(r, t, target)
       \/ InvokeStep(r)

Spec == Init /\ [][Next]_vars

\* The Go scheduler runs every goroutine, and DispatchTool returns.
FairSpec == Spec /\ \A r \in Requests : WF_vars(InvokeStep(r))

-----------------------------------------------------------------------------
Statuses == {"success", "failed"}

\* Every variable has its type.
TypeOK ==
  /\ clusters \in Registries /\ tools \subseteq Tools
  /\ hasDispatcher \in BOOLEAN /\ hasAudit \in BOOLEAN
  /\ pc \in [Requests -> PCs]
  /\ \A r \in Requests :
       /\ pc[r] # "idle" => invocation[r] \in [tool : Tools, target : Targets]
       /\ selected[r] \in Seq(ClusterInfo)
       /\ dispatching[r] \subseteq DOMAIN results[r]
       /\ dispatching[r] # {} => pc[r] = "wait"
       /\ results[r] \in Seq({Zero} \cup {Result(c, s) : c \in ClusterIDs, s \in Statuses})
       /\ seen[r] \subseteq Registries

Resolved(r) == pc[r] \in {"wait", "audit", "ok"}

\* However the dispatches finish and whatever happens to the registry
\* meanwhile, the answer has a result of every cluster it targets, at the
\* position of that cluster.
ResultsMatchTargets ==
  \A r \in Requests : pc[r] \in {"audit", "ok"} =>
    /\ DOMAIN results[r] = DOMAIN selected[r]
    /\ \A i \in DOMAIN results[r] : results[r][i].cluster = selected[r][i].id

\* A tool is only dispatched to clusters that offered it, as they were
\* registered at some moment between the call of Invoke and the dispatch.
TargetsOfferedTool ==
  \A r \in Requests : Resolved(r) =>
    \A i \in DOMAIN selected[r] :
      LET info == selected[r][i]
      IN  /\ invocation[r].tool \in info.capabilities
          /\ \E registry \in seen[r] : info.id \in DOMAIN registry /\ registry[info.id] = info

\* A group, all clusters or all capable ones are taken from the registry as it
\* was at one moment: no cluster that was in it then is missed.
TargetsOfOneMoment ==
  \A r \in Requests : Resolved(r) /\ invocation[r].target.ids = <<>> =>
    \E registry \in seen[r] :
      LET target == invocation[r].target
          wanted == {c \in DOMAIN registry :
                       /\ invocation[r].tool \in registry[c].capabilities
                       /\ target.group # NoGroup => target.group \in registry[c].groups}
      IN  selected[r] = Sorted(registry, wanted)

\* Of the clusters that are asked for by name none is passed over, unless it was
\* registered without the capability.
NamedTargetsKept ==
  \A r \in Requests : Resolved(r) =>
    \A i \in DOMAIN invocation[r].target.ids :
      LET id == invocation[r].target.ids[i]
      IN  \/ \E k \in DOMAIN selected[r] : selected[r][k].id = id
          \/ \E registry \in seen[r] :
               /\ id \in DOMAIN registry
               /\ invocation[r].tool \notin registry[id].capabilities

\* The sink gets one record of an invocation at most, when all results are in,
\* and what it says is what Invoke answers.
AuditMatchesAnswer ==
  \A k \in DOMAIN audit :
    LET r == audit[k].request
    IN  /\ \A l \in DOMAIN audit : audit[l].request = r => l = k
        /\ pc[r] = "ok"
        /\ audit[k].tool = invocation[r].tool
        /\ audit[k].count = Len(audit[k].targeted)
        /\ audit[k].targeted = [i \in DOMAIN results[r] |-> results[r][i].cluster]

\* Invoke returns, whatever the dispatches come to.
InvokeReturns ==
  \A r \in Requests : pc[r] = "lookup" ~> pc[r] \in {"ok", "error"}

\* README.md:57: the provider "emits audit records for every tool invocation".
AuditsEveryInvocation ==
  hasDispatcher /\ hasAudit => \A r \in Requests :
    pc[r] \in {"ok", "error"} => \E k \in DOMAIN audit : audit[k].request = r
=============================================================================
