-------------------------- MODULE ReadClientProofs --------------------------
(***************************************************************************)
(* What ReadClient promises of an answer, a verdict and a number that are  *)
(* put together from several requests, for any cluster and any command.    *)
(***************************************************************************)
EXTENDS ReadClient, FiniteSetTheorems, SequenceTheorems, TLAPS

-----------------------------------------------------------------------------
(* The inductive invariant: what has been read was there at some moment,   *)
(* and what was read later not at an earlier one.                          *)

InOrder(when, reads) == \A j, k \in reads : j < k => when[j] <= when[k]

ReadsOfMoments ==
  /\ \A k \in DOMAIN parts : Reads(request)[k].name # "" => parts[k] # {}
  /\ \E when \in [DOMAIN parts -> DOMAIN seen] :
       /\ InOrder(when, DOMAIN parts)
       /\ \A k \in DOMAIN parts : parts[k] = Found(seen[when[k]], Reads(request)[k])

IInv ==
  /\ TypeOK
  /\ pc = "idle" => parts = <<>>
  /\ pc = "refused" => Refused(request)
  /\ pc = "reading" =>
       /\ seen # <<>> /\ seen[Len(seen)] = cluster
       /\ Len(parts) < Len(Reads(request))
  /\ pc \in {"reading", "success", "error"} => request = Boot \/ ~Refused(request)
  /\ pc \in {"reading", "success"} => ReadsOfMoments

-----------------------------------------------------------------------------
(* Reads and what they find.                                               *)

\* Every call asks for something.
LEMMA ReadsShape ==
  ASSUME NEW req
  PROVE  /\ Len(Reads(req)) \in Nat /\ Len(Reads(req)) > 0
         /\ DOMAIN Reads(req) = 1..Len(Reads(req))
<1>1. CASE req.command = "ClusterMetadata"
  BY <1>1 DEF Reads, ClusterMetadataReads
<1>2. CASE req.command = "get_cluster_health"
  BY <1>2 DEF Reads, HealthReads
<1>3. CASE req.command = "get_workload_health"
  BY <1>3 DEF Reads, GetWorkloadHealthReads
<1>4. CASE req.command = "get_failed_workloads"
  BY <1>4 DEF Reads, GetFailedWorkloadsReads
<1>5. CASE req.command \notin {"ClusterMetadata", "get_cluster_health",
                               "get_workload_health", "get_failed_workloads"}
  <2>1. Reads(req) = <<SingleRead(req)>>
    BY <1>5 DEF Reads
  <2>2. PICK read : read = SingleRead(req)
    OBVIOUS
  <2> QED
    BY <2>1, <2>2
<1> QED
  BY <1>1, <1>2, <1>3, <1>4, <1>5

\* What is found was there.
LEMMA FoundInContents ==
  ASSUME NEW contents \in Contents, NEW read
  PROVE  Found(contents, read) \in SUBSET contents /\ Found(contents, read) \in SUBSET Objects
BY DEF Found, Contents

-----------------------------------------------------------------------------
(* Every step keeps the invariant.                                         *)

\* Nothing has been read.
LEMMA Initially ==
  ASSUME Init
  PROVE  IInv
<1>1. cluster \in Contents
  BY ReadAssumption DEF Init
<1>2. MaxChanges \in Nat
  BY ReadAssumption
<1>3. TypeOK
  BY <1>1, <1>2 DEF Init, TypeOK
<1> QED
  BY <1>3 DEF Init, IInv

\* A call begins: Execute, or ClusterMetadata at boot.
LEMMA BeginInv ==
  ASSUME IInv, NEW req \in Requests \cup {Boot}, NEW refused \in BOOLEAN,
         refused => Refused(req), ~refused => req = Boot \/ ~Refused(req),
         Begin(req, refused)
  PROVE  IInv'
<1>1. /\ pc = "idle" /\ request' = req /\ pc' = (IF refused THEN "refused" ELSE "reading")
      /\ seen' = <<cluster>> /\ cluster' = cluster /\ parts' = parts
  BY DEF Begin
<1>2. parts = <<>> /\ TypeOK /\ MaxChanges \in Nat
  BY <1>1, ReadAssumption DEF IInv
<1>3. seen' \in Seq(Contents) /\ Len(seen') = 1 /\ seen'[Len(seen')] = cluster'
  BY <1>1, <1>2 DEF TypeOK
<1>4. TypeOK'
  BY <1>1, <1>2, <1>3 DEF TypeOK
<1>5. Len(parts') < Len(Reads(request'))
  <2>1. Len(parts') = 0
    BY <1>1, <1>2
  <2> QED
    BY <2>1, ReadsShape
<1>6. ReadsOfMoments'
  <2>1. DOMAIN parts' = {}
    BY <1>1, <1>2
  <2>2. PICK when : when = [k \in {} |-> 0]
    OBVIOUS
  <2>3. when \in [DOMAIN parts' -> DOMAIN seen'] /\ InOrder(when, DOMAIN parts')
    BY <2>1, <2>2 DEF InOrder
  <2> QED
    BY <2>1, <2>3 DEF ReadsOfMoments
<1>7. (pc' = "refused" => Refused(request)') /\ (pc' = "reading" => request' = Boot \/ ~Refused(request)')
  BY <1>1 DEF Refused
<1>8. pc' \in {"refused", "reading"} /\ seen' # <<>>
  BY <1>1, <1>3
<1> QED
  BY <1>3, <1>4, <1>5, <1>6, <1>7, <1>8 DEF IInv

\* The API answers with what the cluster holds, the last of the moments seen.
LEMMA ReadOkInv ==
  ASSUME IInv, ReadOk
  PROVE  IInv'
<1> DEFINE n == Len(parts)
           read == Reads(request)[n + 1]
<1>1. /\ pc = "reading"
      /\ read.name # "" => Found(cluster, read) # {}
      /\ parts' = Append(parts, Found(cluster, read))
      /\ pc' = (IF n + 1 = Len(Reads(request)) THEN "success" ELSE "reading")
      /\ cluster' = cluster /\ request' = request /\ seen' = seen
  BY DEF ReadOk
<1>2. /\ TypeOK /\ ReadsOfMoments /\ seen # <<>> /\ seen[Len(seen)] = cluster
      /\ n < Len(Reads(request)) /\ (request = Boot \/ ~Refused(request))
  <2>1. pc = "reading"
    BY <1>1
  <2> QED
    BY <2>1 DEF IInv
<1>3. PICK found \in SUBSET Objects : found = Found(cluster, read)
  BY <1>2, FoundInContents DEF TypeOK
<1>4. PICK old \in Seq(SUBSET Objects) : old = parts
  BY <1>2 DEF TypeOK
<1>5. PICK new \in Seq(SUBSET Objects) : new = parts'
  BY <1>1, <1>3, <1>4, AppendProperties
<1>6. /\ n \in Nat /\ n = Len(old) /\ Len(new) = n + 1 /\ DOMAIN old = 1..n /\ DOMAIN new = 1..(n + 1)
      /\ new[n + 1] = found /\ \A k \in 1..n : new[k] = old[k]
  <2>1. new = Append(old, found)
    BY <1>1, <1>3, <1>4, <1>5
  <2>2. n = Len(old)
    BY <1>4
  <2> HIDE DEF n
  <2> QED
    BY <2>1, <2>2
<1>7. Len(Reads(request)) \in Nat
  BY ReadsShape
<1>8. TypeOK'
  BY <1>1, <1>2, <1>5, <1>6, <1>7 DEF TypeOK
<1>9. PICK moments \in Seq(Contents) : moments = seen
  BY <1>2 DEF TypeOK
<1>10. ReadsOfMoments'
  <2> DEFINE last == Len(moments)
  <2>1. /\ last \in Nat /\ DOMAIN moments = 1..last /\ last \in DOMAIN moments
        /\ \A i \in DOMAIN moments : i <= last
    BY <1>2, <1>9
  <2>2. PICK when \in [1..n -> DOMAIN moments] :
          /\ InOrder(when, 1..n)
          /\ \A k \in 1..n : old[k] = Found(moments[when[k]], Reads(request)[k])
    BY <1>2, <1>4, <1>6, <1>9 DEF ReadsOfMoments
  <2>3. PICK later : later = [k \in 1..(n + 1) |-> IF k = n + 1 THEN last ELSE when[k]]
    OBVIOUS
  <2> HIDE DEF last, n
  <2>4. later \in [1..(n + 1) -> DOMAIN moments]
    BY <1>6, <2>1, <2>2, <2>3
  <2>5. InOrder(later, 1..(n + 1))
    <3>1. \A k \in 1..n : later[k] = when[k] /\ when[k] \in DOMAIN moments
      BY <1>6, <2>2, <2>3
    <3>2. later[n + 1] = last
      BY <1>6, <2>3
    <3>3. SUFFICES ASSUME NEW j \in 1..(n + 1), NEW k \in 1..(n + 1), j < k
                   PROVE  later[j] <= later[k]
      BY DEF InOrder
    <3>4. j \in 1..n /\ (k \in 1..n \/ k = n + 1)
      BY <1>6, <3>3
    <3>5. k \in 1..n => when[j] <= when[k]
      BY <2>2, <3>3, <3>4 DEF InOrder
    <3>6. when[j] <= last
      BY <2>1, <3>1, <3>4
    <3> QED
      BY <3>1, <3>2, <3>4, <3>5, <3>6
  <2>6. ASSUME NEW k \in 1..(n + 1)
        PROVE  /\ new[k] = Found(moments[later[k]], Reads(request)[k])
               /\ Reads(request)[k].name # "" => new[k] # {}
    <3>1. CASE k = n + 1
      <4>1. later[k] = last /\ moments[last] = cluster
        BY <1>2, <1>6, <1>9, <2>3, <3>1 DEF last
      <4>2. Reads(request)[k] = read /\ new[k] = found
        BY <1>6, <3>1
      <4> HIDE DEF read
      <4> QED
        BY <1>1, <1>3, <4>1, <4>2
    <3>2. CASE k # n + 1
      <4>1. k \in 1..n /\ new[k] = old[k] /\ later[k] = when[k]
        BY <1>6, <2>3, <3>2
      <4>2. Reads(request)[k].name # "" => old[k] # {}
        BY <1>2, <1>4, <1>6, <4>1 DEF ReadsOfMoments
      <4> QED
        BY <2>2, <4>1, <4>2
    <3> QED
      BY <3>1, <3>2
  <2>7. /\ parts' = new /\ DOMAIN new = 1..(n + 1) /\ seen' = moments
        /\ request' = request
    BY <1>1, <1>5, <1>6, <1>9
  <2> QED
    BY <2>4, <2>5, <2>6, <2>7 DEF ReadsOfMoments
<1>11. Refused(request)' = Refused(request) /\ Reads(request)' = Reads(request)
  BY <1>1
<1>12. pc' = "reading" => Len(parts') < Len(Reads(request'))
  <2>1. Len(parts') = n + 1 /\ Reads(request') = Reads(request)
    BY <1>1, <1>5, <1>6
  <2>2. pc' = "reading" => n + 1 # Len(Reads(request))
    BY <1>1
  <2> HIDE DEF n
  <2> QED
    BY <1>2, <1>6, <1>7, <2>1, <2>2
<1>13. pc' \in {"reading", "success"}
  BY <1>1
<1> QED
  BY <1>1, <1>2, <1>8, <1>10, <1>11, <1>12, <1>13 DEF IInv

\* What comes, changes or goes leaves a cluster that may be.
LEMMA ChangedContents ==
  ASSUME NEW contents \in Contents, NEW o \in Objects,
         NEW others, others = {p \in contents : Key(p) # Key(o)}
  PROVE  others \in Contents /\ others \cup {o} \in Contents
<1>1. contents \in SUBSET Objects /\ IsFiniteSet(contents)
      /\ \A p, q \in contents : Key(p) = Key(q) => p = q
  BY DEF Contents
<1>2. IsFiniteSet(others) /\ IsFiniteSet(others \cup {o})
  BY <1>1, FS_Subset, FS_AddElement
<1>3. \A p, q \in others \cup {o} : Key(p) = Key(q) => p = q
  BY <1>1
<1> QED
  BY <1>1, <1>2, <1>3 DEF Contents

\* The cluster changes; what was read before keeps its moment.
LEMMA ClusterChangesInv ==
  ASSUME IInv, ClusterChanges
  PROVE  IInv'
<1>1. /\ pc = "reading" /\ Len(seen) <= MaxChanges /\ seen' = Append(seen, cluster')
      /\ pc' = pc /\ request' = request /\ parts' = parts
  BY DEF ClusterChanges
<1>2. /\ TypeOK /\ ReadsOfMoments /\ MaxChanges \in Nat
      /\ Len(parts) < Len(Reads(request)) /\ (request = Boot \/ ~Refused(request))
  BY <1>1, ReadAssumption DEF IInv
<1>3. PICK contents \in Contents : contents = cluster'
  <2>1. PICK o \in Objects : \E others : /\ others = {p \in cluster : Key(p) # Key(o)}
                                         /\ cluster' \in {others, others \cup {o}}
    BY DEF ClusterChanges
  <2> QED
    BY <1>2, <2>1, ChangedContents DEF TypeOK
<1>4. PICK old \in Seq(Contents) : old = seen
  BY <1>2 DEF TypeOK
<1>5. PICK new \in Seq(Contents) : new = seen'
  BY <1>1, <1>3, <1>4, AppendProperties
<1>6. /\ Len(old) \in Nat /\ Len(new) = Len(old) + 1 /\ new[Len(new)] = contents
      /\ DOMAIN old = 1..Len(old) /\ DOMAIN new = 1..Len(new)
      /\ \A i \in DOMAIN old : new[i] = old[i]
  BY <1>1, <1>3, <1>4, <1>5
<1>7. TypeOK'
  BY <1>1, <1>2, <1>3, <1>4, <1>5, <1>6 DEF TypeOK
<1>8. ReadsOfMoments'
  <2>1. PICK when \in [DOMAIN parts -> DOMAIN old] :
          /\ InOrder(when, DOMAIN parts)
          /\ \A k \in DOMAIN parts : parts[k] = Found(old[when[k]], Reads(request)[k])
    BY <1>2, <1>4 DEF ReadsOfMoments
  <2>2. when \in [DOMAIN parts -> DOMAIN new]
    BY <1>6, <2>1
  <2>3. \A k \in DOMAIN parts : parts[k] = Found(new[when[k]], Reads(request)[k])
    BY <1>6, <2>1
  <2>4. \A k \in DOMAIN parts : Reads(request)[k].name # "" => parts[k] # {}
    BY <1>2 DEF ReadsOfMoments
  <2> QED
    BY <1>1, <1>5, <2>1, <2>2, <2>3, <2>4 DEF ReadsOfMoments
<1>9. Refused(request)' = Refused(request) /\ Reads(request)' = Reads(request)
  BY <1>1
<1>10. seen' # <<>> /\ seen'[Len(seen')] = cluster'
  BY <1>3, <1>5, <1>6
<1> QED
  BY <1>1, <1>2, <1>7, <1>8, <1>9, <1>10 DEF IInv

\* Each step of a call, and each change of the cluster, keeps the invariant.
LEMMA Inductive ==
  ASSUME IInv, [Next]_vars
  PROVE  IInv'
<1>1. CASE Execute
  <2>1. PICK req \in Requests : Begin(req, Refused(req))
    BY <1>1 DEF Execute
  <2>2. Refused(req) \in BOOLEAN
    BY DEF Refused
  <2> QED
    BY <2>1, <2>2, BeginInv
<1>2. CASE ClusterMetadata
  BY <1>2, BeginInv DEF ClusterMetadata
<1>3. CASE ReadOk
  BY <1>3, ReadOkInv
<1>4. CASE ReadFails
  <2>1. pc = "reading" /\ pc' = "error" /\ UNCHANGED <<cluster, request, parts, seen>>
    BY <1>4 DEF ReadFails
  <2>2. TypeOK'
    BY <2>1 DEF IInv, TypeOK
  <2>3. request' = Boot \/ ~Refused(request')
    BY <2>1 DEF IInv
  <2> QED
    BY <2>1, <2>2, <2>3 DEF IInv
<1>5. CASE ClusterChanges
  BY <1>5, ClusterChangesInv
<1>6. CASE UNCHANGED vars
  <2>1. UNCHANGED <<cluster, pc, request, parts, seen>>
    BY <1>6 DEF vars
  <2>2. TypeOK' = TypeOK /\ ReadsOfMoments' = ReadsOfMoments /\ Refused(request)' = Refused(request)
    BY <2>1 DEF TypeOK, ReadsOfMoments
  <2> QED
    BY <2>1, <2>2 DEF IInv
<1> QED
  BY <1>1, <1>2, <1>3, <1>4, <1>5, <1>6 DEF Next

\* The inductive invariant holds of every reachable state of a call.
THEOREM Invariant == Spec => []IInv
<1>1. Init => IInv
  BY Initially
<1>2. IInv /\ [Next]_vars => IInv'
  BY Inductive
<1> QED
  BY <1>1, <1>2, PTL DEF Spec

\* Every variable of a call keeps its type, and a call that succeeds has every
\* part that its command asks for.
THEOREM TypeCorrect == Spec => []TypeOK
<1>1. IInv => TypeOK
  BY DEF IInv
<1> QED
  BY <1>1, Invariant, PTL

-----------------------------------------------------------------------------
(* The three tables agree.                                                 *)

\* A parameter that is a string arrives as it was sent.
LEMMA StringArrives ==
  ASSUME NEW value, value \notin {Absent, NotAString}
  PROVE  str(value, "") = value
BY DEF str

\* What KubernetesToolDefinitions asks of the tools about one pod.
LEMMA PodDefinition ==
  ASSUME NEW command \in PodCommands
  PROVE  KubernetesToolDefinitions[command] = podParams
BY DEF PodCommands, KubernetesToolDefinitions, PodParamsTools, EmptyParamsTools, NamespaceParamsTools

\* The three tables, and the cases of Executor.run, have the same commands; a
\* request that fits its tool's definition is refused only for an empty namespace
\* or name of a single pod.
THEOREM ToolsAgree == Spec => []ToolsUnderstood
<1>1. IInv => ToolsUnderstood
  <2> SUFFICES ASSUME IInv PROVE ToolsUnderstood
    OBVIOUS
  <2> DEFINE definition == KubernetesToolDefinitions[request.command]
  <2>1. All = allowed /\ All = Cases
    BY DEF All, allowed, Cases, PodCommands
  <2>2. All = DOMAIN KubernetesToolDefinitions
    BY DEF All, KubernetesToolDefinitions, EmptyParamsTools, NamespaceParamsTools, PodParamsTools
  <2>3. ASSUME pc = "refused", request.command \in All,
               Fits(definition, "namespace", request.namespace),
               Fits(definition, "name", request.name)
        PROVE  request.command \in PodCommands /\ "" \in {request.namespace, request.name}
    <3>1. Refused(request)
      BY <2>3 DEF IInv
    <3>2. /\ request.command \in PodCommands
          /\ "" \in {str(request.namespace, ""), str(request.name, "")}
      BY <2>1, <2>3, <3>1 DEF Refused
    <3>3. definition = podParams
      BY <3>2, PodDefinition
    <3>4. /\ {"namespace", "name"} \subseteq definition.properties
          /\ {"namespace", "name"} \subseteq definition.required
      BY <3>3 DEF podParams
    <3>5. /\ request.namespace \notin {Absent, NotAString}
          /\ request.name \notin {Absent, NotAString}
      <4> HIDE DEF definition
      <4> QED
        BY <2>3, <3>4 DEF Fits
    <3>6. str(request.namespace, "") = request.namespace /\ str(request.name, "") = request.name
      BY <3>5, StringArrives
    <3> QED
      BY <3>2, <3>6
  <2>4. ASSUME pc \notin {"idle", "refused"}, request # Boot PROVE request.command \in All
    <3>1. ~Refused(request)
      BY <2>4 DEF IInv, TypeOK
    <3> QED
      BY <2>1, <3>1 DEF Refused
  <2> QED
    BY <2>2, <2>3, <2>4 DEF ToolsUnderstood
<1> QED
  BY <1>1, Invariant, PTL

-----------------------------------------------------------------------------
(* Between what stayed and what ever was.                                  *)

\* The parts of an answer were read at moments of the call, one after the other.
LEMMA PartsOfMoments ==
  ASSUME IInv, pc = "success"
  PROVE  /\ DOMAIN parts = DOMAIN Reads(request)
         /\ \A k \in DOMAIN parts : Reads(request)[k].name # "" => parts[k] # {}
         /\ \E when \in [DOMAIN parts -> DOMAIN seen] :
              /\ InOrder(when, DOMAIN parts)
              /\ \A k \in DOMAIN parts : parts[k] = Found(seen[when[k]], Reads(request)[k])
<1>1. /\ TypeOK /\ ReadsOfMoments /\ Len(parts) = Len(Reads(request))
  BY DEF IInv, TypeOK
<1>2. parts \in Seq(SUBSET Objects)
  BY <1>1 DEF TypeOK
<1>3. DOMAIN parts = DOMAIN Reads(request)
  BY <1>1, <1>2, ReadsShape
<1> QED
  BY <1>1, <1>3 DEF ReadsOfMoments

\* What a part was read from misses nothing that stayed all along, and has nothing
\* that never was.
LEMMA PartOfMoment ==
  ASSUME IInv, pc = "success", NEW k \in DOMAIN Reads(request)
  PROVE  /\ DOMAIN parts = DOMAIN Reads(request)
         /\ Reads(request)[k].name # "" => parts[k] # {}
         /\ \E i \in DOMAIN seen :
              /\ parts[k] = Found(seen[i], Reads(request)[k])
              /\ seen[i] \in Contents
              /\ Steady \subseteq seen[i] /\ seen[i] \subseteq Ever
<1>1. DOMAIN parts = DOMAIN Reads(request) /\ (Reads(request)[k].name # "" => parts[k] # {})
  BY PartsOfMoments
<1>2. seen \in Seq(Contents)
  BY DEF IInv, TypeOK
<1>3. PICK i \in DOMAIN seen : parts[k] = Found(seen[i], Reads(request)[k])
  BY <1>1, PartsOfMoments
<1>4. seen[i] \in Contents
  BY <1>2
<1>5. Steady \subseteq seen[i] /\ seen[i] \subseteq Ever
  BY DEF Steady, Ever
<1> QED
  BY <1>1, <1>3, <1>4, <1>5

\* A node reports trouble exactly if nodeReady denies that it is ready.
LEMMA NodeTrouble ==
  ASSUME NEW o \in Objects, o.kind = "nodes"
  PROVE  Trouble(o) <=> ~nodeReady(o)
<1>1. /\ o.conditions \in Seq([type : STRING, status : STRING])
      /\ \A i, j \in DOMAIN o.conditions : o.conditions[i].type = o.conditions[j].type => i = j
  BY ObjectAssumption
<1>2. \A i, j \in DOMAIN o.conditions : j < i => j # i
  BY <1>1
<1> QED
  BY <1>1, <1>2 DEF Trouble, nodeReady

\* A part that holds all objects of a kind, as they were at some moment.
Whole(part, kind) ==
  \E i \in DOMAIN seen :
    /\ part = {o \in seen[i] : o.kind = kind}
    /\ seen[i] \in Contents
    /\ Steady \subseteq seen[i] /\ seen[i] \subseteq Ever

\* A List of all namespaces returns a whole kind.
LEMMA WholePart ==
  ASSUME IInv, pc = "success", NEW k \in DOMAIN Reads(request), NEW kind,
         Reads(request)[k] = ListOf(kind, "")
  PROVE  Whole(parts[k], kind)
<1>1. PICK i \in DOMAIN seen :
        /\ parts[k] = Found(seen[i], ListOf(kind, ""))
        /\ seen[i] \in Contents
        /\ Steady \subseteq seen[i] /\ seen[i] \subseteq Ever
  BY PartOfMoment
<1>2. Found(seen[i], ListOf(kind, "")) = {o \in seen[i] : o.kind = kind}
  BY DEF Found, ListOf
<1> QED
  BY <1>1, <1>2 DEF Whole

\* Health reads all nodes, then all pods.
LEMMA HealthParts ==
  ASSUME IInv, pc = "success", request.command = "get_cluster_health"
  PROVE  Whole(parts[1], "nodes") /\ Whole(parts[2], "pods")
<1>1. Reads(request) = HealthReads
  BY DEF Reads
<1>2. /\ 1 \in DOMAIN HealthReads /\ HealthReads[1] = ListOf("nodes", "")
      /\ 2 \in DOMAIN HealthReads /\ HealthReads[2] = ListOf("pods", "")
  BY DEF HealthReads
<1> QED
  BY <1>1, <1>2, WholePart, Zenon

\* What a whole part has in it.
LEMMA WholeTypes ==
  ASSUME NEW part, NEW kind, Whole(part, kind)
  PROVE  /\ part \in SUBSET Objects /\ IsFiniteSet(part) /\ part \subseteq Ever
         /\ \A o \in part : o.kind = kind
         /\ \A o \in Steady : o.kind = kind => o \in part
<1>1. PICK contents \in Contents :
        /\ part = {o \in contents : o.kind = kind}
        /\ Steady \subseteq contents /\ contents \subseteq Ever
  BY DEF Whole
<1>2. contents \in SUBSET Objects /\ IsFiniteSet(contents)
  BY DEF Contents
<1>3. part \in SUBSET contents /\ IsFiniteSet(part)
  BY <1>1, <1>2, FS_Subset
<1> QED
  BY <1>1, <1>2, <1>3

\* A count is positive exactly if there is something to count.
LEMMA Positive ==
  ASSUME NEW part, IsFiniteSet(part), NEW some, some \in SUBSET part
  PROVE  Cardinality(some) \in Nat /\ (Cardinality(some) > 0 <=> some # {})
<1>1. IsFiniteSet(some) /\ Cardinality(some) \in Nat
  BY FS_Subset, FS_CardinalityType
<1> QED
  BY <1>1, FS_EmptySet

\* The verdict of a health report speaks of nodes and pods of its lists.
LEMMA DegradedMeans ==
  ASSUME NEW nodes, Whole(nodes, "nodes"), NEW pods, Whole(pods, "pods"),
         NEW lists, lists[1] = nodes, lists[2] = pods
  PROVE  ClusterHealth(Health(lists)) = "degraded" <=> \E o \in nodes \cup pods : Trouble(o)
<1> DEFINE notReady == {o \in nodes : ~nodeReady(o)}
           failed == {o \in pods : o.phase = "Failed"}
           h == Health(lists)
<1>1. /\ nodes \in SUBSET Objects /\ IsFiniteSet(nodes) /\ \A o \in nodes : o.kind = "nodes"
      /\ pods \in SUBSET Objects /\ IsFiniteSet(pods) /\ \A o \in pods : o.kind = "pods"
  BY WholeTypes
<1>2. h.NodesNotReady = Cardinality(notReady) /\ h.PodsFailed = Cardinality(failed)
  BY DEF Health, CountOf
<1>3. Cardinality(notReady) > 0 <=> notReady # {}
  BY <1>1, Positive
<1>4. Cardinality(failed) > 0 <=> failed # {}
  BY <1>1, Positive
<1>5. \A o \in nodes : ~nodeReady(o) <=> Trouble(o)
  BY <1>1, NodeTrouble
<1>6. \A o \in pods : o.phase = "Failed" <=> Trouble(o)
  BY <1>1 DEF Trouble
<1>7. (notReady # {} \/ failed # {}) <=> \E o \in nodes \cup pods : Trouble(o)
  BY <1>5, <1>6
<1>8. ClusterHealth(h) = "degraded" <=> (h.NodesNotReady > 0 \/ h.PodsFailed > 0)
  BY DEF ClusterHealth
<1> HIDE DEF h, notReady, failed
<1>9. ClusterHealth(h) = "degraded" <=> (notReady # {} \/ failed # {})
  BY <1>2, <1>3, <1>4, <1>8
<1> QED
  BY <1>7, <1>9 DEF h

\* Health and ClusterHealth call a cluster degraded only for a node or a pod that
\* was in trouble during the call, and always for one that was in trouble all along.
THEOREM VerdictTrue == Spec => []VerdictIsTrue
<1>1. IInv => VerdictIsTrue
  <2> SUFFICES ASSUME IInv, pc = "success", request.command = "get_cluster_health"
               PROVE  /\ ClusterHealth(Health(parts)) = "degraded" => \E o \in Ever : Trouble(o)
                      /\ ClusterHealth(Health(parts)) # "degraded" => \A o \in Steady : ~Trouble(o)
    BY DEF VerdictIsTrue
  <2>1. Whole(parts[1], "nodes") /\ Whole(parts[2], "pods")
    BY HealthParts
  <2>2. ClusterHealth(Health(parts)) = "degraded" <=> \E o \in parts[1] \cup parts[2] : Trouble(o)
    BY <2>1, DegradedMeans
  <2>3. parts[1] \cup parts[2] \subseteq Ever
    BY <2>1, WholeTypes
  <2>4. ASSUME NEW o \in Steady, Trouble(o) PROVE o \in parts[1] \cup parts[2]
    <3>1. o.kind = "nodes" \/ o.kind = "pods"
      BY <2>4 DEF Trouble
    <3>2. (o.kind = "nodes" => o \in parts[1]) /\ (o.kind = "pods" => o \in parts[2])
      BY <2>1, WholeTypes
    <3> QED
      BY <3>1, <3>2
  <2> QED
    BY <2>2, <2>3, <2>4
<1> QED
  BY <1>1, Invariant, PTL

-----------------------------------------------------------------------------
(* What a part holds of what was asked for.                                *)

\* A part that holds what was asked for of a kind, as it was at some moment.
Asked(part, kind) ==
  \E i \in DOMAIN seen :
    /\ part = {o \in seen[i] : o.kind = kind /\ Names(request, o)}
    /\ seen[i] \in Contents
    /\ Steady \subseteq seen[i] /\ seen[i] \subseteq Ever

\* A request to the API that returns just that, if it returns at all.
Asks(read, kind) ==
  \A contents \in Contents :
    (read.name # "" => Found(contents, read) # {}) =>
      Found(contents, read) = {o \in contents : o.kind = kind /\ Names(request, o)}

\* Such a request leaves such a part.
LEMMA AskedFrom ==
  ASSUME IInv, pc = "success", NEW k \in DOMAIN Reads(request), NEW kind,
         Asks(Reads(request)[k], kind)
  PROVE  Asked(parts[k], kind)
<1>1. PICK i \in DOMAIN seen :
        /\ parts[k] = Found(seen[i], Reads(request)[k])
        /\ seen[i] \in Contents
        /\ Steady \subseteq seen[i] /\ seen[i] \subseteq Ever
  BY PartOfMoment
<1>2. Reads(request)[k].name # "" => parts[k] # {}
  BY PartOfMoment
<1>3. parts[k] = {o \in seen[i] : o.kind = kind /\ Names(request, o)}
  BY <1>1, <1>2 DEF Asks
<1> QED
  BY <1>1, <1>3 DEF Asked

\* A List of the namespace that a request names, or of all of them.
LEMMA ListedPart ==
  ASSUME IInv, pc = "success", NEW k \in DOMAIN Reads(request), NEW kind,
         request.command \notin PodCommands, kind \notin {"nodes", "namespaces"},
         Reads(request)[k] = ListOf(kind, ns(str(request.namespace, "*")))
  PROVE  Asked(parts[k], kind)
<1> DEFINE namespace == str(request.namespace, "*")
           read == ListOf(kind, ns(namespace))
<1>1. ASSUME NEW contents \in Contents
      PROVE  Found(contents, read) = {o \in contents : o.kind = kind /\ Names(request, o)}
  <2>1. \A o \in contents : o.kind = kind => (Names(request, o) <=> namespace \in {"*", "", o.ns})
    BY DEF Names
  <2>2. \A o : (ns(namespace) = "" \/ o.ns = ns(namespace)) <=> namespace \in {"*", "", o.ns}
    BY DEF ns
  <2>3. Found(contents, read) =
          {o \in contents : o.kind = kind /\ (ns(namespace) = "" \/ o.ns = ns(namespace))}
    BY DEF Found, ListOf
  <2> HIDE DEF namespace, read
  <2> QED
    BY <2>1, <2>2, <2>3
<1> HIDE DEF read
<1>2. Reads(request)[k] = read
  BY DEF read
<1>3. Asks(read, kind)
  BY <1>1 DEF Asks
<1> QED
  BY <1>2, <1>3, AskedFrom

\* A List of what is in no namespace.
LEMMA ClusterPart ==
  ASSUME IInv, pc = "success", NEW k \in DOMAIN Reads(request), NEW kind,
         request.command \notin PodCommands, kind \in {"nodes", "namespaces"},
         Reads(request)[k] = ListOf(kind, "")
  PROVE  Asked(parts[k], kind)
<1> DEFINE read == ListOf(kind, "")
<1>1. ASSUME NEW contents \in Contents
      PROVE  Found(contents, read) = {o \in contents : o.kind = kind /\ Names(request, o)}
  <2>1. \A o \in contents : o.kind = kind => Names(request, o)
    BY DEF Names
  <2>2. Found(contents, read) = {o \in contents : o.kind = kind}
    BY DEF Found, ListOf
  <2> HIDE DEF read
  <2> QED
    BY <2>1, <2>2
<1> HIDE DEF read
<1>2. Reads(request)[k] = read
  BY DEF read
<1>3. Asks(read, kind)
  BY <1>1 DEF Asks
<1> QED
  BY <1>2, <1>3, AskedFrom

\* A Get of the one pod that a request names; "*" would find none.
LEMMA NamedPart ==
  ASSUME IInv, pc = "success", request.command \in PodCommands
  PROVE  1 \in DOMAIN Reads(request) /\ Asked(parts[1], "pods")
<1> DEFINE namespace == str(request.namespace, "")
           name == str(request.name, "")
           read == GetOf("pods", namespace, name)
<1>1. namespace # "" /\ name # ""
  <2>1. request # Boot
    BY DEF Boot, PodCommands
  <2>2. ~Refused(request)
    BY <2>1 DEF IInv
  <2> QED
    BY <2>2 DEF Refused
<1>2. request.namespace = namespace /\ str(request.namespace, "*") = namespace /\ request.name = name
  BY <1>1 DEF str
<1>3. Reads(request) = <<read>>
  BY DEF Reads, SingleRead, PodCommands
<1>4. 1 \in DOMAIN Reads(request) /\ Reads(request)[1] = read
  <2> HIDE DEF read
  <2> QED
    BY <1>3
<1>5. read.kind = "pods" /\ read.ns = namespace /\ read.name = name
  BY DEF GetOf
<1> HIDE DEF read, namespace, name
<1>6. ASSUME NEW contents \in Contents, Found(contents, read) # {}
      PROVE  Found(contents, read) = {o \in contents : o.kind = "pods" /\ Names(request, o)}
  <2>1. Found(contents, read) = {o \in contents : o.kind = "pods" /\ o.ns = namespace /\ o.name = name}
    BY <1>1, <1>5 DEF Found
  <2>2. \A o \in contents : o.ns # "*"
    BY ObjectAssumption DEF Contents
  <2>3. namespace # "*"
    BY <1>6, <2>1, <2>2
  <2>4. \A o \in contents : o.kind = "pods" =>
          (Names(request, o) <=> o.ns = namespace /\ o.name = name)
    BY <1>1, <1>2, <2>3 DEF Names
  <2> QED
    BY <2>1, <2>4
<1>7. Asks(read, "pods")
  BY <1>1, <1>5, <1>6 DEF Asks
<1>8. Asked(parts[1], "pods")
  BY <1>4, <1>7, AskedFrom
<1> QED
  BY <1>4, <1>8

\* A command of one request has one part.
LEMMA OneRead ==
  ASSUME IInv, pc = "success", NEW read, Reads(request) = <<read>>
  PROVE  1 \in DOMAIN Reads(request) /\ Reads(request)[1] = read /\ DOMAIN parts = {1}
<1>1. 1 \in DOMAIN Reads(request) /\ Reads(request)[1] = read /\ DOMAIN Reads(request) = {1}
  OBVIOUS
<1> QED
  BY <1>1, PartOfMoment

-----------------------------------------------------------------------------
(* Numbers.                                                                *)

\* What Health counts in its lists is what there was to count when they were read.
LEMMA HealthNumbers ==
  ASSUME NEW lists, NEW nodes \in Contents, NEW pods \in Contents,
         NEW deployments, NEW statefulsets, NEW daemonsets,
         lists[1] = {o \in nodes : o.kind = "nodes"},
         lists[2] = {o \in pods : o.kind = "pods"},
         lists[3] = {o \in deployments : o.kind = "deployments"},
         lists[4] = {o \in statefulsets : o.kind = "statefulsets"},
         lists[5] = {o \in daemonsets : o.kind = "daemonsets"}
  PROVE  HealthOf(Health(lists), nodes, pods, deployments, statefulsets, daemonsets)
<1>1. \A o \in nodes : o.kind = "nodes" => (Trouble(o) <=> ~nodeReady(o))
  BY NodeTrouble DEF Contents
<1>2. \A o \in pods : o.kind = "pods" => (Trouble(o) <=> o.phase = "Failed")
  BY DEF Trouble
<1>3. /\ {o \in lists[1] : nodeReady(o)} = {o \in nodes : o.kind = "nodes" /\ ~Trouble(o)}
      /\ {o \in lists[1] : ~nodeReady(o)} = {o \in nodes : o.kind = "nodes" /\ Trouble(o)}
  BY <1>1
<1>4. /\ {o \in lists[2] : o.phase = "Running"} = {o \in pods : o.kind = "pods" /\ o.phase = "Running"}
      /\ {o \in lists[2] : o.phase = "Pending"} = {o \in pods : o.kind = "pods" /\ o.phase = "Pending"}
      /\ {o \in lists[2] : o.phase = "Failed"} = {o \in pods : o.kind = "pods" /\ Trouble(o)}
  BY <1>2
<1> QED
  BY <1>3, <1>4 DEF HealthOf, Health, CountOf

\* The five lists that Health counts, as they were at their moments.
LEMMA HealthMoments ==
  ASSUME IInv, pc = "success", request.command = "get_cluster_health"
  PROVE  \E when \in [1..5 -> DOMAIN seen] :
           /\ \A j, k \in 1..5 : j < k => when[j] <= when[k]
           /\ HealthOf(Health(parts), seen[when[1]], seen[when[2]], seen[when[3]],
                       seen[when[4]], seen[when[5]])
<1>1. Reads(request) = HealthReads
  BY DEF Reads
<1>2. DOMAIN HealthReads = 1..5
  BY DEF HealthReads
<1>3. /\ HealthReads[1] = ListOf("nodes", "") /\ HealthReads[2] = ListOf("pods", "")
      /\ HealthReads[3] = ListOf("deployments", "") /\ HealthReads[4] = ListOf("statefulsets", "")
      /\ HealthReads[5] = ListOf("daemonsets", "")
  BY DEF HealthReads
<1>4. PICK when \in [1..5 -> DOMAIN seen] :
        /\ InOrder(when, 1..5)
        /\ \A k \in 1..5 : parts[k] = Found(seen[when[k]], HealthReads[k])
  BY <1>1, <1>2, PartsOfMoments
<1>5. 1 \in 1..5 /\ 2 \in 1..5 /\ 3 \in 1..5 /\ 4 \in 1..5 /\ 5 \in 1..5
  OBVIOUS
<1>6. ASSUME NEW k \in 1..5, NEW kind, HealthReads[k] = ListOf(kind, "")
      PROVE  parts[k] = {o \in seen[when[k]] : o.kind = kind}
  <2>1. parts[k] = Found(seen[when[k]], ListOf(kind, ""))
    BY <1>4, <1>6
  <2> QED
    BY <2>1 DEF Found, ListOf
<1>7. seen[when[1]] \in Contents /\ seen[when[2]] \in Contents
  <2>1. seen \in Seq(Contents)
    BY DEF IInv, TypeOK
  <2>2. when[1] \in DOMAIN seen /\ when[2] \in DOMAIN seen
    BY <1>4, <1>5
  <2> QED
    BY <2>1, <2>2
<1>8. /\ parts[1] = {o \in seen[when[1]] : o.kind = "nodes"}
      /\ parts[2] = {o \in seen[when[2]] : o.kind = "pods"}
      /\ parts[3] = {o \in seen[when[3]] : o.kind = "deployments"}
      /\ parts[4] = {o \in seen[when[4]] : o.kind = "statefulsets"}
      /\ parts[5] = {o \in seen[when[5]] : o.kind = "daemonsets"}
  BY <1>3, <1>5, <1>6
<1>9. HealthOf(Health(parts), seen[when[1]], seen[when[2]], seen[when[3]], seen[when[4]], seen[when[5]])
  BY <1>7, <1>8, HealthNumbers
<1> QED
  BY <1>4, <1>9 DEF InOrder

\* The pods that a usage report sums up.
LEMMA UsagePods ==
  ASSUME IInv, pc = "success", request.command = "get_resource_usage"
  PROVE  Asked(parts[1], "pods")
<1>1. PICK read : read = ListOf("pods", ns(str(request.namespace, "*")))
  OBVIOUS
<1>2. request.command \notin PodCommands
  BY DEF PodCommands
<1>3. Reads(request) = <<read>>
  BY <1>1, <1>2 DEF Reads, SingleRead
<1>4. 1 \in DOMAIN Reads(request) /\ Reads(request)[1] = read
  BY <1>3, OneRead
<1> QED
  BY <1>1, <1>2, <1>4, ListedPart

\* The numbers of Health, of GetResourceUsage and of ClusterMetadata are numbers of
\* the cluster: those of one list of one moment, in the order of the lists.
THEOREM NumbersTrue == Spec => []NumbersOfMoments
<1>1. ASSUME IInv, pc = "success", request.command = "get_resource_usage"
      PROVE  \E i \in DOMAIN seen :
               GetResourceUsage(parts[1]) =
                 GetResourceUsage({o \in seen[i] : o.kind = "pods" /\ Names(request, o)})
  <2>1. PICK i \in DOMAIN seen : parts[1] = {o \in seen[i] : o.kind = "pods" /\ Names(request, o)}
    BY <1>1, UsagePods DEF Asked
  <2> QED
    BY <2>1
<1>2. ASSUME IInv, pc = "success", request.command = "ClusterMetadata"
      PROVE  \E i \in DOMAIN seen :
               Cardinality(parts[3]) = CountOf(seen[i], LAMBDA o : o.kind = "nodes")
  <2>1. Reads(request) = ClusterMetadataReads
    BY <1>2 DEF Reads
  <2>2. 3 \in DOMAIN ClusterMetadataReads /\ ClusterMetadataReads[3] = ListOf("nodes", "")
    BY DEF ClusterMetadataReads
  <2>3. PICK i \in DOMAIN seen : parts[3] = Found(seen[i], ListOf("nodes", ""))
    BY <1>2, <2>1, <2>2, PartOfMoment, Zenon
  <2>4. parts[3] = {o \in seen[i] : o.kind = "nodes"}
    BY <2>3 DEF Found, ListOf
  <2> QED
    BY <2>4 DEF CountOf
<1>3. IInv => NumbersOfMoments
  BY <1>1, <1>2, HealthMoments DEF NumbersOfMoments
<1> QED
  BY <1>3, Invariant, PTL

-----------------------------------------------------------------------------
(* The objects in an answer.                                               *)

\* A command that returns the objects of one request to the API, and their kind.
LEMMA SinglePart ==
  ASSUME IInv, pc = "success", request.command \in DOMAIN KindOf,
         request.command \notin {"get_workload_health", "get_failed_workloads"}
  PROVE  /\ DOMAIN parts = {1}
         /\ \E kind : KindOf[request.command] = {kind} /\ Asked(parts[1], kind)
<1> DEFINE namespace == str(request.namespace, "*")
<1>1. request.command \in allowed \ {"get_cluster_health", "get_resource_usage", "get_restart_analysis"}
  BY DEF KindOf
<1>2. Reads(request) = <<SingleRead(request)>>
  BY <1>1 DEF Reads, allowed
<1>3. PICK read : read = SingleRead(request)
  OBVIOUS
<1>4. 1 \in DOMAIN Reads(request) /\ Reads(request)[1] = read /\ DOMAIN parts = {1}
  BY <1>2, <1>3, OneRead
<1>5. CASE request.command \in PodCommands
  <2>1. KindOf[request.command] = {"pods"}
    BY <1>1, <1>5 DEF KindOf, PodCommands
  <2>2. Asked(parts[1], "pods")
    BY <1>5, NamedPart
  <2> QED
    BY <1>4, <2>1, <2>2
<1>6. CASE request.command \in {"get_nodes", "get_node_conditions"}
  <2>1. KindOf[request.command] = {"nodes"}
    BY <1>1, <1>6 DEF KindOf
  <2>2. request.command \notin PodCommands
    BY <1>6 DEF PodCommands
  <2>3. read = ListOf("nodes", "")
    BY <1>3, <1>6, <2>2 DEF SingleRead
  <2>4. Asked(parts[1], "nodes")
    BY <1>4, <2>2, <2>3, ClusterPart
  <2> QED
    BY <1>4, <2>1, <2>4
<1>7. CASE request.command = "get_namespaces"
  <2>1. KindOf[request.command] = {"namespaces"}
    BY <1>1, <1>7 DEF KindOf
  <2>2. request.command \notin PodCommands
    BY <1>7 DEF PodCommands
  <2>3. read = ListOf("namespaces", "")
    BY <1>3, <1>7, <2>2 DEF SingleRead
  <2>4. Asked(parts[1], "namespaces")
    BY <1>4, <2>2, <2>3, ClusterPart
  <2> QED
    BY <1>4, <2>1, <2>4
<1>8. CASE request.command = "get_events"
  <2>1. KindOf[request.command] = {"events"}
    BY <1>1, <1>8 DEF KindOf
  <2>2. request.command \notin PodCommands
    BY <1>8 DEF PodCommands
  <2>3. read = ListOf("events", ns(namespace))
    BY <1>3, <1>8, <2>2 DEF SingleRead
  <2>4. Asked(parts[1], "events")
    BY <1>4, <2>2, <2>3, ListedPart
  <2> QED
    BY <1>4, <2>1, <2>4
<1>9. CASE request.command = "get_deployments"
  <2>1. KindOf[request.command] = {"deployments"}
    BY <1>1, <1>9 DEF KindOf
  <2>2. request.command \notin PodCommands
    BY <1>9 DEF PodCommands
  <2>3. read = ListOf("deployments", ns(namespace))
    BY <1>3, <1>9, <2>2 DEF SingleRead
  <2>4. Asked(parts[1], "deployments")
    BY <1>4, <2>2, <2>3, ListedPart
  <2> QED
    BY <1>4, <2>1, <2>4
<1>10. CASE request.command = "get_statefulsets"
  <2>1. KindOf[request.command] = {"statefulsets"}
    BY <1>1, <1>10 DEF KindOf
  <2>2. request.command \notin PodCommands
    BY <1>10 DEF PodCommands
  <2>3. read = ListOf("statefulsets", ns(namespace))
    BY <1>3, <1>10, <2>2 DEF SingleRead
  <2>4. Asked(parts[1], "statefulsets")
    BY <1>4, <2>2, <2>3, ListedPart
  <2> QED
    BY <1>4, <2>1, <2>4
<1>11. CASE request.command = "get_daemonsets"
  <2>1. KindOf[request.command] = {"daemonsets"}
    BY <1>1, <1>11 DEF KindOf
  <2>2. request.command \notin PodCommands
    BY <1>11 DEF PodCommands
  <2>3. read = ListOf("daemonsets", ns(namespace))
    BY <1>3, <1>11, <2>2 DEF SingleRead
  <2>4. Asked(parts[1], "daemonsets")
    BY <1>4, <2>2, <2>3, ListedPart
  <2> QED
    BY <1>4, <2>1, <2>4
<1>12. CASE request.command = "get_services"
  <2>1. KindOf[request.command] = {"services"}
    BY <1>1, <1>12 DEF KindOf
  <2>2. request.command \notin PodCommands
    BY <1>12 DEF PodCommands
  <2>3. read = ListOf("services", ns(namespace))
    BY <1>3, <1>12, <2>2 DEF SingleRead
  <2>4. Asked(parts[1], "services")
    BY <1>4, <2>2, <2>3, ListedPart
  <2> QED
    BY <1>4, <2>1, <2>4
<1>13. CASE request.command = "get_ingresses"
  <2>1. KindOf[request.command] = {"ingresses"}
    BY <1>1, <1>13 DEF KindOf
  <2>2. request.command \notin PodCommands
    BY <1>13 DEF PodCommands
  <2>3. read = ListOf("ingresses", ns(namespace))
    BY <1>3, <1>13, <2>2 DEF SingleRead
  <2>4. Asked(parts[1], "ingresses")
    BY <1>4, <2>2, <2>3, ListedPart
  <2> QED
    BY <1>4, <2>1, <2>4
<1>14. CASE request.command \in {"get_pods", "get_pending_pods", "get_crashloop_pods"}
  <2>1. KindOf[request.command] = {"pods"}
    BY <1>1, <1>14 DEF KindOf
  <2>2. request.command \notin PodCommands
    BY <1>14 DEF PodCommands
  <2>3. read = ListOf("pods", ns(namespace))
    BY <1>3, <1>14, <2>2 DEF SingleRead
  <2>4. Asked(parts[1], "pods")
    BY <1>4, <2>2, <2>3, ListedPart
  <2> QED
    BY <1>4, <2>1, <2>4
<1> QED
  BY <1>1, <1>5, <1>6, <1>7, <1>8, <1>9, <1>10, <1>11, <1>12, <1>13, <1>14 DEF allowed, PodCommands

\* get_failed_workloads reads pods, then deployments.
LEMMA FailedParts ==
  ASSUME IInv, pc = "success", request.command = "get_failed_workloads"
  PROVE  /\ DOMAIN parts = {1, 2}
         /\ Asked(parts[1], "pods") /\ Asked(parts[2], "deployments")
<1> DEFINE namespace == str(request.namespace, "*")
<1>1. Reads(request) = <<ListOf("pods", ns(namespace)), ListOf("deployments", ns(namespace))>>
  BY DEF Reads, GetFailedWorkloadsReads
<1>2. PICK pods : pods = ListOf("pods", ns(namespace))
  OBVIOUS
<1>3. PICK deployments : deployments = ListOf("deployments", ns(namespace))
  OBVIOUS
<1>4. /\ DOMAIN Reads(request) = {1, 2}
      /\ Reads(request)[1] = pods /\ Reads(request)[2] = deployments
  <2>1. Reads(request) = <<pods, deployments>>
    BY <1>1, <1>2, <1>3
  <2> QED
    BY <2>1
<1>5. request.command \notin PodCommands
  BY DEF PodCommands
<1>6. 1 \in DOMAIN Reads(request) /\ 2 \in DOMAIN Reads(request)
  BY <1>4
<1>7. Asked(parts[1], "pods")
  BY <1>2, <1>4, <1>5, <1>6, ListedPart
<1>8. Asked(parts[2], "deployments")
  BY <1>3, <1>4, <1>5, <1>6, ListedPart
<1>9. DOMAIN parts = {1, 2}
  BY <1>4, <1>6, PartOfMoment
<1> QED
  BY <1>7, <1>8, <1>9

\* get_workload_health reads three kinds.
LEMMA WorkloadParts ==
  ASSUME IInv, pc = "success", request.command = "get_workload_health"
  PROVE  /\ DOMAIN parts = {1, 2, 3} /\ Asked(parts[1], "deployments")
         /\ Asked(parts[2], "statefulsets") /\ Asked(parts[3], "daemonsets")
<1> DEFINE namespace == str(request.namespace, "*")
<1>1. Reads(request) = <<ListOf("deployments", ns(namespace)), ListOf("statefulsets", ns(namespace)),
                         ListOf("daemonsets", ns(namespace))>>
  BY DEF Reads, GetWorkloadHealthReads
<1>2. PICK deployments : deployments = ListOf("deployments", ns(namespace))
  OBVIOUS
<1>3. PICK statefulsets : statefulsets = ListOf("statefulsets", ns(namespace))
  OBVIOUS
<1>4. PICK daemonsets : daemonsets = ListOf("daemonsets", ns(namespace))
  OBVIOUS
<1>5. /\ DOMAIN Reads(request) = {1, 2, 3} /\ Reads(request)[1] = deployments
      /\ Reads(request)[2] = statefulsets /\ Reads(request)[3] = daemonsets
  <2>1. Reads(request) = <<deployments, statefulsets, daemonsets>>
    BY <1>1, <1>2, <1>3, <1>4
  <2> QED
    BY <2>1
<1>6. request.command \notin PodCommands
  BY DEF PodCommands
<1>7. 1 \in DOMAIN Reads(request) /\ 2 \in DOMAIN Reads(request) /\ 3 \in DOMAIN Reads(request)
  BY <1>5
<1>8. Asked(parts[1], "deployments")
  BY <1>2, <1>5, <1>6, <1>7, ListedPart
<1>9. Asked(parts[2], "statefulsets")
  BY <1>3, <1>5, <1>6, <1>7, ListedPart
<1>10. Asked(parts[3], "daemonsets")
  BY <1>4, <1>5, <1>6, <1>7, ListedPart
<1>11. DOMAIN parts = {1, 2, 3}
  BY <1>5, <1>7, PartOfMoment
<1> QED
  BY <1>8, <1>9, <1>10, <1>11

\* Every part holds one of the kinds that the command returns, and every kind has
\* its part.
LEMMA PartsAsked ==
  ASSUME IInv, pc = "success", request.command \in DOMAIN KindOf
  PROVE  /\ \A k \in DOMAIN parts : \E kind \in KindOf[request.command] : Asked(parts[k], kind)
         /\ \A kind \in KindOf[request.command] : \E k \in DOMAIN parts : Asked(parts[k], kind)
<1>1. CASE request.command = "get_workload_health"
  <2>1. KindOf[request.command] = {"deployments", "statefulsets", "daemonsets"}
    BY <1>1 DEF KindOf
  <2> QED
    BY <1>1, <2>1, WorkloadParts
<1>2. CASE request.command = "get_failed_workloads"
  <2>1. KindOf[request.command] = {"pods", "deployments"}
    BY <1>2 DEF KindOf
  <2> QED
    BY <1>2, <2>1, FailedParts
<1>3. CASE request.command \notin {"get_workload_health", "get_failed_workloads"}
  BY <1>3, SinglePart
<1> QED
  BY <1>1, <1>2, <1>3

\* What the code's filters keep.
Kept(command, o) == Qualifies(command, o) \/ TakenForFailed(command, o)

\* The code's filters keep of a part what qualifies, and what get_failed_workloads
\* takes for failed; no other part is filtered.
LEMMA AnswerIs ==
  ASSUME IInv, pc = "success", request.command \in DOMAIN KindOf
  PROVE  \A o : o \in Answer <=> \E k \in DOMAIN parts : o \in parts[k] /\ Kept(request.command, o)
<1>1. CASE request.command = "get_failed_workloads"
  <2>1. DOMAIN parts = {1, 2} /\ Asked(parts[1], "pods") /\ Asked(parts[2], "deployments")
    BY <1>1, FailedParts
  <2>2. (\A o \in parts[1] : o.kind = "pods") /\ (\A o \in parts[2] : o.kind = "deployments")
    BY <2>1 DEF Asked
  <2>3. \A o \in parts[1] : podFailing(o) <=> Kept(request.command, o)
    BY <1>1, <2>2 DEF podFailing, Waiting, Kept, Qualifies, TakenForFailed
  <2>4. \A o \in parts[2] : o.unavailable > 0 <=> Kept(request.command, o)
    BY <1>1, <2>2 DEF Kept, Qualifies, TakenForFailed
  <2>5. Answer = {p \in parts[1] : podFailing(p)} \cup {d \in parts[2] : d.unavailable > 0}
    BY <1>1 DEF Answer, GetFailedWorkloads
  <2> QED
    BY <2>1, <2>3, <2>4, <2>5
<1>2. CASE request.command = "get_pending_pods"
  <2>1. DOMAIN parts = {1}
    BY <1>2, SinglePart
  <2>2. Answer = {p \in parts[1] : p.phase = "Pending"}
    BY <1>2 DEF Answer
  <2> QED
    BY <1>2, <2>1, <2>2 DEF Kept, Qualifies, TakenForFailed
<1>3. CASE request.command = "get_crashloop_pods"
  <2>1. DOMAIN parts = {1}
    BY <1>3, SinglePart
  <2>2. Answer = {p \in parts[1] : podCrashLooping(p)}
    BY <1>3 DEF Answer
  <2>3. \A p : podCrashLooping(p) <=> Kept(request.command, p)
    BY <1>3 DEF Kept, Qualifies, TakenForFailed, podCrashLooping, Waiting
  <2> QED
    BY <2>1, <2>2, <2>3
<1>4. CASE request.command \notin {"get_failed_workloads", "get_pending_pods", "get_crashloop_pods"}
  <2>1. request.command # "get_restart_analysis"
    BY DEF KindOf
  <2>2. Answer = UNION {parts[i] : i \in DOMAIN parts}
    BY <1>4, <2>1 DEF Answer
  <2>3. \A o : Kept(request.command, o)
    BY <1>4 DEF Kept, Qualifies
  <2> QED
    BY <2>2, <2>3
<1> QED
  BY <1>1, <1>2, <1>3, <1>4

\* get_restart_analysis reads the pods it is asked about.
LEMMA RestartPods ==
  ASSUME IInv, pc = "success", request.command = "get_restart_analysis"
  PROVE  Asked(parts[1], "pods") /\ Answer = GetRestartAnalysis(parts[1])
<1>1. PICK read : read = ListOf("pods", ns(str(request.namespace, "*")))
  OBVIOUS
<1>2. request.command \notin PodCommands
  BY DEF PodCommands
<1>3. Reads(request) = <<read>>
  BY <1>1, <1>2 DEF Reads, SingleRead
<1>4. 1 \in DOMAIN Reads(request) /\ Reads(request)[1] = read
  BY <1>3, OneRead
<1>5. Asked(parts[1], "pods")
  BY <1>1, <1>2, <1>4, ListedPart
<1> QED
  BY <1>5 DEF Answer

\* What GetRestartAnalysis says of a list of pods: each container with restarts,
\* and each of them once.
LEMMA RestartEntries ==
  ASSUME NEW contents \in Contents, NEW pods \in SUBSET contents, \A p \in pods : p.kind = "pods"
  PROVE  /\ \A entry \in GetRestartAnalysis(pods) :
              \E p \in pods : \E i \in DOMAIN p.containers :
                 Tells(entry, p, i) /\ p.containers[i].restarts > 0
         /\ \A p \in pods : \A i \in DOMAIN p.containers :
              p.containers[i].restarts > 0 => \E entry \in GetRestartAnalysis(pods) : Tells(entry, p, i)
         /\ \A e, f \in GetRestartAnalysis(pods) :
              e.namespace = f.namespace /\ e.pod = f.pod /\ e.container = f.container => e = f
<1>1. \A p \in pods : \A i : Tells(RestartEntry(p, i), p, i)
  BY DEF Tells, RestartEntry
<1>2. \A entry : entry \in GetRestartAnalysis(pods) <=>
        \E p \in pods : \E i \in DOMAIN p.containers :
          p.containers[i].restarts > 0 /\ entry = RestartEntry(p, i)
  BY DEF GetRestartAnalysis, Restarted
<1>3. ASSUME NEW e \in GetRestartAnalysis(pods), NEW f \in GetRestartAnalysis(pods),
             e.namespace = f.namespace, e.pod = f.pod, e.container = f.container
      PROVE  e = f
  <2>1. PICK p \in pods : \E i \in DOMAIN p.containers : e = RestartEntry(p, i)
    BY <1>2
  <2>2. PICK i \in DOMAIN p.containers : e = RestartEntry(p, i)
    BY <2>1
  <2>3. PICK q \in pods : \E j \in DOMAIN q.containers : f = RestartEntry(q, j)
    BY <1>2
  <2>4. PICK j \in DOMAIN q.containers : f = RestartEntry(q, j)
    BY <2>3
  <2>5. /\ p.ns = q.ns /\ p.name = q.name
        /\ p.containers[i].name = q.containers[j].name
    BY <1>3, <2>2, <2>4 DEF RestartEntry
  <2>6. p.kind = q.kind /\ p \in contents /\ q \in contents
    OBVIOUS
  <2>7. p = q
    BY <2>5, <2>6 DEF Contents, Key
  <2>8. i = j
    <3>1. p \in Objects /\ p.kind = "pods"
      BY DEF Contents
    <3> QED
      BY <2>5, <2>7, <3>1, ObjectAssumption
  <2> QED
    BY <2>2, <2>4, <2>7, <2>8
<1> QED
  BY <1>1, <1>2, <1>3

\* Whatever changes while its lists are read, an answer of Executor.run has what
\* was asked for and stayed, and nothing that was never there, is of another kind
\* or namespace, or is not what its tool is said to return, but for the pods that
\* podFailing takes for failed; and get_restart_analysis tells of a container
\* what was so.
THEOREM AnswerRegular == Spec => []AnswerIsRegular
<1>1. ASSUME IInv, pc = "success", request.command \in DOMAIN KindOf
      PROVE  /\ \A o \in Answer :
                  /\ o \in Ever /\ AskedFor(request, o)
                  /\ Qualifies(request.command, o) \/ TakenForFailed(request.command, o)
             /\ \A o \in Steady : AskedFor(request, o) /\ Qualifies(request.command, o) => o \in Answer
  <2>1. ASSUME NEW o \in Answer
        PROVE  o \in Ever /\ AskedFor(request, o) /\ Kept(request.command, o)
    <3>1. PICK k \in DOMAIN parts : o \in parts[k] /\ Kept(request.command, o)
      BY <1>1, AnswerIs
    <3>2. PICK kind \in KindOf[request.command] : Asked(parts[k], kind)
      BY <1>1, PartsAsked
    <3>3. o \in Ever /\ o.kind = kind /\ Names(request, o)
      BY <3>1, <3>2 DEF Asked
    <3> QED
      BY <3>1, <3>2, <3>3 DEF AskedFor
  <2>2. ASSUME NEW o \in Steady, AskedFor(request, o), Qualifies(request.command, o)
        PROVE  o \in Answer
    <3>1. o.kind \in KindOf[request.command] /\ Names(request, o)
      BY <2>2 DEF AskedFor
    <3>2. PICK k \in DOMAIN parts : Asked(parts[k], o.kind)
      BY <1>1, <3>1, PartsAsked
    <3>3. o \in parts[k]
      BY <3>1, <3>2 DEF Asked
    <3>4. Kept(request.command, o)
      BY <2>2 DEF Kept
    <3> QED
      BY <1>1, <3>3, <3>4, AnswerIs
  <2> QED
    BY <2>1, <2>2 DEF Kept
<1>2. ASSUME IInv, pc = "success", request.command = "get_restart_analysis"
      PROVE  /\ \A entry \in Answer :
                  \E p \in Ever : /\ p.kind = "pods" /\ Names(request, p)
                                  /\ \E i \in DOMAIN p.containers : Tells(entry, p, i)
                                  /\ entry.restartCount > 0
             /\ \A p \in Steady : p.kind = "pods" /\ Names(request, p) =>
                  \A i \in DOMAIN p.containers :
                    p.containers[i].restarts > 0 => \E entry \in Answer : Tells(entry, p, i)
             /\ \A e, f \in Answer :
                  e.namespace = f.namespace /\ e.pod = f.pod /\ e.container = f.container => e = f
  <2>1. PICK contents \in Contents :
          /\ parts[1] = {o \in contents : o.kind = "pods" /\ Names(request, o)}
          /\ Steady \subseteq contents /\ contents \subseteq Ever
    BY <1>2, RestartPods DEF Asked
  <2>2. PICK pods \in SUBSET contents : pods = parts[1]
    BY <2>1
  <2>3. /\ \A p \in pods : p \in Ever /\ p.kind = "pods" /\ Names(request, p)
        /\ \A p \in Steady : p.kind = "pods" /\ Names(request, p) => p \in pods
    BY <2>1, <2>2
  <2>4. Answer = GetRestartAnalysis(pods)
    BY <1>2, <2>2, RestartPods
  <2>5. \A entry \in Answer :
          \E p \in pods : \E i \in DOMAIN p.containers :
             Tells(entry, p, i) /\ p.containers[i].restarts > 0
    BY <2>3, <2>4, RestartEntries
  <2>6. \A p \in pods : \A i \in DOMAIN p.containers :
          p.containers[i].restarts > 0 => \E entry \in Answer : Tells(entry, p, i)
    BY <2>3, <2>4, RestartEntries
  <2>7. \A e, f \in Answer :
          e.namespace = f.namespace /\ e.pod = f.pod /\ e.container = f.container => e = f
    BY <2>3, <2>4, RestartEntries
  <2>8. ASSUME NEW entry \in Answer
        PROVE  \E p \in Ever : /\ p.kind = "pods" /\ Names(request, p)
                               /\ \E i \in DOMAIN p.containers : Tells(entry, p, i)
                               /\ entry.restartCount > 0
    <3>1. PICK p \in pods : \E i \in DOMAIN p.containers :
            Tells(entry, p, i) /\ p.containers[i].restarts > 0
      BY <2>5
    <3>2. entry.restartCount > 0
      BY <3>1 DEF Tells
    <3> QED
      BY <2>3, <3>1, <3>2
  <2> QED
    BY <2>3, <2>6, <2>7, <2>8
<1>3. IInv => AnswerIsRegular
  BY <1>1, <1>2 DEF AnswerIsRegular
<1> QED
  BY <1>3, Invariant, PTL
=============================================================================
