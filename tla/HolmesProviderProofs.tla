------------------------ MODULE HolmesProviderProofs ------------------------
(***************************************************************************)
(* What HolmesProvider promises of an invocation, for any number of        *)
(* clusters and of invocations: who is asked, what is answered and what is *)
(* recorded.                                                               *)
(***************************************************************************)
EXTENDS HolmesProvider, FiniteSetTheorems, FunctionTheorems, SequenceTheorems, TLAPS

-----------------------------------------------------------------------------
(* Nth and Sorted.                                                         *)

Rank(ids, c) == Cardinality({d \in ids : d <= c})

\* A rank is a position.
LEMMA RankType ==
  ASSUME NEW ids \in SUBSET Nat, IsFiniteSet(ids), NEW c \in ids
  PROVE  /\ Cardinality(ids) \in Nat
         /\ Rank(ids, c) \in 1..Cardinality(ids)
<1> DEFINE below == {d \in ids : d <= c}
<1>1. /\ IsFiniteSet(below)
      /\ Cardinality(below) <= Cardinality(ids)
  BY FS_Subset
<1>2. below # {}
  OBVIOUS
<1>3. Cardinality(ids) \in Nat /\ Cardinality(below) \in Nat /\ Cardinality(below) # 0
  BY <1>1, <1>2, FS_CardinalityType, FS_EmptySet
<1> QED
  BY <1>1, <1>3 DEF Rank

\* A smaller identifier comes earlier.
LEMMA RankMonotone ==
  ASSUME NEW ids \in SUBSET Nat, IsFiniteSet(ids), NEW a \in ids, NEW b \in ids, a < b
  PROVE  Rank(ids, a) < Rank(ids, b)
<1> DEFINE A == {d \in ids : d <= a}
           B == {d \in ids : d <= b}
<1>1. A \subseteq B /\ A # B
  <2>1. a \in Nat /\ b \in Nat
    OBVIOUS
  <2>2. ASSUME NEW d \in A PROVE d \in B
    <3>1. d \in Nat /\ d <= a
      OBVIOUS
    <3> QED
      BY <2>1, <3>1
  <2>3. b \in B /\ b \notin A
    BY <2>1
  <2> QED
    BY <2>2, <2>3
<1>2. IsFiniteSet(B)
  BY FS_Subset
<1>3. Cardinality(A) \in Nat /\ Cardinality(B) \in Nat /\ Cardinality(A) <= Cardinality(B)
  BY <1>1, <1>2, FS_Subset, FS_CardinalityType
<1>4. Cardinality(A) # Cardinality(B)
  BY <1>1, <1>2, FS_Subset
<1> QED
  BY <1>3, <1>4 DEF Rank

\* Every position has its identifier, and only one.
LEMMA NthProperties ==
  ASSUME NEW ids \in SUBSET Nat, IsFiniteSet(ids), NEW i \in 1..Cardinality(ids)
  PROVE  /\ Nth(ids, i) \in ids
         /\ Rank(ids, Nth(ids, i)) = i
<1> DEFINE n == Cardinality(ids)
           rank == [c \in ids |-> Rank(ids, c)]
<1>1. n \in Nat
  BY FS_CardinalityType
<1>2. rank \in [ids -> 1..n]
  BY RankType
<1>3. rank \in Injection(ids, 1..n)
  <2>1. ASSUME NEW a \in ids, NEW b \in ids, a # b PROVE rank[a] # rank[b]
    <3>1. a < b \/ b < a
      BY <2>1
    <3>2. rank[a] \in Nat /\ rank[b] \in Nat
      BY <1>1, <1>2
    <3> QED
      BY <3>1, <3>2, RankMonotone
  <2> QED
    BY <1>2, <2>1 DEF Injection, IsInjective
<1>4. IsFiniteSet(1..n) /\ Cardinality(1..n) = n
  BY <1>1, FS_Interval
<1>5. \E c \in ids : rank[c] = i
  <2> SUFFICES ASSUME \A c \in ids : rank[c] # i PROVE FALSE
    OBVIOUS
  <2>1. rank \in Injection(ids, (1..n) \ {i})
    BY <1>2, <1>3 DEF Injection, IsInjective
  <2>2. IsFiniteSet((1..n) \ {i}) /\ Cardinality((1..n) \ {i}) = n - 1
    BY <1>4, FS_RemoveElement
  <2>3. n <= n - 1
    BY <2>1, <2>2, FS_Injection
  <2> QED
    BY <1>1, <2>3
<1>6. \E c \in ids : Cardinality({d \in ids : d <= c}) = i
  BY <1>5 DEF Rank
<1> QED
  BY <1>6 DEF Nth, Rank

\* Who has the rank is at the position.
LEMMA NthOfRank ==
  ASSUME NEW ids \in SUBSET Nat, IsFiniteSet(ids), NEW c \in ids
  PROVE  Nth(ids, Rank(ids, c)) = c
<1> DEFINE e == Nth(ids, Rank(ids, c))
<1>1. e \in ids /\ Rank(ids, e) = Rank(ids, c)
  BY RankType, NthProperties
<1>2. Rank(ids, c) \in Nat
  BY RankType
<1> HIDE DEF e
<1>3. e < c \/ c < e \/ e = c
  <2>1. e \in Nat /\ c \in Nat
    BY <1>1
  <2> QED
    BY <2>1
<1>4. ASSUME e < c PROVE FALSE
  <2>1. Rank(ids, e) < Rank(ids, c)
    BY <1>1, <1>4, RankMonotone
  <2> QED
    BY <1>1, <1>2, <2>1
<1>5. ASSUME c < e PROVE FALSE
  <2>1. Rank(ids, c) < Rank(ids, e)
    BY <1>1, <1>5, RankMonotone
  <2> QED
    BY <1>1, <1>2, <2>1
<1> QED
  BY <1>3, <1>4, <1>5 DEF e

\* Later positions have greater identifiers.
LEMMA NthMonotone ==
  ASSUME NEW ids \in SUBSET Nat, IsFiniteSet(ids),
         NEW i \in 1..Cardinality(ids), NEW j \in 1..Cardinality(ids)
  PROVE  Nth(ids, i) <= Nth(ids, j) <=> i <= j
<1>1. PICK a \in ids : a = Nth(ids, i) /\ Rank(ids, a) = i
  BY NthProperties
<1>2. PICK b \in ids : b = Nth(ids, j) /\ Rank(ids, b) = j
  BY NthProperties
<1>3. i \in Nat /\ j \in Nat /\ a \in Nat /\ b \in Nat
  BY <1>1, <1>2, FS_CardinalityType
<1>4. CASE a < b
  <2>1. i < j
    BY <1>1, <1>2, <1>4, RankMonotone
  <2> QED
    BY <1>1, <1>2, <1>3, <1>4, <2>1
<1>5. CASE b < a
  <2>1. j < i
    BY <1>1, <1>2, <1>5, RankMonotone
  <2> QED
    BY <1>1, <1>2, <1>3, <1>5, <2>1
<1>6. CASE a = b
  BY <1>1, <1>2, <1>3, <1>6
<1> QED
  BY <1>3, <1>4, <1>5, <1>6

\* Sorting what is left of a sorted set is sorting what is left of the set.
LEMMA NthOfPart ==
  ASSUME NEW ids \in SUBSET Nat, IsFiniteSet(ids), NEW part \in SUBSET ids,
         NEW places, places = {i \in 1..Cardinality(ids) : Nth(ids, i) \in part}
  PROVE  /\ places \in SUBSET Nat /\ IsFiniteSet(places) /\ IsFiniteSet(part)
         /\ Cardinality(places) = Cardinality(part)
         /\ \A k \in 1..Cardinality(part) : Nth(part, k) = Nth(ids, Nth(places, k))
<1> DEFINE n == Cardinality(ids)
           nth == [i \in places |-> Nth(ids, i)]
<1>1. n \in Nat /\ IsFiniteSet(1..n)
  BY FS_CardinalityType, FS_Interval
<1>2. places \in SUBSET Nat /\ places \in SUBSET (1..n)
  BY <1>1
<1>3. IsFiniteSet(places) /\ IsFiniteSet(part)
  BY <1>1, <1>2, FS_Subset
<1>4. nth \in [places -> part]
  OBVIOUS
<1>5. \A i, j \in places : nth[i] = nth[j] => i = j
  <2> SUFFICES ASSUME NEW i \in places, NEW j \in places, nth[i] = nth[j] PROVE i = j
    OBVIOUS
  <2>1. Rank(ids, Nth(ids, i)) = i /\ Rank(ids, Nth(ids, j)) = j
    BY NthProperties
  <2> QED
    BY <2>1
<1>6. \A c \in part : \E i \in places : nth[i] = c
  <2> SUFFICES ASSUME NEW c \in part PROVE \E i \in places : nth[i] = c
    OBVIOUS
  <2>1. Rank(ids, c) \in 1..n /\ Nth(ids, Rank(ids, c)) = c
    BY RankType, NthOfRank
  <2> QED
    BY <2>1
<1>7. Cardinality(places) = Cardinality(part)
  <2>1. nth \in Bijection(places, part)
    BY <1>4, <1>5, <1>6, Fun_IsBij
  <2>2. ExistsBijection(places, part)
    BY <2>1 DEF ExistsBijection
  <2> QED
    BY <1>3, <2>2, FS_Bijection
<1>8. ASSUME NEW k \in 1..Cardinality(part) PROVE Nth(part, k) = Nth(ids, Nth(places, k))
  <2>1. PICK j \in places : j = Nth(places, k) /\ Rank(places, j) = k
    BY <1>2, <1>3, <1>7, NthProperties
  <2>2. PICK c \in part : c = Nth(ids, j)
    OBVIOUS
  <2> DEFINE below == {i \in places : i <= j}
             under == {d \in part : d <= c}
             to    == [i \in below |-> Nth(ids, i)]
  <2>3. IsFiniteSet(below)
    BY <1>3, FS_Subset
  <2>4. to \in [below -> under]
    <3> SUFFICES ASSUME NEW i \in below PROVE Nth(ids, i) \in part /\ Nth(ids, i) <= c
      OBVIOUS
    <3>1. i \in 1..n /\ j \in 1..n /\ i <= j
      BY <1>2
    <3> QED
      BY <2>2, <3>1, NthMonotone
  <2>5. \A i, h \in below : to[i] = to[h] => i = h
    BY <1>5
  <2>6. ASSUME NEW d \in under PROVE \E i \in below : to[i] = d
    <3>1. PICK i \in places : Nth(ids, i) = d
      BY <1>6
    <3>2. i \in 1..n /\ j \in 1..n /\ Nth(ids, i) <= Nth(ids, j)
      BY <1>2, <2>2, <3>1
    <3>3. i <= j
      BY <3>2, NthMonotone
    <3> QED
      BY <3>1, <3>3
  <2>7. to \in Bijection(below, under)
    BY <2>4, <2>5, <2>6, Fun_IsBij
  <2>8. Cardinality(under) = Cardinality(below)
    BY <2>3, <2>7, FS_Bijection DEF ExistsBijection
  <2>9. Rank(part, c) = k
    BY <2>1, <2>8 DEF Rank
  <2>10. Nth(part, Rank(part, c)) = c
    <3>1. part \in SUBSET Nat
      OBVIOUS
    <3> QED
      BY <1>3, <3>1, NthOfRank
  <2> QED
    BY <2>1, <2>2, <2>9, <2>10
<1> QED
  BY <1>2, <1>3, <1>7, <1>8

\* The same of the lists: filtering what is sorted is sorting what is filtered.
LEMMA SortedPart ==
  ASSUME NEW registry, NEW ids \in SUBSET Nat, IsFiniteSet(ids), NEW part \in SUBSET ids,
         NEW places, places = {i \in 1..Cardinality(ids) : Nth(ids, i) \in part}
  PROVE  Sorted(Sorted(registry, ids), places) = Sorted(registry, part)
<1>1. /\ places \in SUBSET Nat /\ IsFiniteSet(places) /\ IsFiniteSet(part)
      /\ Cardinality(places) = Cardinality(part)
      /\ \A k \in 1..Cardinality(part) : Nth(part, k) = Nth(ids, Nth(places, k))
  BY NthOfPart
<1>2. \A k \in 1..Cardinality(part) : Nth(places, k) \in 1..Cardinality(ids)
  BY <1>1, NthProperties
<1> QED
  BY <1>1, <1>2 DEF Sorted

-----------------------------------------------------------------------------
(* What is read from a registry, and what is kept of it.                   *)

\* What a registry holds, and of whom.
LEMMA RegistryTypes ==
  ASSUME NEW registry \in Registries
  PROVE  /\ DOMAIN registry \in SUBSET ClusterIDs
         /\ DOMAIN registry \in SUBSET Nat /\ IsFiniteSet(DOMAIN registry)
         /\ \A c \in DOMAIN registry : registry[c] \in ClusterInfo /\ registry[c].id = c
<1>1. PICK ids \in SUBSET ClusterIDs :
        registry \in [ids -> ClusterInfo] /\ \A c \in ids : registry[c].id = c
  BY DEF Registries
<1>2. DOMAIN registry = ids
  BY <1>1
<1>3. ids \in SUBSET Nat /\ IsFiniteSet(ids)
  BY RegistryAssumption, FS_Subset
<1> QED
  BY <1>1, <1>2, <1>3

\* What makes a registry.
LEMMA RegistryIntro ==
  ASSUME NEW registry, NEW ids \in SUBSET ClusterIDs, registry \in [ids -> ClusterInfo],
         \A c \in ids : registry[c].id = c
  PROVE  registry \in Registries
BY DEF Registries

\* A sorted list of a registry has its clusters at the places of their ranks.
LEMMA SortedElements ==
  ASSUME NEW registry \in Registries, NEW ids \in SUBSET DOMAIN registry
  PROVE  /\ Sorted(registry, ids) \in Seq(ClusterInfo)
         /\ DOMAIN Sorted(registry, ids) = 1..Cardinality(ids)
         /\ \A i \in DOMAIN Sorted(registry, ids) :
              Nth(ids, i) \in ids /\ Sorted(registry, ids)[i] = registry[Nth(ids, i)]
<1>1. ids \in SUBSET Nat /\ IsFiniteSet(ids)
  BY RegistryTypes, FS_Subset
<1>2. Cardinality(ids) \in Nat
  BY <1>1, FS_CardinalityType
<1>3. \A i \in 1..Cardinality(ids) : Nth(ids, i) \in ids
  BY <1>1, NthProperties
<1>4. \A i \in 1..Cardinality(ids) : registry[Nth(ids, i)] \in ClusterInfo
  BY <1>3, RegistryTypes
<1>5. Sorted(registry, ids) \in [1..Cardinality(ids) -> ClusterInfo]
  BY <1>4 DEF Sorted
<1> QED
  BY <1>2, <1>3, <1>5 DEF Sorted

\* Clusters lists every registered cluster once, in the order of identifiers, as
\* its sort.Slice does.
THEOREM ClustersInOrder ==
  ASSUME NEW registry \in Registries, NEW list, list = Clusters(registry)
  PROVE  /\ list \in Seq(ClusterInfo)
         /\ \A i, j \in DOMAIN list : i < j => list[i].id < list[j].id
         /\ \A i \in DOMAIN list : list[i].id \in DOMAIN registry /\ list[i] = registry[list[i].id]
         /\ \A c \in DOMAIN registry : \E i \in DOMAIN list : list[i].id = c
<1> DEFINE ids == DOMAIN registry
<1>1. ids \in SUBSET Nat /\ IsFiniteSet(ids)
  BY RegistryTypes
<1>2. /\ list \in Seq(ClusterInfo) /\ DOMAIN list = 1..Cardinality(ids)
      /\ \A i \in DOMAIN list : Nth(ids, i) \in ids /\ list[i] = registry[Nth(ids, i)]
  BY SortedElements DEF Clusters
<1>3. \A i \in DOMAIN list : list[i].id = Nth(ids, i)
  BY <1>2, RegistryTypes
<1>4. ASSUME NEW i \in DOMAIN list, NEW j \in DOMAIN list, i < j PROVE list[i].id < list[j].id
  <2>1. ~(Nth(ids, j) <= Nth(ids, i))
    <3>1. i \in Nat /\ j \in Nat /\ ~(j <= i)
      BY <1>1, <1>2, <1>4, FS_CardinalityType
    <3> QED
      BY <1>1, <1>2, <3>1, NthMonotone
  <2>2. Nth(ids, i) \in Nat /\ Nth(ids, j) \in Nat
    BY <1>1, <1>2
  <2> QED
    BY <1>3, <2>1, <2>2
<1>5. ASSUME NEW c \in ids PROVE \E i \in DOMAIN list : list[i].id = c
  <2>1. Rank(ids, c) \in DOMAIN list /\ Nth(ids, Rank(ids, c)) = c
    BY <1>1, <1>2, RankType, NthOfRank
  <2> QED
    BY <1>3, <2>1
<1> QED
  BY <1>2, <1>3, <1>4, <1>5

\* The places of a list that hold what has some property.
LEMMA SortedPlaces ==
  ASSUME NEW infos \in Seq(ClusterInfo), NEW places \in SUBSET DOMAIN infos
  PROVE  /\ Sorted(infos, places) \in Seq(ClusterInfo)
         /\ \A k \in DOMAIN Sorted(infos, places) :
              \E i \in places : Sorted(infos, places)[k] = infos[i]
         /\ \A i \in places : \E k \in DOMAIN Sorted(infos, places) :
              Sorted(infos, places)[k] = infos[i]
<1>1. DOMAIN infos = 1..Len(infos) /\ Len(infos) \in Nat
  OBVIOUS
<1>2. places \in SUBSET Nat /\ IsFiniteSet(places)
  <2>1. IsFiniteSet(1..Len(infos)) /\ places \in SUBSET (1..Len(infos))
    BY <1>1, FS_Interval
  <2>2. IsFiniteSet(places)
    BY <2>1, FS_Subset
  <2> QED
    BY <1>1, <2>1, <2>2
<1>3. Cardinality(places) \in Nat
  BY <1>2, FS_CardinalityType
<1>4. \A k \in 1..Cardinality(places) : Nth(places, k) \in places
  BY <1>2, NthProperties
<1>5. \A i \in places : Rank(places, i) \in 1..Cardinality(places) /\ Nth(places, Rank(places, i)) = i
  BY <1>2, RankType, NthOfRank
<1>6. \A i \in places : infos[i] \in ClusterInfo
  BY <1>1
<1>7. Sorted(infos, places) \in [1..Cardinality(places) -> ClusterInfo]
  BY <1>4, <1>6 DEF Sorted
<1>8. \A k \in 1..Cardinality(places) : Sorted(infos, places)[k] = infos[Nth(places, k)]
  BY DEF Sorted
<1> QED
  BY <1>3, <1>4, <1>5, <1>7, <1>8

\* The filter of resolveClusters keeps all that have the capability, and no others.
LEMMA CapableElements ==
  ASSUME NEW infos \in Seq(ClusterInfo), NEW tool
  PROVE  /\ Capable(infos, tool) \in Seq(ClusterInfo)
         /\ \A k \in DOMAIN Capable(infos, tool) :
              \E i \in DOMAIN infos : /\ tool \in infos[i].capabilities
                                      /\ Capable(infos, tool)[k] = infos[i]
         /\ \A i \in DOMAIN infos : tool \in infos[i].capabilities =>
              \E k \in DOMAIN Capable(infos, tool) : Capable(infos, tool)[k] = infos[i]
<1> DEFINE places == {i \in DOMAIN infos : tool \in infos[i].capabilities}
<1> DEFINE kept == Sorted(infos, places)
<1>1. Capable(infos, tool) = kept
  BY DEF Capable
<1>2. /\ kept \in Seq(ClusterInfo)
      /\ \A k \in DOMAIN kept : \E i \in places : kept[k] = infos[i]
      /\ \A i \in places : \E k \in DOMAIN kept : kept[k] = infos[i]
  <2> HIDE DEF places
  <2>1. places \in SUBSET DOMAIN infos
    BY DEF places
  <2> QED
    BY <2>1, SortedPlaces
<1> HIDE DEF kept
<1> QED
  BY <1>1, <1>2

\* Filtering a sorted list is sorting the filtered clusters.
LEMMA CapableOfSorted ==
  ASSUME NEW registry \in Registries, NEW ids \in SUBSET DOMAIN registry, NEW tool
  PROVE  Capable(Sorted(registry, ids), tool)
           = Sorted(registry, {c \in ids : tool \in registry[c].capabilities})
<1> DEFINE infos == Sorted(registry, ids)
           part == {c \in ids : tool \in registry[c].capabilities}
           places == {i \in DOMAIN infos : tool \in infos[i].capabilities}
<1>1. ids \in SUBSET Nat /\ IsFiniteSet(ids)
  BY RegistryTypes, FS_Subset
<1>2. places = {i \in 1..Cardinality(ids) : Nth(ids, i) \in part}
  BY SortedElements
<1>3. Sorted(Sorted(registry, ids), places) = Sorted(registry, part)
  BY <1>1, <1>2, SortedPart
<1> QED
  BY <1>3 DEF Capable

\* The clusters of a group, taken from the sorted list of all.
LEMMA InGroupOfSorted ==
  ASSUME NEW registry \in Registries, NEW ids \in SUBSET DOMAIN registry, NEW group
  PROVE  InGroup(Sorted(registry, ids), group)
           = Sorted(registry, {c \in ids : group \in registry[c].groups})
<1> DEFINE infos == Sorted(registry, ids)
           part == {c \in ids : group \in registry[c].groups}
           places == {i \in DOMAIN infos : group \in infos[i].groups}
<1>1. ids \in SUBSET Nat /\ IsFiniteSet(ids)
  BY RegistryTypes, FS_Subset
<1>2. places = {i \in 1..Cardinality(ids) : Nth(ids, i) \in part}
  BY SortedElements
<1>3. Sorted(Sorted(registry, ids), places) = Sorted(registry, part)
  BY <1>1, <1>2, SortedPart
<1> QED
  BY <1>3 DEF InGroup

\* What a registry is asked for, and what is kept of that.
Candidates(target, tool, registry) ==
  {c \in DOMAIN registry :
     IF target.group # NoGroup THEN target.group \in registry[c].groups
     ELSE target.all \/ tool \in registry[c].capabilities}

\* A target without names means a set of clusters, which Invoke gets in order.
LEMMA SelectedBySorted ==
  ASSUME NEW registry \in Registries, NEW target, NEW tool
  PROVE  SelectedBy(target, tool, registry) = Sorted(registry, Candidates(target, tool, registry))
<1> DEFINE everyone == DOMAIN registry
<1>1. CASE target.group # NoGroup
  <2>1. Candidates(target, tool, registry) = {c \in everyone : target.group \in registry[c].groups}
    BY <1>1 DEF Candidates
  <2>2. SelectedBy(target, tool, registry) = InGroup(Sorted(registry, everyone), target.group)
    BY <1>1 DEF SelectedBy, Clusters
  <2> QED
    BY <2>1, <2>2, InGroupOfSorted
<1>2. CASE target.group = NoGroup /\ target.all
  <2>1. Candidates(target, tool, registry) = everyone
    BY <1>2 DEF Candidates
  <2> QED
    BY <1>2, <2>1 DEF SelectedBy, Clusters
<1>3. CASE target.group = NoGroup /\ ~target.all
  <2>1. Candidates(target, tool, registry) = {c \in everyone : tool \in registry[c].capabilities}
    BY <1>3 DEF Candidates
  <2> QED
    BY <1>3, <2>1 DEF SelectedBy, GetClustersForCapability
<1> QED
  BY <1>1, <1>2, <1>3

-----------------------------------------------------------------------------
(* The inductive invariant.                                                *)

Results == {Zero} \cup {Result(c, s) : c \in ClusterIDs, s \in Statuses}
Invocations == [tool : Tools \cup {"none"}, target : Targets \cup {NoTarget}]
Records == [request : Requests, tool : Tools \cup {"none"}, targeted : Seq(ClusterIDs), count : Nat]

Shape ==
  /\ clusters \in Registries /\ tools \subseteq Tools
  /\ hasDispatcher \in BOOLEAN /\ hasAudit \in BOOLEAN
  /\ pc \in [Requests -> PCs]
  /\ invocation \in [Requests -> Invocations]
  /\ selected \in [Requests -> Seq(ClusterInfo)]
  /\ dispatching \in [Requests -> SUBSET Nat]
  /\ results \in [Requests -> Seq(Results)]
  /\ seen \in [Requests -> SUBSET Registries]
  /\ audit \in Seq(Records)

\* Each of infos was read from the registry while r was being resolved.
FromSeen(r, infos) ==
  \A i \in DOMAIN infos : \E registry \in seen[r] :
    infos[i].id \in DOMAIN registry /\ registry[infos[i].id] = infos[i]

\* infos follow the identifiers r asks for, as far as they go.
Follows(r, infos) ==
  \A i \in DOMAIN infos : i \in DOMAIN invocation[r].target.ids
                          /\ infos[i].id = invocation[r].target.ids[i]

\* infos are what the loop of resolveClusters hands to its filter.
Chosen(r, infos) ==
  /\ FromSeen(r, infos)
  /\ invocation[r].target.ids # <<>> =>
       Follows(r, infos) /\ DOMAIN infos = DOMAIN invocation[r].target.ids
  /\ invocation[r].target.ids = <<>> =>
       \E registry \in seen[r] :
         infos = SelectedBy(invocation[r].target, invocation[r].tool, registry)

\* Where r is in resolveClusters, and what it has selected.
Resolution(r) ==
  /\ Resolving(r) => clusters \in seen[r]
  /\ pc[r] \in {"idle", "lookup"} => selected[r] = <<>>
  /\ pc[r] = "resolve" =>
       /\ FromSeen(r, selected[r])
       /\ invocation[r].target.ids # <<>> =>
            Follows(r, selected[r]) /\ Len(selected[r]) < Len(invocation[r].target.ids)
  /\ pc[r] = "filter" => Chosen(r, selected[r])
  /\ Resolved(r) => \E infos \in Seq(ClusterInfo) :
       Chosen(r, infos) /\ selected[r] = Capable(infos, invocation[r].tool)

\* What has been dispatched, and what came back.
Dispatches(r) ==
  /\ pc[r] # "idle" => invocation[r] \in [tool : Tools, target : Targets]
  /\ dispatching[r] \subseteq DOMAIN results[r]
  /\ dispatching[r] # {} => pc[r] = "wait"
  /\ Resolved(r) =>
       /\ DOMAIN results[r] = DOMAIN selected[r]
       /\ \A i \in DOMAIN results[r] \ dispatching[r] : results[r][i].cluster = selected[r][i].id

IInv ==
  /\ Shape
  /\ \A r \in Requests : Resolution(r) /\ Dispatches(r)
  /\ AuditMatchesAnswer

\* Whoever is not part of a step keeps what the invariant says of it, though the
\* registry may change.
LEMMA Bystander ==
  ASSUME NEW q \in Requests, Resolution(q), Dispatches(q),
         pc'[q] = pc[q], invocation'[q] = invocation[q], selected'[q] = selected[q],
         dispatching'[q] = dispatching[q], results'[q] = results[q],
         seen[q] \subseteq seen'[q],
         Resolving(q) => clusters' \in seen'[q]
  PROVE  Resolution(q)' /\ Dispatches(q)'
<1>1. ASSUME NEW infos, FromSeen(q, infos) PROVE FromSeen(q, infos)'
  BY <1>1 DEF FromSeen
<1>2. ASSUME NEW infos, Chosen(q, infos) PROVE Chosen(q, infos)'
  <2>1. FromSeen(q, infos)'
    BY <1>1, <1>2 DEF Chosen
  <2>2. Follows(q, infos) => Follows(q, infos)'
    BY DEF Follows
  <2> QED
    BY <1>2, <2>1, <2>2 DEF Chosen
<1>3. FromSeen(q, selected[q]) => FromSeen(q, selected[q])'
  <2> SUFFICES ASSUME FromSeen(q, selected[q]), NEW i \in DOMAIN selected'[q]
               PROVE  \E registry \in seen'[q] : /\ selected'[q][i].id \in DOMAIN registry
                                                /\ registry[selected'[q][i].id] = selected'[q][i]
    BY DEF FromSeen
  <2>1. \E registry \in seen[q] : /\ selected[q][i].id \in DOMAIN registry
                                  /\ registry[selected[q][i].id] = selected[q][i]
    BY DEF FromSeen
  <2> QED
    BY <2>1
<1>4. Follows(q, selected[q]) => Follows(q, selected[q])'
  BY DEF Follows
<1>5. Chosen(q, selected[q]) => Chosen(q, selected[q])'
  BY <1>3, <1>4 DEF Chosen
<1>6. Resolved(q) => Resolved(q)' /\ Resolving(q)' = Resolving(q)
  BY DEF Resolved, Resolving
<1>7. Resolved(q)' => \E infos \in Seq(ClusterInfo) :
        Chosen(q, infos)' /\ selected'[q] = Capable(infos, invocation'[q].tool)
  BY <1>2 DEF Resolution, Resolved
<1>8. Resolution(q)'
  BY <1>3, <1>4, <1>5, <1>7 DEF Resolution, Resolving, Resolved
<1>9. Dispatches(q)'
  BY DEF Dispatches, Resolved
<1> QED
  BY <1>8, <1>9

\* What AuditMatchesAnswer says of one record.
Matches(k, r) ==
  /\ \A l \in DOMAIN audit : audit[l].request = r => l = k
  /\ pc[r] = "ok"
  /\ audit[k].tool = invocation[r].tool
  /\ audit[k].count = Len(audit[k].targeted)
  /\ audit[k].targeted = [i \in DOMAIN results[r] |-> results[r][i].cluster]

\* The records match the answers, one by one.
LEMMA EachMatches ==
  AuditMatchesAnswer <=> \A k \in DOMAIN audit : Matches(k, audit[k].request)
BY DEF AuditMatchesAnswer, Matches

\* What the sink has kept are records of requests.
LEMMA RecordTypes ==
  Shape => \A k \in DOMAIN audit : audit[k] \in Records /\ audit[k].request \in Requests
<1> SUFFICES ASSUME Shape, NEW k \in DOMAIN audit
             PROVE  audit[k] \in Records /\ audit[k].request \in Requests
  OBVIOUS
<1>1. audit[k] \in Records
  BY DEF Shape
<1> QED
  BY <1>1 DEF Records

\* A finished invocation and its record do not change any more.
LEMMA RecordsStay ==
  ASSUME Shape, AuditMatchesAnswer, audit' = audit,
         \A r \in Requests : pc[r] = "ok" =>
           pc'[r] = "ok" /\ invocation'[r] = invocation[r] /\ results'[r] = results[r]
  PROVE  AuditMatchesAnswer'
<1>1. ASSUME NEW k \in DOMAIN audit PROVE Matches(k, audit[k].request)'
  <2>1. PICK r \in Requests : r = audit[k].request
    BY RecordTypes
  <2>2. Matches(k, r)
    BY <2>1, EachMatches
  <2>3. pc'[r] = "ok" /\ invocation'[r] = invocation[r] /\ results'[r] = results[r]
    BY <2>2 DEF Matches
  <2>4. Matches(k, r)'
    BY <2>2, <2>3 DEF Matches
  <2> QED
    BY <2>1, <2>4
<1>2. (AuditMatchesAnswer <=> \A k \in DOMAIN audit : Matches(k, audit[k].request))'
  BY EachMatches, PTL
<1> QED
  BY <1>1, <1>2

\* The steps of one invocation.
LEMMA StepOfOne ==
  ASSUME IInv, NEW r \in Requests,
         Shape', Resolution(r)', Dispatches(r)', AuditMatchesAnswer',
         clusters' = clusters,
         \A q \in Requests \ {r} :
           /\ pc'[q] = pc[q] /\ invocation'[q] = invocation[q] /\ selected'[q] = selected[q]
           /\ dispatching'[q] = dispatching[q] /\ results'[q] = results[q] /\ seen'[q] = seen[q]
  PROVE  IInv'
<1>1. ASSUME NEW q \in Requests \ {r} PROVE Resolution(q)' /\ Dispatches(q)'
  <2>1. Resolution(q) /\ Dispatches(q)
    BY DEF IInv
  <2>2. Resolving(q) => clusters' \in seen'[q]
    BY <2>1 DEF Resolution
  <2>3. seen[q] \subseteq seen'[q]
    OBVIOUS
  <2> QED
    BY <2>1, <2>2, <2>3, Bystander
<1> QED
  BY <1>1 DEF IInv

-----------------------------------------------------------------------------
(* The registry changes.                                                   *)

\* What agents do to a registry leaves a registry.
LEMMA RegistryStays ==
  ASSUME clusters \in Registries, RegistryStep
  PROVE  clusters' \in Registries
<1>1. /\ DOMAIN clusters \in SUBSET ClusterIDs
      /\ \A c \in DOMAIN clusters : clusters[c] \in ClusterInfo /\ clusters[c].id = c
  BY RegistryTypes
<1>2. ASSUME NEW t \in Tools, RegisterTool(t) PROVE clusters' \in Registries
  BY <1>2 DEF RegisterTool
<1>3. ASSUME NEW info \in ClusterInfo, RegisterAgent(info) PROVE clusters' \in Registries
  <2> DEFINE ids == DOMAIN clusters \cup {info.id}
  <2>1. info.id \in ClusterIDs
    BY DEF ClusterInfo
  <2>2. clusters' = [c \in ids |-> IF c = info.id THEN info ELSE clusters[c]]
    BY <1>3 DEF RegisterAgent
  <2>3. clusters' \in [ids -> ClusterInfo] /\ \A c \in ids : clusters'[c].id = c
    BY <1>1, <2>2
  <2>4. ids \in SUBSET ClusterIDs
    BY <1>1, <2>1
  <2> QED
    BY <2>3, <2>4, RegistryIntro
<1>4. ASSUME NEW id \in ClusterIDs, UnregisterAgent(id) PROVE clusters' \in Registries
  <2> DEFINE ids == DOMAIN clusters \ {id}
  <2>1. clusters' = [c \in ids |-> clusters[c]]
    BY <1>4 DEF UnregisterAgent
  <2>2. clusters' \in [ids -> ClusterInfo] /\ \A c \in ids : clusters'[c].id = c
    BY <1>1, <2>1
  <2> QED
    BY <1>1, <2>2, RegistryIntro
<1> QED
  BY <1>2, <1>3, <1>4 DEF RegistryStep

\* An agent registers, changes or leaves.
LEMMA RegistryStepInv ==
  ASSUME IInv, RegistryStep
  PROVE  IInv'
<1>1. clusters' \in Registries
  BY RegistryStays DEF IInv, Shape
<1>2. /\ seen' = [r \in Requests |->
                    IF Resolving(r) THEN seen[r] \cup {clusters'} ELSE seen[r]]
      /\ UNCHANGED <<configuration, requestVars, audit>>
  BY DEF RegistryStep
<1>3. seen' \in [Requests -> SUBSET Registries]
  BY <1>1, <1>2 DEF IInv, Shape
<1>4. tools' \subseteq Tools
  BY RegistryAssumption DEF RegistryStep, RegisterTool, RegisterAgent, UnregisterAgent, IInv, Shape
<1>5. Shape'
  BY <1>1, <1>2, <1>3, <1>4 DEF IInv, Shape, configuration, requestVars
<1>6. ASSUME NEW q \in Requests PROVE Resolution(q)' /\ Dispatches(q)'
  <2>1. Resolution(q) /\ Dispatches(q)
    BY DEF IInv
  <2>2. seen[q] \subseteq seen'[q] /\ (Resolving(q) => clusters' \in seen'[q])
    BY <1>2
  <2>3. /\ pc'[q] = pc[q] /\ invocation'[q] = invocation[q] /\ selected'[q] = selected[q]
        /\ dispatching'[q] = dispatching[q] /\ results'[q] = results[q]
    BY <1>2 DEF requestVars
  <2> QED
    BY <2>1, <2>2, <2>3, Bystander
<1>7. AuditMatchesAnswer'
  BY <1>2, RecordsStay DEF IInv, requestVars
<1> QED
  BY <1>5, <1>6, <1>7 DEF IInv

-----------------------------------------------------------------------------
(* The steps of an invocation.                                             *)

\* An invocation begins.
LEMMA InvokeInv ==
  ASSUME IInv, NEW r \in Requests, NEW tool \in Tools, NEW target \in Targets,
         Invoke(r, tool, target)
  PROVE  IInv'
<1>1. /\ pc[r] = "idle" /\ pc' = [pc EXCEPT ![r] = IF hasDispatcher THEN "lookup" ELSE "error"]
      /\ invocation' = [invocation EXCEPT ![r] = [tool |-> tool, target |-> target]]
      /\ seen' = [seen EXCEPT ![r] = {clusters}]
      /\ UNCHANGED <<registryVars, configuration, selected, dispatching, results, audit>>
  BY DEF Invoke, Goto
<1>2. Shape /\ Resolution(r) /\ Dispatches(r) /\ AuditMatchesAnswer
  BY DEF IInv
<1>3. [tool |-> tool, target |-> target] \in Invocations
  BY DEF Invocations
<1>4. Shape'
  BY <1>1, <1>2, <1>3 DEF Shape, PCs, registryVars, configuration
<1>5. pc'[r] \in {"lookup", "error"} /\ seen'[r] = {clusters} /\ clusters' = clusters
  BY <1>1, <1>2 DEF Shape, registryVars
<1>6. Resolution(r)'
  BY <1>1, <1>2, <1>5 DEF Resolution, Resolving, Resolved
<1>7. Dispatches(r)'
  BY <1>1, <1>2, <1>5 DEF Dispatches, Resolved, Shape
<1>8. AuditMatchesAnswer'
  BY <1>1, <1>2, RecordsStay DEF Shape
<1>9. \A q \in Requests \ {r} :
        /\ pc'[q] = pc[q] /\ invocation'[q] = invocation[q] /\ selected'[q] = selected[q]
        /\ dispatching'[q] = dispatching[q] /\ results'[q] = results[q] /\ seen'[q] = seen[q]
  BY <1>1, <1>2 DEF Shape
<1> QED
  BY <1>4, <1>5, <1>6, <1>7, <1>8, <1>9, StepOfOne

\* It looks for its tool.
LEMMA LookupInv ==
  ASSUME IInv, NEW r \in Requests, Lookup(r)
  PROVE  IInv'
<1>1. /\ pc[r] = "lookup"
      /\ pc' = [pc EXCEPT ![r] = IF invocation[r].tool \in tools THEN "resolve" ELSE "error"]
      /\ UNCHANGED <<registryVars, configuration, invocation, selected, dispatching, results, audit, seen>>
  BY DEF Lookup, Goto
<1>2. Shape /\ Resolution(r) /\ Dispatches(r) /\ AuditMatchesAnswer
  BY DEF IInv
<1>3. Shape'
  BY <1>1, <1>2 DEF Shape, PCs, registryVars, configuration
<1>4. pc'[r] \in {"resolve", "error"} /\ clusters' = clusters
  BY <1>1, <1>2 DEF Shape, registryVars
<1>5. selected[r] = <<>> /\ clusters \in seen[r]
  BY <1>1, <1>2 DEF Resolution, Resolving
<1>6. Resolution(r)'
  <2>1. FromSeen(r, selected[r])' /\ Follows(r, selected[r])'
    BY <1>1, <1>5 DEF FromSeen, Follows
  <2>2. invocation[r].target.ids # <<>> => Len(selected[r]) < Len(invocation[r].target.ids)
    <3>1. invocation[r].target \in Targets
      BY <1>1, <1>2 DEF Dispatches
    <3>2. invocation[r].target.ids \in Seq(ClusterIDs)
      BY <3>1, ProviderAssumption
    <3> QED
      BY <1>5, <3>2, EmptySeq
  <2> QED
    BY <1>1, <1>4, <1>5, <2>1, <2>2 DEF Resolution, Resolving, Resolved
<1>7. Dispatches(r)'
  BY <1>1, <1>2, <1>4 DEF Dispatches, Resolved
<1>8. AuditMatchesAnswer'
  BY <1>1, <1>2, RecordsStay DEF Shape
<1>9. \A q \in Requests \ {r} :
        /\ pc'[q] = pc[q] /\ invocation'[q] = invocation[q] /\ selected'[q] = selected[q]
        /\ dispatching'[q] = dispatching[q] /\ results'[q] = results[q] /\ seen'[q] = seen[q]
  BY <1>1, <1>2 DEF Shape
<1> QED
  BY <1>3, <1>4, <1>6, <1>7, <1>8, <1>9, StepOfOne

\* The target of an invocation is one of those that are asked for.
LEMMA TargetTypes ==
  ASSUME NEW r \in Requests, Dispatches(r), pc[r] # "idle"
  PROVE  invocation[r].target.ids \in Seq(ClusterIDs)
<1>1. invocation[r].target \in Targets
  BY DEF Dispatches
<1> QED
  BY <1>1, ProviderAssumption

\* What a sequence is after an element was put at its end.
LEMMA Appended ==
  ASSUME NEW S, NEW s \in Seq(S), NEW e \in S, NEW t \in Seq(S), t = Append(s, e)
  PROVE  /\ Len(t) = Len(s) + 1 /\ DOMAIN t = 1..(Len(s) + 1) /\ t[Len(s) + 1] = e
         /\ \A i \in 1..Len(s) : t[i] = s[i]
<1>1. /\ Len(t) = Len(s) + 1 /\ t[Len(s) + 1] = e
      /\ \A i \in 1..Len(s) : t[i] = s[i]
  BY AppendProperties
<1>2. DOMAIN t = 1..Len(t)
  BY LenProperties
<1> QED
  BY <1>1, <1>2

\* It looks up the next cluster it names.
LEMMA ResolveNextInv ==
  ASSUME IInv, NEW r \in Requests, ResolveNext(r)
  PROVE  IInv'
<1> DEFINE ids == invocation[r].target.ids
           n == Len(selected[r]) + 1
           id == ids[n]
<1>1. /\ pc[r] = "resolve" /\ ids # <<>>
      /\ UNCHANGED <<registryVars, configuration, invocation, dispatching, results, audit, seen>>
  BY DEF ResolveNext
<1>2. Shape /\ Resolution(r) /\ Dispatches(r) /\ AuditMatchesAnswer
  BY DEF IInv
<1>3. AuditMatchesAnswer'
  <2>1. \A q \in Requests : pc[q] = "ok" => pc'[q] = "ok"
    BY <1>1, <1>2 DEF ResolveNext, Goto, Shape
  <2> QED
    BY <1>1, <1>2, <2>1, RecordsStay
<1>4. clusters' = clusters
  BY <1>1 DEF registryVars
<1>5. CASE id \notin DOMAIN clusters
  <2>1. pc' = [pc EXCEPT ![r] = "error"] /\ UNCHANGED selected
    BY <1>5 DEF ResolveNext, Goto
  <2>2. Shape'
    BY <1>1, <1>2, <2>1 DEF Shape, PCs, registryVars, configuration
  <2>3. pc'[r] = "error"
    BY <1>2, <2>1 DEF Shape
  <2>4. Resolution(r)'
    BY <2>3 DEF Resolution, Resolving, Resolved
  <2>5. Dispatches(r)'
    BY <1>1, <1>2, <2>3 DEF Dispatches, Resolved
  <2>6. \A q \in Requests \ {r} :
          /\ pc'[q] = pc[q] /\ invocation'[q] = invocation[q] /\ selected'[q] = selected[q]
          /\ dispatching'[q] = dispatching[q] /\ results'[q] = results[q] /\ seen'[q] = seen[q]
    BY <1>1, <1>2, <2>1 DEF Shape
  <2> QED
    BY <1>3, <1>4, <2>2, <2>4, <2>5, <2>6, StepOfOne
<1>6. CASE id \in DOMAIN clusters
  <2>1. PICK info \in ClusterInfo : info = clusters[id] /\ info.id = id
    BY <1>2, <1>6, RegistryTypes DEF Shape
  <2>2. selected' = [selected EXCEPT ![r] = Append(@, info)]
    BY <1>6, <2>1 DEF ResolveNext
  <2>3. pc' = [pc EXCEPT ![r] = IF Len(selected'[r]) = Len(ids) THEN "filter" ELSE "resolve"]
    BY <1>6 DEF ResolveNext, Goto
  <2>4. PICK infos \in Seq(ClusterInfo) : infos = selected[r]
    BY <1>2 DEF Shape
  <2>5. PICK more \in Seq(ClusterInfo) : more = Append(infos, info)
    BY <2>1, <2>4, AppendProperties
  <2>6. Len(infos) \in Nat /\ DOMAIN infos = 1..Len(infos) /\ n = Len(infos) + 1
    BY <2>4
  <2>7. /\ Len(more) = n /\ DOMAIN more = 1..n /\ more[n] = info
        /\ \A i \in 1..Len(infos) : more[i] = infos[i]
    <3> HIDE DEF n, id, ids
    <3> QED
      BY <2>5, <2>6, Appended
  <2>8. selected'[r] = more /\ \A q \in Requests \ {r} : selected'[q] = selected[q]
    BY <1>2, <2>2, <2>4, <2>5 DEF Shape
  <2>9. pc'[r] = (IF n = Len(ids) THEN "filter" ELSE "resolve")
    BY <1>2, <2>3, <2>7, <2>8 DEF Shape
  <2>10. ids \in Seq(ClusterIDs) /\ Len(ids) \in Nat /\ DOMAIN ids = 1..Len(ids)
    BY <1>1, <1>2, TargetTypes
  <2>11. /\ FromSeen(r, infos) /\ Follows(r, infos) /\ Len(infos) < Len(ids)
         /\ clusters \in seen[r]
    BY <1>1, <1>2, <2>4 DEF Resolution, Resolving
  <2>12. FromSeen(r, more)
    <3> SUFFICES ASSUME NEW i \in 1..n
                 PROVE  \E registry \in seen[r] :
                          more[i].id \in DOMAIN registry /\ registry[more[i].id] = more[i]
      BY <2>7 DEF FromSeen
    <3>1. CASE i = n
      BY <1>6, <2>1, <2>7, <2>11, <3>1
    <3>2. CASE i # n
      <4>1. i \in DOMAIN infos /\ more[i] = infos[i]
        BY <2>6, <2>7, <3>2
      <4> QED
        BY <2>11, <4>1 DEF FromSeen
    <3> QED
      BY <3>1, <3>2
  <2>13. Follows(r, more)
    <3> SUFFICES ASSUME NEW i \in 1..n PROVE i \in DOMAIN ids /\ more[i].id = ids[i]
      BY <2>7 DEF Follows
    <3>1. CASE i = n
      BY <2>1, <2>6, <2>7, <2>10, <2>11, <3>1
    <3>2. CASE i # n
      <4>1. i \in DOMAIN infos /\ more[i] = infos[i]
        BY <2>6, <2>7, <3>2
      <4> QED
        BY <2>11, <4>1 DEF Follows
    <3> QED
      BY <3>1, <3>2
  <2>14. FromSeen(r, selected[r])' /\ Follows(r, selected[r])'
    BY <1>1, <2>8, <2>12, <2>13 DEF FromSeen, Follows
  <2>15. n = Len(ids) => Chosen(r, selected[r])'
    BY <1>1, <2>7, <2>8, <2>10, <2>14 DEF Chosen
  <2>16. n # Len(ids) => n < Len(ids)
    BY <2>6, <2>10, <2>11
  <2>17. Resolution(r)'
    BY <1>1, <1>4, <2>7, <2>8, <2>9, <2>11, <2>14, <2>15, <2>16 DEF Resolution, Resolving, Resolved
  <2>18. Dispatches(r)'
    BY <1>1, <1>2, <2>9 DEF Dispatches, Resolved
  <2>19. Shape'
    <3>1. selected' \in [Requests -> Seq(ClusterInfo)]
      BY <1>2, <2>2, <2>4, <2>5 DEF Shape
    <3> QED
      BY <1>1, <1>2, <2>3, <3>1 DEF Shape, PCs, registryVars, configuration
  <2>20. \A q \in Requests \ {r} :
          /\ pc'[q] = pc[q] /\ invocation'[q] = invocation[q] /\ selected'[q] = selected[q]
          /\ dispatching'[q] = dispatching[q] /\ results'[q] = results[q] /\ seen'[q] = seen[q]
    BY <1>1, <1>2, <2>3, <2>8 DEF Shape
  <2> QED
    BY <1>3, <1>4, <2>17, <2>18, <2>19, <2>20, StepOfOne
<1> QED
  BY <1>5, <1>6

\* It reads the registry for a group, for all or for the capable.
LEMMA ResolveAllInv ==
  ASSUME IInv, NEW r \in Requests, ResolveAll(r)
  PROVE  IInv'
<1> DEFINE target == invocation[r].target
           tool == invocation[r].tool
<1>1. /\ pc[r] = "resolve" /\ target.ids = <<>>
      /\ selected' = [selected EXCEPT ![r] = SelectedBy(target, tool, clusters)]
      /\ pc' = [pc EXCEPT ![r] = "filter"]
      /\ UNCHANGED <<registryVars, configuration, invocation, dispatching, results, audit, seen>>
  BY DEF ResolveAll, Goto
<1>2. Shape /\ Resolution(r) /\ Dispatches(r) /\ AuditMatchesAnswer
  BY DEF IInv
<1>3. clusters \in Registries /\ clusters \in seen[r] /\ clusters' = clusters
  BY <1>1, <1>2 DEF Shape, Resolution, Resolving, registryVars
<1>4. PICK ids \in SUBSET DOMAIN clusters : ids = Candidates(target, tool, clusters)
  BY DEF Candidates
<1>5. PICK infos : infos = SelectedBy(target, tool, clusters)
  OBVIOUS
<1>6. infos = Sorted(clusters, ids)
  BY <1>3, <1>4, <1>5, SelectedBySorted
<1>7. infos \in Seq(ClusterInfo)
  BY <1>3, <1>6, SortedElements
<1>8. FromSeen(r, infos)
  <2> SUFFICES ASSUME NEW i \in DOMAIN infos
               PROVE  infos[i].id \in DOMAIN clusters /\ clusters[infos[i].id] = infos[i]
    BY <1>3 DEF FromSeen
  <2>1. PICK c \in DOMAIN clusters : infos[i] = clusters[c]
    BY <1>3, <1>6, SortedElements
  <2> QED
    BY <1>3, <2>1, RegistryTypes
<1>9. selected'[r] = infos /\ pc'[r] = "filter"
  BY <1>1, <1>2, <1>5 DEF Shape
<1>10. Shape'
  <2>1. selected' = [selected EXCEPT ![r] = infos]
    BY <1>1, <1>5
  <2> QED
    BY <1>1, <1>2, <1>7, <2>1 DEF Shape, PCs, registryVars, configuration
<1>11. Chosen(r, selected[r])'
  <2>1. FromSeen(r, selected[r])'
    BY <1>1, <1>8, <1>9 DEF FromSeen
  <2>2. selected'[r] = SelectedBy(invocation'[r].target, invocation'[r].tool, clusters)
    BY <1>1, <1>5, <1>9
  <2>3. clusters \in seen'[r] /\ invocation'[r].target.ids = <<>>
    BY <1>1, <1>3
  <2> QED
    BY <2>1, <2>2, <2>3 DEF Chosen
<1>12. Resolution(r)'
  BY <1>9, <1>11 DEF Resolution, Resolving, Resolved
<1>13. Dispatches(r)'
  BY <1>1, <1>2, <1>9 DEF Dispatches, Resolved
<1>14. AuditMatchesAnswer'
  BY <1>1, <1>2, RecordsStay DEF Shape
<1>15. \A q \in Requests \ {r} :
         /\ pc'[q] = pc[q] /\ invocation'[q] = invocation[q] /\ selected'[q] = selected[q]
         /\ dispatching'[q] = dispatching[q] /\ results'[q] = results[q] /\ seen'[q] = seen[q]
  BY <1>1, <1>2 DEF Shape
<1> QED
  BY <1>3, <1>10, <1>12, <1>13, <1>14, <1>15, StepOfOne

\* It filters its targets and starts a dispatch for each.
LEMMA DispatchInv ==
  ASSUME IInv, NEW r \in Requests, Dispatch(r)
  PROVE  IInv'
<1>1. Shape /\ Resolution(r) /\ Dispatches(r) /\ AuditMatchesAnswer
  BY DEF IInv
<1>2. PICK infos \in Seq(ClusterInfo) : infos = selected[r]
  BY <1>1 DEF Shape
<1>3. PICK kept \in Seq(ClusterInfo) : kept = Capable(infos, invocation[r].tool)
  BY CapableElements
<1>4. /\ pc[r] = "filter"
      /\ selected' = [selected EXCEPT ![r] = kept]
      /\ UNCHANGED <<registryVars, configuration, invocation, audit, seen>>
  BY <1>2, <1>3 DEF Dispatch
<1>5. \/ /\ pc' = [pc EXCEPT ![r] = "error"]
         /\ UNCHANGED <<dispatching, results>>
      \/ /\ pc' = [pc EXCEPT ![r] = "wait"]
         /\ dispatching' = [dispatching EXCEPT ![r] = DOMAIN kept]
         /\ results' = [results EXCEPT ![r] = [i \in DOMAIN kept |-> Zero]]
  BY <1>2, <1>3 DEF Dispatch, Goto
<1>6. Chosen(r, infos) /\ dispatching[r] = {}
  BY <1>1, <1>2, <1>4 DEF Resolution, Dispatches
<1>7. selected'[r] = kept /\ clusters' = clusters
  BY <1>1, <1>4 DEF Shape, registryVars
<1>8. pc'[r] = "wait" => \E list \in Seq(ClusterInfo) :
        Chosen(r, list)' /\ selected'[r] = Capable(list, invocation'[r].tool)
  <2>1. Chosen(r, infos)'
    BY <1>4, <1>6 DEF Chosen, FromSeen, Follows
  <2> QED
    BY <1>3, <1>4, <1>7, <2>1
<1>9. pc'[r] \in {"error", "wait"}
  BY <1>1, <1>5 DEF Shape
<1>10. Resolution(r)'
  BY <1>8, <1>9 DEF Resolution, Resolving, Resolved
<1>11. DOMAIN kept \in SUBSET Nat /\ [i \in DOMAIN kept |-> Zero] \in Seq(Results)
  <2>1. DOMAIN kept = 1..Len(kept) /\ Len(kept) \in Nat
    BY <1>3
  <2>2. [i \in DOMAIN kept |-> Zero] \in [1..Len(kept) -> Results]
    BY <2>1 DEF Results
  <2> QED
    BY <2>1, <2>2
<1>12. Shape'
  BY <1>1, <1>3, <1>4, <1>5, <1>11 DEF Shape, PCs, registryVars, configuration
<1>13. Dispatches(r)'
  <2>1. CASE pc' = [pc EXCEPT ![r] = "error"] /\ UNCHANGED <<dispatching, results>>
    BY <1>1, <1>4, <1>6, <2>1 DEF Dispatches, Resolved, Shape
  <2>2. CASE /\ pc' = [pc EXCEPT ![r] = "wait"]
             /\ dispatching' = [dispatching EXCEPT ![r] = DOMAIN kept]
             /\ results' = [results EXCEPT ![r] = [i \in DOMAIN kept |-> Zero]]
    <3>1. /\ pc'[r] = "wait" /\ dispatching'[r] = DOMAIN kept
          /\ DOMAIN results'[r] = DOMAIN kept
      BY <1>1, <2>2 DEF Shape
    <3>2. invocation'[r] \in [tool : Tools, target : Targets]
      BY <1>1, <1>4 DEF Dispatches
    <3> QED
      BY <1>7, <3>1, <3>2 DEF Dispatches, Resolved
  <2> QED
    BY <1>5, <2>1, <2>2
<1>14. AuditMatchesAnswer'
  <2>1. \A q \in Requests : pc[q] = "ok" => pc'[q] = "ok" /\ results'[q] = results[q]
    BY <1>1, <1>4, <1>5 DEF Shape
  <2> QED
    BY <1>1, <1>4, <2>1, RecordsStay
<1>15. \A q \in Requests \ {r} :
         /\ pc'[q] = pc[q] /\ invocation'[q] = invocation[q] /\ selected'[q] = selected[q]
         /\ dispatching'[q] = dispatching[q] /\ results'[q] = results[q] /\ seen'[q] = seen[q]
  BY <1>1, <1>4, <1>5 DEF Shape
<1> QED
  BY <1>7, <1>10, <1>12, <1>13, <1>14, <1>15, StepOfOne

\* A dispatch returns.
LEMMA ReturnInv ==
  ASSUME IInv, NEW r \in Requests, NEW i \in DOMAIN results[r], Return(r, i)
  PROVE  IInv'
<1>1. Shape /\ Resolution(r) /\ Dispatches(r) /\ AuditMatchesAnswer
  BY DEF IInv
<1>2. PICK status \in Statuses :
        results' = [results EXCEPT ![r][i] = Result(selected[r][i].id, status)]
  BY DEF Return, Statuses
<1>3. /\ i \in dispatching[r]
      /\ dispatching' = [dispatching EXCEPT ![r] = @ \ {i}]
      /\ UNCHANGED <<registryVars, configuration, pc, invocation, selected, audit, seen>>
  BY DEF Return
<1>4. pc[r] = "wait" /\ DOMAIN results[r] = DOMAIN selected[r]
  BY <1>1, <1>3 DEF Dispatches, Resolved
<1>5. selected[r][i].id \in ClusterIDs
  <2>1. selected[r] \in Seq(ClusterInfo)
    BY <1>1 DEF Shape
  <2>2. selected[r][i] \in ClusterInfo
    BY <1>4, <2>1
  <2> QED
    BY <2>2 DEF ClusterInfo
<1>6. PICK result \in Results : result = Result(selected[r][i].id, status)
  BY <1>5 DEF Results
<1>7. result.cluster = selected[r][i].id
  BY <1>6 DEF Result
<1>8. PICK before \in Seq(Results) : before = results[r]
  BY <1>1 DEF Shape
<1>9. PICK after \in Seq(Results) : after = [before EXCEPT ![i] = result]
  <2>1. before \in [1..Len(before) -> Results] /\ Len(before) \in Nat
    BY LenProperties
  <2>2. [before EXCEPT ![i] = result] \in [1..Len(before) -> Results]
    BY <2>1
  <2>3. [before EXCEPT ![i] = result] \in Seq(Results)
    BY <2>1, <2>2
  <2> QED
    BY <2>3
<1>10. results' = [results EXCEPT ![r] = after]
  BY <1>1, <1>2, <1>6, <1>8, <1>9 DEF Shape
<1>11. /\ results'[r] = after /\ dispatching'[r] = dispatching[r] \ {i}
       /\ DOMAIN after = DOMAIN before
       /\ after[i] = result /\ \A k \in DOMAIN before \ {i} : after[k] = before[k]
  BY <1>1, <1>3, <1>8, <1>9, <1>10 DEF Shape
<1>12. Shape'
  BY <1>1, <1>3, <1>10 DEF Shape, registryVars, configuration
<1>13. Dispatches(r)'
  BY <1>1, <1>3, <1>4, <1>7, <1>8, <1>11 DEF Dispatches, Resolved
<1>14. Resolution(r)'
  <2>1. Resolution(r)' = Resolution(r)
    BY <1>3 DEF Resolution, Resolving, Resolved, Chosen, FromSeen, Follows, registryVars
  <2> QED
    BY <1>1, <2>1
<1>15. AuditMatchesAnswer'
  <2>1. \A q \in Requests : pc[q] = "ok" => pc'[q] = "ok" /\ results'[q] = results[q]
    BY <1>1, <1>3, <1>4, <1>10 DEF Shape
  <2> QED
    BY <1>1, <1>3, <2>1, RecordsStay
<1>16. \A q \in Requests \ {r} :
         /\ pc'[q] = pc[q] /\ invocation'[q] = invocation[q] /\ selected'[q] = selected[q]
         /\ dispatching'[q] = dispatching[q] /\ results'[q] = results[q] /\ seen'[q] = seen[q]
  BY <1>1, <1>3, <1>10 DEF Shape
<1>17. clusters' = clusters
  BY <1>3 DEF registryVars
<1> QED
  BY <1>12, <1>13, <1>14, <1>15, <1>16, <1>17, StepOfOne

\* All have returned.
LEMMA GatherInv ==
  ASSUME IInv, NEW r \in Requests, Gather(r)
  PROVE  IInv'
<1>1. /\ pc[r] = "wait" /\ dispatching[r] = {}
      /\ pc' = [pc EXCEPT ![r] = IF hasAudit THEN "audit" ELSE "ok"]
      /\ UNCHANGED <<registryVars, configuration, invocation, selected, dispatching, results, audit, seen>>
  BY DEF Gather, Goto
<1>2. Shape /\ Resolution(r) /\ Dispatches(r) /\ AuditMatchesAnswer
  BY DEF IInv
<1>3. Shape'
  BY <1>1, <1>2 DEF Shape, PCs, registryVars, configuration
<1>4. pc'[r] \in {"audit", "ok"} /\ clusters' = clusters
  BY <1>1, <1>2 DEF Shape, registryVars
<1>5. Resolution(r)'
  BY <1>1, <1>2, <1>4 DEF Resolution, Resolving, Resolved, Chosen, FromSeen, Follows
<1>6. Dispatches(r)'
  BY <1>1, <1>2, <1>4 DEF Dispatches, Resolved
<1>7. AuditMatchesAnswer'
  BY <1>1, <1>2, RecordsStay DEF Shape
<1>8. \A q \in Requests \ {r} :
        /\ pc'[q] = pc[q] /\ invocation'[q] = invocation[q] /\ selected'[q] = selected[q]
        /\ dispatching'[q] = dispatching[q] /\ results'[q] = results[q] /\ seen'[q] = seen[q]
  BY <1>1, <1>2 DEF Shape
<1> QED
  BY <1>3, <1>4, <1>5, <1>6, <1>7, <1>8, StepOfOne

\* When all dispatches are in, the results stand where their clusters do.
LEMMA ResultsInPlace ==
  ASSUME NEW r \in Requests, Dispatches(r), pc[r] \in {"audit", "ok"}
  PROVE  /\ DOMAIN results[r] = DOMAIN selected[r]
         /\ \A i \in DOMAIN results[r] : results[r][i].cluster = selected[r][i].id
BY DEF Dispatches, Resolved

\* What RecordToolInvocation hands to the sink.
LEMMA RecordIsTrue ==
  ASSUME Shape, NEW r \in Requests, Dispatches(r), pc[r] \in {"audit", "ok"}
  PROVE  /\ AuditRecord(r) \in Records
         /\ AuditRecord(r).request = r
         /\ AuditRecord(r).tool = invocation[r].tool
         /\ AuditRecord(r).count = Len(AuditRecord(r).targeted)
         /\ AuditRecord(r).targeted = [i \in DOMAIN results[r] |-> results[r][i].cluster]
<1>1. PICK infos \in Seq(ClusterInfo) : infos = selected[r]
  BY DEF Shape
<1>2. PICK list \in Seq(Results) : list = results[r]
  BY DEF Shape
<1>3. /\ DOMAIN infos = 1..Len(infos) /\ Len(infos) \in Nat
      /\ DOMAIN list = 1..Len(list) /\ Len(list) \in Nat
  OBVIOUS
<1>4. DOMAIN list = DOMAIN infos /\ \A i \in DOMAIN list : list[i].cluster = infos[i].id
  BY <1>1, <1>2, ResultsInPlace
<1>5. Len(list) = Len(infos)
  <2>1. PICK a \in Nat, b \in Nat : a = Len(list) /\ b = Len(infos)
    BY <1>3
  <2>2. \A k : k \in 1..a <=> k \in 1..b
    BY <1>3, <1>4, <2>1
  <2>3. (a \in 1..a <=> a \in 1..b) /\ (b \in 1..a <=> b \in 1..b)
    BY <2>2
  <2>4. a <= b /\ b <= a
    BY <2>3
  <2> QED
    BY <2>1, <2>4
<1>6. PICK ids : ids = [i \in 1..Len(infos) |-> infos[i].id]
  OBVIOUS
<1>7. ids \in Seq(ClusterIDs) /\ Len(ids) = Len(infos)
  <2>1. ASSUME NEW i \in 1..Len(infos) PROVE infos[i].id \in ClusterIDs
    <3>1. infos[i] \in ClusterInfo
      OBVIOUS
    <3> QED
      BY <3>1 DEF ClusterInfo
  <2>2. ids \in [1..Len(infos) -> ClusterIDs]
    BY <1>6, <2>1
  <2> QED
    BY <1>3, <1>6, <2>2
<1>8. ids = [i \in DOMAIN list |-> list[i].cluster]
  BY <1>3, <1>4, <1>6
<1>9. IDs(selected[r]) = ids
  BY <1>1, <1>3, <1>6 DEF IDs
<1>10. AuditRecord(r) = [request |-> r, tool |-> invocation[r].tool, targeted |-> ids, count |-> Len(list)]
  BY <1>2, <1>9 DEF AuditRecord
<1>11. invocation[r].tool \in Tools \cup {"none"}
  BY DEF Shape, Invocations
<1>12. AuditRecord(r) \in Records
  BY <1>3, <1>7, <1>10, <1>11 DEF Records
<1> QED
  BY <1>2, <1>5, <1>7, <1>8, <1>10, <1>12

\* The sink is told, or fails.
LEMMA RecordToolInvocationInv ==
  ASSUME IInv, NEW r \in Requests, RecordToolInvocation(r)
  PROVE  IInv'
<1>1. /\ pc[r] = "audit" /\ pc' = [pc EXCEPT ![r] = "ok"]
      /\ UNCHANGED <<registryVars, configuration, invocation, selected, dispatching, results, seen>>
  BY DEF RecordToolInvocation, Goto
<1>2. Shape /\ Resolution(r) /\ Dispatches(r) /\ AuditMatchesAnswer
  BY DEF IInv
<1>3. PICK record \in Records : record = AuditRecord(r)
  BY <1>1, <1>2, RecordIsTrue
<1>4. /\ record.request = r
      /\ record.tool = invocation[r].tool
      /\ record.count = Len(record.targeted)
      /\ record.targeted = [i \in DOMAIN results[r] |-> results[r][i].cluster]
  BY <1>1, <1>2, <1>3, RecordIsTrue
<1>5. audit' = audit \/ audit' = Append(audit, record)
  BY <1>3 DEF RecordToolInvocation
<1>6. pc'[r] = "ok" /\ clusters' = clusters
  BY <1>1, <1>2 DEF Shape, registryVars
<1>7. Shape'
  <2>1. audit' \in Seq(Records)
    <3>1. audit \in Seq(Records)
      BY <1>2 DEF Shape
    <3>2. Append(audit, record) \in Seq(Records)
      BY <3>1, AppendProperties
    <3> QED
      BY <1>5, <3>1, <3>2
  <2> QED
    BY <1>1, <1>2, <2>1 DEF Shape, PCs, registryVars, configuration
<1>8. Resolution(r)'
  BY <1>1, <1>2, <1>6 DEF Resolution, Resolving, Resolved, Chosen, FromSeen, Follows
<1>9. Dispatches(r)'
  BY <1>1, <1>2, <1>6 DEF Dispatches, Resolved
<1>10. \A q \in Requests : pc[q] = "ok" =>
         pc'[q] = "ok" /\ invocation'[q] = invocation[q] /\ results'[q] = results[q]
  BY <1>1, <1>2 DEF Shape
<1>11. CASE audit' = audit
  <2>1. AuditMatchesAnswer'
    BY <1>2, <1>10, <1>11, RecordsStay
  <2>2. \A q \in Requests \ {r} :
          /\ pc'[q] = pc[q] /\ invocation'[q] = invocation[q] /\ selected'[q] = selected[q]
          /\ dispatching'[q] = dispatching[q] /\ results'[q] = results[q] /\ seen'[q] = seen[q]
    BY <1>1, <1>2 DEF Shape
  <2> QED
    BY <1>6, <1>7, <1>8, <1>9, <2>1, <2>2, StepOfOne
<1>12. CASE audit' = Append(audit, record)
  <2>1. PICK old \in Seq(Records) : old = audit
    BY <1>2 DEF Shape
  <2>2. PICK new \in Seq(Records) : new = audit'
    BY <1>7 DEF Shape
  <2>3. PICK n \in Nat : n = Len(old)
    OBVIOUS
  <2>4. /\ DOMAIN old = 1..n /\ DOMAIN new = 1..(n + 1)
        /\ new[n + 1] = record /\ \A k \in 1..n : new[k] = old[k]
    BY <1>12, <2>1, <2>2, <2>3
  <2>5. ASSUME NEW k \in 1..n PROVE old[k].request \in Requests /\ Matches(k, old[k].request)
    BY <1>2, <2>1, <2>4, RecordTypes, EachMatches
  <2>6. \A k \in 1..n : old[k].request # r
    BY <1>1, <2>5 DEF Matches
  <2>7. ASSUME NEW k \in 1..n PROVE Matches(k, new[k].request)'
    <3>1. PICK q \in Requests : q = old[k].request /\ q # r /\ Matches(k, q) /\ new[k] = old[k]
      BY <2>4, <2>5, <2>6
    <3>2. \A l \in 1..(n + 1) : new[l].request = q => l = k
      <4> SUFFICES ASSUME NEW l \in 1..(n + 1), new[l].request = q PROVE l = k
        OBVIOUS
      <4>1. l # n + 1
        BY <1>4, <2>4, <3>1
      <4>2. l \in 1..n
        BY <2>3, <4>1
      <4> QED
        BY <2>1, <2>4, <3>1, <4>2 DEF Matches
    <3>3. pc'[q] = "ok" /\ invocation'[q] = invocation[q] /\ results'[q] = results[q]
      BY <1>10, <3>1 DEF Matches
    <3>4. Matches(k, q)'
      BY <2>1, <2>2, <2>4, <3>1, <3>2, <3>3 DEF Matches
    <3> QED
      BY <3>1, <3>4
  <2>8. Matches(n + 1, new[n + 1].request)'
    <3>1. \A l \in 1..(n + 1) : new[l].request = r => l = n + 1
      BY <2>3, <2>4, <2>6
    <3>2. n + 1 \in 1..(n + 1)
      BY <2>3
    <3> QED
      BY <1>1, <1>4, <1>6, <2>2, <2>4, <3>1, <3>2 DEF Matches
  <2>9. (AuditMatchesAnswer <=> \A k \in DOMAIN audit : Matches(k, audit[k].request))'
    BY EachMatches, PTL
  <2>10. AuditMatchesAnswer'
    <3>1. ASSUME NEW k \in DOMAIN audit' PROVE Matches(k, audit[k].request)'
      <4>1. k \in 1..n \/ k = n + 1
        BY <2>2, <2>3, <2>4
      <4> QED
        BY <2>2, <2>7, <2>8, <4>1
    <3> QED
      BY <2>9, <3>1
  <2>11. \A q \in Requests \ {r} :
          /\ pc'[q] = pc[q] /\ invocation'[q] = invocation[q] /\ selected'[q] = selected[q]
          /\ dispatching'[q] = dispatching[q] /\ results'[q] = results[q] /\ seen'[q] = seen[q]
    BY <1>1, <1>2 DEF Shape
  <2> QED
    BY <1>6, <1>7, <1>8, <1>9, <2>10, <2>11, StepOfOne
<1> QED
  BY <1>5, <1>11, <1>12

-----------------------------------------------------------------------------
(* What is proved of the specification.                                    *)

\* The invariant holds of a new registry without invocations.
LEMMA Initially ==
  ASSUME Init
  PROVE  IInv
<1>1. clusters \in Registries
  <2>1. clusters \in [{} -> ClusterInfo] /\ \A c \in {} : clusters[c].id = c
    BY DEF Init, NewToolRegistry
  <2> QED
    BY <2>1, RegistryIntro
<1>2. Shape
  <2>1. \A S : <<>> \in Seq(S)
    OBVIOUS
  <2>2. tools \subseteq Tools
    BY RegistryAssumption DEF Init, NewToolRegistry
  <2>3. NoInvocation \in Invocations
    BY DEF NoInvocation, Invocations
  <2> QED
    BY <1>1, <2>1, <2>2, <2>3 DEF Init, Shape, PCs
<1>3. ASSUME NEW r \in Requests PROVE Resolution(r) /\ Dispatches(r)
  <2>1. pc[r] = "idle" /\ selected[r] = <<>> /\ dispatching[r] = {}
    BY DEF Init
  <2> QED
    BY <2>1 DEF Resolution, Dispatches, Resolving, Resolved
<1>4. AuditMatchesAnswer
  BY DEF Init, AuditMatchesAnswer
<1> QED
  BY <1>2, <1>3, <1>4 DEF IInv

\* Each step of the registry and of an invocation keeps it.
LEMMA Inductive ==
  ASSUME IInv, [Next]_vars
  PROVE  IInv'
<1>1. CASE RegistryStep
  BY <1>1, RegistryStepInv
<1>2. ASSUME NEW r \in Requests, NEW t \in Tools, NEW target \in Targets, Invoke(r, t, target)
      PROVE  IInv'
  BY <1>2, InvokeInv
<1>3. ASSUME NEW r \in Requests, InvokeStep(r) PROVE IInv'
  <2>1. CASE Lookup(r)
    BY <2>1, LookupInv
  <2>2. CASE ResolveNext(r)
    BY <2>2, ResolveNextInv
  <2>3. CASE ResolveAll(r)
    BY <2>3, ResolveAllInv
  <2>4. CASE Dispatch(r)
    BY <2>4, DispatchInv
  <2>5. CASE \E i \in DOMAIN results[r] : Return(r, i)
    BY <2>5, ReturnInv
  <2>6. CASE Gather(r)
    BY <2>6, GatherInv
  <2>7. CASE RecordToolInvocation(r)
    BY <2>7, RecordToolInvocationInv
  <2> QED
    BY <1>3, <2>1, <2>2, <2>3, <2>4, <2>5, <2>6, <2>7 DEF InvokeStep
<1>4. CASE UNCHANGED vars
  <2>1. /\ UNCHANGED registryVars /\ UNCHANGED configuration /\ UNCHANGED requestVars
        /\ audit' = audit /\ seen' = seen
    BY <1>4 DEF vars
  <2>2. Shape'
    BY <2>1 DEF IInv, Shape, registryVars, configuration, requestVars
  <2>3. ASSUME NEW q \in Requests PROVE Resolution(q)' /\ Dispatches(q)'
    <3>1. Resolution(q) /\ Dispatches(q)
      BY DEF IInv
    <3>2. seen[q] \subseteq seen'[q] /\ (Resolving(q) => clusters' \in seen'[q])
      BY <2>1, <3>1 DEF Resolution, registryVars
    <3> QED
      BY <2>1, <3>1, <3>2, Bystander DEF requestVars
  <2>4. AuditMatchesAnswer'
    BY <2>1, RecordsStay DEF IInv, requestVars
  <2> QED
    BY <2>2, <2>3, <2>4 DEF IInv
<1> QED
  BY <1>1, <1>2, <1>3, <1>4 DEF Next

\* The inductive invariant holds of every reachable state of the provider.
THEOREM Invariant == Spec => []IInv
<1>1. Init => IInv
  BY Initially
<1>2. IInv /\ [Next]_vars => IInv'
  BY Inductive
<1> QED
  BY <1>1, <1>2, PTL DEF Spec

\* Every variable of the registry and of Provider.Invoke keeps its type, for any
\* number of clusters, tools and invocations.
THEOREM TypeCorrect == Spec => []TypeOK
<1>1. IInv => TypeOK
  <2> SUFFICES ASSUME IInv PROVE TypeOK
    OBVIOUS
  <2>1. Shape
    BY DEF IInv
  <2>2. \A r \in Requests : Dispatches(r)
    BY DEF IInv
  <2> QED
    BY <2>1, <2>2 DEF TypeOK, Shape, Dispatches, Results
<1> QED
  BY <1>1, Invariant, PTL

\* However the goroutines of Invoke finish, the result of each cluster stands
\* where the cluster does.
THEOREM ResultsMatch == Spec => []ResultsMatchTargets
<1>1. IInv => ResultsMatchTargets
  BY ResultsInPlace DEF IInv, ResultsMatchTargets
<1> QED
  BY <1>1, Invariant, PTL

\* resolveClusters hands Invoke no cluster that was not registered with the tool
\* since Invoke was called.
THEOREM OnlyOffered == Spec => []TargetsOfferedTool
<1>1. IInv => TargetsOfferedTool
  <2> SUFFICES ASSUME IInv, NEW r \in Requests, Resolved(r), NEW k \in DOMAIN selected[r]
               PROVE  /\ invocation[r].tool \in selected[r][k].capabilities
                      /\ \E registry \in seen[r] :
                           /\ selected[r][k].id \in DOMAIN registry
                           /\ registry[selected[r][k].id] = selected[r][k]
    BY DEF TargetsOfferedTool
  <2>1. PICK infos \in Seq(ClusterInfo) :
          Chosen(r, infos) /\ selected[r] = Capable(infos, invocation[r].tool)
    BY DEF IInv, Resolution
  <2>2. PICK tool : tool = invocation[r].tool
    OBVIOUS
  <2>3. PICK kept \in Seq(ClusterInfo) :
          /\ kept = Capable(infos, tool)
          /\ \A l \in DOMAIN kept : \E i \in DOMAIN infos :
               tool \in infos[i].capabilities /\ kept[l] = infos[i]
    BY CapableElements
  <2>4. PICK i \in DOMAIN infos :
          invocation[r].tool \in infos[i].capabilities /\ selected[r][k] = infos[i]
    BY <2>1, <2>2, <2>3
  <2> QED
    BY <2>1, <2>4 DEF Chosen, FromSeen
<1> QED
  BY <1>1, Invariant, PTL

\* Without identifiers the clusters Invoke asks are those a single state of the
\* registry has in the group, or at all, with the tool.
THEOREM OneMoment == Spec => []TargetsOfOneMoment
<1>1. IInv => TargetsOfOneMoment
  <2> SUFFICES ASSUME IInv, NEW r \in Requests, Resolved(r), invocation[r].target.ids = <<>>
               PROVE  \E registry \in seen[r] :
                        selected[r] = Sorted(registry, {c \in DOMAIN registry :
                          /\ invocation[r].tool \in registry[c].capabilities
                          /\ invocation[r].target.group # NoGroup =>
                               invocation[r].target.group \in registry[c].groups})
    BY DEF TargetsOfOneMoment
  <2> DEFINE target == invocation[r].target
             tool == invocation[r].tool
             wanted(registry) == {c \in DOMAIN registry :
                                    /\ tool \in registry[c].capabilities
                                    /\ target.group # NoGroup => target.group \in registry[c].groups}
  <2>1. PICK infos \in Seq(ClusterInfo) : Chosen(r, infos) /\ selected[r] = Capable(infos, tool)
    BY DEF IInv, Resolution
  <2>2. PICK registry \in seen[r] : infos = SelectedBy(target, tool, registry)
    BY <2>1 DEF Chosen
  <2>3. registry \in Registries
    BY <2>2 DEF IInv, Shape
  <2>4. PICK ids \in SUBSET DOMAIN registry : ids = Candidates(target, tool, registry)
    BY DEF Candidates
  <2>5. infos = Sorted(registry, ids)
    BY <2>2, <2>3, <2>4, SelectedBySorted
  <2>6. {c \in ids : tool \in registry[c].capabilities} = wanted(registry)
    BY <2>4 DEF Candidates
  <2>7. selected[r] = Sorted(registry, wanted(registry))
    BY <2>1, <2>3, <2>5, <2>6, CapableOfSorted
  <2> QED
    BY <2>7
<1> QED
  BY <1>1, Invariant, PTL

\* Invoke leaves out a cluster that is asked for by name only if it was
\* registered without the tool.
THEOREM NamedKept == Spec => []NamedTargetsKept
<1>1. IInv => NamedTargetsKept
  <2> SUFFICES ASSUME IInv, NEW r \in Requests, Resolved(r), NEW i \in DOMAIN invocation[r].target.ids
               PROVE  \/ \E k \in DOMAIN selected[r] : selected[r][k].id = invocation[r].target.ids[i]
                      \/ \E registry \in seen[r] :
                           /\ invocation[r].target.ids[i] \in DOMAIN registry
                           /\ invocation[r].tool \notin registry[invocation[r].target.ids[i]].capabilities
    BY DEF NamedTargetsKept
  <2>1. PICK infos \in Seq(ClusterInfo) :
          Chosen(r, infos) /\ selected[r] = Capable(infos, invocation[r].tool)
    BY DEF IInv, Resolution
  <2>2. invocation[r].target.ids # <<>>
    OBVIOUS
  <2>3. i \in DOMAIN infos /\ infos[i].id = invocation[r].target.ids[i]
    BY <2>1, <2>2 DEF Chosen, Follows
  <2>4. CASE invocation[r].tool \in infos[i].capabilities
    BY <2>1, <2>3, <2>4, CapableElements
  <2>5. CASE invocation[r].tool \notin infos[i].capabilities
    BY <2>1, <2>3, <2>5 DEF Chosen, FromSeen
  <2> QED
    BY <2>4, <2>5
<1> QED
  BY <1>1, Invariant, PTL

\* The audit sink has at most one record of an invocation, of one that was
\* answered, and it says what the answer says.
THEOREM AuditMatches == Spec => []AuditMatchesAnswer
<1>1. IInv => AuditMatchesAnswer
  BY DEF IInv
<1> QED
  BY <1>1, Invariant, PTL

-----------------------------------------------------------------------------
(* An invocation only goes forward.                                        *)

Stage ==
  [idle |-> 0, lookup |-> 1, resolve |-> 2, filter |-> 3, wait |-> 4, audit |-> 5, ok |-> 6, error |-> 6]

\* r is further, has one more of the clusters it names, or one less to wait for.
Advances(r) ==
  \/ Stage[pc[r]] < Stage[pc'[r]]
  \/ /\ pc[r] = "resolve" /\ pc'[r] = "resolve"
     /\ Len(selected'[r]) = Len(selected[r]) + 1
     /\ Len(selected'[r]) < Len(invocation[r].target.ids)
     /\ invocation'[r] = invocation[r]
  \/ /\ pc[r] = "wait" /\ pc'[r] = "wait"
     /\ IsFiniteSet(dispatching[r])
     /\ dispatching'[r] \subseteq dispatching[r] /\ dispatching'[r] # dispatching[r]

Rests(r) ==
  UNCHANGED <<pc[r], invocation[r], selected[r], dispatching[r], results[r]>>

\* Whatever moves an invocation brings it nearer to its end, as the fairness of
\* FairSpec presumes; and what has been answered does not change any more.
StepsForward == [][\A r \in Requests : Advances(r) \/ Rests(r)]_vars

LEMMA ResolveNextAdvances ==
  ASSUME Shape, NEW r \in Requests, Resolution(r), Dispatches(r), ResolveNext(r)
  PROVE  Advances(r)
<1> DEFINE ids == invocation[r].target.ids
<1>1. /\ pc[r] = "resolve" /\ invocation' = invocation
      /\ \/ \E info : /\ selected' = [selected EXCEPT ![r] = Append(@, info)]
                      /\ info \in ClusterInfo
                      /\ pc' = [pc EXCEPT ![r] = IF Len(selected'[r]) = Len(ids) THEN "filter" ELSE "resolve"]
         \/ pc' = [pc EXCEPT ![r] = "error"]
  <2>1. clusters \in Registries
    BY DEF Shape
  <2>2. \A c \in DOMAIN clusters : clusters[c] \in ClusterInfo
    BY <2>1, RegistryTypes
  <2> QED
    BY <2>2 DEF ResolveNext, Goto
<1>2. CASE pc' = [pc EXCEPT ![r] = "error"]
  <2>1. pc'[r] = "error"
    BY <1>2 DEF Shape
  <2> QED
    BY <1>1, <2>1 DEF Advances, Stage
<1>3. ASSUME NEW info \in ClusterInfo, selected' = [selected EXCEPT ![r] = Append(@, info)],
             pc' = [pc EXCEPT ![r] = IF Len(selected'[r]) = Len(ids) THEN "filter" ELSE "resolve"]
      PROVE  Advances(r)
  <2>1. PICK list \in Seq(ClusterInfo) : list = selected[r]
    BY DEF Shape
  <2>2. selected'[r] = Append(list, info)
    BY <1>3, <2>1 DEF Shape
  <2>3. Len(selected'[r]) = Len(selected[r]) + 1 /\ Len(selected[r]) \in Nat
    BY <2>1, <2>2
  <2>4. pc'[r] = IF Len(selected'[r]) = Len(ids) THEN "filter" ELSE "resolve"
    BY <1>3 DEF Shape
  <2>5. CASE pc'[r] = "filter"
    BY <1>1, <2>5 DEF Advances, Stage
  <2>6. CASE pc'[r] = "resolve" /\ Len(selected'[r]) # Len(ids)
    <3>1. ids # <<>> /\ Len(selected[r]) < Len(ids)
      BY <1>1 DEF ResolveNext, Resolution
    <3>2. Len(ids) \in Nat
      <4>1. ids \in Seq(ClusterIDs)
        BY <1>1, ProviderAssumption DEF Dispatches
      <4> QED
        BY <4>1
    <3>3. Len(selected'[r]) < Len(ids)
      BY <2>3, <2>6, <3>1, <3>2
    <3> QED
      BY <1>1, <2>3, <2>6, <3>3 DEF Advances
  <2> QED
    BY <2>4, <2>5, <2>6
<1> QED
  BY <1>1, <1>2, <1>3

\* A dispatch that returns is one less.
LEMMA ReturnAdvances ==
  ASSUME Shape, NEW r \in Requests, Dispatches(r), NEW i \in DOMAIN results[r], Return(r, i)
  PROVE  Advances(r)
<1>1. /\ i \in dispatching[r] /\ dispatching' = [dispatching EXCEPT ![r] = @ \ {i}] /\ pc' = pc
  BY DEF Return
<1>2. pc[r] = "wait" /\ dispatching[r] \subseteq DOMAIN results[r]
  BY <1>1 DEF Dispatches
<1>3. IsFiniteSet(dispatching[r])
  <2>1. PICK list \in Seq(Results) : list = results[r]
    BY DEF Shape
  <2>2. IsFiniteSet(1..Len(list))
    BY FS_Interval
  <2> QED
    BY <1>2, <2>1, <2>2, FS_Subset
<1>4. dispatching'[r] = dispatching[r] \ {i}
  BY <1>1 DEF Shape
<1> QED
  BY <1>1, <1>2, <1>3, <1>4 DEF Advances

\* Invoke takes at most as many steps as its stages, the clusters it names and
\* the dispatches it waits for, and never takes one back.
THEOREM Forward == Spec => StepsForward
<1>1. ASSUME IInv, [Next]_vars, NEW r \in Requests PROVE Advances(r) \/ Rests(r)
  <2>1. Shape /\ Resolution(r) /\ Dispatches(r)
    BY <1>1 DEF IInv
  <2>2. CASE RegistryStep \/ UNCHANGED vars
    BY <2>2 DEF RegistryStep, requestVars, vars, Rests
  <2>3. ASSUME NEW q \in Requests, q # r, InvokeStep(q) PROVE Rests(r)
    BY <2>1, <2>3 DEF InvokeStep, Lookup, ResolveNext, ResolveAll, Dispatch, Return, Gather,
                      RecordToolInvocation, Goto, Shape, Rests
  <2>4. ASSUME NEW q \in Requests, NEW t \in Tools, NEW target \in Targets, Invoke(q, t, target)
        PROVE  Advances(r) \/ Rests(r)
    BY <2>1, <2>4 DEF Invoke, Goto, Shape, Rests, Advances, Stage
  <2>5. ASSUME InvokeStep(r) PROVE Advances(r)
    <3>1. CASE Lookup(r)
      BY <2>1, <3>1 DEF Lookup, Goto, Shape, Advances, Stage
    <3>2. CASE ResolveNext(r)
      BY <2>1, <3>2, ResolveNextAdvances
    <3>3. CASE ResolveAll(r)
      BY <2>1, <3>3 DEF ResolveAll, Goto, Shape, Advances, Stage
    <3>4. CASE Dispatch(r)
      BY <2>1, <3>4 DEF Dispatch, Goto, Shape, Advances, Stage
    <3>5. CASE \E i \in DOMAIN results[r] : Return(r, i)
      BY <2>1, <3>5, ReturnAdvances
    <3>6. CASE Gather(r)
      BY <2>1, <3>6 DEF Gather, Goto, Shape, Advances, Stage
    <3>7. CASE RecordToolInvocation(r)
      BY <2>1, <3>7 DEF RecordToolInvocation, Goto, Shape, Advances, Stage
    <3> QED
      BY <2>5, <3>1, <3>2, <3>3, <3>4, <3>5, <3>6, <3>7 DEF InvokeStep
  <2> QED
    BY <1>1, <2>2, <2>3, <2>4, <2>5 DEF Next
<1>2. IInv /\ [Next]_vars => \A r \in Requests : Advances(r) \/ Rests(r)
  BY <1>1
<1> QED
  BY <1>2, Invariant, PTL DEF Spec, StepsForward
=============================================================================
