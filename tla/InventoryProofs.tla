-------------------------- MODULE InventoryProofs --------------------------
(***************************************************************************)
(* What Inventory promises, for any cluster, any capacities and any number *)
(* of failures and restarts: bounded deltas, nothing lost that was not     *)
(* counted, and the promise of DeltaFeed.                                  *)
(***************************************************************************)
EXTENDS Inventory, SequenceTheorems, WellFoundedInduction, TLAPS

Events == Feed!InventoryEvents
Versions == Feed!Versions
Pictures == [Objects -> Versions]

-----------------------------------------------------------------------------
(* The latest event of an object.                                          *)

\* i is the last index at which seq speaks of o.
IsLatest(seq, o, i) ==
  /\ i \in DOMAIN seq /\ seq[i].obj = o
  /\ \A j \in DOMAIN seq : j > i => seq[j].obj # o

\* If seq speaks of o at all, there is a last such index.
LEMMA LatestExists ==
  ASSUME NEW seq \in Seq(Events), NEW o, \E i \in DOMAIN seq : seq[i].obj = o
  PROVE  \E i : IsLatest(seq, o, i)
<1> DEFINE T == {n \in Nat : \E i \in DOMAIN seq : seq[i].obj = o /\ n = Len(seq) - i}
<1>1. Len(seq) \in Nat /\ DOMAIN seq = 1..Len(seq)
  BY LenProperties
<1>2. T \subseteq Nat /\ T # {}
  <2>1. PICK i \in DOMAIN seq : seq[i].obj = o
    OBVIOUS
  <2>2. Len(seq) - i \in T
    BY <1>1, <2>1
  <2> QED
    BY <2>2
<1>3. PICK n \in T : \A m \in T : ~(<<m, n>> \in OpToRel(<, Nat))
  BY <1>2, NatLessThanWellFounded, WFMin
<1>4. \A m \in T : ~(m < n)
  BY <1>2, <1>3 DEF OpToRel
<1>5. PICK i \in DOMAIN seq : seq[i].obj = o /\ n = Len(seq) - i
  BY <1>3
<1>6. ASSUME NEW j \in DOMAIN seq, j > i, seq[j].obj = o PROVE FALSE
  <2>1. Len(seq) - j \in T /\ Len(seq) - j < n
    BY <1>1, <1>5, <1>6
  <2> QED
    BY <1>4, <2>1
<1> QED
  BY <1>5, <1>6 DEF IsLatest

\* LatestIndex is that index.
LEMMA LatestIs ==
  ASSUME NEW seq \in Seq(Events), NEW o, NEW i, IsLatest(seq, o, i)
  PROVE  Feed!LatestIndex(seq, o) = i
<1>1. DOMAIN seq = 1..Len(seq) /\ Len(seq) \in Nat
  BY LenProperties
<1>2. \A j : IsLatest(seq, o, j) => j = i
  BY <1>1 DEF IsLatest
<1>3. Feed!LatestIndex(seq, o) = CHOOSE j \in DOMAIN seq :
         seq[j].obj = o /\ \A k \in DOMAIN seq : k > j => seq[k].obj # o
  BY DEF Feed!LatestIndex
<1> QED
  BY <1>2, <1>3 DEF IsLatest

VersionOf(e) == [rv |-> e.rv, live |-> e.live]

\* What Apply makes of an object: the version of its latest event, or what it was.
LEMMA ApplyAt ==
  ASSUME NEW seq \in Seq(Events), NEW picture, NEW o \in Objects
  PROVE  /\ \A i : IsLatest(seq, o, i) => Feed!Apply(seq, picture)[o] = VersionOf(seq[i])
         /\ (\A i \in DOMAIN seq : seq[i].obj # o) => Feed!Apply(seq, picture)[o] = picture[o]
<1>1. ASSUME NEW i, IsLatest(seq, o, i)
      PROVE  Feed!Apply(seq, picture)[o] = VersionOf(seq[i])
  <2>1. \E j \in DOMAIN seq : seq[j].obj = o
    BY <1>1 DEF IsLatest
  <2>2. Feed!LatestIndex(seq, o) = i
    BY <1>1, LatestIs
  <2> QED
    BY <2>1, <2>2 DEF Feed!Apply, VersionOf
<1>2. (\A i \in DOMAIN seq : seq[i].obj # o) => Feed!Apply(seq, picture)[o] = picture[o]
  BY DEF Feed!Apply
<1> QED
  BY <1>1, <1>2

\* A picture stays a picture.
LEMMA ApplyType ==
  ASSUME NEW seq \in Seq(Events), NEW picture \in Pictures
  PROVE  Feed!Apply(seq, picture) \in Pictures
<1>1. ASSUME NEW o \in Objects PROVE Feed!Apply(seq, picture)[o] \in Versions
  <2>1. CASE \E i \in DOMAIN seq : seq[i].obj = o
    <3>1. PICK i : IsLatest(seq, o, i)
      BY <2>1, LatestExists
    <3>2. seq[i] \in Events
      BY <3>1, LenProperties DEF IsLatest
    <3>3. VersionOf(seq[i]) \in Versions
      BY <3>2 DEF VersionOf, Events, Versions, Feed!InventoryEvents, Feed!Versions
    <3>4. Feed!Apply(seq, picture)[o] = VersionOf(seq[i])
      BY <3>1, ApplyAt
    <3> QED
      BY <3>3, <3>4
  <2>2. CASE \A i \in DOMAIN seq : seq[i].obj # o
    BY <2>2, ApplyAt DEF Pictures
  <2> QED
    BY <2>1, <2>2
<1>2. Feed!Apply(seq, picture) = [o \in Objects |-> Feed!Apply(seq, picture)[o]]
  BY DEF Feed!Apply
<1> QED
  BY <1>1, <1>2 DEF Pictures

\* An empty delta changes nothing.
LEMMA ApplyEmpty ==
  ASSUME NEW picture \in Pictures
  PROVE  Feed!Apply(<<>>, picture) = picture
<1>1. <<>> \in Seq(Events) /\ DOMAIN <<>> = {}
  BY EmptySeq, LenProperties
<1>2. \A o \in Objects : Feed!Apply(<<>>, picture)[o] = picture[o]
  BY <1>1, ApplyAt
<1>3. Feed!Apply(<<>>, picture) \in Pictures
  BY <1>1, ApplyType
<1> QED
  BY <1>2, <1>3 DEF Pictures

\* One event after others decides on its object and on no other.
LEMMA ApplyAppend ==
  ASSUME NEW seq \in Seq(Events), NEW e \in Events, NEW picture, NEW o \in Objects
  PROVE  Feed!Apply(Append(seq, e), picture)[o] =
           IF e.obj = o THEN VersionOf(e) ELSE Feed!Apply(seq, picture)[o]
<1> DEFINE longer == Append(seq, e)
<1>1. /\ longer \in Seq(Events) /\ Len(seq) \in Nat
      /\ DOMAIN seq = 1..Len(seq) /\ DOMAIN longer = 1..(Len(seq) + 1)
      /\ \A i \in DOMAIN seq : longer[i] = seq[i]
      /\ longer[Len(seq) + 1] = e
  BY AppendProperties, LenProperties
<1> HIDE DEF longer
<1>2. CASE e.obj = o
  <2>1. IsLatest(longer, o, Len(seq) + 1)
    BY <1>1, <1>2 DEF IsLatest
  <2>2. Feed!Apply(longer, picture)[o] = VersionOf(e)
    <3>1. Feed!Apply(longer, picture)[o] = VersionOf(longer[Len(seq) + 1])
      BY <1>1, <2>1, ApplyAt
    <3> QED
      BY <1>1, <3>1
  <2> QED
    BY <1>2, <2>2, Zenon DEF longer
<1>3. CASE e.obj # o
  <2>1. CASE \E i \in DOMAIN seq : seq[i].obj = o
    <3>1. PICK i : IsLatest(seq, o, i)
      BY <2>1, LatestExists
    <3>2. IsLatest(longer, o, i) /\ longer[i] = seq[i]
      BY <1>1, <1>3, <3>1 DEF IsLatest
    <3>3. Feed!Apply(longer, picture)[o] = VersionOf(seq[i])
      BY <1>1, <3>2, ApplyAt
    <3>4. Feed!Apply(seq, picture)[o] = VersionOf(seq[i])
      BY <3>1, ApplyAt
    <3> QED
      BY <1>3, <3>3, <3>4, Zenon DEF longer
  <2>2. CASE \A i \in DOMAIN seq : seq[i].obj # o
    <3>1. \A i \in DOMAIN longer : longer[i].obj # o
      BY <1>1, <1>3, <2>2
    <3>2. Feed!Apply(longer, picture)[o] = picture[o]
      BY <1>1, <3>1, ApplyAt
    <3>3. Feed!Apply(seq, picture)[o] = picture[o]
      BY <2>2, ApplyAt
    <3> QED
      BY <1>3, <3>2, <3>3, Zenon DEF longer
  <2> QED
    BY <2>1, <2>2
<1> QED
  BY <1>2, <1>3

\* Events are applied one sequence after the other.
LEMMA ApplyConcat ==
  ASSUME NEW s \in Seq(Events), NEW t \in Seq(Events), NEW picture, NEW o \in Objects
  PROVE  Feed!Apply(s \o t, picture)[o] = Feed!Apply(t, Feed!Apply(s, picture))[o]
<1> DEFINE st == s \o t
<1>1. /\ st \in Seq(Events) /\ Len(s) \in Nat /\ Len(t) \in Nat
      /\ DOMAIN s = 1..Len(s) /\ DOMAIN t = 1..Len(t) /\ DOMAIN st = 1..(Len(s) + Len(t))
      /\ \A i \in DOMAIN s : st[i] = s[i]
      /\ \A i \in DOMAIN t : st[Len(s) + i] = t[i]
  <2>1. /\ st \in Seq(Events) /\ Len(s) \in Nat /\ Len(t) \in Nat
        /\ DOMAIN s = 1..Len(s) /\ DOMAIN t = 1..Len(t) /\ DOMAIN st = 1..Len(st)
        /\ Len(st) = Len(s) + Len(t)
        /\ \A i \in 1..(Len(s) + Len(t)) : st[i] = IF i <= Len(s) THEN s[i] ELSE t[i - Len(s)]
    BY ConcatProperties, LenProperties
  <2> HIDE DEF st
  <2> QED
    BY <2>1
<1> HIDE DEF st
<1>2. CASE \E i \in DOMAIN t : t[i].obj = o
  <2>1. PICK i : IsLatest(t, o, i)
    BY <1>2, LatestExists
  <2>2. IsLatest(st, o, Len(s) + i)
    <3>1. ASSUME NEW j \in DOMAIN st, j > Len(s) + i, st[j].obj = o PROVE FALSE
      <4>1. j - Len(s) \in DOMAIN t /\ j = Len(s) + (j - Len(s)) /\ j - Len(s) > i
        BY <1>1, <2>1, <3>1 DEF IsLatest
      <4>2. st[j] = t[j - Len(s)]
        BY <1>1, <4>1
      <4> QED
        BY <2>1, <3>1, <4>1, <4>2 DEF IsLatest
    <3> QED
      BY <1>1, <2>1, <3>1 DEF IsLatest
  <2>3. st[Len(s) + i] = t[i]
    BY <1>1, <2>1 DEF IsLatest
  <2>4. Feed!Apply(st, picture)[o] = VersionOf(t[i])
    BY <1>1, <2>2, <2>3, ApplyAt
  <2>5. Feed!Apply(t, Feed!Apply(s, picture))[o] = VersionOf(t[i])
    BY <2>1, ApplyAt
  <2> QED
    BY <2>4, <2>5, Zenon DEF st
<1>3. CASE \A i \in DOMAIN t : t[i].obj # o
  <2>1. Feed!Apply(t, Feed!Apply(s, picture))[o] = Feed!Apply(s, picture)[o]
    BY <1>3, ApplyAt
  <2>2. ASSUME NEW j \in DOMAIN st, st[j].obj = o PROVE j \in DOMAIN s /\ s[j].obj = o
    <3>1. CASE j > Len(s)
      <4>1. j - Len(s) \in DOMAIN t /\ st[j] = t[j - Len(s)]
        BY <1>1, <3>1
      <4> QED
        BY <1>3, <2>2, <4>1
    <3>2. CASE j <= Len(s)
      BY <1>1, <2>2, <3>2
    <3> QED
      BY <1>1, <3>1, <3>2
  <2>3. CASE \E i \in DOMAIN s : s[i].obj = o
    <3>1. PICK i : IsLatest(s, o, i)
      BY <2>3, LatestExists
    <3>2. IsLatest(st, o, i) /\ st[i] = s[i]
      BY <1>1, <2>2, <3>1 DEF IsLatest
    <3>3. Feed!Apply(st, picture)[o] = VersionOf(s[i])
      BY <1>1, <3>2, ApplyAt
    <3>4. Feed!Apply(s, picture)[o] = VersionOf(s[i])
      BY <3>1, ApplyAt
    <3> QED
      BY <2>1, <3>3, <3>4, Zenon DEF st
  <2>4. CASE \A i \in DOMAIN s : s[i].obj # o
    <3>1. \A i \in DOMAIN st : st[i].obj # o
      BY <2>2, <2>4
    <3>2. Feed!Apply(st, picture)[o] = picture[o]
      BY <1>1, <3>1, ApplyAt
    <3>3. Feed!Apply(s, picture)[o] = picture[o]
      BY <2>4, ApplyAt
    <3> QED
      BY <2>1, <3>2, <3>3, Zenon DEF st
  <2> QED
    BY <2>3, <2>4
<1> QED
  BY <1>2, <1>3

\* What becomes of an object depends on what was known of it and of no other.
LEMMA ApplyLocal ==
  ASSUME NEW seq \in Seq(Events), NEW p, NEW q, NEW o \in Objects, p[o] = q[o]
  PROVE  Feed!Apply(seq, p)[o] = Feed!Apply(seq, q)[o]
<1>1. CASE \E i \in DOMAIN seq : seq[i].obj = o
  BY <1>1, LatestExists, ApplyAt
<1>2. CASE \A i \in DOMAIN seq : seq[i].obj # o
  BY <1>2, ApplyAt
<1> QED
  BY <1>1, <1>2

\* A delta that is repeated changes nothing.
LEMMA ApplyTwice ==
  ASSUME NEW seq \in Seq(Events), NEW picture, NEW o \in Objects
  PROVE  Feed!Apply(seq, Feed!Apply(seq, picture))[o] = Feed!Apply(seq, picture)[o]
<1>1. CASE \E i \in DOMAIN seq : seq[i].obj = o
  <2>1. PICK i : IsLatest(seq, o, i)
    BY <1>1, LatestExists
  <2>2. \A p : Feed!Apply(seq, p)[o] = VersionOf(seq[i])
    BY <2>1, ApplyAt
  <2> QED
    BY <2>2
<1>2. CASE \A i \in DOMAIN seq : seq[i].obj # o
  BY <1>2, ApplyAt
<1> QED
  BY <1>1, <1>2

-----------------------------------------------------------------------------
(* Types and bounds.                                                       *)

\* The informer of a kind has events of objects of that kind only.
EventsOfKind ==
  \A k \in Kinds : \A i \in DOMAIN listener[k] : KindOf[listener[k][i].obj] = k

Control == TypeOK /\ DeltaBounds /\ EventsOfKind

LEMMA Types ==
  TypeOK => /\ world \in Pictures /\ initial \in Pictures /\ store \in Pictures /\ view \in Pictures
            /\ listener \in [Kinds -> Seq(Events)]
            /\ queue \in Seq(Events) /\ batch \in Seq(Events) /\ events \in Seq(Events)
BY DEF TypeOK, Pictures, Versions, Events

LEMMA AbsentType == Absent \in Versions /\ NoObjects \in Pictures
BY InventoryAssumption DEF Absent, NoObjects, Pictures, Versions, Feed!Absent, Feed!Versions

LEMMA EventType ==
  ASSUME NEW o \in Objects, NEW version \in Versions
  PROVE  /\ Feed!Event(o, version) \in Events
         /\ Feed!Event(o, version).obj = o
         /\ VersionOf(Feed!Event(o, version)) = version
BY DEF Feed!Event, Events, Versions, VersionOf, Feed!InventoryEvents, Feed!Versions

LEMMA InitControl == Init => Control
<1> SUFFICES ASSUME Init PROVE Control
  OBVIOUS
<1>1. world \in Pictures
  <2>1. [rv |-> 1, live |-> TRUE] \in Versions
    BY InventoryAssumption DEF Versions, Feed!Versions
  <2> QED
    BY <2>1, AbsentType DEF Init, Pictures
<1>2. <<>> \in Seq(Events) /\ Len(<<>>) = 0
  BY EmptySeq
<1>3. initial \in Pictures /\ store \in Pictures /\ view \in Pictures
  BY AbsentType DEF Init
<1>4. TypeOK
  BY <1>1, <1>2, <1>3, InventoryAssumption DEF Init, TypeOK, Pictures, Versions, Events
<1>5. DeltaBounds
  BY <1>2, InventoryAssumption DEF Init, DeltaBounds
<1>6. EventsOfKind
  BY DEF Init, EventsOfKind
<1> QED
  BY <1>4, <1>5, <1>6 DEF Control

\* The cluster and the lists of the informers.
LEMMA ListingControl ==
  ASSUME Control, \/ \E o \in Objects : Change(o)
                  \/ \E k \in Kinds : List(k)
  PROVE  Control'
<1> USE DEF Control
<1>1. ASSUME NEW o \in Objects, Change(o) PROVE world' \in Pictures
  <2>1. PICK live \in BOOLEAN : world' = [world EXCEPT ![o] = [rv |-> @.rv + 1, live |-> live]]
    BY <1>1 DEF Change
  <2>2. world[o].rv \in 0..MaxRv /\ world[o].rv < MaxRv
    BY <1>1, Types DEF Change, Pictures, Versions, Feed!Versions
  <2>3. [rv |-> world[o].rv + 1, live |-> live] \in Versions
    BY <2>2, InventoryAssumption DEF Versions, Feed!Versions
  <2> QED
    BY <2>1, <2>3, Types DEF Pictures
<1>2. ASSUME NEW k \in Kinds, List(k) PROVE initial' \in Pictures /\ listed' \subseteq Kinds
  BY <1>2, Types DEF List, Pictures, TypeOK
<1>3. CASE \E o \in Objects : Change(o)
  <2>1. PICK o \in Objects : Change(o)
    BY <1>3
  <2>2. UNCHANGED <<informerVars, runnerVars, view, restarts>>
    BY <2>1 DEF Change
  <2> QED
    BY <1>1, <2>1, <2>2, Types
    DEF TypeOK, Pictures, Versions, Events, DeltaBounds, EventsOfKind, informerVars, runnerVars
<1>4. CASE \E k \in Kinds : List(k)
  <2>1. PICK k \in Kinds : List(k)
    BY <1>4
  <2>2. UNCHANGED <<world, store, listener, runnerVars, view, restarts>>
    BY <2>1 DEF List
  <2> QED
    BY <1>2, <2>1, <2>2, Types
    DEF TypeOK, Pictures, Versions, Events, DeltaBounds, EventsOfKind, runnerVars
<1> QED
  BY <1>3, <1>4

\* A version gets into the store and its event to the handler.
LEMMA ObserveEffect ==
  ASSUME Control, NEW o \in Objects, NEW version \in Versions, Observe(o, version)
  PROVE  /\ store' \in Pictures /\ listener' \in [Kinds -> Seq(Events)]
         /\ store' = [store EXCEPT ![o] = version]
         /\ \A k \in Kinds : k # KindOf[o] => listener'[k] = listener[k]
         /\ listener'[KindOf[o]] = Append(listener[KindOf[o]], Feed!Event(o, version))
         /\ EventsOfKind'
<1>1. store' \in Pictures
  BY Types DEF Observe, Pictures, Control
<1>2. KindOf[o] \in Kinds
  BY InventoryAssumption
<1>3. Feed!Event(o, version) \in Events /\ Feed!Event(o, version).obj = o
  BY EventType
<1>4. listener[KindOf[o]] \in Seq(Events)
  BY <1>2, Types DEF Control
<1>5. /\ Append(listener[KindOf[o]], Feed!Event(o, version)) \in Seq(Events)
      /\ \A i \in DOMAIN Append(listener[KindOf[o]], Feed!Event(o, version)) :
           \/ i \in DOMAIN listener[KindOf[o]] /\
                Append(listener[KindOf[o]], Feed!Event(o, version))[i] = listener[KindOf[o]][i]
           \/ Append(listener[KindOf[o]], Feed!Event(o, version))[i] = Feed!Event(o, version)
  BY <1>3, <1>4, AppendProperties, LenProperties
<1>6. /\ \A k \in Kinds : k # KindOf[o] => listener'[k] = listener[k]
      /\ listener'[KindOf[o]] = Append(listener[KindOf[o]], Feed!Event(o, version))
      /\ store' = [store EXCEPT ![o] = version]
  BY <1>2, Types DEF Observe, Control
<1>7. listener' \in [Kinds -> Seq(Events)]
  BY <1>2, <1>5, Types DEF Observe, Control
<1>8. EventsOfKind'
  <2> SUFFICES ASSUME NEW k \in Kinds, NEW i \in DOMAIN listener'[k]
               PROVE  KindOf[listener'[k][i].obj] = k
    BY DEF EventsOfKind
  <2>1. CASE k # KindOf[o]
    BY <1>6, <2>1 DEF Control, EventsOfKind
  <2>2. CASE k = KindOf[o]
    <3>1. \/ i \in DOMAIN listener[k] /\ listener'[k][i] = listener[k][i]
          \/ listener'[k][i] = Feed!Event(o, version)
      BY <1>5, <1>6, <2>2
    <3> QED
      BY <1>3, <2>2, <3>1 DEF Control, EventsOfKind
  <2> QED
    BY <2>1, <2>2
<1> QED
  BY <1>1, <1>6, <1>7, <1>8

LEMMA ObservingControl ==
  ASSUME Control, NEW o \in Objects, PopInitial(o) \/ Watch(o)
  PROVE  Control'
<1> USE DEF Control
<1>1. CASE PopInitial(o)
  <2>1. Observe(o, initial[o]) /\ initial[o] \in Versions
    BY <1>1, Types DEF PopInitial, Pictures
  <2>2. initial' \in Pictures
    BY <1>1, AbsentType, Types DEF PopInitial, Pictures
  <2>3. UNCHANGED <<world, listed, runnerVars, view, restarts>>
    BY <1>1 DEF PopInitial
  <2> QED
    BY <2>1, <2>2, <2>3, ObserveEffect, Types
    DEF TypeOK, Pictures, Versions, Events, DeltaBounds, runnerVars
<1>2. CASE Watch(o)
  <2>1. Observe(o, world[o]) /\ world[o] \in Versions
    BY <1>2, Types DEF Watch, Pictures
  <2>2. UNCHANGED <<world, listed, initial, runnerVars, view, restarts>>
    BY <1>2 DEF Watch
  <2> QED
    BY <2>1, <2>2, ObserveEffect, Types
    DEF TypeOK, Pictures, Versions, Events, DeltaBounds, runnerVars
<1> QED
  BY <1>1, <1>2

\* The head of a sequence that goes to the end of another.
LEMMA HeadMoves ==
  ASSUME NEW s \in Seq(Events), NEW t \in Seq(Events), t # <<>>
  PROVE  /\ Head(t) \in Events /\ Head(t) = t[1] /\ 1 \in DOMAIN t
         /\ Tail(t) \in Seq(Events) /\ Len(Tail(t)) = Len(t) - 1
         /\ \A i \in DOMAIN Tail(t) : i + 1 \in DOMAIN t /\ Tail(t)[i] = t[i + 1]
         /\ Append(s, Head(t)) \in Seq(Events) /\ Len(Append(s, Head(t))) = Len(s) + 1
         /\ Append(s, Head(t)) # <<>>
         /\ Len(s) \in Nat /\ Len(t) \in Nat
<1>1. Len(s) \in Nat /\ Len(t) \in Nat /\ DOMAIN t = 1..Len(t) /\ Len(t) # 0
  BY LenProperties, EmptySeq
<1>2. /\ Head(t) \in Events /\ Tail(t) \in Seq(Events) /\ Len(Tail(t)) = Len(t) - 1
      /\ \A i \in 1..Len(Tail(t)) : Tail(t)[i] = t[i + 1]
  BY HeadTailProperties
<1>3. DOMAIN Tail(t) = 1..Len(Tail(t))
  BY <1>2, LenProperties
<1>4. Head(t) = t[1]
  OBVIOUS
<1>5. /\ Append(s, Head(t)) \in Seq(Events) /\ Len(Append(s, Head(t))) = Len(s) + 1
      /\ Append(s, Head(t)) # <<>>
  BY <1>2, AppendProperties
<1> QED
  BY <1>1, <1>2, <1>3, <1>4, <1>5

LEMMA EnqueueControl ==
  ASSUME Control, NEW k \in Kinds, Enqueue(k)
  PROVE  Control'
<1> USE DEF Control
<1>1. listener[k] \in Seq(Events) /\ listener[k] # <<>> /\ queue \in Seq(Events)
  BY Types DEF Enqueue
<1>2. listener' = [listener EXCEPT ![k] = Tail(listener[k])]
  BY DEF Enqueue
<1>3. listener' \in [Kinds -> Seq(Events)]
  <2>1. Tail(listener[k]) \in Seq(Events)
    BY <1>1, HeadMoves
  <2> QED
    BY <1>2, <2>1, Types
<1>4. EventsOfKind'
  <2> SUFFICES ASSUME NEW j \in Kinds, NEW i \in DOMAIN listener'[j]
               PROVE  KindOf[listener'[j][i].obj] = j
    BY DEF EventsOfKind
  <2>1. CASE j # k
    BY <1>2, <2>1, Types DEF EventsOfKind
  <2>2. CASE j = k
    <3>1. listener'[k] = Tail(listener[k])
      BY <1>2, Types
    <3>2. i + 1 \in DOMAIN listener[k] /\ listener'[k][i] = listener[k][i + 1]
      BY <1>1, <2>2, <3>1, HeadMoves
    <3> QED
      BY <2>2, <3>2 DEF EventsOfKind
  <2> QED
    BY <2>1, <2>2
<1>5. queue' \in Seq(Events) /\ Len(queue') <= QueueCap /\ failures' \in Nat
  <2>1. CASE Len(queue) < QueueCap
    <3>1. queue' = Append(queue, Head(listener[k])) /\ failures' = failures
      BY <2>1 DEF Enqueue
    <3>2. Append(queue, Head(listener[k])) \in Seq(Events)
          /\ Len(Append(queue, Head(listener[k]))) = Len(queue) + 1 /\ Len(queue) \in Nat
      BY <1>1, HeadMoves
    <3> QED
      BY <2>1, <3>1, <3>2, InventoryAssumption DEF TypeOK
  <2>2. CASE ~(Len(queue) < QueueCap)
    BY <1>1, <2>2 DEF Enqueue, TypeOK, DeltaBounds
  <2> QED
    BY <2>1, <2>2
<1>6. UNCHANGED <<world, listed, initial, store, run, batch, events, tries, view, restarts>>
  BY DEF Enqueue
<1>7. TypeOK'
  BY <1>3, <1>5, <1>6, Types DEF TypeOK, Pictures, Versions, Events
<1>8. DeltaBounds'
  BY <1>5, <1>6 DEF DeltaBounds
<1> QED
  BY <1>4, <1>7, <1>8

\* What flush does with the next event.
LEMMA TakeEventEffect ==
  ASSUME Control, TakeEvent
  PROVE  /\ run = "flush" /\ events = <<>> /\ queue # <<>>
         /\ Append(batch, Head(queue)) \in Seq(Events)
         /\ Append(batch, Head(queue)) # <<>>
         /\ queue' = Tail(queue) /\ Tail(queue) \in Seq(Events) /\ Len(Tail(queue)) < Len(queue)
         /\ \/ /\ run' = "send" /\ events' = Append(batch, Head(queue)) /\ batch' = <<>> /\ tries' = 0
               /\ Len(Append(batch, Head(queue))) = BatchSize
            \/ /\ batch' = Append(batch, Head(queue)) /\ UNCHANGED <<run, events, tries>>
               /\ Len(Append(batch, Head(queue))) < BatchSize
<1>1. run = "flush" /\ queue # <<>> /\ queue' = Tail(queue) /\ events = <<>>
  BY DEF TakeEvent, Control, DeltaBounds
<1>2. queue \in Seq(Events) /\ batch \in Seq(Events)
  BY Types DEF Control
<1>3. /\ Append(batch, Head(queue)) \in Seq(Events) /\ Append(batch, Head(queue)) # <<>>
      /\ Len(Append(batch, Head(queue))) = Len(batch) + 1
      /\ Tail(queue) \in Seq(Events) /\ Len(Tail(queue)) = Len(queue) - 1
      /\ Len(batch) \in Nat /\ Len(queue) \in Nat
  BY <1>1, <1>2, HeadMoves
<1>4. Len(batch) < BatchSize /\ BatchSize \in Nat
  BY InventoryAssumption DEF Control, DeltaBounds
<1> DEFINE b == Append(batch, Head(queue))
<1>5. IF Len(b) >= BatchSize THEN StartSend(b) ELSE batch' = b /\ UNCHANGED <<run, events, tries>>
  BY DEF TakeEvent
<1>6. Len(b) = Len(batch) + 1 /\ b \in Seq(Events) /\ b # <<>>
  BY <1>3
<1> HIDE DEF b
<1>7. \/ run' = "send" /\ events' = b /\ batch' = <<>> /\ tries' = 0 /\ Len(b) = BatchSize
      \/ batch' = b /\ UNCHANGED <<run, events, tries>> /\ Len(b) < BatchSize
  BY <1>3, <1>4, <1>5, <1>6 DEF StartSend
<1> QED
  BY <1>1, <1>3, <1>7 DEF b

LEMMA EmptyTypes == <<>> \in Seq(Events) /\ Len(<<>>) = 0
BY EmptySeq

LEMMA RunnerControl ==
  ASSUME Control, RunnerStep
  PROVE  Control'
<1> USE DEF Control
<1>1. /\ queue \in Seq(Events) /\ batch \in Seq(Events) /\ events \in Seq(Events)
      /\ world \in Pictures /\ initial \in Pictures /\ store \in Pictures /\ view \in Pictures
  BY Types
<1>2. CASE CacheSynced
  BY <1>1, <1>2 DEF CacheSynced, TypeOK, DeltaBounds, EventsOfKind, informerVars, Pictures, Versions, Events
<1>3. CASE TakeEvent
  <2>1. UNCHANGED <<world, informerVars, failures, view, restarts>>
    BY <1>3 DEF TakeEvent
  <2>2. /\ queue' \in Seq(Events) /\ batch' \in Seq(Events) /\ events' \in Seq(Events)
        /\ run' \in {"sync", "flush", "send"} /\ tries' \in Nat
    <3> DEFINE b == Append(batch, Head(queue))
    <3>1. /\ b \in Seq(Events) /\ Tail(queue) \in Seq(Events) /\ queue' = Tail(queue)
          /\ \/ run' = "send" /\ events' = b /\ batch' = <<>> /\ tries' = 0
             \/ batch' = b /\ UNCHANGED <<run, events, tries>>
      BY <1>3, TakeEventEffect, Zenon
    <3> HIDE DEF b
    <3>2. queue' \in Seq(Events)
      BY <3>1, Zenon
    <3>3. batch' \in Seq(Events) /\ events' \in Seq(Events)
      BY <1>1, <3>1, EmptyTypes, Zenon
    <3>4. run' \in {"sync", "flush", "send"} /\ tries' \in Nat
      <4>1. run \in {"sync", "flush", "send"} /\ tries \in Nat
        BY DEF TypeOK
      <4> QED
        BY <3>1, <4>1
    <3> QED
      BY <3>2, <3>3, <3>4
  <2>3. TypeOK'
    BY <1>1, <2>1, <2>2 DEF TypeOK, informerVars, Pictures, Versions, Events
  <2>4. Len(queue') <= QueueCap
    <3>1. Len(queue) \in Nat /\ Len(queue') \in Nat
      BY <1>1, <2>2, LenProperties
    <3> QED
      BY <1>3, <3>1, TakeEventEffect, InventoryAssumption DEF DeltaBounds
  <2>5. CASE run' = "send" /\ events' = Append(batch, Head(queue)) /\ batch' = <<>>
             /\ Len(Append(batch, Head(queue))) = BatchSize
    <3>1. Len(events') <= BatchSize /\ events' # <<>> /\ Len(batch') < BatchSize
      BY <1>3, <2>5, TakeEventEffect, EmptyTypes, InventoryAssumption
    <3> QED
      BY <2>1, <2>3, <2>4, <2>5, <3>1 DEF DeltaBounds, EventsOfKind, informerVars
  <2>6. CASE batch' = Append(batch, Head(queue)) /\ UNCHANGED <<run, events, tries>>
             /\ Len(Append(batch, Head(queue))) < BatchSize
    <3>1. Len(batch') < BatchSize /\ run' = "flush" /\ events' = <<>> /\ Len(events') <= BatchSize
      BY <1>3, <2>6, TakeEventEffect, EmptyTypes, InventoryAssumption
    <3> QED
      BY <2>1, <2>3, <2>4, <3>1 DEF DeltaBounds, EventsOfKind, informerVars
  <2> QED
    BY <1>3, <2>5, <2>6, TakeEventEffect
<1>4. CASE Tick
  <2>1. /\ run' = "send" /\ events' = batch /\ batch' = <<>> /\ tries' = 0 /\ batch # <<>>
        /\ UNCHANGED <<world, informerVars, queue, failures, view, restarts>>
    BY <1>4 DEF Tick, StartSend
  <2>2. TypeOK'
    BY <1>1, <2>1, EmptyTypes DEF TypeOK, informerVars, Pictures, Versions, Events
  <2>3. DeltaBounds'
    <3>1. Len(batch) \in Nat
      BY <1>1, LenProperties
    <3> QED
      BY <2>1, <3>1, EmptyTypes, InventoryAssumption DEF DeltaBounds
  <2>4. EventsOfKind'
    BY <2>1 DEF EventsOfKind, informerVars
  <2> QED
    BY <2>2, <2>3, <2>4
<1>5. CASE SendOk \/ SendFail
  <2>1. view' \in Pictures
    <3>1. Feed!Apply(events, view) \in Pictures
      BY <1>1, ApplyType
    <3> QED
      BY <1>1, <1>5, <3>1 DEF SendOk, SendFail
  <2>2. UNCHANGED <<world, informerVars, queue, batch, restarts>> /\ run = "send"
    BY <1>5 DEF SendOk, SendFail
  <2>3. /\ failures' \in Nat /\ tries' \in Nat
        /\ \/ run' = "flush" /\ events' = <<>>
           \/ UNCHANGED <<run, events>>
    BY <1>5 DEF SendOk, SendFail, Return, TypeOK
  <2>4. TypeOK'
    BY <1>1, <2>1, <2>2, <2>3, EmptyTypes DEF TypeOK, informerVars, Pictures, Versions, Events
  <2>5. DeltaBounds'
    BY <2>2, <2>3, EmptyTypes, InventoryAssumption DEF DeltaBounds
  <2>6. EventsOfKind'
    BY <2>2 DEF EventsOfKind, informerVars
  <2> QED
    BY <2>4, <2>5, <2>6
<1> QED
  BY <1>2, <1>3, <1>4, <1>5 DEF RunnerStep

LEMMA RestartControl ==
  ASSUME Control, Restart
  PROVE  Control'
<1> USE DEF Control
<1>1. world \in Pictures /\ view \in Pictures /\ restarts' \in 0..MaxRestarts
  BY Types, InventoryAssumption DEF Restart, TypeOK
<1>2. TypeOK'
  BY <1>1, EmptyTypes, AbsentType DEF Restart, TypeOK, Pictures, Versions, Events
<1>3. DeltaBounds'
  BY EmptyTypes, InventoryAssumption DEF Restart, DeltaBounds
<1>4. EventsOfKind'
  BY DEF Restart, EventsOfKind
<1> QED
  BY <1>2, <1>3, <1>4

\* Types, bounds and the kinds of the informers' events are inductive.
LEMMA ControlKept == Control /\ [Next]_vars => Control'
<1> SUFFICES ASSUME Control, [Next]_vars PROVE Control'
  OBVIOUS
<1>1. CASE UNCHANGED vars
  BY <1>1 DEF Control, TypeOK, DeltaBounds, EventsOfKind, vars, informerVars, runnerVars
<1> QED
  BY <1>1, ListingControl, ObservingControl, EnqueueControl, RunnerControl, RestartControl DEF Next

\* Every variable keeps its type.
THEOREM TypeCorrect == Spec => []TypeOK
<1>1. Spec => []Control
  BY InitControl, ControlKept, PTL DEF Spec
<1> QED
  BY <1>1, PTL DEF Control

\* The queue and the deltas never exceed their sizes, a full batch never waits,
\* and send has the only batch there is.
THEOREM Bounded == Spec => []DeltaBounds
<1>1. Spec => []Control
  BY InitControl, ControlKept, PTL DEF Spec
<1> QED
  BY <1>1, PTL DEF Control

-----------------------------------------------------------------------------
(* Nothing is lost without being counted.                                  *)

\* What the control plane will know of o when e, b, q and l have arrived.
Through(e, b, q, l, picture, o) ==
  Feed!Apply(l, Feed!Apply(q, Feed!Apply(b, Feed!Apply(e, picture))))[o]

\* What is on its way arrives stage by stage.
LEMMA Pipeline ==
  ASSUME NEW e \in Seq(Events), NEW b \in Seq(Events), NEW q \in Seq(Events), NEW l \in Seq(Events),
         NEW picture, NEW o \in Objects
  PROVE  Feed!Apply(e \o b \o q \o l, picture)[o] = Through(e, b, q, l, picture, o)
<1> DEFINE eb == e \o b
<1>1. eb \in Seq(Events) /\ Feed!Apply(eb, picture)[o] = Feed!Apply(b, Feed!Apply(e, picture))[o]
  BY ApplyConcat, ConcatProperties
<1> HIDE DEF eb
<1> DEFINE ebq == eb \o q
<1>2. ebq \in Seq(Events) /\ Feed!Apply(ebq, picture)[o] = Feed!Apply(q, Feed!Apply(eb, picture))[o]
  BY <1>1, ApplyConcat, ConcatProperties
<1> HIDE DEF ebq
<1>3. Feed!Apply(ebq \o l, picture)[o] = Feed!Apply(l, Feed!Apply(ebq, picture))[o]
  BY <1>2, ApplyConcat
<1>4. Feed!Apply(q, Feed!Apply(eb, picture))[o] =
        Feed!Apply(q, Feed!Apply(b, Feed!Apply(e, picture)))[o]
  BY <1>1, ApplyLocal
<1>5. Feed!Apply(l, Feed!Apply(ebq, picture))[o] = Through(e, b, q, l, picture, o)
  <2>1. Feed!Apply(ebq, picture)[o] = Feed!Apply(q, Feed!Apply(b, Feed!Apply(e, picture)))[o]
    BY <1>2, <1>4
  <2> QED
    BY <2>1, ApplyLocal DEF Through
<1> QED
  BY <1>3, <1>5, Zenon DEF ebq, eb

LEMMA ApplyNone ==
  ASSUME NEW picture, NEW o \in Objects
  PROVE  Feed!Apply(<<>>, picture)[o] = picture[o]
<1>1. DOMAIN <<>> = {} /\ <<>> \in Seq(Events)
  BY EmptySeq
<1> QED
  BY <1>1, ApplyAt

LEMMA ApplyOne ==
  ASSUME NEW one \in Seq(Events), Len(one) = 1, NEW picture, NEW o \in Objects
  PROVE  Feed!Apply(one, picture)[o] = IF one[1].obj = o THEN VersionOf(one[1]) ELSE picture[o]
<1>1. DOMAIN one = {1}
  BY LenProperties
<1>2. one[1].obj = o => IsLatest(one, o, 1)
  BY <1>1 DEF IsLatest
<1> QED
  BY <1>1, <1>2, ApplyAt

\* It does not matter on which side of the border between two sequences an event is.
LEMMA ApplyMove ==
  ASSUME NEW s \in Seq(Events), NEW t \in Seq(Events), t # <<>>, NEW picture, NEW o \in Objects
  PROVE  Feed!Apply(Tail(t), Feed!Apply(Append(s, Head(t)), picture))[o] =
           Feed!Apply(t, Feed!Apply(s, picture))[o]
<1> DEFINE h == Head(t)
           rest == Tail(t)
           one == <<h>>
<1>1. h \in Events /\ rest \in Seq(Events)
  BY HeadMoves
<1>2. one \in Seq(Events) /\ Len(one) = 1 /\ one[1] = h /\ t = one \o rest
  <2>1. t = <<h>> \o rest
    <3>1. Len(t) \in Nat \ {0}
      BY EmptySeq
    <3>2. SubSeq(t, 1, Len(t)) = <<t[1]>> \o SubSeq(t, 2, Len(t))
      BY <3>1, SubSeqRecursiveFirst
    <3>3. SubSeq(t, 1, Len(t)) = t
      BY SubSeqFull
    <3>4. rest = SubSeq(t, 2, Len(t))
      BY TailIsSubSeq
    <3> QED
      BY <3>2, <3>3, <3>4
  <2> HIDE DEF h, rest
  <2> QED
    BY <1>1, <2>1
<1>3. Feed!Apply(one, Feed!Apply(s, picture))[o] = Feed!Apply(Append(s, h), picture)[o]
  <2> HIDE DEF one, h
  <2>1. Feed!Apply(one, Feed!Apply(s, picture))[o] =
          IF h.obj = o THEN VersionOf(h) ELSE Feed!Apply(s, picture)[o]
    BY <1>2, ApplyOne
  <2>2. Feed!Apply(Append(s, h), picture)[o] = IF h.obj = o THEN VersionOf(h) ELSE Feed!Apply(s, picture)[o]
    BY <1>1, ApplyAppend
  <2> QED
    BY <2>1, <2>2, Zenon
<1> HIDE DEF one, h, rest
<1>4. Feed!Apply(one \o rest, Feed!Apply(s, picture))[o] =
        Feed!Apply(rest, Feed!Apply(one, Feed!Apply(s, picture)))[o]
  BY <1>1, <1>2, ApplyConcat
<1>5. Feed!Apply(rest, Feed!Apply(one, Feed!Apply(s, picture)))[o] =
        Feed!Apply(rest, Feed!Apply(Append(s, h), picture))[o]
  BY <1>1, <1>3, ApplyLocal
<1> QED
  BY <1>2, <1>4, <1>5, Zenon DEF h, rest

\* What the runner has between its queue and the control plane.
LEMMA RunnerPasses ==
  ASSUME Control, RunnerStep, failures' = failures, NEW o \in Objects
  PROVE  Feed!Apply(queue', Feed!Apply(batch', Feed!Apply(events', view')))[o] =
           Feed!Apply(queue, Feed!Apply(batch, Feed!Apply(events, view)))[o]
<1>1. /\ queue \in Seq(Events) /\ batch \in Seq(Events) /\ events \in Seq(Events)
      /\ failures \in Nat
  BY Types DEF Control, TypeOK
<1>2. CASE CacheSynced
  BY <1>2 DEF CacheSynced
<1>3. CASE TakeEvent
  <2>1. view' = view
    BY <1>3 DEF TakeEvent
  <2>2. events = <<>> /\ queue # <<>> /\ queue' = Tail(queue) /\ Tail(queue) \in Seq(Events)
        /\ Append(batch, Head(queue)) \in Seq(Events)
    BY <1>3, TakeEventEffect
  <2>3. \A v : Feed!Apply(Tail(queue), Feed!Apply(Append(batch, Head(queue)), v))[o] =
                 Feed!Apply(queue, Feed!Apply(batch, v))[o]
    BY <1>1, <2>2, ApplyMove
  <2> DEFINE b == Append(batch, Head(queue))
  <2>4. \/ events' = b /\ batch' = <<>>
        \/ events' = events /\ batch' = b
    BY <1>3, TakeEventEffect, Zenon
  <2>5. b \in Seq(Events) /\ queue' \in Seq(Events)
        /\ \A v : Feed!Apply(queue', Feed!Apply(b, v))[o] = Feed!Apply(queue, Feed!Apply(batch, v))[o]
    BY <2>2, <2>3, Zenon
  <2> HIDE DEF b
  <2>6. CASE events' = events /\ batch' = b
    BY <2>1, <2>5, <2>6, Zenon
  <2>7. CASE events' = b /\ batch' = <<>>
    <3>1. Feed!Apply(<<>>, Feed!Apply(b, view))[o] = Feed!Apply(b, view)[o]
      BY ApplyNone
    <3>2. Feed!Apply(queue', Feed!Apply(<<>>, Feed!Apply(b, view)))[o] =
            Feed!Apply(queue', Feed!Apply(b, view))[o]
      BY <2>5, <3>1, ApplyLocal
    <3>3. Feed!Apply(events, view)[o] = view[o]
      BY <2>2, ApplyNone
    <3>4. Feed!Apply(batch, Feed!Apply(events, view))[o] = Feed!Apply(batch, view)[o]
      BY <1>1, <3>3, ApplyLocal
    <3>5. Feed!Apply(queue, Feed!Apply(batch, Feed!Apply(events, view)))[o] =
            Feed!Apply(queue, Feed!Apply(batch, view))[o]
      BY <1>1, <3>4, ApplyLocal
    <3> QED
      BY <2>1, <2>5, <2>7, <3>2, <3>5, Zenon
  <2> QED
    BY <2>4, <2>6, <2>7
<1>4. CASE Tick
  <2>1. events = <<>> /\ events' = batch /\ batch' = <<>> /\ queue' = queue /\ view' = view
    BY <1>4 DEF Tick, StartSend, Control, DeltaBounds
  <2>2. Feed!Apply(<<>>, Feed!Apply(batch, view))[o] = Feed!Apply(batch, view)[o]
    BY ApplyNone
  <2>3. Feed!Apply(events, view)[o] = view[o]
    BY <2>1, ApplyNone
  <2>4. Feed!Apply(batch, Feed!Apply(events, view))[o] = Feed!Apply(batch, view)[o]
    BY <1>1, <2>3, ApplyLocal
  <2>5. Feed!Apply(queue, Feed!Apply(<<>>, Feed!Apply(batch, view)))[o] =
          Feed!Apply(queue, Feed!Apply(batch, Feed!Apply(events, view)))[o]
    BY <1>1, <2>2, <2>4, ApplyLocal
  <2> QED
    BY <2>1, <2>5, Zenon
<1>5. CASE SendOk
  <2>1. events' = <<>> /\ view' = Feed!Apply(events, view) /\ queue' = queue /\ batch' = batch
    BY <1>5 DEF SendOk, Return
  <2>2. Feed!Apply(<<>>, view')[o] = view'[o]
    BY ApplyNone
  <2>3. Feed!Apply(batch, Feed!Apply(<<>>, view'))[o] = Feed!Apply(batch, view')[o]
    BY <1>1, <2>2, ApplyLocal
  <2>4. Feed!Apply(queue, Feed!Apply(batch, Feed!Apply(<<>>, view')))[o] =
          Feed!Apply(queue, Feed!Apply(batch, view'))[o]
    BY <1>1, <2>3, ApplyLocal
  <2> QED
    BY <2>1, <2>4, Zenon
<1>6. CASE SendFail
  <2>1. UNCHANGED <<run, events>> /\ queue' = queue /\ batch' = batch
        /\ view' \in {view, Feed!Apply(events, view)}
    BY <1>1, <1>6 DEF SendFail
  <2>2. Feed!Apply(events, view')[o] = Feed!Apply(events, view)[o]
    BY <1>1, <2>1, ApplyTwice
  <2>3. Feed!Apply(batch, Feed!Apply(events, view'))[o] = Feed!Apply(batch, Feed!Apply(events, view))[o]
    BY <1>1, <2>2, ApplyLocal
  <2>4. Feed!Apply(queue, Feed!Apply(batch, Feed!Apply(events, view')))[o] =
          Feed!Apply(queue, Feed!Apply(batch, Feed!Apply(events, view)))[o]
    BY <1>1, <2>3, ApplyLocal
  <2> QED
    BY <2>1, <2>4, Zenon
<1> QED
  BY <1>2, <1>3, <1>4, <1>5, <1>6 DEF RunnerStep

\* NothingLostUncounted, one sequence after the other.
\* The agent has had an object, or was never there to hear that it is gone.
Told(o) == store[o] # Absent \/ restarts = 0

\* NothingLostUncounted, stage by stage, and in a first process for objects its
\* stores have not had too.
NothingLostOnTheWay ==
  failures = 0 => \A o \in Objects : Told(o) =>
    Through(events, batch, queue, listener[KindOf[o]], view, o) = store[o]

\* Stage by stage or all at once comes to the same.
LEMMA LostThrough == TypeOK /\ NothingLostOnTheWay => NothingLostUncounted
<1> SUFFICES ASSUME TypeOK, NothingLostOnTheWay PROVE NothingLostUncounted
  OBVIOUS
<1>1. ASSUME NEW o \in Objects
      PROVE  Feed!Apply(events \o batch \o queue \o listener[KindOf[o]], view)[o] =
               Through(events, batch, queue, listener[KindOf[o]], view, o)
  <2>1. listener[KindOf[o]] \in Seq(Events)
    BY Types, InventoryAssumption
  <2> QED
    BY <2>1, Types, Pipeline
<1> QED
  BY <1>1, Zenon DEF NothingLostUncounted, NothingLostOnTheWay, Told

\* No step takes an object the agent was told of out of the pipeline.
LEMMA Lossless ==
  ASSUME Control, NothingLostOnTheWay, Next, failures' = 0, NEW o \in Objects, Told(o)'
  PROVE  Through(events', batch', queue', listener'[KindOf[o]], view', o) = store'[o]
<1> DEFINE k == KindOf[o]
<1>1. /\ queue \in Seq(Events) /\ batch \in Seq(Events) /\ events \in Seq(Events)
      /\ k \in Kinds /\ listener[k] \in Seq(Events) /\ failures \in Nat
      /\ store \in Pictures
  BY Types, InventoryAssumption DEF Control, TypeOK
<1>2. failures = 0 /\ store'[o] = store[o] /\ restarts' = restarts =>
        Through(events, batch, queue, listener[k], view, o) = store[o]
  BY DEF NothingLostOnTheWay, Told
<1> HIDE DEF k
<1>3. CASE UNCHANGED <<store, listener, runnerVars, view, restarts>>
  BY <1>2, <1>3, Zenon DEF runnerVars, k
<1>4. ASSUME NEW p \in Objects, NEW version \in Versions, Observe(p, version),
             UNCHANGED <<runnerVars, view, restarts>>
      PROVE  Through(events', batch', queue', listener'[k], view', o) = store'[o]
  <2>1. /\ store' = [store EXCEPT ![p] = version]
        /\ \A j \in Kinds : j # KindOf[p] => listener'[j] = listener[j]
        /\ listener'[KindOf[p]] = Append(listener[KindOf[p]], Feed!Event(p, version))
    BY <1>4, ObserveEffect
  <2>2. /\ Feed!Event(p, version) \in Events /\ Feed!Event(p, version).obj = p
        /\ VersionOf(Feed!Event(p, version)) = version
    BY <1>4, EventType
  <2> DEFINE inner == Feed!Apply(queue, Feed!Apply(batch, Feed!Apply(events, view)))
  <2>3. UNCHANGED <<queue, batch, events, view>>
    BY <1>4 DEF runnerVars
  <2>4. \A picture : Feed!Apply(Append(listener[k], Feed!Event(p, version)), picture)[o] =
          IF p = o THEN version ELSE Feed!Apply(listener[k], picture)[o]
    BY <1>1, <2>2, ApplyAppend
  <2>5. CASE p = o
    <3>1. listener'[k] = Append(listener[k], Feed!Event(p, version)) /\ store'[o] = version
      BY <1>1, <2>1, <2>5, Zenon DEF k, Pictures
    <3> QED
      BY <2>3, <2>4, <2>5, <3>1, Zenon DEF Through
  <2>6. CASE p # o
    <3>1. store'[o] = store[o]
      BY <1>1, <2>1, <2>6 DEF Pictures
    <3>2. \A picture : Feed!Apply(listener'[k], picture)[o] = Feed!Apply(listener[k], picture)[o]
      BY <1>1, <2>1, <2>4, <2>6, Zenon
    <3>3. failures' = failures /\ restarts' = restarts
      BY <1>4 DEF runnerVars
    <3> QED
      BY <1>2, <2>3, <3>1, <3>2, <3>3, Zenon DEF Through
  <2> QED
    BY <2>5, <2>6
<1>5. ASSUME NEW j \in Kinds, Enqueue(j)
      PROVE  Through(events', batch', queue', listener'[k], view', o) = store'[o]
  <2>1. /\ queue' = Append(queue, Head(listener[j])) /\ failures' = failures
        /\ UNCHANGED <<store, batch, events, view, restarts>>
        /\ listener' = [listener EXCEPT ![j] = Tail(listener[j])]
        /\ listener[j] # <<>> /\ listener[j] \in Seq(Events)
    BY <1>1, <1>5, Types DEF Enqueue, Control
  <2> DEFINE inner == Feed!Apply(batch, Feed!Apply(events, view))
  <2>2. Feed!Apply(listener'[k], Feed!Apply(queue', inner))[o] =
          Feed!Apply(listener[k], Feed!Apply(queue, inner))[o]
    <3> HIDE DEF inner
    <3>1. CASE j = k
      <4>1. listener'[k] = Tail(listener[k])
        BY <1>1, <2>1, <3>1, Types DEF Control
      <4>2. Feed!Apply(Tail(listener[k]), Feed!Apply(Append(queue, Head(listener[k])), inner))[o] =
              Feed!Apply(listener[k], Feed!Apply(queue, inner))[o]
        BY <1>1, <2>1, <3>1, ApplyMove
      <4> QED
        BY <2>1, <3>1, <4>1, <4>2, Zenon
    <3>2. CASE j # k
      <4>1. listener'[k] = listener[k]
        BY <1>1, <2>1, <3>2, Types DEF Control
      <4>2. Head(listener[j]) \in Events /\ Head(listener[j]).obj # o
        <5>1. Head(listener[j]) \in Events /\ Head(listener[j]) = listener[j][1] /\ 1 \in DOMAIN listener[j]
          BY <2>1, HeadMoves
        <5> QED
          BY <3>2, <5>1 DEF Control, EventsOfKind, k
      <4>3. Feed!Apply(Append(queue, Head(listener[j])), inner)[o] = Feed!Apply(queue, inner)[o]
        BY <1>1, <4>2, ApplyAppend
      <4>4. Feed!Apply(queue', inner)[o] = Feed!Apply(queue, inner)[o]
        BY <2>1, <4>3, Zenon
      <4>5. Feed!Apply(listener[k], Feed!Apply(queue', inner))[o] =
              Feed!Apply(listener[k], Feed!Apply(queue, inner))[o]
        BY <1>1, <4>4, ApplyLocal
      <4> QED
        BY <4>1, <4>5, Zenon
    <3> QED
      BY <3>1, <3>2
  <2> QED
    BY <1>2, <2>1, <2>2, Zenon DEF Through
<1>6. CASE RunnerStep
  <2>1. UNCHANGED <<store, listener, restarts>> /\ failures' = failures
    BY <1>1, <1>6 DEF RunnerStep, CacheSynced, TakeEvent, Tick, SendOk, SendFail, informerVars
  <2>2. Feed!Apply(queue', Feed!Apply(batch', Feed!Apply(events', view')))[o] =
          Feed!Apply(queue, Feed!Apply(batch, Feed!Apply(events, view)))[o]
    BY <1>6, <2>1, RunnerPasses
  <2>3. Feed!Apply(listener[k], Feed!Apply(queue', Feed!Apply(batch', Feed!Apply(events', view'))))[o] =
          Feed!Apply(listener[k], Feed!Apply(queue, Feed!Apply(batch, Feed!Apply(events, view))))[o]
    <3>1. \A p, q : p[o] = q[o] => Feed!Apply(listener[k], p)[o] = Feed!Apply(listener[k], q)[o]
      BY <1>1, ApplyLocal
    <3> QED
      BY <2>2, <3>1, Zenon
  <2> QED
    BY <1>2, <2>1, <2>3, Zenon DEF Through, k
<1>7. CASE Restart
  <2>1. store' = NoObjects
    BY <1>7 DEF Restart
  <2>2. NoObjects[o] = Absent
    BY DEF NoObjects
  <2>3. restarts' # 0
    BY <1>7 DEF Restart, Control, TypeOK
  <2> QED
    BY <2>1, <2>2, <2>3, Zenon DEF Told
<1>8. ASSUME NEW p \in Objects, Change(p) \/ PopInitial(p) \/ Watch(p)
      PROVE  Through(events', batch', queue', listener'[k], view', o) = store'[o]
  <2>1. CASE Change(p)
    BY <1>3, <2>1 DEF Change, informerVars, k
  <2>2. CASE PopInitial(p)
    <3>1. initial[p] \in Versions
      BY Types DEF Pictures, Control
    <3> QED
      BY <1>4, <2>2, <3>1 DEF PopInitial
  <2>3. CASE Watch(p)
    <3>1. world[p] \in Versions
      BY Types DEF Pictures, Control
    <3> QED
      BY <1>4, <2>3, <3>1 DEF Watch
  <2> QED
    BY <1>8, <2>1, <2>2, <2>3
<1>9. ASSUME NEW j \in Kinds, List(j)
      PROVE  Through(events', batch', queue', listener'[k], view', o) = store'[o]
  BY <1>3, <1>9 DEF List, k
<1> QED
  BY <1>5, <1>6, <1>7, <1>8, <1>9 DEF Next, k

LEMMA LostInit == Init => NothingLostOnTheWay
<1> SUFFICES ASSUME Init, NEW o \in Objects
             PROVE  Through(<<>>, <<>>, <<>>, <<>>, view, o) = store[o]
  BY InventoryAssumption DEF Init, NothingLostOnTheWay
<1>1. store[o] = view[o]
  BY DEF Init
<1> QED
  BY <1>1, ApplyNone, Zenon DEF Through

LEMMA LostKept == Control /\ NothingLostOnTheWay /\ [Next]_vars => NothingLostOnTheWay'
<1> SUFFICES ASSUME Control, NothingLostOnTheWay, [Next]_vars PROVE NothingLostOnTheWay'
  OBVIOUS
<1>1. CASE UNCHANGED vars
  BY <1>1, Zenon DEF NothingLostOnTheWay, Told, vars, informerVars, runnerVars
<1>2. CASE Next
  BY <1>2, Lossless DEF NothingLostOnTheWay
<1> QED
  BY <1>1, <1>2

\* Until a failure is counted, whatever an informer's store holds of an object
\* is known to the control plane or on its way there, behind all older news:
\* the handler's enqueue, TakeEvent, the ticks, the deltas that are repeated
\* and a restart drop nothing.
THEOREM LostOnlyCounted == Spec => []NothingLostUncounted
<1>1. Spec => [](Control /\ NothingLostOnTheWay)
  BY InitControl, LostInit, ControlKept, LostKept, PTL DEF Spec
<1>2. Control /\ NothingLostOnTheWay => NothingLostUncounted
  BY LostThrough DEF Control
<1> QED
  BY <1>1, <1>2, PTL

\* With nothing under way and no failure counted, the control plane sees the
\* cluster as it is, but for objects that are gone, if there was a restart.
THEOREM QuietInSync == Spec => []QuietMeansInSync
<1>1. Spec => [](Control /\ NothingLostOnTheWay)
  BY InitControl, LostInit, ControlKept, LostKept, PTL DEF Spec
<1>2. Control /\ NothingLostOnTheWay => QuietMeansInSync
  <2> SUFFICES ASSUME Control, NothingLostOnTheWay, Quiet, failures = 0, NEW o \in Objects
               PROVE  InSync(o) \/ (restarts > 0 /\ ~world[o].live)
    BY DEF QuietMeansInSync
  <2>1. /\ queue = <<>> /\ batch = <<>> /\ events = <<>> /\ listener[KindOf[o]] = <<>>
        /\ store[o] = world[o] \/ ~(store[o].live \/ world[o].live)
    BY InventoryAssumption DEF Quiet, Control, DeltaBounds
  <2>2. CASE Told(o)
    <3>1. Through(events, batch, queue, listener[KindOf[o]], view, o) = store[o]
      BY <2>2 DEF NothingLostOnTheWay
    <3>2. Through(<<>>, <<>>, <<>>, <<>>, view, o) = view[o]
      BY ApplyNone, Zenon DEF Through
    <3>3. view[o] = store[o]
      BY <2>1, <3>1, <3>2, Zenon
    <3> QED
      BY <2>1, <3>3 DEF InSync
  <2>3. CASE ~Told(o)
    <3>1. ~world[o].live
      BY <2>1, <2>3 DEF Told, Absent, Feed!Absent
    <3>2. restarts > 0
      BY <2>3, InventoryAssumption DEF Told, Control, TypeOK
    <3> QED
      BY <3>1, <3>2
  <2> QED
    BY <2>2, <2>3
<1> QED
  BY <1>1, <1>2, PTL

-----------------------------------------------------------------------------
(* The promise to the control plane.                                       *)

\* Accepted and neither delivered nor given up: DeltaFeed's pending.
OnTheWay == events \o batch \o queue

\* Taking the first of t to the end of s moves nothing in s \o t.
LEMMA TakeMoves ==
  ASSUME NEW s \in Seq(Events), NEW t \in Seq(Events), t # <<>>
  PROVE  Append(s, Head(t)) \o Tail(t) = s \o t
<1> DEFINE one == <<Head(t)>>
           rest == Tail(t)
<1>1. Head(t) \in Events /\ rest \in Seq(Events) /\ one \in Seq(Events)
  BY HeadMoves
<1>2. t = one \o rest
  <2>1. Len(t) \in Nat \ {0}
    BY EmptySeq
  <2>2. SubSeq(t, 1, Len(t)) = <<t[1]>> \o SubSeq(t, 2, Len(t))
    BY <2>1, SubSeqRecursiveFirst
  <2>3. SubSeq(t, 1, Len(t)) = t /\ rest = SubSeq(t, 2, Len(t))
    BY SubSeqFull, TailIsSubSeq
  <2> QED
    BY <2>2, <2>3
<1>3. Append(s, Head(t)) = s \o one
  BY <1>1, AppendIsConcat
<1> HIDE DEF one, rest
<1>4. (s \o one) \o rest = s \o (one \o rest)
  BY <1>1, ConcatAssociative
<1> QED
  BY <1>2, <1>3, <1>4, Zenon DEF rest

\* The first of s \o t are s, and the others t.
LEMMA Split ==
  ASSUME NEW s \in Seq(Events), NEW t \in Seq(Events), s # <<>>
  PROVE  /\ SubSeq(s \o t, 1, Len(s)) = s
         /\ SubSeq(s \o t, Len(s) + 1, Len(s \o t)) = t
         /\ Len(s) <= Len(s \o t)
<1>1. /\ Len(s) \in Nat \ {0} /\ Len(t) \in Nat
      /\ s \o t \in Seq(Events) /\ Len(s \o t) = Len(s) + Len(t)
  BY EmptySeq, ConcatProperties
<1>2. SubSeq(s \o t, 1, Len(s)) = s
  <2>1. SubSeq(s \o t, 1, Len(s)) = SubSeq(s, 1, Len(s))
    BY <1>1, SubSeqOfConcat1
  <2> QED
    BY <2>1, SubSeqFull
<1>3. SubSeq(s \o t, Len(s) + 1, Len(s) + Len(t)) = t
  <2>1. CASE t = <<>>
    BY <1>1, <2>1, SubSeqEmpty
  <2>2. CASE t # <<>>
    <3>1. Len(t) # 0
      BY <2>2, EmptySeq
    <3>2. SubSeq(s \o t, Len(s) + 1, Len(s) + Len(t)) = SubSeq(t, Len(s) + 1 - Len(s), Len(s) + Len(t) - Len(s))
      BY <1>1, <3>1, SubSeqOfConcat2
    <3>3. SubSeq(t, Len(s) + 1 - Len(s), Len(s) + Len(t) - Len(s)) = SubSeq(t, 1, Len(t))
      BY <1>1
    <3> QED
      BY <3>2, <3>3, SubSeqFull
  <2> QED
    BY <2>1, <2>2
<1> QED
  BY <1>1, <1>2, <1>3

\* On its way to the control plane, from whatever stage the runner has it in.
LEMMA OnTheWayTypes ==
  ASSUME Control
  PROVE  /\ OnTheWay \in Seq(Events) /\ batch \o queue \in Seq(Events)
         /\ OnTheWay = events \o (batch \o queue)
         /\ events = <<>> => OnTheWay = batch \o queue
         /\ batch = <<>> => OnTheWay = events \o queue
<1>1. queue \in Seq(Events) /\ batch \in Seq(Events) /\ events \in Seq(Events)
  BY Types DEF Control
<1>2. events \o batch \in Seq(Events) /\ batch \o queue \in Seq(Events)
  BY <1>1, ConcatProperties
<1>3. OnTheWay \in Seq(Events)
  BY <1>1, <1>2, ConcatProperties DEF OnTheWay
<1>4. OnTheWay = events \o (batch \o queue)
  BY <1>1, ConcatAssociative DEF OnTheWay
<1>5. <<>> \o (batch \o queue) = batch \o queue /\ <<>> \o queue = queue
  BY <1>1, <1>2, ConcatEmptySeq
<1> QED
  BY <1>2, <1>3, <1>4, <1>5, Zenon

\* The handler's enqueue is an Accept, or a Refuse when the queue is full.
LEMMA EnqueueMapped ==
  ASSUME Control, NEW k \in Kinds, Enqueue(k)
  PROVE  \/ /\ OnTheWay' = Append(OnTheWay, Head(listener[k])) /\ Head(listener[k]) \in Events
            /\ queue' = Append(queue, Head(listener[k])) /\ UNCHANGED <<view, failures>>
         \/ failures' = failures + 1 /\ UNCHANGED <<OnTheWay, view, queue>>
<1>1. queue \in Seq(Events) /\ batch \in Seq(Events) /\ events \in Seq(Events)
  BY Types DEF Control
<1>2. listener[k] \in Seq(Events) /\ listener[k] # <<>>
  BY Types DEF Enqueue, Control
<1>3. PICK e : e = Head(listener[k])
  OBVIOUS
<1>4. e \in Events
  BY <1>2, <1>3, HeadMoves
<1>5. PICK eb \in Seq(Events) : eb = events \o batch
  BY <1>1, ConcatProperties
<1>6. eb \o Append(queue, e) = Append(eb \o queue, e)
  <2>1. PICK one \in Seq(Events) : one = <<e>>
    <3>1. <<e>> \in Seq(Events)
      BY <1>4
    <3> QED
      BY <3>1
  <2>2. Append(queue, e) = queue \o one /\ Append(eb \o queue, e) = (eb \o queue) \o one
    <3>1. eb \o queue \in Seq(Events)
      BY <1>1, ConcatProperties
    <3> QED
      BY <1>1, <1>4, <2>1, <3>1, AppendIsConcat
  <2>3. (eb \o queue) \o one = eb \o (queue \o one)
    BY <1>1, ConcatAssociative
  <2> QED
    BY <2>2, <2>3, Zenon
<1>7. CASE queue' = Append(queue, e) /\ UNCHANGED <<batch, events, view, failures>>
  <2>1. OnTheWay' = eb \o Append(queue, e) /\ OnTheWay = eb \o queue
    BY <1>5, <1>7, Zenon DEF OnTheWay
  <2> QED
    BY <1>3, <1>4, <1>6, <1>7, <2>1, Zenon
<1>8. CASE failures' = failures + 1 /\ UNCHANGED <<queue, batch, events, view>>
  BY <1>8, Zenon DEF OnTheWay
<1> QED
  BY <1>3, <1>7, <1>8 DEF Enqueue

\* Until it is sent an event only moves from the queue to the batch and from
\* the batch to the delta.
LEMMA MovesMapped ==
  ASSUME Control, TakeEvent \/ Tick
  PROVE  UNCHANGED <<OnTheWay, view, failures>>
<1>1. queue \in Seq(Events) /\ batch \in Seq(Events) /\ events \in Seq(Events) /\ <<>> \in Seq(Events)
  BY Types, EmptyTypes DEF Control
<1>2. CASE TakeEvent
  <2>1. PICK longer \in Seq(Events), rest \in Seq(Events) :
          /\ longer = Append(batch, Head(queue)) /\ rest = Tail(queue)
    BY <1>2, TakeEventEffect
  <2>2. longer \o rest = batch \o queue
    <3>1. queue # <<>>
      BY <1>2, TakeEventEffect
    <3> QED
      BY <1>1, <2>1, <3>1, TakeMoves, Zenon
  <2>3. /\ events = <<>> /\ queue' = rest /\ UNCHANGED <<view, failures>>
        /\ \/ events' = longer /\ batch' = <<>>
           \/ events' = <<>> /\ batch' = longer
    <3>1. UNCHANGED <<view, failures>>
      BY <1>2 DEF TakeEvent
    <3> QED
      BY <1>2, <2>1, <3>1, TakeEventEffect, Zenon
  <2>4. longer \o <<>> = longer /\ <<>> \o longer = longer /\ OnTheWay = batch \o queue
    BY <2>1, <2>3, ConcatEmptySeq, OnTheWayTypes
  <2>5. OnTheWay' = longer \o rest
    BY <2>3, <2>4, Zenon DEF OnTheWay
  <2> QED
    BY <2>2, <2>3, <2>4, <2>5, Zenon
<1>3. CASE Tick
  <2>1. /\ events' = batch /\ batch' = <<>> /\ events = <<>>
        /\ UNCHANGED <<queue, view, failures>>
    BY <1>3 DEF Tick, StartSend, Control, DeltaBounds
  <2>2. batch \o <<>> = batch /\ <<>> \o batch = batch
    BY <1>1, ConcatEmptySeq
  <2> QED
    BY <2>1, <2>2, Zenon DEF OnTheWay
<1> QED
  BY <1>2, <1>3

\* A delta that arrived, was given up, or is sent again: the events of send
\* are the first on their way.
LEMMA SendMapped ==
  ASSUME Control, SendOk \/ SendFail
  PROVE  \E n \in 1..BatchSize :
           /\ n <= Len(OnTheWay)
           /\ LET delta == SubSeq(OnTheWay, 1, n)
                  rest == SubSeq(OnTheWay, n + 1, Len(OnTheWay))
              IN  \/ view' = Feed!Apply(delta, view) /\ OnTheWay' = rest /\ UNCHANGED failures
                  \/ view' = Feed!Apply(delta, view) /\ UNCHANGED <<OnTheWay, failures>>
                  \/ /\ view' \in {view, Feed!Apply(delta, view)}
                     /\ OnTheWay' = rest /\ failures' = failures + 1
                  \/ UNCHANGED <<view, OnTheWay, failures>>
<1>1. events \in Seq(Events) /\ queue \in Seq(Events) /\ <<>> \in Seq(Events)
  BY Types, EmptyTypes DEF Control
<1>2. events # <<>> /\ batch = <<>> /\ Len(events) <= BatchSize /\ batch' = <<>> /\ queue' = queue
  BY DEF SendOk, SendFail, Control, DeltaBounds
<1>3. OnTheWay = events \o queue /\ OnTheWay' = events' \o queue
  <2>1. events' \o <<>> = events'
    <3>1. events' \in Seq(Events)
      BY <1>1 DEF SendOk, SendFail, Return
    <3> QED
      BY <3>1, ConcatEmptySeq
  <2> QED
    BY <1>2, <2>1, OnTheWayTypes, Zenon DEF OnTheWay
<1>4. events' = <<>> => OnTheWay' = queue
  <2>1. <<>> \o queue = queue
    BY <1>1, ConcatEmptySeq
  <2> QED
    BY <1>3, <2>1, Zenon
<1>5. events' = events => OnTheWay' = OnTheWay
  BY <1>3, Zenon
<1>6. /\ SubSeq(OnTheWay, 1, Len(events)) = events
      /\ SubSeq(OnTheWay, Len(events) + 1, Len(OnTheWay)) = queue
      /\ Len(events) <= Len(OnTheWay)
  BY <1>1, <1>2, <1>3, Split, Zenon
<1>7. Len(events) \in 1..BatchSize
  <2>1. Len(events) \in Nat \ {0}
    BY <1>1, <1>2, EmptySeq
  <2> QED
    BY <1>2, <2>1, InventoryAssumption
<1> DEFINE given == Feed!Apply(events, view)
<1>8. \/ view' = given /\ events' = <<>> /\ failures' = failures
      \/ view' \in {view, given} /\ events' = events /\ failures' = failures
      \/ view' \in {view, given} /\ events' = <<>> /\ failures' = failures + 1
  BY DEF SendOk, SendFail, Return
<1> HIDE DEF given
<1>9. \/ view' = given /\ OnTheWay' = queue /\ failures' = failures
      \/ view' = given /\ OnTheWay' = OnTheWay /\ failures' = failures
      \/ view' \in {view, given} /\ OnTheWay' = queue /\ failures' = failures + 1
      \/ view' = view /\ OnTheWay' = OnTheWay /\ failures' = failures
  <2> HIDE DEF OnTheWay
  <2> QED
    BY <1>4, <1>5, <1>8
<1> QED
  BY <1>6, <1>7, <1>9, Zenon DEF given

LEMMA InitMapped == Init => Feed!Init
BY ConcatEmptySeq, EmptyTypes DEF Init, NoObjects, Absent, Feed!Init, Feed!Absent

\* Every step is one of DeltaFeed's, or changes nothing of what it sees.
LEMMA NextMapped == Control /\ [Next]_vars => [Feed!Next]_Feed!vars
<1> SUFFICES ASSUME Control, [Next]_vars PROVE [Feed!Next]_Feed!vars
  OBVIOUS
<1>1. ASSUME UNCHANGED <<events, batch, queue, view, failures>>
      PROVE  UNCHANGED Feed!vars
  BY <1>1, Zenon DEF Feed!vars
<1>2. ASSUME NEW k \in Kinds, Enqueue(k)
      PROVE  Feed!Next
  <2>1. CASE /\ OnTheWay' = Append(OnTheWay, Head(listener[k])) /\ Head(listener[k]) \in Events
             /\ UNCHANGED <<view, failures>>
    <3>1. Feed!Accept(Head(listener[k]))
      BY <2>1, Zenon DEF OnTheWay, Feed!Accept
    <3> QED
      BY <2>1, <3>1, Zenon DEF Feed!Next, Events
  <2>2. CASE failures' = failures + 1 /\ UNCHANGED <<OnTheWay, view>>
    BY <2>2, Zenon DEF OnTheWay, Feed!Refuse, Feed!Next
  <2> QED
    BY <1>2, <2>1, <2>2, EnqueueMapped
<1>3. ASSUME TakeEvent \/ Tick
      PROVE  UNCHANGED Feed!vars
  BY <1>3, MovesMapped, Zenon DEF OnTheWay, Feed!vars
<1>4. ASSUME SendOk \/ SendFail
      PROVE  [Feed!Next]_Feed!vars
  BY <1>4, SendMapped, Zenon DEF OnTheWay, Feed!Deliver, Feed!DeliverUnnoticed, Feed!GiveUp,
     Feed!Delta, Feed!Rest, Feed!Next, Feed!vars
<1>5. ASSUME Restart
      PROVE  Feed!Next
  <2>1. <<>> \o <<>> \o <<>> = <<>>
    BY ConcatEmptySeq, EmptyTypes
  <2>2. queue' = <<>> /\ batch' = <<>> /\ events' = <<>> /\ failures' = 0 /\ view' = view
    BY <1>5 DEF Restart
  <2>3. Feed!Reset
    BY <2>1, <2>2, Zenon DEF Feed!Reset
  <2> QED
    BY <2>3 DEF Feed!Next
<1>6. CASE UNCHANGED vars
  BY <1>1, <1>6 DEF vars, runnerVars
<1>7. ASSUME NEW o \in Objects, Change(o) \/ PopInitial(o) \/ Watch(o)
      PROVE  UNCHANGED Feed!vars
  BY <1>1, <1>7 DEF Change, PopInitial, Watch, runnerVars
<1>8. ASSUME CacheSynced \/ \E k \in Kinds : List(k)
      PROVE  UNCHANGED Feed!vars
  BY <1>1, <1>8 DEF CacheSynced, List, runnerVars
<1> QED
  BY <1>2, <1>3, <1>4, <1>5, <1>6, <1>7, <1>8 DEF Next, RunnerStep

\* The runner implements the promise to the control plane: changes arrive in
\* the order the handlers accepted them, in deltas of at most BatchSize,
\* perhaps repeated, and one that does not arrive has been counted.
THEOREM Implements == Spec => KeepsPromise
<1>1. Spec => []Control
  BY InitControl, ControlKept, PTL DEF Spec
<1>2. Control /\ [Next]_vars => [Feed!Next]_Feed!vars
  BY NextMapped
<1> QED
  BY <1>1, <1>2, InitMapped, PTL DEF Spec, KeepsPromise, Feed!Spec

-----------------------------------------------------------------------------
(* The control plane's picture never goes back.                            *)

\* The versions that seq has of o.
RvsOf(seq, o) == {seq[i].rv : i \in {j \in DOMAIN seq : seq[j].obj = o}}

\* What seq has of o is in the order of its versions.
Ordered(seq, o) ==
  \A i, j \in DOMAIN seq :
    i < j /\ seq[i].obj = o /\ seq[j].obj = o => seq[i].rv <= seq[j].rv

\* A concatenation has what its parts have, in order if they are, one after the
\* other.
LEMMA RvsConcat ==
  ASSUME NEW s \in Seq(Events), NEW t \in Seq(Events), NEW o
  PROVE  /\ RvsOf(s \o t, o) = RvsOf(s, o) \cup RvsOf(t, o)
         /\ Ordered(s \o t, o) <=> /\ Ordered(s, o) /\ Ordered(t, o)
                                   /\ \A x \in RvsOf(s, o), y \in RvsOf(t, o) : x <= y
<1> DEFINE st == s \o t
<1>1. /\ st \in Seq(Events) /\ Len(s) \in Nat /\ Len(t) \in Nat
      /\ DOMAIN s = 1..Len(s) /\ DOMAIN t = 1..Len(t) /\ DOMAIN st = 1..(Len(s) + Len(t))
      /\ \A i \in 1..Len(s) : st[i] = s[i]
      /\ \A i \in 1..Len(t) : st[Len(s) + i] = t[i]
  <2>1. /\ st \in Seq(Events) /\ Len(st) = Len(s) + Len(t) /\ Len(s) \in Nat /\ Len(t) \in Nat
        /\ \A i \in 1..Len(s) + Len(t) : st[i] = IF i <= Len(s) THEN s[i] ELSE t[i - Len(s)]
    BY ConcatProperties, LenProperties
  <2>2. DOMAIN s = 1..Len(s) /\ DOMAIN t = 1..Len(t) /\ DOMAIN st = 1..Len(st)
    BY <2>1, LenProperties
  <2> HIDE DEF st
  <2>3. ASSUME NEW i \in 1..Len(t) PROVE st[Len(s) + i] = t[i]
    <3>1. Len(s) + i \in 1..Len(s) + Len(t) /\ ~(Len(s) + i <= Len(s)) /\ Len(s) + i - Len(s) = i
      BY <2>1
    <3> QED
      BY <2>1, <3>1
  <2>4. \A i \in 1..Len(s) : st[i] = s[i]
    BY <2>1
  <2> QED
    BY <2>1, <2>2, <2>3, <2>4
<1> HIDE DEF st
<1>2. \A i \in DOMAIN st : i \in 1..Len(s) \/ \E j \in 1..Len(t) : i = Len(s) + j
  <2> SUFFICES ASSUME NEW i \in DOMAIN st, i \notin 1..Len(s)
               PROVE  \E j \in 1..Len(t) : i = Len(s) + j
    OBVIOUS
  <2>1. i - Len(s) \in 1..Len(t) /\ i = Len(s) + (i - Len(s))
    BY <1>1
  <2> QED
    BY <2>1
<1>3. RvsOf(st, o) = RvsOf(s, o) \cup RvsOf(t, o)
  <2>1. ASSUME NEW x \in RvsOf(st, o) PROVE x \in RvsOf(s, o) \cup RvsOf(t, o)
    <3>1. PICK i \in DOMAIN st : st[i].obj = o /\ x = st[i].rv
      BY DEF RvsOf
    <3>2. CASE i \in 1..Len(s)
      BY <1>1, <3>1, <3>2 DEF RvsOf
    <3>3. ASSUME NEW j \in 1..Len(t), i = Len(s) + j PROVE x \in RvsOf(t, o)
      <4>1. st[i] = t[j] /\ j \in DOMAIN t
        BY <1>1, <3>3
      <4> QED
        BY <3>1, <4>1 DEF RvsOf
    <3> QED
      BY <1>2, <3>2, <3>3
  <2>2. ASSUME NEW x \in RvsOf(s, o) PROVE x \in RvsOf(st, o)
    <3>1. PICK i \in DOMAIN s : s[i].obj = o /\ x = s[i].rv
      BY DEF RvsOf
    <3>2. i \in DOMAIN st /\ st[i] = s[i]
      BY <1>1
    <3> QED
      BY <3>1, <3>2 DEF RvsOf
  <2>3. ASSUME NEW x \in RvsOf(t, o) PROVE x \in RvsOf(st, o)
    <3>1. PICK i \in DOMAIN t : t[i].obj = o /\ x = t[i].rv
      BY DEF RvsOf
    <3>2. Len(s) + i \in DOMAIN st /\ st[Len(s) + i] = t[i]
      BY <1>1
    <3> QED
      BY <3>1, <3>2 DEF RvsOf
  <2> QED
    BY <2>1, <2>2, <2>3
<1>4. ASSUME Ordered(st, o)
      PROVE  /\ Ordered(s, o) /\ Ordered(t, o)
             /\ \A x \in RvsOf(s, o), y \in RvsOf(t, o) : x <= y
  <2>1. Ordered(s, o)
    BY <1>1, <1>4 DEF Ordered
  <2>2. Ordered(t, o)
    <3> SUFFICES ASSUME NEW i \in DOMAIN t, NEW j \in DOMAIN t, i < j, t[i].obj = o, t[j].obj = o
                 PROVE  t[i].rv <= t[j].rv
      BY DEF Ordered
    <3>1. /\ Len(s) + i \in DOMAIN st /\ Len(s) + j \in DOMAIN st /\ Len(s) + i < Len(s) + j
          /\ st[Len(s) + i] = t[i] /\ st[Len(s) + j] = t[j]
      BY <1>1
    <3> QED
      BY <1>4, <3>1 DEF Ordered
  <2>3. ASSUME NEW x \in RvsOf(s, o), NEW y \in RvsOf(t, o) PROVE x <= y
    <3>1. PICK i \in DOMAIN s : s[i].obj = o /\ x = s[i].rv
      BY DEF RvsOf
    <3>2. PICK j \in DOMAIN t : t[j].obj = o /\ y = t[j].rv
      BY DEF RvsOf
    <3>3. i \in DOMAIN st /\ Len(s) + j \in DOMAIN st /\ i < Len(s) + j /\ st[i] = s[i] /\ st[Len(s) + j] = t[j]
      BY <1>1
    <3> QED
      BY <1>4, <3>1, <3>2, <3>3 DEF Ordered
  <2> QED
    BY <2>1, <2>2, <2>3
<1>5. ASSUME Ordered(s, o), Ordered(t, o), \A x \in RvsOf(s, o) : \A y \in RvsOf(t, o) : x <= y
      PROVE  Ordered(st, o)
  <2> SUFFICES ASSUME NEW i \in DOMAIN st, NEW j \in DOMAIN st, i < j, st[i].obj = o, st[j].obj = o
               PROVE  st[i].rv <= st[j].rv
    BY DEF Ordered
  <2>1. CASE i \in 1..Len(s) /\ j \in 1..Len(s)
    BY <1>1, <1>5, <2>1 DEF Ordered
  <2>2. CASE i \in 1..Len(s) /\ \E n \in 1..Len(t) : j = Len(s) + n
    BY <1>1, <1>5, <2>2 DEF RvsOf
  <2>3. CASE (\E m \in 1..Len(t) : i = Len(s) + m) /\ \E n \in 1..Len(t) : j = Len(s) + n
    <3>1. PICK m \in 1..Len(t), n \in 1..Len(t) : i = Len(s) + m /\ j = Len(s) + n
      BY <2>3
    <3>2. m < n /\ st[i] = t[m] /\ st[j] = t[n]
      BY <1>1, <3>1
    <3> QED
      BY <1>1, <1>5, <3>2 DEF Ordered
  <2>4. CASE (\E m \in 1..Len(t) : i = Len(s) + m) /\ j \in 1..Len(s)
    BY <1>1, <2>4
  <2> QED
    BY <1>2, <2>1, <2>2, <2>3, <2>4
<1> QED
  BY <1>3, <1>4, <1>5 DEF st

LEMMA RvsOne ==
  ASSUME NEW e \in Events, NEW o
  PROVE  /\ <<e>> \in Seq(Events)
         /\ RvsOf(<<e>>, o) = IF e.obj = o THEN {e.rv} ELSE {}
         /\ Ordered(<<e>>, o)
<1> DEFINE one == <<e>>
<1>1. one \in Seq(Events) /\ DOMAIN one = {1} /\ one[1] = e
  OBVIOUS
<1>2. e.rv \in Nat
  BY InventoryAssumption DEF Events, Feed!InventoryEvents
<1> HIDE DEF one
<1>3. RvsOf(one, o) = IF e.obj = o THEN {e.rv} ELSE {}
  BY <1>1 DEF RvsOf
<1>4. Ordered(one, o)
  BY <1>1, <1>2 DEF Ordered
<1> QED
  BY <1>1, <1>3, <1>4 DEF one

LEMMA RvsNone ==
  ASSUME NEW o
  PROVE  RvsOf(<<>>, o) = {} /\ Ordered(<<>>, o)
<1> DEFINE none == <<>>
<1>1. DOMAIN none = {}
  OBVIOUS
<1> HIDE DEF none
<1> QED
  BY <1>1 DEF RvsOf, Ordered, none

LEMMA RvsType ==
  ASSUME NEW s \in Seq(Events), NEW o
  PROVE  RvsOf(s, o) \subseteq Nat
<1> SUFFICES ASSUME NEW x \in RvsOf(s, o) PROVE x \in Nat
  OBVIOUS
<1>1. PICK i \in DOMAIN s : x = s[i].rv
  BY DEF RvsOf
<1>2. s[i] \in Events
  BY LenProperties
<1> QED
  BY <1>1, <1>2, InventoryAssumption DEF Events, Feed!InventoryEvents

\* A new event comes last.
LEMMA RvsAppend ==
  ASSUME NEW s \in Seq(Events), NEW e \in Events, NEW o
  PROVE  /\ RvsOf(Append(s, e), o) = RvsOf(s, o) \cup (IF e.obj = o THEN {e.rv} ELSE {})
         /\ Ordered(s, o) /\ (e.obj = o => \A x \in RvsOf(s, o) : x <= e.rv) => Ordered(Append(s, e), o)
<1>1. PICK one \in Seq(Events) : /\ one = <<e>> /\ Ordered(one, o)
                                 /\ RvsOf(one, o) = IF e.obj = o THEN {e.rv} ELSE {}
  BY RvsOne
<1>2. Append(s, e) = s \o one
  BY <1>1, AppendIsConcat
<1>3. /\ RvsOf(s \o one, o) = RvsOf(s, o) \cup RvsOf(one, o)
      /\ Ordered(s \o one, o) <=> /\ Ordered(s, o) /\ Ordered(one, o)
                                  /\ \A x \in RvsOf(s, o), y \in RvsOf(one, o) : x <= y
  BY RvsConcat
<1>4. /\ RvsOf(Append(s, e), o) = RvsOf(s, o) \cup RvsOf(one, o)
      /\ Ordered(Append(s, e), o) <=> /\ Ordered(s, o) /\ Ordered(one, o)
                                      /\ \A x \in RvsOf(s, o), y \in RvsOf(one, o) : x <= y
  BY <1>2, <1>3, Zenon
<1> DEFINE longer == Append(s, e)
<1>5. /\ RvsOf(longer, o) = RvsOf(s, o) \cup RvsOf(one, o)
      /\ Ordered(longer, o) <=> /\ Ordered(s, o) /\ Ordered(one, o)
                                /\ \A x \in RvsOf(s, o), y \in RvsOf(one, o) : x <= y
  BY <1>4, Zenon
<1> HIDE DEF longer
<1>6. /\ RvsOf(longer, o) = RvsOf(s, o) \cup (IF e.obj = o THEN {e.rv} ELSE {})
      /\ Ordered(s, o) /\ (e.obj = o => \A x \in RvsOf(s, o) : x <= e.rv) => Ordered(longer, o)
  BY <1>1, <1>5
<1> QED
  BY <1>6, Zenon DEF longer

\* The oldest event goes first.
LEMMA RvsTail ==
  ASSUME NEW t \in Seq(Events), t # <<>>, NEW o
  PROVE  /\ RvsOf(t, o) = RvsOf(Tail(t), o) \cup (IF Head(t).obj = o THEN {Head(t).rv} ELSE {})
         /\ Ordered(t, o) => /\ Ordered(Tail(t), o)
                             /\ Head(t).obj = o => \A y \in RvsOf(Tail(t), o) : Head(t).rv <= y
<1>1. PICK h \in Events, rest \in Seq(Events) : h = Head(t) /\ rest = Tail(t)
  BY HeadMoves
<1>2. PICK one \in Seq(Events) : /\ one = <<h>> /\ Ordered(one, o)
                                 /\ RvsOf(one, o) = IF h.obj = o THEN {h.rv} ELSE {}
  BY RvsOne
<1>3. t = one \o rest
  <2>1. Append(<<>>, h) \o rest = <<>> \o t
    BY <1>1, EmptyTypes, TakeMoves, Zenon
  <2>2. Append(<<>>, h) = one
    BY <1>2
  <2>3. <<>> \o t = t
    BY ConcatEmptySeq
  <2> QED
    BY <2>1, <2>2, <2>3, Zenon
<1>4. /\ RvsOf(one \o rest, o) = RvsOf(one, o) \cup RvsOf(rest, o)
      /\ Ordered(one \o rest, o) <=> /\ Ordered(one, o) /\ Ordered(rest, o)
                                     /\ \A x \in RvsOf(one, o), y \in RvsOf(rest, o) : x <= y
  BY RvsConcat
<1>5. /\ RvsOf(t, o) = RvsOf(one, o) \cup RvsOf(rest, o)
      /\ Ordered(t, o) => /\ Ordered(rest, o)
                          /\ \A x \in RvsOf(one, o), y \in RvsOf(rest, o) : x <= y
  BY <1>3, <1>4, Zenon
<1>6. RvsOf(t, o) = RvsOf(rest, o) \cup (IF h.obj = o THEN {h.rv} ELSE {})
  BY <1>2, <1>5
<1>7. Ordered(t, o) => /\ Ordered(rest, o)
                       /\ h.obj = o => \A y \in RvsOf(rest, o) : h.rv <= y
  BY <1>2, <1>5
<1> QED
  BY <1>1, <1>6, <1>7, Zenon

\* What the control plane has of o after a delta is of the delta, or as before.
LEMMA RvsApply ==
  ASSUME NEW s \in Seq(Events), NEW picture, NEW o \in Objects
  PROVE  IF RvsOf(s, o) = {} THEN Feed!Apply(s, picture)[o] = picture[o]
         ELSE Feed!Apply(s, picture)[o].rv \in RvsOf(s, o)
<1>1. CASE \E i \in DOMAIN s : s[i].obj = o
  <2>1. PICK i : IsLatest(s, o, i)
    BY <1>1, LatestExists
  <2>2. Feed!Apply(s, picture)[o] = VersionOf(s[i])
    BY <2>1, ApplyAt
  <2>3. s[i].rv \in RvsOf(s, o)
    BY <2>1 DEF IsLatest, RvsOf
  <2> QED
    BY <2>2, <2>3 DEF VersionOf
<1>2. CASE \A i \in DOMAIN s : s[i].obj # o
  <2>1. RvsOf(s, o) = {}
    BY <1>2 DEF RvsOf
  <2> QED
    BY <1>2, <2>1, ApplyAt
<1> QED
  BY <1>1, <1>2

\* The versions of o on their way behind the handler and in front of it.
Ahead(o) == RvsOf(OnTheWay, o)
Behind(o) == RvsOf(listener[KindOf[o]], o)

\* News of o travels in the order of its versions; none is newer than the
\* cluster, and what was not sent yet is no older than the control plane's
\* picture, nor is the picture after the delta that is being sent.  A first
\* list finds nothing of o on its way.
Ages(o) ==
  /\ Ordered(OnTheWay, o) /\ Ordered(listener[KindOf[o]], o)
  /\ \A x \in Ahead(o), y \in Behind(o) : x <= y
  /\ \A x \in Ahead(o) \cup Behind(o) : x <= world[o].rv
  /\ initial[o].rv <= world[o].rv /\ view[o].rv <= world[o].rv
  /\ \A x \in RvsOf(batch \o queue, o) \cup Behind(o) : view[o].rv <= x
  /\ view[o].rv <= Feed!Apply(events, view)[o].rv
  /\ initial[o] # Absent => KindOf[o] \in listed /\ view[o].rv <= initial[o].rv
  /\ initial[o] # Absent \/ KindOf[o] \notin listed => Ahead(o) = {} /\ Behind(o) = {}

InOrder == \A o \in Objects : Ages(o)
AgesTyped == Control /\ InOrder

LEMMA RvTypes ==
  ASSUME Control, NEW o \in Objects
  PROVE  /\ world[o].rv \in Nat /\ initial[o].rv \in Nat /\ view[o].rv \in Nat
         /\ Feed!Apply(events, view)[o].rv \in Nat
         /\ RvsOf(batch \o queue, o) \subseteq Nat /\ Ahead(o) \subseteq Nat /\ Behind(o) \subseteq Nat
         /\ KindOf[o] \in Kinds /\ listener[KindOf[o]] \in Seq(Events)
         /\ Ahead(o) = RvsOf(events, o) \cup RvsOf(batch \o queue, o)
<1>1. /\ world \in Pictures /\ initial \in Pictures /\ view \in Pictures
      /\ events \in Seq(Events) /\ KindOf[o] \in Kinds /\ listener[KindOf[o]] \in Seq(Events)
  BY Types, InventoryAssumption DEF Control
<1>2. Feed!Apply(events, view) \in Pictures
  BY <1>1, ApplyType
<1>3. \A picture \in Pictures : picture[o].rv \in Nat
  BY InventoryAssumption DEF Pictures, Versions, Feed!Versions
<1>4. OnTheWay \in Seq(Events) /\ batch \o queue \in Seq(Events) /\ OnTheWay = events \o (batch \o queue)
  BY OnTheWayTypes
<1>5. RvsOf(events \o (batch \o queue), o) = RvsOf(events, o) \cup RvsOf(batch \o queue, o)
  BY <1>1, <1>4, RvsConcat
<1>6. Ahead(o) = RvsOf(events, o) \cup RvsOf(batch \o queue, o)
  BY <1>4, <1>5, Zenon DEF Ahead
<1>7. RvsOf(batch \o queue, o) \subseteq Nat /\ Ahead(o) \subseteq Nat /\ Behind(o) \subseteq Nat
  BY <1>1, <1>4, RvsType, Zenon DEF Ahead, Behind
<1> QED
  BY <1>1, <1>2, <1>3, <1>6, <1>7, Zenon

\* The cluster changes, or an informer lists.
LEMMA ListingAges ==
  ASSUME AgesTyped, NEW o \in Objects,
         \/ \E p \in Objects : Change(p)
         \/ \E k \in Kinds : List(k)
  PROVE  Ages(o)'
<1>1. /\ world[o].rv \in Nat /\ initial[o].rv \in Nat /\ view[o].rv \in Nat
      /\ Ahead(o) \subseteq Nat /\ Behind(o) \subseteq Nat
  BY RvTypes DEF AgesTyped
<1>2. world \in Pictures /\ initial \in Pictures
  BY Types DEF AgesTyped, Control
<1>3. UNCHANGED <<listener, events, batch, queue, view>>
  BY DEF Change, List, informerVars, runnerVars
<1>4. /\ UNCHANGED <<OnTheWay, listener[KindOf[o]], batch \o queue, view[o],
                     Feed!Apply(events, view)[o], Ahead(o), Behind(o)>>
  BY <1>3, Zenon DEF OnTheWay, Ahead, Behind
<1>5. UNCHANGED <<RvsOf(batch \o queue, o), Ordered(OnTheWay, o), Ordered(listener[KindOf[o]], o)>>
  BY <1>3, Zenon DEF OnTheWay
<1> DEFINE after == Feed!Apply(events, view)[o].rv
           unsent == RvsOf(batch \o queue, o)
           ordered == Ordered(OnTheWay, o) /\ Ordered(listener[KindOf[o]], o)
<1>6. UNCHANGED <<after, unsent, ordered, view[o], Ahead(o), Behind(o)>>
  BY <1>4, <1>5, Zenon
<1>7. /\ ordered
      /\ \A x \in Ahead(o), y \in Behind(o) : x <= y
      /\ \A x \in Ahead(o) \cup Behind(o) : x <= world[o].rv
      /\ initial[o].rv <= world[o].rv /\ view[o].rv <= world[o].rv
      /\ \A x \in unsent \cup Behind(o) : view[o].rv <= x
      /\ view[o].rv <= after
      /\ initial[o] # Absent => KindOf[o] \in listed /\ view[o].rv <= initial[o].rv
      /\ initial[o] # Absent \/ KindOf[o] \notin listed => Ahead(o) = {} /\ Behind(o) = {}
  BY Zenon DEF AgesTyped, InOrder, Ages
<1>8. /\ world[o].rv <= world'[o].rv /\ world'[o].rv \in Nat
      /\ initial'[o].rv <= world'[o].rv
      /\ initial'[o] # Absent => KindOf[o] \in listed' /\ view[o].rv <= initial'[o].rv
      /\ initial'[o] # Absent \/ KindOf[o] \notin listed' => Ahead(o) = {} /\ Behind(o) = {}
  <2> HIDE DEF after, unsent, ordered
  <2>1. ASSUME NEW p \in Objects, Change(p) PROVE world[o].rv <= world'[o].rv /\ world'[o].rv \in Nat
    BY <1>1, <1>2, <2>1 DEF Change, Pictures
  <2>2. ASSUME NEW p \in Objects, Change(p) PROVE UNCHANGED <<initial, listed>>
    BY <2>2 DEF Change, informerVars
  <2>3. ASSUME NEW k \in Kinds, List(k)
        PROVE  /\ world' = world /\ k \notin listed /\ listed' = listed \cup {k}
               /\ \/ KindOf[o] = k /\ initial'[o] = world[o]
                  \/ initial'[o] = initial[o]
    BY <2>3 DEF List
  <2>4. CASE \E p \in Objects : Change(p)
    BY <1>1, <1>7, <2>1, <2>2, <2>4
  <2>5. CASE \E k \in Kinds : List(k)
    <3>1. PICK k \in Kinds : List(k)
      BY <2>5
    <3> QED
      BY <1>1, <1>7, <2>3, <3>1
  <2> QED
    BY <2>4, <2>5
<1>9. \A x \in Ahead(o) \cup Behind(o) \cup {view[o].rv} : x <= world'[o].rv
  <2> HIDE DEF after, unsent, ordered
  <2> QED
    BY <1>1, <1>7, <1>8
<1> QED
  BY <1>6, <1>7, <1>8, <1>9, Zenon DEF Ages

\* The store takes a version, and the handler will hear of it after all else.
LEMMA ObservingAges ==
  ASSUME AgesTyped, NEW o \in Objects, NEW p \in Objects, PopInitial(p) \/ Watch(p)
  PROVE  Ages(o)'
<1>1. /\ world[o].rv \in Nat /\ initial[o].rv \in Nat /\ view[o].rv \in Nat
      /\ Ahead(o) \subseteq Nat /\ Behind(o) \subseteq Nat
      /\ KindOf[o] \in Kinds /\ listener[KindOf[o]] \in Seq(Events)
  BY RvTypes DEF AgesTyped
<1>2. world \in Pictures /\ initial \in Pictures
  BY Types DEF AgesTyped, Control
<1>3. PICK version \in Versions :
        /\ Observe(p, version)
        /\ \/ version = initial[p] /\ initial[p] # Absent /\ initial' = [initial EXCEPT ![p] = Absent]
           \/ version = world[p] /\ KindOf[p] \in listed /\ initial[p] = Absent /\ initial' = initial
  <2>1. initial[p] \in Versions /\ world[p] \in Versions
    BY <1>2 DEF Pictures
  <2> QED
    BY <2>1 DEF PopInitial, Watch
<1>4. UNCHANGED <<world, listed, events, batch, queue, view>>
  BY DEF PopInitial, Watch, runnerVars
<1> DEFINE after == Feed!Apply(events, view)[o].rv
           unsent == RvsOf(batch \o queue, o)
           l == listener[KindOf[o]]
<1>5. UNCHANGED <<after, unsent, view[o], world[o], listed, OnTheWay, Ahead(o)>>
  BY <1>4, Zenon DEF OnTheWay, Ahead
<1>6. PICK e \in Events : /\ e = Feed!Event(p, version) /\ e.obj = p /\ e.rv = version.rv
                          /\ e.rv \in Nat
  <2>1. version.rv \in Nat
    BY InventoryAssumption DEF Versions, Feed!Versions
  <2> QED
    BY <2>1, EventType DEF Feed!Event
<1>7. IF KindOf[p] = KindOf[o] THEN l' = Append(l, e) ELSE l' = l
  BY <1>1, <1>3, <1>6, ObserveEffect DEF AgesTyped
<1>8. /\ Ordered(OnTheWay, o) /\ Ordered(l, o)
      /\ \A x \in Ahead(o), y \in Behind(o) : x <= y
      /\ \A x \in Ahead(o) \cup Behind(o) : x <= world[o].rv
      /\ initial[o].rv <= world[o].rv /\ view[o].rv <= world[o].rv
      /\ \A x \in unsent \cup Behind(o) : view[o].rv <= x
      /\ view[o].rv <= after
      /\ initial[o] # Absent => KindOf[o] \in listed /\ view[o].rv <= initial[o].rv
      /\ initial[o] # Absent \/ KindOf[o] \notin listed => Ahead(o) = {} /\ Behind(o) = {}
  BY Zenon DEF AgesTyped, InOrder, Ages
<1> DEFINE more == Append(l, e)
<1>9. /\ RvsOf(more, o) = RvsOf(l, o) \cup (IF p = o THEN {e.rv} ELSE {})
      /\ Ordered(l, o) /\ (p = o => \A x \in RvsOf(l, o) : x <= e.rv) => Ordered(more, o)
  BY <1>1, <1>6, RvsAppend
<1>10. Behind(o) = RvsOf(l, o) /\ Behind(o)' = RvsOf(l', o)
  BY DEF Behind
<1>11. IF KindOf[p] = KindOf[o] THEN l' = more ELSE l' = l
  BY <1>7, Zenon
<1> HIDE DEF after, unsent, l, more
<1>12. CASE p # o
  <2>1. initial'[o] = initial[o]
    BY <1>2, <1>3, <1>12 DEF Pictures
  <2>2. Behind(o)' = Behind(o) /\ Ordered(l', o)
    BY <1>8, <1>9, <1>10, <1>11, <1>12
  <2> QED
    BY <1>5, <1>8, <2>1, <2>2, Zenon DEF Ages, after, unsent, l
<1>13. CASE p = o
  <2>1. /\ \A x \in Ahead(o) \cup Behind(o) : x <= e.rv
        /\ e.rv <= world[o].rv /\ view[o].rv <= e.rv /\ KindOf[o] \in listed
    BY <1>1, <1>3, <1>6, <1>8, <1>13
  <2>2. initial'[o] = Absent /\ Absent.rv = 0
    BY <1>2, <1>3, <1>13 DEF Pictures, Absent, Feed!Absent
  <2>3. Behind(o)' = Behind(o) \cup {e.rv} /\ Ordered(l', o)
    BY <1>9, <1>10, <1>11, <1>13, <1>8, <2>1
  <2>4. /\ Ordered(OnTheWay', o) /\ Ordered(l', o)
        /\ \A x \in Ahead(o)', y \in Behind(o)' : x <= y
        /\ \A x \in Ahead(o)' \cup Behind(o)' : x <= world'[o].rv
        /\ initial'[o].rv <= world'[o].rv /\ view'[o].rv <= world'[o].rv
        /\ \A x \in unsent' \cup Behind(o)' : view'[o].rv <= x
        /\ view'[o].rv <= after'
        /\ KindOf[o] \in listed'
    BY <1>1, <1>5, <1>8, <2>1, <2>2, <2>3
  <2> QED
    BY <2>2, <2>4, Zenon DEF Ages, after, unsent, l
<1> QED
  BY <1>12, <1>13

\* The handler passes the oldest event on to the end of the queue, or drops it.
LEMMA EnqueueAges ==
  ASSUME AgesTyped, NEW o \in Objects, NEW k \in Kinds, Enqueue(k)
  PROVE  Ages(o)'
<1>1. /\ world[o].rv \in Nat /\ initial[o].rv \in Nat /\ view[o].rv \in Nat
      /\ Ahead(o) \subseteq Nat /\ Behind(o) \subseteq Nat
      /\ KindOf[o] \in Kinds /\ listener[KindOf[o]] \in Seq(Events)
  BY RvTypes DEF AgesTyped
<1>2. /\ queue \in Seq(Events) /\ batch \in Seq(Events) /\ OnTheWay \in Seq(Events)
      /\ listener \in [Kinds -> Seq(Events)] /\ listener[k] \in Seq(Events)
  BY Types, OnTheWayTypes DEF AgesTyped, Control
<1>3. /\ listener[k] # <<>> /\ listener' = [listener EXCEPT ![k] = Tail(listener[k])]
      /\ UNCHANGED <<world, initial, listed, events, batch, view>>
  BY DEF Enqueue
<1>4. PICK h \in Events, rest \in Seq(Events) : h = Head(listener[k]) /\ rest = Tail(listener[k])
  BY <1>2, <1>3, HeadMoves
<1> DEFINE after == Feed!Apply(events, view)[o].rv
           unsent == RvsOf(batch \o queue, o)
           l == listener[KindOf[o]]
           mine == IF h.obj = o THEN {h.rv} ELSE {}
<1>5. UNCHANGED <<after, view[o], world[o], initial[o], listed>>
  BY <1>3, Zenon
<1>6. /\ Ordered(OnTheWay, o) /\ Ordered(l, o)
      /\ \A x \in Ahead(o), y \in Behind(o) : x <= y
      /\ \A x \in Ahead(o) \cup Behind(o) : x <= world[o].rv
      /\ initial[o].rv <= world[o].rv /\ view[o].rv <= world[o].rv
      /\ \A x \in unsent \cup Behind(o) : view[o].rv <= x
      /\ view[o].rv <= after
      /\ initial[o] # Absent => KindOf[o] \in listed /\ view[o].rv <= initial[o].rv
      /\ initial[o] # Absent \/ KindOf[o] \notin listed => Ahead(o) = {} /\ Behind(o) = {}
  BY Zenon DEF AgesTyped, InOrder, Ages
\* What becomes of the handler's events of o.
<1>7. h.obj = o => KindOf[o] = k
  <2>1. h = listener[k][1] /\ 1 \in DOMAIN listener[k]
    BY <1>2, <1>3, <1>4, HeadMoves
  <2> QED
    BY <2>1 DEF AgesTyped, Control, EventsOfKind
<1>8. /\ Behind(o) = Behind(o)' \cup mine /\ Ordered(l', o)
      /\ h.obj = o => \A y \in Behind(o)' : h.rv <= y
  <2>1. CASE KindOf[o] = k
    <3>1. l = listener[k] /\ l' = rest
      BY <1>2, <1>3, <1>4, <2>1
    <3>2. /\ RvsOf(listener[k], o) = RvsOf(rest, o) \cup mine
          /\ Ordered(listener[k], o) => /\ Ordered(rest, o)
                                        /\ h.obj = o => \A y \in RvsOf(rest, o) : h.rv <= y
      BY <1>2, <1>3, <1>4, RvsTail, Zenon
    <3>3. Behind(o) = RvsOf(listener[k], o) /\ Behind(o)' = RvsOf(rest, o)
      BY <3>1, Zenon DEF Behind
    <3> QED
      BY <1>6, <3>1, <3>2, <3>3, Zenon
  <2>2. CASE KindOf[o] # k
    <3>1. l' = l
      BY <1>1, <1>2, <1>3, <2>2
    <3>2. Behind(o)' = Behind(o)
      BY <3>1, Zenon DEF Behind
    <3>3. mine = {} /\ h.obj # o
      BY <1>7, <2>2
    <3> HIDE DEF mine
    <3> QED
      BY <1>6, <3>1, <3>2, <3>3
  <2> QED
    BY <2>1, <2>2
\* What becomes of the events on their way.
<1>9. \/ /\ Ahead(o)' = Ahead(o) \cup mine /\ unsent' = unsent \cup mine
         /\ (h.obj = o => \A x \in Ahead(o) : x <= h.rv) => Ordered(OnTheWay', o)
      \/ /\ UNCHANGED <<Ahead(o), unsent>> /\ Ordered(OnTheWay', o)
  <2>1. CASE queue' = queue
    <3>1. OnTheWay' = OnTheWay /\ (batch \o queue)' = batch \o queue
      BY <1>3, <2>1, Zenon DEF OnTheWay
    <3> QED
      BY <1>6, <3>1, Zenon DEF Ahead
  <2>2. CASE OnTheWay' = Append(OnTheWay, Head(listener[k])) /\ queue' = Append(queue, Head(listener[k]))
    <3>1. OnTheWay' = Append(OnTheWay, h)
      BY <1>4, <2>2, Zenon
    <3>2. /\ RvsOf(Append(OnTheWay, h), o) = RvsOf(OnTheWay, o) \cup mine
          /\ Ordered(OnTheWay, o) /\ (h.obj = o => \A x \in RvsOf(OnTheWay, o) : x <= h.rv) =>
               Ordered(Append(OnTheWay, h), o)
      BY <1>2, RvsAppend, Zenon
    <3>3. unsent' = unsent \cup mine
      <4>1. RvsOf(Append(queue, h), o) = RvsOf(queue, o) \cup mine /\ Append(queue, h) \in Seq(Events)
        <5>1. RvsOf(Append(queue, h), o) = RvsOf(queue, o) \cup mine
          BY <1>2, RvsAppend, Zenon
        <5> QED
          BY <1>2, <5>1, AppendProperties
      <4>2. queue' = Append(queue, h) /\ batch' = batch
        BY <1>3, <1>4, <2>2, Zenon
      <4>3. queue' \in Seq(Events) /\ RvsOf(queue', o) = RvsOf(queue, o) \cup mine
        BY <4>1, <4>2, Zenon
      <4>4. unsent' = RvsOf(batch, o) \cup RvsOf(queue', o) /\ unsent = RvsOf(batch, o) \cup RvsOf(queue, o)
        <5>1. unsent = RvsOf(batch, o) \cup RvsOf(queue, o)
          BY <1>2, RvsConcat
        <5>2. RvsOf(batch \o queue', o) = RvsOf(batch, o) \cup RvsOf(queue', o)
          BY <1>2, <4>3, RvsConcat
        <5> QED
          BY <4>2, <5>1, <5>2, Zenon
      <4> HIDE DEF unsent, mine
      <4> QED
        BY <4>3, <4>4
    <3> QED
      BY <1>6, <3>1, <3>2, <3>3, Zenon DEF Ahead
  <2> QED
    BY <2>1, <2>2, EnqueueMapped, Zenon DEF AgesTyped
<1>10. /\ \A x \in mine : /\ view[o].rv <= x /\ x <= world[o].rv /\ x \in Nat
                          /\ \A y \in Ahead(o) : y <= x
                          /\ \A y \in Behind(o)' : x <= y
       /\ h.obj = o => \A x \in Ahead(o) : x <= h.rv
       /\ mine # {} => Behind(o) # {}
       /\ Behind(o)' \subseteq Behind(o)
  <2>1. h.obj = o => h.rv \in Behind(o)
    BY <1>8
  <2> QED
    BY <1>1, <1>6, <1>8, <2>1
<1> HIDE DEF after, unsent, l, mine
<1>11. /\ Ordered(OnTheWay', o) /\ Ordered(l', o)
       /\ \A x \in Ahead(o)', y \in Behind(o)' : x <= y
       /\ \A x \in Ahead(o)' \cup Behind(o)' : x <= world[o].rv
       /\ \A x \in unsent' \cup Behind(o)' : view[o].rv <= x
       /\ initial[o] # Absent \/ KindOf[o] \notin listed => Ahead(o)' = {} /\ Behind(o)' = {}
  BY <1>1, <1>6, <1>8, <1>9, <1>10
<1> QED
  BY <1>5, <1>6, <1>11, Zenon DEF Ages, after, unsent, l

LEMMA AheadParts ==
  ASSUME NEW e \in Seq(Events), NEW b \in Seq(Events), NEW q \in Seq(Events), NEW o
  PROVE  RvsOf(e \o b \o q, o) = RvsOf(e, o) \cup RvsOf(b \o q, o)
<1>1. PICK bq \in Seq(Events) : bq = b \o q
  BY ConcatProperties
<1>2. e \o b \o q = e \o bq
  BY <1>1, ConcatAssociative
<1>3. RvsOf(e \o bq, o) = RvsOf(e, o) \cup RvsOf(bq, o)
  BY <1>1, RvsConcat
<1> QED
  BY <1>1, <1>2, <1>3, Zenon

\* What moves between the stages keeps its place.
LEMMA MovesAges ==
  ASSUME AgesTyped, NEW o \in Objects, TakeEvent \/ Tick
  PROVE  Ages(o)'
<1>1. /\ world[o].rv \in Nat /\ view[o].rv \in Nat /\ Ahead(o) \subseteq Nat /\ Behind(o) \subseteq Nat
      /\ Ahead(o) = RvsOf(events, o) \cup RvsOf(batch \o queue, o)
  BY RvTypes DEF AgesTyped
<1>2. UNCHANGED <<world, listed, initial, listener, view>> /\ UNCHANGED OnTheWay
  <2>1. UNCHANGED <<world, listed, initial, listener, view>>
    BY DEF TakeEvent, Tick, informerVars
  <2> QED
    BY <2>1, MovesMapped, Zenon DEF AgesTyped
<1>3. events' \in Seq(Events) /\ batch' \in Seq(Events) /\ queue' \in Seq(Events)
  <2>1. Control'
    BY ControlKept DEF AgesTyped, Next, RunnerStep
  <2> QED
    BY <2>1 DEF Control, TypeOK, Events
<1> DEFINE after == Feed!Apply(events, view)[o].rv
           unsent == RvsOf(batch \o queue, o)
<1>4. /\ Ordered(OnTheWay, o) /\ Ordered(listener[KindOf[o]], o)
      /\ \A x \in Ahead(o), y \in Behind(o) : x <= y
      /\ \A x \in Ahead(o) \cup Behind(o) : x <= world[o].rv
      /\ initial[o].rv <= world[o].rv /\ view[o].rv <= world[o].rv
      /\ \A x \in unsent \cup Behind(o) : view[o].rv <= x
      /\ initial[o] # Absent => KindOf[o] \in listed /\ view[o].rv <= initial[o].rv
      /\ initial[o] # Absent \/ KindOf[o] \notin listed => Ahead(o) = {} /\ Behind(o) = {}
  BY Zenon DEF AgesTyped, InOrder, Ages
<1>5. UNCHANGED <<Ahead(o), Behind(o), Ordered(OnTheWay, o), Ordered(listener[KindOf[o]], o)>>
  BY <1>2, Zenon DEF Ahead, Behind
<1>6. Ahead(o) = RvsOf(events', o) \cup unsent'
  <2>1. RvsOf(OnTheWay', o) = RvsOf(events', o) \cup unsent'
    BY <1>3, AheadParts DEF OnTheWay
  <2> QED
    BY <1>2, <2>1, Zenon DEF Ahead
<1>7. Ahead(o) = unsent
  <2>1. events = <<>>
    BY TakeEventEffect DEF AgesTyped, Tick, Control, DeltaBounds
  <2>2. RvsOf(events, o) = {}
    BY <2>1, RvsNone, Zenon
  <2> QED
    BY <1>1, <2>2
<1>8. after' = view[o].rv \/ after' \in RvsOf(events', o)
  <2>1. IF RvsOf(events', o) = {} THEN Feed!Apply(events', view)[o] = view[o]
        ELSE Feed!Apply(events', view)[o].rv \in RvsOf(events', o)
    BY <1>3, RvsApply
  <2> QED
    BY <1>2, <2>1, Zenon
<1> HIDE DEF after, unsent
<1>9. view[o].rv <= after' /\ \A x \in unsent' \cup Behind(o) : view[o].rv <= x
  BY <1>1, <1>4, <1>6, <1>7, <1>8
<1> QED
  BY <1>2, <1>4, <1>5, <1>9, Zenon DEF Ages, after, unsent

\* A delta takes the picture to the latest it has of o, and all that is behind
\* it is as new.
LEMMA SendAges ==
  ASSUME AgesTyped, NEW o \in Objects, SendOk \/ SendFail
  PROVE  Ages(o)' /\ view[o].rv <= view'[o].rv
<1>1. /\ world[o].rv \in Nat /\ view[o].rv \in Nat /\ Ahead(o) \subseteq Nat /\ Behind(o) \subseteq Nat
      /\ initial[o].rv \in Nat
      /\ Ahead(o) = RvsOf(events, o) \cup RvsOf(batch \o queue, o)
      /\ Feed!Apply(events, view)[o].rv \in Nat
  BY RvTypes DEF AgesTyped
<1>2. events \in Seq(Events) /\ queue \in Seq(Events) /\ batch = <<>>
  BY Types DEF AgesTyped, Control, SendOk, SendFail, DeltaBounds
<1>3. /\ UNCHANGED <<world, listed, initial, listener, queue, batch>>
      /\ view' = view \/ view' = Feed!Apply(events, view)
      /\ events' = events \/ events' = <<>>
  BY DEF SendOk, SendFail, Return, informerVars
<1> DEFINE after == Feed!Apply(events, view)[o].rv
           unsent == RvsOf(batch \o queue, o)
           sent == RvsOf(events, o)
<1>4. /\ Ordered(OnTheWay, o) /\ Ordered(listener[KindOf[o]], o)
      /\ \A x \in Ahead(o), y \in Behind(o) : x <= y
      /\ \A x \in Ahead(o) \cup Behind(o) : x <= world[o].rv
      /\ initial[o].rv <= world[o].rv /\ view[o].rv <= world[o].rv
      /\ \A x \in unsent \cup Behind(o) : view[o].rv <= x
      /\ view[o].rv <= after
      /\ initial[o] # Absent => KindOf[o] \in listed /\ view[o].rv <= initial[o].rv
      /\ initial[o] # Absent \/ KindOf[o] \notin listed => Ahead(o) = {} /\ Behind(o) = {}
  BY Zenon DEF AgesTyped, InOrder, Ages
<1>5. /\ batch \o queue = queue /\ OnTheWay = events \o queue /\ unsent' = unsent
      /\ events' = events => OnTheWay' = OnTheWay
      /\ events' = <<>> => OnTheWay' = queue
  <2>1. <<>> \o queue = queue /\ <<>> \o <<>> = <<>> /\ OnTheWay = events \o queue
    BY <1>2, ConcatEmptySeq, EmptyTypes, OnTheWayTypes DEF AgesTyped
  <2>2. batch \o queue = queue
    BY <1>2, <2>1, Zenon
  <2>3. unsent' = unsent
    BY <1>3, Zenon
  <2>4. events' = events => OnTheWay' = OnTheWay
    BY <1>3, Zenon DEF OnTheWay
  <2>5. events' = <<>> => OnTheWay' = queue
    <3>1. events' = <<>> => OnTheWay' = <<>> \o <<>> \o queue
      BY <1>2, <1>3, Zenon DEF OnTheWay
    <3> QED
      BY <2>1, <3>1, Zenon
  <2> QED
    BY <2>1, <2>2, <2>3, <2>4, <2>5
<1>6. Ordered(queue, o) /\ unsent = RvsOf(queue, o) /\ \A x \in sent, y \in unsent : x <= y
  <2>1. Ordered(events \o queue, o) <=> /\ Ordered(events, o) /\ Ordered(queue, o)
                                        /\ \A x \in RvsOf(events, o), y \in RvsOf(queue, o) : x <= y
    BY <1>2, RvsConcat
  <2> QED
    BY <1>4, <1>5, <2>1, Zenon
<1>7. IF sent = {} THEN Feed!Apply(events, view)[o] = view[o] ELSE after \in sent
  BY <1>2, RvsApply
<1>8. \/ after' = view'[o].rv
      \/ after' = after /\ view' = view
  <2>1. CASE events' = <<>>
    <3>1. Feed!Apply(<<>>, view')[o] = view'[o]
      BY ApplyNone
    <3> QED
      BY <2>1, <3>1, Zenon
  <2>2. CASE events' = events /\ view' = view
    BY <2>2, Zenon
  <2>3. CASE events' = events /\ view' = Feed!Apply(events, view)
    <3>1. Feed!Apply(events, Feed!Apply(events, view))[o] = Feed!Apply(events, view)[o]
      BY <1>2, ApplyTwice
    <3> QED
      BY <2>3, <3>1, Zenon
  <2> QED
    BY <1>3, <2>1, <2>2, <2>3
<1>9. \/ view'[o].rv = view[o].rv
      \/ view'[o].rv = after /\ after \in sent
  <2>1. view' = view \/ view'[o] = Feed!Apply(events, view)[o]
    BY <1>3, Zenon
  <2> QED
    BY <1>7, <2>1, Zenon
<1>10. Behind(o)' = Behind(o) /\ UNCHANGED Ordered(listener[KindOf[o]], o)
  BY <1>3, Zenon DEF Behind
<1>11. Ordered(OnTheWay', o) /\ (Ahead(o)' = Ahead(o) \/ Ahead(o)' = unsent)
  <2>1. CASE events' = events
    <3>1. OnTheWay' = OnTheWay
      BY <1>5, <2>1, Zenon
    <3> QED
      BY <1>4, <3>1, Zenon DEF Ahead
  <2>2. CASE events' = <<>>
    <3>1. OnTheWay' = queue
      BY <1>5, <2>2, Zenon
    <3> QED
      BY <1>6, <3>1, Zenon DEF Ahead
  <2> QED
    BY <1>3, <2>1, <2>2
<1>12. UNCHANGED <<world, listed, initial>> /\ unsent' = unsent
  BY <1>3, <1>5, Zenon
<1>13. Ahead(o) = sent \cup unsent
  BY <1>1
<1> HIDE DEF after, unsent, sent
<1>14. /\ view[o].rv <= view'[o].rv
       /\ \A x \in Ahead(o)', y \in Behind(o)' : x <= y
       /\ \A x \in Ahead(o)' \cup Behind(o)' : x <= world'[o].rv
       /\ initial'[o].rv <= world'[o].rv /\ view'[o].rv <= world'[o].rv
       /\ \A x \in unsent' \cup Behind(o)' : view'[o].rv <= x
       /\ view'[o].rv <= after'
       /\ initial'[o] # Absent => KindOf[o] \in listed' /\ view'[o].rv <= initial'[o].rv
       /\ initial'[o] # Absent \/ KindOf[o] \notin listed' => Ahead(o)' = {} /\ Behind(o)' = {}
  <2>1. view[o].rv <= view'[o].rv /\ view'[o].rv <= world[o].rv /\ view'[o].rv \in Nat
    BY <1>1, <1>4, <1>9, <1>13
  <2>2. \A x \in unsent \cup Behind(o) : view'[o].rv <= x
    BY <1>1, <1>4, <1>6, <1>9, <1>13
  <2>3. view'[o].rv <= after'
    BY <1>1, <1>4, <1>8, <2>1
  <2>4. Ahead(o)' \subseteq Ahead(o)
    BY <1>11, <1>13
  <2>5. initial[o] # Absent => view'[o].rv <= initial[o].rv
    BY <1>4, <1>9, <1>13
  <2> QED
    BY <1>4, <1>10, <1>12, <2>1, <2>2, <2>3, <2>4, <2>5
<1> QED
  BY <1>4, <1>10, <1>11, <1>14, Zenon DEF Ages, after, unsent

\* A new process has nothing under way.
Fresh ==
  /\ \A o \in Objects :
       world[o].rv \in Nat /\ view[o].rv \in Nat /\ view[o].rv <= world[o].rv
  /\ initial = NoObjects /\ listener = [k \in Kinds |-> <<>>]
  /\ queue = <<>> /\ batch = <<>> /\ events = <<>>

LEMMA FreshAges == Fresh => InOrder
<1> SUFFICES ASSUME Fresh, NEW o \in Objects PROVE Ages(o)
  BY DEF InOrder
<1> USE DEF Fresh
<1>1. initial[o] = Absent /\ Absent.rv = 0 /\ listener[KindOf[o]] = <<>>
  BY InventoryAssumption DEF NoObjects, Absent, Feed!Absent
<1>2. <<>> \o <<>> = <<>>
  OBVIOUS
<1>3. OnTheWay = <<>> /\ batch \o queue = <<>>
  BY <1>2, Zenon DEF OnTheWay
<1>4. /\ RvsOf(batch \o queue, o) = {} /\ Ahead(o) = {} /\ Behind(o) = {}
      /\ Ordered(OnTheWay, o) /\ Ordered(listener[KindOf[o]], o)
  BY <1>1, <1>3, RvsNone, Zenon DEF Ahead, Behind
<1>5. Feed!Apply(events, view)[o] = view[o]
  BY ApplyNone, Zenon
<1>6. view[o].rv <= view[o].rv /\ initial[o].rv <= world[o].rv
  BY <1>1
<1>7. view[o].rv <= Feed!Apply(events, view)[o].rv
  BY <1>5, <1>6, Zenon
<1> QED
  BY <1>1, <1>4, <1>6, <1>7 DEF Ages

LEMMA InitAges == Init => AgesTyped
<1> SUFFICES ASSUME Init PROVE AgesTyped
  OBVIOUS
<1>1. Control
  BY InitControl
<1>2. Fresh
  BY <1>1, RvTypes DEF Init, Fresh, NoObjects, Absent, Feed!Absent
<1> QED
  BY <1>1, <1>2, FreshAges DEF AgesTyped

LEMMA RestartAges == AgesTyped /\ Restart => InOrder'
<1> SUFFICES ASSUME AgesTyped, Restart PROVE InOrder'
  OBVIOUS
<1>1. \A o \in Objects : world[o].rv \in Nat /\ view[o].rv \in Nat /\ view[o].rv <= world[o].rv
  BY RvTypes DEF AgesTyped, InOrder, Ages
<1>2. Fresh'
  BY <1>1 DEF Restart, Fresh, NoObjects, Absent
<1>3. Fresh' => InOrder'
  BY FreshAges, PTL
<1> QED
  BY <1>2, <1>3

\* So is the order of the versions.
LEMMA AgesKept == AgesTyped /\ [Next]_vars => AgesTyped'
<1> SUFFICES ASSUME AgesTyped, [Next]_vars PROVE AgesTyped'
  OBVIOUS
<1>1. Control'
  BY ControlKept DEF AgesTyped
<1>2. CASE UNCHANGED vars
  <2>1. InOrder'
    BY <1>2, Zenon DEF AgesTyped, InOrder, Ages, Ahead, Behind, OnTheWay, vars, informerVars, runnerVars
  <2> QED
    BY <1>1, <2>1 DEF AgesTyped
<1>3. CASE Next
  <2>1. ASSUME NEW o \in Objects, ~Restart PROVE Ages(o)'
    <3>1. CASE CacheSynced
      BY <3>1, Zenon DEF CacheSynced, AgesTyped, InOrder, Ages, Ahead, Behind, OnTheWay, informerVars
    <3> QED
      BY <1>3, <2>1, <3>1, ListingAges, ObservingAges, EnqueueAges, MovesAges, SendAges DEF Next, RunnerStep
  <2>2. InOrder'
    BY <1>3, <2>1, RestartAges DEF InOrder
  <2> QED
    BY <1>1, <2>2 DEF AgesTyped
<1> QED
  BY <1>2, <1>3

\* Retries, repeated deltas and relists after a restart never take the control
\* plane's picture of an object back to an older version.
THEOREM NeverBack == Spec => ViewNeverGoesBack
<1>1. Spec => []AgesTyped
  BY InitAges, AgesKept, PTL DEF Spec
<1>2. AgesTyped /\ [Next]_vars => [\A o \in Objects : view'[o].rv >= view[o].rv]_vars
  <2> SUFFICES ASSUME AgesTyped, Next, NEW o \in Objects PROVE view'[o].rv >= view[o].rv
    OBVIOUS
  <2>1. view[o].rv \in Nat
    BY RvTypes DEF AgesTyped
  <2>2. CASE SendOk \/ SendFail
    <3>1. Control'
      BY ControlKept DEF AgesTyped
    <3>2. view'[o].rv \in Nat
      BY <3>1, InventoryAssumption DEF Control, TypeOK, Feed!Versions
    <3> QED
      BY <2>1, <2>2, <3>2, SendAges
  <2>3. CASE ~(SendOk \/ SendFail)
    <3>1. view' = view
      BY <2>3 DEF Next, RunnerStep, Change, PopInitial, Watch, List, Enqueue, CacheSynced, TakeEvent,
         Tick, Restart
    <3> QED
      BY <2>1, <3>1
  <2> QED
    BY <2>2, <2>3
<1> QED
  BY <1>1, <1>2, PTL DEF Spec, ViewNeverGoesBack
=============================================================================
