----------------------------- MODULE DeltaFeed -----------------------------
(***************************************************************************)
(* What the inventory promises the control plane, whatever goes wrong on   *)
(* the way: changes arrive in the order in which they were accepted, in    *)
(* deltas of at most BatchSize, possibly repeated; and a change that does  *)
(* not arrive has been counted as a failure.                               *)
(***************************************************************************)
EXTENDS Naturals, Sequences

CONSTANTS Objects,      \* the objects of the cluster that are reported
          MaxRv,        \* bound: resource versions of an object
          BatchSize     \* events in a delta, at most

VARIABLES pending,      \* events accepted and neither delivered nor given up
          view,         \* the control plane's picture of every object
          failures      \* failures counted

\* An object at a version, or gone; Absent was never heard of.
Versions == [rv : 0..MaxRv, live : BOOLEAN]
Absent == [rv |-> 0, live |-> FALSE]

\* live tells an upsert from a delete.
InventoryEvents == [obj : Objects, rv : 0..MaxRv, live : BOOLEAN]

Event(o, version) == [obj |-> o, rv |-> version.rv, live |-> version.live]

\* The last index at which seq speaks of o.
LatestIndex(seq, o) ==
  CHOOSE i \in DOMAIN seq :
    /\ seq[i].obj = o
    /\ \A j \in DOMAIN seq : j > i => seq[j].obj # o

\* The picture after the events of seq, applied in their order.
Apply(seq, picture) ==
  [o \in Objects |->
     IF \E i \in DOMAIN seq : seq[i].obj = o
     THEN LET e == seq[LatestIndex(seq, o)] IN [rv |-> e.rv, live |-> e.live]
     ELSE picture[o]]

Init ==
  /\ pending = <<>>
  /\ view = [o \in Objects |-> Absent]
  /\ failures = 0

Accept(event) ==
  /\ pending' = Append(pending, event)
  /\ UNCHANGED <<view, failures>>

Refuse ==
  /\ failures' = failures + 1
  /\ UNCHANGED <<pending, view>>

Delta(n) == SubSeq(pending, 1, n)
Rest(n) == SubSeq(pending, n + 1, Len(pending))

Deliver(n) ==
  /\ view' = Apply(Delta(n), view)
  /\ pending' = Rest(n)
  /\ UNCHANGED failures

\* The delta arrives, but that is not known and it will be sent again.
DeliverUnnoticed(n) ==
  /\ view' = Apply(Delta(n), view)
  /\ UNCHANGED <<pending, failures>>

\* The delta is given up; it may have arrived all the same.
GiveUp(n) ==
  /\ view' \in {view, Apply(Delta(n), view)}
  /\ pending' = Rest(n)
  /\ failures' = failures + 1

\* The agent is started again.
Reset ==
  /\ pending' = <<>>
  /\ failures' = 0
  /\ UNCHANGED view

Next ==
  \/ \E event \in InventoryEvents : Accept(event)
  \/ Refuse
  \/ \E n \in 1..BatchSize :
       n <= Len(pending) /\ (Deliver(n) \/ DeliverUnnoticed(n) \/ GiveUp(n))
  \/ Reset

vars == <<pending, view, failures>>

Spec == Init /\ [][Next]_vars
=============================================================================
