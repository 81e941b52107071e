----------------------------- MODULE Inventory -----------------------------
(***************************************************************************)
(* internal/inventory: from the shared informers through the bounded queue *)
(* and the batch to the control plane.  An informer's store and the events *)
(* for its handler are client-go's; a handler's event is the state of an   *)
(* object at a version (what the mappers copy of it is left out).          *)
(***************************************************************************)
EXTENDS Naturals, Sequences, Retry

CONSTANTS Objects,      \* the objects of the cluster that are reported
          Kinds,        \* one informer for every kind
          KindOf,       \* the kind of an object
          QueueCap,     \* capacity of Runner.queue (4096)
          BatchSize,    \* events in a full batch (200)
          MaxRv,        \* bound: resource versions of an object
          MaxRestarts,  \* bound: how often the process is started again
          RequestsFail  \* whether requests to the control plane can fail

ASSUME InventoryAssumption ==
  /\ KindOf \in [Objects -> Kinds]
  /\ QueueCap \in Nat \ {0}
  /\ BatchSize \in Nat \ {0}
  /\ MaxRv \in Nat \ {0}
  /\ MaxRestarts \in Nat
  /\ RequestsFail \in BOOLEAN

VARIABLES world,        \* the cluster: version of every object
          listed,       \* the kinds whose informer has its first list
          initial,      \* versions of a first list that are not in the store yet
          store,        \* the informers' stores
          listener,     \* per kind: events the informer has for the handler
          run,          \* where Runner.Run is: "sync", "flush" or "send"
          queue,        \* Runner.queue
          batch,        \* flush's batch
          events,       \* the batch send works on
          tries,        \* failed attempts to send it
          failures,     \* the counter InventoryFailures
          view,         \* control plane: its picture of every object
          restarts      \* how often the process was started again

informerVars == <<listed, initial, store, listener>>
runnerVars == <<run, queue, batch, events, tries, failures>>
vars == <<world, informerVars, runnerVars, view, restarts>>

\* The control plane's side, and the promise to it.
Feed == INSTANCE DeltaFeed WITH pending <- events \o batch \o queue

Absent == Feed!Absent
NoObjects == [o \in Objects |-> Absent]

\* The cluster is there before the agent.
Init ==
  /\ world \in [Objects -> {Absent, [rv |-> 1, live |-> TRUE]}]
  /\ listed = {}
  /\ initial = NoObjects /\ store = NoObjects
  /\ listener = [k \in Kinds |-> <<>>]
  /\ run = "sync"
  /\ queue = <<>> /\ batch = <<>> /\ events = <<>>
  /\ tries = 0 /\ failures = 0
  /\ view = NoObjects
  /\ restarts = 0

-----------------------------------------------------------------------------
(* The cluster and the informers.                                          *)

\* An object is created, changed or deleted.
Change(o) ==
  /\ world[o].rv < MaxRv
  /\ \E live \in BOOLEAN :
       /\ world[o].live \/ live
       /\ world' = [world EXCEPT ![o] = [rv |-> @.rv + 1, live |-> live]]
  /\ UNCHANGED <<informerVars, runnerVars, view, restarts>>

\* The informer of kind k lists its objects.
List(k) ==
  /\ k \notin listed
  /\ listed' = listed \cup {k}
  /\ initial' = [o \in Objects |->
                   IF KindOf[o] = k /\ world[o].live THEN world[o] ELSE initial[o]]
  /\ UNCHANGED <<world, store, listener, runnerVars, view, restarts>>

\* The store takes a version, and the handler will hear of it.
Observe(o, version) ==
  /\ store' = [store EXCEPT ![o] = version]
  /\ listener' = [listener EXCEPT ![KindOf[o]] = Append(@, Feed!Event(o, version))]

PopInitial(o) ==
  /\ initial[o] # Absent
  /\ initial' = [initial EXCEPT ![o] = Absent]
  /\ Observe(o, initial[o])
  /\ UNCHANGED <<world, listed, runnerVars, view, restarts>>

\* The watch; versions that came and went unseen leave no event.
Watch(o) ==
  /\ KindOf[o] \in listed
  /\ initial[o] = Absent
  /\ store[o] # world[o]
  /\ store[o].live \/ world[o].live
  /\ Observe(o, world[o])
  /\ UNCHANGED <<world, listed, initial, runnerVars, view, restarts>>

-----------------------------------------------------------------------------
(* The runner.                                                             *)

\* Mutant of Enqueue: a full queue is only logged.
EnqueueUncounted(k) ==
  /\ listener[k] # <<>>
  /\ listener' = [listener EXCEPT ![k] = Tail(@)]
  /\ queue' = IF Len(queue) < QueueCap THEN Append(queue, Head(listener[k])) ELSE queue
  /\ UNCHANGED <<world, listed, initial, store, run, batch, events, tries, failures, view,
                 restarts>>

\* The informer calls the handler, which calls enqueue; every event it gets
\* carries an object, if only in a tombstone.
Enqueue(k) ==
  /\ listener[k] # <<>>
  /\ listener' = [listener EXCEPT ![k] = Tail(@)]
  /\ IF Len(queue) < QueueCap
     THEN /\ queue' = Append(queue, Head(listener[k]))
          /\ UNCHANGED failures
     ELSE /\ failures' = failures + 1
          /\ UNCHANGED queue
  /\ UNCHANGED <<world, listed, initial, store, run, batch, events, tries, view, restarts>>

\* WaitForCacheSync returns: every store has the whole of its first list.
CacheSynced ==
  /\ run = "sync"
  /\ listed = Kinds
  /\ initial = NoObjects
  /\ run' = "flush"
  /\ UNCHANGED <<world, informerVars, queue, batch, events, tries, failures, view, restarts>>

\* Mutant of StartSend: the batch is not reset.
StartSendKeepsBatch(full) ==
  /\ run' = "send"
  /\ events' = full
  /\ batch' = full
  /\ tries' = 0

\* send resets the batch before it posts what was in it.
StartSend(full) ==
  /\ run' = "send"
  /\ events' = full
  /\ batch' = <<>>
  /\ tries' = 0

\* Mutant of TakeEvent: > instead of >=.
TakeEventOneMore ==
  /\ run = "flush"
  /\ queue # <<>>
  /\ queue' = Tail(queue)
  /\ LET b == Append(batch, Head(queue))
     IN  IF Len(b) > BatchSize
         THEN StartSend(b)
         ELSE batch' = b /\ UNCHANGED <<run, events, tries>>
  /\ UNCHANGED <<world, informerVars, failures, view, restarts>>

\* Mutant of TakeEvent: the newest event first.
TakeEventNewest ==
  /\ run = "flush"
  /\ queue # <<>>
  /\ queue' = SubSeq(queue, 1, Len(queue) - 1)
  /\ LET b == Append(batch, queue[Len(queue)])
     IN  IF Len(b) >= BatchSize
         THEN StartSend(b)
         ELSE batch' = b /\ UNCHANGED <<run, events, tries>>
  /\ UNCHANGED <<world, informerVars, failures, view, restarts>>

TakeEvent ==
  /\ run = "flush"
  /\ queue # <<>>
  /\ queue' = Tail(queue)
  /\ LET b == Append(batch, Head(queue))
     IN  IF Len(b) >= BatchSize
         THEN StartSend(b)
         ELSE batch' = b /\ UNCHANGED <<run, events, tries>>
  /\ UNCHANGED <<world, informerVars, failures, view, restarts>>

\* Mutant of Tick: only a full batch is sent.
TickOnlyFull ==
  /\ run = "flush"
  /\ Len(batch) >= BatchSize
  /\ StartSend(batch)
  /\ UNCHANGED <<world, informerVars, queue, failures, view, restarts>>

Tick ==
  /\ run = "flush"
  /\ batch # <<>>
  /\ StartSend(batch)
  /\ UNCHANGED <<world, informerVars, queue, failures, view, restarts>>

\* Mutant of Return: the attempts are counted down instead of forgotten.
ReturnCountsDown ==
  /\ run' = "flush"
  /\ events' = <<>>
  /\ tries' = tries - 1

\* send returns to flush.
Return ==
  /\ run' = "flush"
  /\ events' = <<>>
  /\ tries' = 0

SendOk ==
  /\ run = "send"
  /\ view' = Feed!Apply(events, view)
  /\ Return
  /\ UNCHANGED <<world, informerVars, queue, batch, failures, restarts>>

\* Mutant of SendFail: the error is only logged.
SendFailUncounted ==
  /\ run = "send"
  /\ RequestsFail
  /\ view' \in {view, Feed!Apply(events, view)}
  /\ \/ /\ MayRetry(tries)
        /\ tries' = tries + 1
        /\ UNCHANGED <<run, events>>
     \/ MayStop(tries) /\ Return
  /\ UNCHANGED <<world, informerVars, queue, batch, failures, restarts>>

\* An attempt failed, but the control plane may have taken the delta; the last
\* one that fails loses it.
SendFail ==
  /\ run = "send"
  /\ RequestsFail
  /\ view' \in {view, Feed!Apply(events, view)}
  /\ \/ /\ MayRetry(tries)
        /\ tries' = tries + 1
        /\ UNCHANGED <<run, events, failures>>
     \/ /\ MayStop(tries)
        /\ failures' = failures + 1
        /\ Return
  /\ UNCHANGED <<world, informerVars, queue, batch, restarts>>

\* The process dies, with all that is queued, and starts again.
Restart ==
  /\ restarts < MaxRestarts
  /\ restarts' = restarts + 1
  /\ listed' = {}
  /\ initial' = NoObjects /\ store' = NoObjects
  /\ listener' = [k \in Kinds |-> <<>>]
  /\ run' = "sync"
  /\ queue' = <<>> /\ batch' = <<>> /\ events' = <<>>
  /\ tries' = 0 /\ failures' = 0
  /\ UNCHANGED <<world, view>>

RunnerStep == CacheSynced \/ TakeEvent \/ Tick \/ SendOk \/ SendFail

Next ==
  \/ \E o \in Objects : Change(o) \/ PopInitial(o) \/ Watch(o)
  \/ \E k \in Kinds : List(k) \/ Enqueue(k)
  \/ RunnerStep
  \/ Restart

Spec == Init /\ [][Next]_vars

\* The informers list, watch and call their handlers; flush's select and the
\* retries go on; requests do not fail for ever.
Fairness ==
  /\ \A o \in Objects : WF_vars(PopInitial(o)) /\ WF_vars(Watch(o))
  /\ \A k \in Kinds : WF_vars(List(k)) /\ WF_vars(Enqueue(k))
  /\ WF_vars(RunnerStep)
  /\ SF_vars(SendOk)

FairSpec == Spec /\ Fairness

-----------------------------------------------------------------------------
\* Every variable has its type.
TypeOK ==
  /\ {world, initial, store, view} \subseteq [Objects -> Feed!Versions]
  /\ listed \subseteq Kinds
  /\ listener \in [Kinds -> Seq(Feed!InventoryEvents)]
  /\ run \in {"sync", "flush", "send"}
  /\ {queue, batch, events} \subseteq Seq(Feed!InventoryEvents)
  /\ tries \in Nat
  /\ failures \in Nat
  /\ restarts \in 0..MaxRestarts

\* The bounded delta sync of production-guide.md:83: the queue and the deltas
\* never exceed their sizes, a full batch never waits, and send has the only
\* batch there is.
DeltaBounds ==
  /\ Len(queue) <= QueueCap
  /\ Len(batch) < BatchSize
  /\ Len(events) <= BatchSize
  /\ run = "send" <=> events # <<>>
  /\ run # "flush" => batch = <<>>

\* Until a failure is counted, whatever an informer's store holds of an object
\* is either known to the control plane or on its way, behind all older news.
NothingLostUncounted ==
  failures = 0 =>
    \A o \in Objects : store[o] # Absent =>
      Feed!Apply(events \o batch \o queue \o listener[KindOf[o]], view)[o] = store[o]

InSync(o) == IF world[o].live THEN view[o] = world[o] ELSE ~view[o].live

\* The pipeline is empty and the informers are up to date.
Quiet ==
  /\ run = "flush" /\ queue = <<>> /\ batch = <<>>
  /\ listener = [k \in Kinds |-> <<>>]
  /\ \A o \in Objects : store[o] = world[o] \/ ~(store[o].live \/ world[o].live)

\* With nothing under way and no failure counted, the control plane sees the
\* cluster as it is.  After a restart objects that are gone are left out: the new
\* process relists what there is and reports nothing of what the old one's death
\* hid.  That is wider than the objects deleted around the restart.
QuietMeansInSync ==
  Quiet /\ failures = 0 =>
    \A o \in Objects : InSync(o) \/ (restarts > 0 /\ ~world[o].live)

\* Retries, repeated deltas and relists after a restart never take the control
\* plane's picture of an object back to an older version.
ViewNeverGoesBack == [][\A o \in Objects : view'[o].rv >= view[o].rv]_vars

\* The promise to the control plane is kept.
KeepsPromise == Feed!Spec

\* Once the cluster stops changing the control plane catches up, unless a
\* failure was counted; after a restart, with all but objects that are gone.
CatchesUp ==
  <>[](failures > 0 \/ \A o \in Objects : InSync(o) \/ (restarts > 0 /\ ~world[o].live))

\* docs/operational-runbook.md:106: "large clusters are handled with informer
\* watches and batched deltas rather than repeated full-state uploads".  Once
\* the cluster stops changing, the deltas bring the control plane all of it.
CatchesUpRegardless == <>[](\A o \in Objects : InSync(o))
=============================================================================
