------------------------------ MODULE Commands ------------------------------
(***************************************************************************)
(* internal/executor, internal/commands and the writing side of            *)
(* internal/websocket: every command runs in a goroutine of its own and    *)
(* writes to whatever connection is current, and so does the ping          *)
(* goroutine of each connection; nothing orders their writes.  The tunnel  *)
(* goroutine is reduced to what these see of it: connections that open,    *)
(* deliver commands and close.                                             *)
(***************************************************************************)
EXTENDS Naturals, Sequences, FiniteSets

CONSTANTS Requests,     \* the commands the control plane sends, once each
          MaxConns      \* bound: connections the tunnel opens

ASSUME CommandsAssumption == MaxConns \in Nat \ {0}

VARIABLES conn,         \* Manager.conn: number of the connection stored last, 0 for none
          link,         \* what became of each connection, see LinkStates
          pinger,       \* where the ping goroutine of a connection is
          pc,           \* where the goroutine of a request is
          target,       \* the connection its Send has loaded
          outcome,      \* what commands.Execute came to
          writing,      \* per connection: the goroutines inside a write
          mixed,        \* per connection: those whose write overlapped another
          wire,         \* per connection: the whole text frames that were written
          garbled,      \* the connections on which anything else was written
          commands,     \* the counter Commands
          failures,     \* the counter CommandFailures
          panicked      \* a write panicked and took the process with it

linkVars == <<conn, link, pinger>>
requestVars == <<pc, target, outcome>>
writeVars == <<writing, mixed, wire, garbled, panicked>>
counters == <<commands, failures>>
vars == <<linkVars, requestVars, writeVars, counters>>

Conns == 1..MaxConns

\* Sending the status, executing, sending the result.
RequestPCs == {"unsent", "load_status", "begin_status", "end_status", "execute",
               "load_result", "begin_result", "end_result", "done"}

\* A connection is "failing" when its writes fail, after a deadline or a network
\* error, and the reader has not noticed yet.
LinkStates == {"new", "open", "failing", "closed"}

PingPCs == {"off", "idle", "writing", "ended"}

Frame(type, r) == [type |-> type, request |-> r]
Frames == [type : {"command_status", "command_result"}, request : Requests]

\* The ping goroutine of connection n as a writer.
Pinger(n) == <<"ping", n>>

Init ==
  /\ conn = 0
  /\ link = [n \in Conns |-> "new"]
  /\ pinger = [n \in Conns |-> "off"]
  /\ pc = [r \in Requests |-> "unsent"]
  /\ target = [r \in Requests |-> 0]
  /\ outcome = [r \in Requests |-> "none"]
  /\ writing = [n \in Conns |-> {}]
  /\ mixed = [n \in Conns |-> {}]
  /\ wire = [n \in Conns |-> <<>>]
  /\ garbled = {}
  /\ commands = 0 /\ failures = 0
  /\ panicked = FALSE

-----------------------------------------------------------------------------
(* The tunnel goroutine.                                                   *)

\* connectAndServe stores the connection and starts its ping goroutine.
Connect(n) ==
  /\ ~panicked
  /\ n = conn + 1
  /\ \A k \in Conns : link[k] \in {"new", "closed"}
  /\ conn' = n
  /\ link' = [link EXCEPT ![n] = "open"]
  /\ pinger' = [pinger EXCEPT ![n] = "idle"]
  /\ UNCHANGED <<requestVars, writeVars, counters>>

\* The deferred conn.Close, for any reason; conn keeps its value.
Disconnect(n) ==
  /\ ~panicked
  /\ link[n] \in {"open", "failing"}
  /\ link' = [link EXCEPT ![n] = "closed"]
  /\ UNCHANGED <<conn, pinger, requestVars, writeVars, counters>>

\* The write side breaks: gorilla keeps the error and fails every later write,
\* but nobody closes the connection, so the reader goes on until its deadline.
BreakWrites(n) ==
  /\ ~panicked
  /\ link[n] = "open"
  /\ link' = [link EXCEPT ![n] = "failing"]
  /\ UNCHANGED <<conn, pinger, requestVars, writeVars, counters>>

\* The control plane's command is read and gets its goroutine.
ReadCommand(r) ==
  /\ ~panicked
  /\ pc[r] = "unsent"
  /\ \E n \in Conns : link[n] \in {"open", "failing"}
  /\ pc' = [pc EXCEPT ![r] = "load_status"]
  /\ UNCHANGED <<linkVars, target, outcome, writeVars, counters>>

-----------------------------------------------------------------------------
(* Writing.  gorilla/websocket supports one writer at a time: writes that  *)
(* overlap share one buffer and may come out whole, mixed up or as a panic.*)

BeginWrite(w, n) ==
  /\ writing' = [writing EXCEPT ![n] = @ \cup {w}]
  /\ mixed' = IF writing[n] = {} THEN mixed
              ELSE [mixed EXCEPT ![n] = @ \cup writing[n] \cup {w}]
  /\ UNCHANGED <<wire, garbled, panicked>>

\* frames: the text frames the write adds if all goes well.
EndWrite(w, n, frames) ==
  /\ writing' = [writing EXCEPT ![n] = @ \ {w}]
  /\ mixed' = [mixed EXCEPT ![n] = @ \ {w}]
  /\ \/ /\ wire' = IF link[n] = "open" THEN [wire EXCEPT ![n] = @ \o frames] ELSE wire
        /\ UNCHANGED <<garbled, panicked>>
     \/ /\ w \in mixed[n] /\ link[n] = "open"
        /\ garbled' = garbled \cup {n}
        /\ UNCHANGED <<wire, panicked>>
     \/ /\ w \in mixed[n]
        /\ panicked' = TRUE
        /\ UNCHANGED <<wire, garbled>>

Goto(r, next) == pc' = [pc EXCEPT ![r] = next]

\* Send reads the current connection.
Load(r, from, next) ==
  /\ pc[r] = from
  /\ target' = [target EXCEPT ![r] = conn]
  /\ Goto(r, next)
  /\ UNCHANGED <<linkVars, outcome, writeVars, counters>>

\* Mutant of Begin: it waits for a connection that is open.
BeginWaits(r, from, next, after) ==
  /\ pc[r] = from
  /\ link[target[r]] = "open"
  /\ Goto(r, next)
  /\ BeginWrite(r, target[r])
  /\ UNCHANGED <<linkVars, target, outcome, counters>>

\* WriteJSON; when the connection is closed or failing it fails at once, and Execute does not ask.
Begin(r, from, next, after) ==
  /\ pc[r] = from
  /\ IF link[target[r]] # "open"
     THEN Goto(r, after) /\ UNCHANGED writeVars
     ELSE Goto(r, next) /\ BeginWrite(r, target[r])
  /\ UNCHANGED <<linkVars, target, outcome, counters>>

End(r, from, type, after) ==
  /\ pc[r] = from
  /\ EndWrite(r, target[r], <<Frame(type, r)>>)
  /\ Goto(r, after)
  /\ UNCHANGED <<linkVars, target, outcome, counters>>

(* Executor.Execute.                                                       *)

SendStatus(r) ==
  \/ Load(r, "load_status", "begin_status")
  \/ Begin(r, "begin_status", "end_status", "execute")
  \/ End(r, "end_status", "command_status", "execute")

\* Response.Status as commands.Execute fills it in: both a command that is not
\* on the allowlist and one that fails end in fail.
Status(o) == IF o = "success" THEN "success" ELSE "error"

\* Mutant of Execute: a refused command gets a response that is not filled in.
ExecuteUnfilled(r) ==
  /\ pc[r] = "execute"
  /\ \E o \in {"success", "failed", ""} :
       /\ outcome' = [outcome EXCEPT ![r] = o]
       /\ commands' = commands + 1 /\ UNCHANGED failures
  /\ Goto(r, "load_result")
  /\ UNCHANGED <<linkVars, target, writeVars>>

\* commands.Execute, and the counter it is booked on.
Execute(r) ==
  /\ pc[r] = "execute"
  /\ \E o \in {"success", "failed", "unsupported"} :
       /\ outcome' = [outcome EXCEPT ![r] = o]
       /\ IF Status(o) = "failed"
          THEN failures' = failures + 1 /\ UNCHANGED commands
          ELSE commands' = commands + 1 /\ UNCHANGED failures
  /\ Goto(r, "load_result")
  /\ UNCHANGED <<linkVars, target, writeVars>>

\* Mutant of SendResult: a result is sent again after a reconnect.
SendResultAgain(r) ==
  \/ Load(r, "load_result", "begin_result")
  \/ Begin(r, "begin_result", "end_result", "done")
  \/ End(r, "end_result", "command_result", "done")
  \/ target[r] # conn /\ Load(r, "done", "begin_result")

\* Mutant of SendResult: only a success is answered.
SendResultOfSuccess(r) ==
  \/ outcome[r] = "success" /\ Load(r, "load_result", "begin_result")
  \/ outcome[r] # "success" /\ Load(r, "load_result", "done")
  \/ Begin(r, "begin_result", "end_result", "done")
  \/ End(r, "end_result", "command_result", "done")

SendResult(r) ==
  \/ Load(r, "load_result", "begin_result")
  \/ Begin(r, "begin_result", "end_result", "done")
  \/ End(r, "end_result", "command_result", "done")

RequestStep(r) == ~panicked /\ (SendStatus(r) \/ Execute(r) \/ SendResult(r))

(* Manager.ping.                                                           *)

\* Mutant of PingBegin: an error does not end the loop.
PingBeginForever(n) ==
  /\ pinger[n] = "idle"
  /\ IF link[n] # "open"
     THEN UNCHANGED <<pinger, writeVars>>
     ELSE pinger' = [pinger EXCEPT ![n] = "writing"] /\ BeginWrite(Pinger(n), n)
  /\ UNCHANGED <<conn, link, requestVars, counters>>

PingBegin(n) ==
  /\ pinger[n] = "idle"
  /\ IF link[n] # "open"
     THEN pinger' = [pinger EXCEPT ![n] = "ended"] /\ UNCHANGED writeVars
     ELSE pinger' = [pinger EXCEPT ![n] = "writing"] /\ BeginWrite(Pinger(n), n)
  /\ UNCHANGED <<conn, link, requestVars, counters>>

PingEnd(n) ==
  /\ pinger[n] = "writing"
  /\ EndWrite(Pinger(n), n, <<>>)
  /\ pinger' = [pinger EXCEPT ![n] = IF link[n] = "open" THEN "idle" ELSE "ended"]
  /\ UNCHANGED <<conn, link, requestVars, counters>>

PingStep(n) == ~panicked /\ (PingBegin(n) \/ PingEnd(n))

Next ==
  \/ \E n \in Conns : Connect(n) \/ BreakWrites(n) \/ Disconnect(n) \/ PingStep(n)
  \/ \E r \in Requests : ReadCommand(r) \/ RequestStep(r)

Spec == Init /\ [][Next]_vars

\* The Go scheduler runs every goroutine, and the Kubernetes API answers a
\* command or fails it.
FairSpec ==
  /\ Spec
  /\ \A r \in Requests : WF_vars(RequestStep(r))
  /\ \A n \in Conns : WF_vars(PingStep(n))

-----------------------------------------------------------------------------
\* Every variable has its type.
TypeOK ==
  /\ conn \in 0..MaxConns
  /\ link \in [Conns -> LinkStates]
  /\ pinger \in [Conns -> PingPCs]
  /\ pc \in [Requests -> RequestPCs]
  /\ target \in [Requests -> 0..MaxConns]
  /\ outcome \in [Requests -> {"none", "success", "failed", "unsupported"}]
  /\ {writing, mixed} \subseteq [Conns -> SUBSET (Requests \cup {Pinger(n) : n \in Conns})]
  /\ \A n \in Conns : mixed[n] \subseteq writing[n]
  /\ wire \in [Conns -> Seq(Frames)]
  /\ garbled \subseteq Conns
  /\ commands \in Nat /\ failures \in Nat
  /\ panicked \in BOOLEAN

\* Where the frames of a request are on w: connection and position.
At(w, r, type) ==
  {p \in UNION {{n} \X DOMAIN w[n] : n \in Conns} : w[p[1]][p[2]] = Frame(type, r)}

\* However often the tunnel reconnects in between, the control plane gets a
\* result at most once and never the status of a request after its result.
ResultOnceAndLast ==
  \A r \in Requests :
    /\ \A s, t \in At(wire, r, "command_result") : s = t
    /\ \A s \in At(wire, r, "command_status"), t \in At(wire, r, "command_result") :
         s[1] < t[1] \/ (s[1] = t[1] /\ s[2] < t[2])

\* Execute throws away the errors of Send.  A result is lost only with the
\* connection it was written to, or to writes that overlapped on it: as long as
\* the connection works, the control plane has it.
LostOnlyWithConnection ==
  \A r \in Requests :
    pc[r] = "done" /\ ~panicked /\ link[target[r]] = "open" =>
      At(wire, r, "command_result") # {} \/ target[r] \in garbled

\* Connections are numbered as they open, and only a request that has loaded one
\* is past its first Send.
ConnsInOrder ==
  /\ \A n \in Conns : link[n] # "new" => n <= conn
  /\ \A r \in Requests :
       /\ target[r] <= conn
       /\ pc[r] # "unsent" => conn > 0
       /\ pc[r] \notin {"unsent", "load_status"} => target[r] > 0

\* No result is out before its request is done, and no frame of a request is on a
\* later connection than the one it has loaded.
FramesFollowRequest ==
  \A r \in Requests :
    /\ pc[r] # "done" => At(wire, r, "command_result") = {}
    /\ \A p \in At(wire, r, "command_status") \cup At(wire, r, "command_result") : p[1] <= target[r]

IInv ==
  TypeOK /\ ConnsInOrder /\ FramesFollowRequest /\ ResultOnceAndLast /\ LostOnlyWithConnection

\* Every command that was read runs to its end, whatever becomes of the tunnel.
EveryCommandEnds ==
  \A r \in Requests : pc[r] = "load_status" ~> pc[r] = "done" \/ panicked

\* The ping goroutine of a connection ends after it, so reconnects do not pile
\* them up.
PingersEnd == \A n \in Conns : link[n] \in {"failing", "closed"} ~> pinger[n] = "ended" \/ panicked

\* docs/operational-runbook.md:12: the backend "can invoke every registered
\* tool and receives structured JSON only".
StructuredJsonOnly == ~panicked /\ garbled = {}

\* internal/telemetry/telemetry.go:33: CommandFailures counts "Failed
\* allowlisted commands".  It does not, see Uncounted in CommandsProofs.
FailuresCounted == failures >= Cardinality({r \in Requests : outcome[r] = "failed"})
=============================================================================
