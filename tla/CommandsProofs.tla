--------------------------- MODULE CommandsProofs ---------------------------
(***************************************************************************)
(* What Commands promises of results, for any number of commands and of    *)
(* connections: they come once, after their status, and are lost only with *)
(* the connection they were written to.                                    *)
(***************************************************************************)
EXTENDS Commands, FiniteSetTheorems, SequenceTheorems, TLAPS

Writers == Requests \cup {Pinger(n) : n \in Conns}

LEMMA ConnTypes == MaxConns \in Nat /\ \A n \in Conns : n \in Nat /\ n > 0
BY CommandsAssumption DEF Conns

\* What starting to write does to the types of what it changes.
LEMMA BeginWriteTypes ==
  ASSUME TypeOK, NEW n \in Conns, NEW w \in Writers, BeginWrite(w, n)
  PROVE  /\ {writing', mixed'} \subseteq [Conns -> SUBSET Writers]
         /\ \A k \in Conns : mixed'[k] \subseteq writing'[k]
         /\ wire' = wire /\ garbled' = garbled /\ panicked' = panicked
<1>1. writing \in [Conns -> SUBSET Writers] /\ mixed \in [Conns -> SUBSET Writers]
  BY DEF TypeOK, Writers
<1>2. \A k \in Conns : mixed[k] \subseteq writing[k]
  BY DEF TypeOK
<1>3. writing' \in [Conns -> SUBSET Writers]
  BY <1>1 DEF BeginWrite
<1>4. mixed' \in [Conns -> SUBSET Writers]
  BY <1>1 DEF BeginWrite
<1>5. ASSUME NEW k \in Conns PROVE mixed'[k] \subseteq writing'[k]
  BY <1>1, <1>2 DEF BeginWrite
<1> QED
  BY <1>3, <1>4, <1>5 DEF BeginWrite

\* A write ends by adding its frame if there is one, or by adding nothing.
LEMMA EndWriteEffect ==
  ASSUME TypeOK, NEW n \in Conns, NEW w \in Writers, NEW frames \in Seq(Frames),
         EndWrite(w, n, frames)
  PROVE  /\ {writing', mixed'} \subseteq [Conns -> SUBSET Writers]
         /\ \A k \in Conns : mixed'[k] \subseteq writing'[k]
         /\ garbled' \subseteq Conns /\ panicked' \in BOOLEAN
         /\ wire' \in [Conns -> Seq(Frames)]
         /\ wire' = wire \/ wire' = [wire EXCEPT ![n] = @ \o frames]
         /\ link[n] = "open" /\ ~panicked' =>
              wire' = [wire EXCEPT ![n] = @ \o frames] \/ n \in garbled'
         /\ garbled \subseteq garbled'
         /\ panicked => panicked'
<1>1. writing \in [Conns -> SUBSET Writers] /\ mixed \in [Conns -> SUBSET Writers]
  BY DEF TypeOK, Writers
<1>2. \A k \in Conns : mixed[k] \subseteq writing[k]
  BY DEF TypeOK
<1>3. writing' \in [Conns -> SUBSET Writers] /\ mixed' \in [Conns -> SUBSET Writers]
  BY <1>1 DEF EndWrite
<1>4. \A k \in Conns : mixed'[k] \subseteq writing'[k]
  BY <1>1, <1>2 DEF EndWrite
<1>5. wire \in [Conns -> Seq(Frames)] /\ garbled \subseteq Conns /\ panicked \in BOOLEAN
  BY DEF TypeOK
<1>6. [wire EXCEPT ![n] = @ \o frames] \in [Conns -> Seq(Frames)]
  BY <1>5, ConcatProperties
<1>7. /\ garbled' \subseteq Conns /\ panicked' \in BOOLEAN
      /\ garbled \subseteq garbled'
      /\ panicked => panicked'
  BY <1>5 DEF EndWrite
<1>8. /\ wire' = wire \/ wire' = [wire EXCEPT ![n] = @ \o frames]
      /\ link[n] = "open" /\ ~panicked' =>
           wire' = [wire EXCEPT ![n] = @ \o frames] \/ n \in garbled'
  BY DEF EndWrite
<1> QED
  BY <1>3, <1>4, <1>5, <1>6, <1>7, <1>8

-----------------------------------------------------------------------------
(* Types, and the order of connections.                                     *)

Control == TypeOK /\ ConnsInOrder

LEMMA InitControl == Init => Control
<1> SUFFICES ASSUME Init PROVE Control
  OBVIOUS
<1> USE ConnTypes
<1>1. conn \in 0..MaxConns /\ link \in [Conns -> LinkStates] /\ pinger \in [Conns -> PingPCs]
  BY DEF Init, LinkStates, PingPCs
<1>2. /\ pc \in [Requests -> RequestPCs] /\ target \in [Requests -> 0..MaxConns]
      /\ outcome \in [Requests -> {"none", "success", "failed", "unsupported"}]
  BY DEF Init, RequestPCs
<1>3. /\ {writing, mixed} \subseteq [Conns -> SUBSET Writers]
      /\ \A n \in Conns : mixed[n] \subseteq writing[n]
  BY DEF Init
<1>4. wire \in [Conns -> Seq(Frames)]
  BY EmptySeq DEF Init
<1>5. garbled \subseteq Conns /\ commands \in Nat /\ failures \in Nat /\ panicked \in BOOLEAN
  BY DEF Init
<1>6. ConnsInOrder
  BY DEF Init, ConnsInOrder
<1> QED
  BY <1>1, <1>2, <1>3, <1>4, <1>5, <1>6 DEF Control, TypeOK, Writers

LEMMA TunnelControl ==
  ASSUME Control, NEW n \in Conns, Connect(n) \/ BreakWrites(n) \/ Disconnect(n)
  PROVE  Control'
<1> USE ConnTypes DEF Control
<1>1. CASE Connect(n)
  <2>1. TypeOK'
    BY <1>1 DEF Connect, TypeOK, requestVars, writeVars, counters, LinkStates, PingPCs, Conns
  <2>2. ConnsInOrder'
    BY <1>1 DEF Connect, TypeOK, ConnsInOrder, requestVars
  <2> QED
    BY <2>1, <2>2
<1>2. CASE BreakWrites(n) \/ Disconnect(n)
  <2>1. TypeOK'
    BY <1>2 DEF BreakWrites, Disconnect, TypeOK, requestVars, writeVars, counters, LinkStates
  <2>2. ConnsInOrder'
    BY <1>2 DEF BreakWrites, Disconnect, TypeOK, ConnsInOrder, requestVars
  <2> QED
    BY <2>1, <2>2
<1> QED
  BY <1>1, <1>2

LEMMA PingControl ==
  ASSUME Control, NEW n \in Conns, PingStep(n)
  PROVE  Control'
<1> USE DEF Control
<1>1. Pinger(n) \in Writers
  BY DEF Writers
<1>2. ConnsInOrder'
  BY DEF PingStep, PingBegin, PingEnd, ConnsInOrder, requestVars
<1>3. CASE PingBegin(n)
  <2>1. CASE link[n] # "open"
    BY <1>2, <1>3, <2>1 DEF PingBegin, TypeOK, requestVars, writeVars, counters, PingPCs
  <2>2. CASE link[n] = "open"
    <3>1. BeginWrite(Pinger(n), n) /\ pinger' = [pinger EXCEPT ![n] = "writing"]
          /\ UNCHANGED <<conn, link, requestVars, counters>>
      BY <1>3, <2>2 DEF PingBegin
    <3>2. /\ {writing', mixed'} \subseteq [Conns -> SUBSET Writers]
          /\ \A k \in Conns : mixed'[k] \subseteq writing'[k]
          /\ wire' = wire /\ garbled' = garbled /\ panicked' = panicked
      BY <1>1, <3>1, BeginWriteTypes
    <3>3. pinger' \in [Conns -> PingPCs]
      BY <3>1 DEF TypeOK, PingPCs
    <3> QED
      BY <1>2, <3>1, <3>2, <3>3 DEF TypeOK, Writers, requestVars, counters
  <2> QED
    BY <1>2, <2>1, <2>2
<1>4. CASE PingEnd(n)
  <2>1. <<>> \in Seq(Frames)
    BY EmptySeq
  <2>2. EndWrite(Pinger(n), n, <<>>) /\ UNCHANGED <<conn, link, requestVars, counters>>
    BY <1>4 DEF PingEnd
  <2>3. /\ {writing', mixed'} \subseteq [Conns -> SUBSET Writers]
        /\ \A k \in Conns : mixed'[k] \subseteq writing'[k]
        /\ garbled' \subseteq Conns /\ panicked' \in BOOLEAN
        /\ wire' \in [Conns -> Seq(Frames)]
    BY <1>1, <2>1, <2>2, EndWriteEffect
  <2>4. pinger' \in [Conns -> PingPCs]
    BY <1>4 DEF PingEnd, TypeOK, PingPCs
  <2> QED
    BY <1>2, <2>2, <2>3, <2>4 DEF TypeOK, Writers, requestVars, counters
<1> QED
  BY <1>2, <1>3, <1>4 DEF PingStep

\* The steps of a request: loading a connection, the two ends of a write, and
\* commands.Execute in between.
LEMMA RequestCases ==
  ASSUME NEW r, RequestStep(r)
  PROVE  /\ ~panicked
         /\ \/ Load(r, "load_status", "begin_status") \/ Load(r, "load_result", "begin_result")
            \/ Begin(r, "begin_status", "end_status", "execute")
            \/ Begin(r, "begin_result", "end_result", "done")
            \/ Execute(r)
            \/ End(r, "end_status", "command_status", "execute")
            \/ End(r, "end_result", "command_result", "done")
BY DEF RequestStep, SendStatus, SendResult

\* Whoever is past its first Load has a connection.
LEMMA Loaded ==
  ASSUME Control, NEW r \in Requests, pc[r] \notin {"unsent", "load_status"}
  PROVE  target[r] \in Conns
<1>1. target[r] \in 0..MaxConns
  BY DEF Control, TypeOK
<1>2. target[r] > 0
  BY DEF Control, ConnsInOrder
<1> QED
  BY <1>1, <1>2, ConnTypes DEF Conns

LEMMA RequestControl ==
  ASSUME Control, NEW r \in Requests, ReadCommand(r) \/ RequestStep(r)
  PROVE  Control'
<1> USE ConnTypes DEF Control
<1>1. CASE ReadCommand(r)
  <2>1. conn > 0
    <3>1. PICK n \in Conns : link[n] \in {"open", "failing"}
      BY <1>1 DEF ReadCommand
    <3>2. n <= conn
      BY <3>1 DEF ConnsInOrder
    <3>3. conn \in Int
      BY DEF TypeOK
    <3> QED
      BY <3>2, <3>3
  <2>2. TypeOK'
    BY <1>1 DEF ReadCommand, TypeOK, linkVars, writeVars, counters, RequestPCs
  <2>3. ConnsInOrder'
    BY <1>1, <2>1 DEF ReadCommand, TypeOK, ConnsInOrder, linkVars
  <2> QED
    BY <2>2, <2>3
<1>2. ASSUME NEW from \in {"load_status", "load_result"}, NEW next \in {"begin_status", "begin_result"},
             Load(r, from, next)
      PROVE  Control'
  <2>1. TypeOK'
    BY <1>2 DEF Load, Goto, TypeOK, linkVars, writeVars, counters, RequestPCs
  <2>2. ConnsInOrder'
    BY <1>2 DEF Load, Goto, TypeOK, ConnsInOrder, linkVars
  <2> QED
    BY <2>1, <2>2
<1>3. ASSUME NEW from \in {"begin_status", "begin_result"}, NEW next \in {"end_status", "end_result"},
             NEW after \in {"execute", "done"}, Begin(r, from, next, after)
      PROVE  Control'
  <2>1. r \in Writers /\ target[r] \in Conns
    BY <1>3, Loaded DEF Begin, Writers
  <2>2. pc' \in [Requests -> RequestPCs] /\ ConnsInOrder'
    BY <1>3 DEF Begin, Goto, TypeOK, ConnsInOrder, linkVars, RequestPCs
  <2>3. /\ {writing', mixed'} \subseteq [Conns -> SUBSET Writers]
        /\ \A k \in Conns : mixed'[k] \subseteq writing'[k]
        /\ wire' = wire /\ garbled' = garbled /\ panicked' = panicked
    <3>1. CASE link[target[r]] = "open"
      BY <1>3, <2>1, <3>1, BeginWriteTypes DEF Begin
    <3>2. CASE link[target[r]] # "open"
      BY <1>3, <3>2 DEF Begin, writeVars, TypeOK, Writers
    <3> QED
      BY <3>1, <3>2
  <2>4. UNCHANGED <<linkVars, target, outcome, counters>>
    BY <1>3 DEF Begin
  <2> QED
    BY <2>2, <2>3, <2>4 DEF TypeOK, Writers, linkVars, counters
<1>4. CASE Execute(r)
  <2>1. commands' \in Nat /\ failures' \in Nat
    BY <1>4 DEF Execute, TypeOK
  <2>2. /\ pc' \in [Requests -> RequestPCs]
        /\ outcome' \in [Requests -> {"none", "success", "failed", "unsupported"}]
    BY <1>4 DEF Execute, Goto, TypeOK, RequestPCs
  <2>3. ConnsInOrder'
    BY <1>4 DEF Execute, Goto, TypeOK, ConnsInOrder, linkVars
  <2> QED
    BY <1>4, <2>1, <2>2, <2>3 DEF Execute, TypeOK, linkVars, writeVars
<1>5. ASSUME NEW from \in {"end_status", "end_result"},
             NEW type \in {"command_status", "command_result"},
             NEW after \in {"execute", "done"}, End(r, from, type, after)
      PROVE  Control'
  <2>1. r \in Writers /\ target[r] \in Conns
    BY <1>5, Loaded DEF End, Writers
  <2>2. pc' \in [Requests -> RequestPCs] /\ ConnsInOrder'
    BY <1>5 DEF End, Goto, TypeOK, ConnsInOrder, linkVars, RequestPCs
  <2>3. <<Frame(type, r)>> \in Seq(Frames)
    BY DEF Frame, Frames
  <2>4. /\ {writing', mixed'} \subseteq [Conns -> SUBSET Writers]
        /\ \A k \in Conns : mixed'[k] \subseteq writing'[k]
        /\ garbled' \subseteq Conns /\ panicked' \in BOOLEAN
        /\ wire' \in [Conns -> Seq(Frames)]
    BY <1>5, <2>1, <2>3, EndWriteEffect DEF End
  <2>5. UNCHANGED <<linkVars, target, outcome, counters>>
    BY <1>5 DEF End
  <2> QED
    BY <2>2, <2>4, <2>5 DEF TypeOK, Writers, linkVars, counters
<1> QED
  BY <1>1, <1>2, <1>3, <1>4, <1>5, RequestCases

LEMMA ControlKept == Control /\ [Next]_vars => Control'
<1> SUFFICES ASSUME Control, [Next]_vars PROVE Control'
  OBVIOUS
<1>1. CASE UNCHANGED vars
  BY <1>1 DEF Control, TypeOK, ConnsInOrder, vars, linkVars, requestVars, writeVars, counters
<1> QED
  BY <1>1, TunnelControl, PingControl, RequestControl DEF Next

\* Every variable keeps its type.
THEOREM TypeCorrect == Spec => []TypeOK
<1>1. Spec => []Control
  BY InitControl, ControlKept, PTL DEF Spec
<1> QED
  BY <1>1, PTL DEF Control

-----------------------------------------------------------------------------
(* The frames on the wire.                                                  *)

FrameTypes == {"command_status", "command_result"}

\* A position of a frame is a connection and an index of its wire.
LEMMA AtMembers ==
  ASSUME NEW w, NEW r, NEW type, NEW p
  PROVE  p \in At(w, r, type) <=>
           \E n \in Conns : \E i \in DOMAIN w[n] : p = <<n, i>> /\ w[n][i] = Frame(type, r)
BY DEF At

\* What a whole frame makes of the wires, and where it is then.
Sent(w, n, f) == [w EXCEPT ![n] = @ \o <<f>>]
Place(w, n) == <<n, Len(w[n]) + 1>>

\* A frame that is added to a connection is at its end, and all others stay.
LEMMA AtAppend ==
  ASSUME NEW w \in [Conns -> Seq(Frames)], NEW n \in Conns,
         NEW type \in FrameTypes, NEW r \in Requests
  PROVE  \A q \in Requests, kind \in FrameTypes : \A p :
           p \in At(Sent(w, n, Frame(type, r)), q, kind) <=>
             p \in At(w, q, kind) \/ (q = r /\ kind = type /\ p = Place(w, n))
<1> DEFINE v == Sent(w, n, Frame(type, r))
           end == Len(w[n]) + 1
<1>1. Frame(type, r) \in Frames
  BY DEF Frame, Frames, FrameTypes
<1>2. /\ w[n] \in Seq(Frames) /\ Len(w[n]) \in Nat
      /\ <<Frame(type, r)>> \in Seq(Frames) /\ Len(<<Frame(type, r)>>) = 1
      /\ <<Frame(type, r)>>[1] = Frame(type, r)
  BY <1>1, LenProperties
<1>3. v[n] = w[n] \o <<Frame(type, r)>> /\ \A k \in Conns : k # n => v[k] = w[k]
  BY DEF Sent
<1> HIDE DEF v
<1>4. /\ Len(v[n]) = end /\ end \in Nat /\ v[n][end] = Frame(type, r)
      /\ \A i \in 1..Len(w[n]) : v[n][i] = w[n][i]
      /\ v[n] \in Seq(Frames)
  BY <1>2, <1>3, ConcatProperties
<1>5. DOMAIN w[n] = 1..Len(w[n]) /\ DOMAIN v[n] = DOMAIN w[n] \cup {end}
  <2>1. DOMAIN v[n] = 1..Len(v[n]) /\ DOMAIN w[n] = 1..Len(w[n])
    BY <1>2, <1>4, LenProperties
  <2> QED
    BY <1>2, <1>4, <2>1
<1> HIDE DEF end
<1>6. ASSUME NEW q \in Requests, NEW kind \in FrameTypes, NEW p
      PROVE  p \in At(v, q, kind) <=>
               p \in At(w, q, kind) \/ (q = r /\ kind = type /\ p = <<n, end>>)
  <2>1. p \in At(v, q, kind) <=>
          \E k \in Conns : \E i \in DOMAIN v[k] : p = <<k, i>> /\ v[k][i] = Frame(kind, q)
    BY AtMembers
  <2>2. p \in At(w, q, kind) <=>
          \E k \in Conns : \E i \in DOMAIN w[k] : p = <<k, i>> /\ w[k][i] = Frame(kind, q)
    BY AtMembers
  <2>3. Frame(kind, q) = Frame(type, r) <=> q = r /\ kind = type
    BY DEF Frame
  <2>4. ASSUME p \in At(v, q, kind)
        PROVE  p \in At(w, q, kind) \/ (q = r /\ kind = type /\ p = <<n, end>>)
    <3> PICK k \in Conns : \E i \in DOMAIN v[k] : p = <<k, i>> /\ v[k][i] = Frame(kind, q)
      BY <2>1, <2>4
    <3>1. PICK i \in DOMAIN v[k] : p = <<k, i>> /\ v[k][i] = Frame(kind, q)
      OBVIOUS
    <3>2. CASE k # n \/ i # end
      BY <1>3, <1>4, <1>5, <2>2, <3>1, <3>2
    <3>3. CASE k = n /\ i = end
      BY <1>4, <2>3, <3>1, <3>3
    <3> QED
      BY <3>2, <3>3
  <2>5. ASSUME p \in At(w, q, kind)
        PROVE  p \in At(v, q, kind)
    <3> PICK k \in Conns : \E i \in DOMAIN w[k] : p = <<k, i>> /\ w[k][i] = Frame(kind, q)
      BY <2>2, <2>5
    <3>1. PICK i \in DOMAIN w[k] : p = <<k, i>> /\ w[k][i] = Frame(kind, q)
      OBVIOUS
    <3>2. i \in DOMAIN v[k] /\ v[k][i] = Frame(kind, q)
      BY <1>3, <1>4, <1>5, <3>1
    <3> QED
      BY <2>1, <3>1, <3>2
  <2>6. q = r /\ kind = type /\ p = <<n, end>> => p \in At(v, q, kind)
    BY <1>4, <1>5, <2>1
  <2> QED
    BY <2>4, <2>5, <2>6
<1> QED
  BY <1>6 DEF Place, end, v

LEMMA WireType == IInv => wire \in [Conns -> Seq(Frames)]
BY DEF IInv, TypeOK

Promises == FramesFollowRequest /\ ResultOnceAndLast /\ LostOnlyWithConnection

\* A step that writes no frame, and takes a request to its end only if the
\* connection of the result no longer works.
LEMMA Unwritten ==
  ASSUME IInv, TypeOK', wire' = wire, garbled \subseteq garbled', panicked => panicked',
         \A n \in Conns : link'[n] = "open" => link[n] = "open" \/ n > conn,
         \A r \in Requests :
           /\ target'[r] >= target[r]
           /\ pc[r] = "done" => pc'[r] = "done" /\ target'[r] = target[r]
           /\ pc'[r] = "done" /\ pc[r] # "done" =>
                target'[r] = target[r] /\ target[r] \in Conns /\ link[target[r]] # "open"
  PROVE  Promises'
<1>1. ASSUME NEW r, NEW type PROVE At(wire', r, type) = At(wire, r, type)
  BY DEF At
<1>2. \A r \in Requests : target[r] \in Int /\ target'[r] \in Int /\ target[r] <= conn
  BY DEF IInv, TypeOK, ConnsInOrder
<1>3. FramesFollowRequest'
  <2> SUFFICES ASSUME NEW r \in Requests
               PROVE  /\ pc'[r] # "done" => At(wire, r, "command_result") = {}
                      /\ \A p \in At(wire, r, "command_status") \cup At(wire, r, "command_result") :
                           p[1] <= target'[r]
    BY <1>1 DEF FramesFollowRequest
  <2>1. pc'[r] # "done" => At(wire, r, "command_result") = {}
    BY DEF IInv, FramesFollowRequest
  <2>2. ASSUME NEW p \in At(wire, r, "command_status") \cup At(wire, r, "command_result")
        PROVE  p[1] <= target'[r]
    <3>1. p[1] <= target[r]
      BY <2>2 DEF IInv, FramesFollowRequest
    <3>2. p[1] \in Int
      BY <2>2, AtMembers, ConnTypes, WireType
    <3> QED
      BY <3>1, <3>2, <1>2
  <2> QED
    BY <2>1, <2>2
<1>4. ResultOnceAndLast'
  BY <1>1 DEF IInv, ResultOnceAndLast
<1>5. LostOnlyWithConnection'
  <2> SUFFICES ASSUME NEW r \in Requests, pc'[r] = "done", ~panicked', link'[target'[r]] = "open"
               PROVE  At(wire, r, "command_result") # {} \/ target'[r] \in garbled'
    BY <1>1 DEF LostOnlyWithConnection
  <2>1. target'[r] = target[r] /\ target[r] \in Conns
    BY Loaded DEF IInv, Control
  <2>2. link[target[r]] = "open"
    BY <2>1, <1>2, ConnTypes DEF IInv, TypeOK
  <2> QED
    BY <2>1, <2>2 DEF IInv, LostOnlyWithConnection
<1> QED
  BY <1>3, <1>4, <1>5 DEF Promises

\* The end of a write of a request.
LEMMA Written ==
  ASSUME IInv, TypeOK', NEW r \in Requests,
         \/ End(r, "end_status", "command_status", "execute")
         \/ End(r, "end_result", "command_result", "done")
  PROVE  Promises'
<1> PICK n \in Conns : n = target[r]
  BY Loaded DEF End, IInv, Control
<1>1. n \in Int /\ pc[r] \notin {"done", "unsent", "load_status"}
  BY ConnTypes DEF End
<1>2. target' = target /\ link' = link /\ \A q \in Requests : q # r => pc'[q] = pc[q]
  BY DEF End, Goto, linkVars, IInv, TypeOK
<1>3. garbled \subseteq garbled' /\ (panicked => panicked')
  <2>1. ASSUME NEW type \in FrameTypes, EndWrite(r, n, <<Frame(type, r)>>)
        PROVE  garbled \subseteq garbled' /\ (panicked => panicked')
    BY <2>1 DEF EndWrite
  <2> QED
    BY <2>1 DEF End, FrameTypes
<1>4. ASSUME NEW type \in FrameTypes, EndWrite(r, n, <<Frame(type, r)>>)
      PROVE  /\ \A q \in Requests, kind \in FrameTypes : q # r \/ kind # type =>
                  \A p : p \in At(wire', q, kind) <=> p \in At(wire, q, kind)
             /\ \A p : p \in At(wire', r, type) => p \in At(wire, r, type) \/ p = Place(wire, n)
             /\ link[n] = "open" /\ ~panicked' =>
                  Place(wire, n) \in At(wire', r, type) \/ n \in garbled'
  <2>1. wire' = wire \/ wire' = Sent(wire, n, Frame(type, r))
    BY <1>4 DEF EndWrite, Sent
  <2>2. link[n] = "open" /\ ~panicked' =>
          wire' = Sent(wire, n, Frame(type, r)) \/ n \in garbled'
    BY <1>4 DEF EndWrite, Sent
  <2>3. \A q \in Requests, kind \in FrameTypes : \A p :
          p \in At(Sent(wire, n, Frame(type, r)), q, kind) <=>
            p \in At(wire, q, kind) \/ (q = r /\ kind = type /\ p = Place(wire, n))
    <3>1. wire \in [Conns -> Seq(Frames)]
      BY WireType
    <3> QED
      BY <3>1, AtAppend
  <2> QED
    BY <2>1, <2>2, <2>3, Zenon
<1>5. ASSUME NEW q \in Requests, q # r
      PROVE  \A kind \in FrameTypes : At(wire, q, kind)' = At(wire, q, kind)
  BY <1>4, <1>5 DEF End, FrameTypes
<1>6. ASSUME pc'[r] = "done" /\ ~panicked' /\ link[n] = "open" =>
               At(wire, r, "command_result")' # {} \/ n \in garbled'
      PROVE  LostOnlyWithConnection'
  <2> SUFFICES ASSUME NEW q \in Requests, pc'[q] = "done", ~panicked', link[target[q]] = "open"
               PROVE  At(wire, q, "command_result")' # {} \/ target[q] \in garbled'
    BY <1>2 DEF LostOnlyWithConnection
  <2>1. CASE q = r
    BY <1>6, <2>1
  <2>2. CASE q # r
    <3>1. At(wire, q, "command_result") # {} \/ target[q] \in garbled
      BY <1>2, <1>3, <2>2 DEF IInv, LostOnlyWithConnection
    <3> QED
      BY <1>3, <1>5, <2>2, <3>1 DEF FrameTypes
  <2> QED
    BY <2>1, <2>2
<1>7. Place(wire, n)[1] = n /\ Place(wire, n)[2] = Len(wire[n]) + 1
  BY DEF Place
<1>8. ASSUME pc'[r] # "done" => At(wire', r, "command_result") = {},
              \A kind \in FrameTypes : \A p : p \in At(wire', r, kind) =>
                p \in At(wire, r, kind) \/ p = Place(wire, n)
       PROVE  FramesFollowRequest'
  <2> SUFFICES ASSUME NEW q \in Requests
               PROVE  /\ pc'[q] # "done" => At(wire', q, "command_result") = {}
                      /\ \A kind \in FrameTypes : \A p \in At(wire', q, kind) : p[1] <= target[q]
    BY <1>2 DEF FramesFollowRequest, FrameTypes
  <2>1. \A kind \in FrameTypes : \A p \in At(wire, q, kind) : p[1] <= target[q]
    BY DEF IInv, FramesFollowRequest, FrameTypes
  <2>2. CASE q # r
    <3>1. pc[q] # "done" => At(wire, q, "command_result") = {}
      BY DEF IInv, FramesFollowRequest
    <3> QED
      BY <1>2, <1>5, <2>1, <2>2, <3>1 DEF FrameTypes
  <2>3. CASE q = r
    BY <1>1, <1>7, <1>8, <2>1, <2>3
  <2> QED
    BY <2>2, <2>3
<1>9. CASE End(r, "end_status", "command_status", "execute")
  <2>1. /\ At(wire, r, "command_result")' = {}
        /\ At(wire, r, "command_status")' \subseteq
             At(wire, r, "command_status") \cup {Place(wire, n)}
        /\ pc'[r] # "done"
    BY <1>1, <1>4, <1>9 DEF End, Goto, FrameTypes, IInv, FramesFollowRequest, TypeOK
  <2>2. FramesFollowRequest'
    BY <1>8, <2>1 DEF FrameTypes
  <2>3. ResultOnceAndLast'
    BY <1>5, <2>1 DEF ResultOnceAndLast, IInv, FrameTypes
  <2>4. LostOnlyWithConnection'
    BY <1>6, <2>1
  <2> QED
    BY <2>2, <2>3, <2>4 DEF Promises
<1>10. CASE End(r, "end_result", "command_result", "done")
  <2>1. /\ At(wire, r, "command_status")' = At(wire, r, "command_status")
        /\ At(wire, r, "command_result")' \subseteq {Place(wire, n)}
        /\ link[n] = "open" /\ ~panicked' => At(wire, r, "command_result")' # {} \/ n \in garbled'
        /\ pc'[r] = "done"
    BY <1>1, <1>4, <1>10 DEF End, Goto, FrameTypes, IInv, FramesFollowRequest, TypeOK
  <2>2. FramesFollowRequest'
    BY <1>8, <2>1 DEF FrameTypes
  <2>3. ResultOnceAndLast'
    <3>1. ASSUME NEW s \in At(wire, r, "command_status")
          PROVE  s[1] < n \/ (s[1] = n /\ s[2] < Len(wire[n]) + 1)
      <4>1. s[1] \in Conns /\ s[2] \in 1..Len(wire[s[1]])
        <5>1. s[1] \in Conns /\ s[2] \in DOMAIN wire[s[1]]
          BY AtMembers
        <5>2. wire[s[1]] \in Seq(Frames)
          BY <5>1, WireType
        <5> QED
          BY <5>1, <5>2, LenProperties
      <4>2. s[1] \in Int /\ s[1] <= n
        BY <4>1, ConnTypes DEF IInv, FramesFollowRequest
      <4>3. Len(wire[n]) \in Nat
        BY <1>1, LenProperties DEF IInv, TypeOK
      <4> QED
        BY <1>1, <4>1, <4>2, <4>3
    <3>2. ASSUME NEW q \in Requests, q # r
          PROVE  /\ At(wire', q, "command_status") = At(wire, q, "command_status")
                 /\ At(wire', q, "command_result") = At(wire, q, "command_result")
      BY <1>5, <3>2 DEF FrameTypes
    <3>3. ASSUME NEW t \in At(wire', r, "command_result")
          PROVE  t = Place(wire, n) /\ t[1] = n /\ t[2] = Len(wire[n]) + 1
      BY <1>7, <2>1
    <3> QED
      BY <2>1, <3>1, <3>2, <3>3 DEF ResultOnceAndLast, IInv
  <2>4. LostOnlyWithConnection'
    BY <1>6, <2>1
  <2> QED
    BY <2>2, <2>3, <2>4 DEF Promises
<1> QED
  BY <1>9, <1>10

LEMMA InitPromises == Init => Promises
<1> SUFFICES ASSUME Init PROVE Promises
  OBVIOUS
<1>1. ASSUME NEW r, NEW type PROVE At(wire, r, type) = {}
  BY DEF At, Init
<1>2. \A r \in Requests : pc[r] = "unsent"
  BY DEF Init
<1> QED
  BY <1>1, <1>2 DEF Promises, FramesFollowRequest, ResultOnceAndLast, LostOnlyWithConnection

LEMMA TunnelPromises ==
  ASSUME IInv, TypeOK', NEW n \in Conns, Connect(n) \/ BreakWrites(n) \/ Disconnect(n)
  PROVE  Promises'
<1>1. wire' = wire /\ garbled' = garbled /\ panicked' = panicked /\ pc' = pc /\ target' = target
  BY DEF Connect, BreakWrites, Disconnect, writeVars, requestVars
<1>2. conn \in Int /\ n \in Int /\ link \in [Conns -> LinkStates] /\ \A r \in Requests : target[r] \in Int
  BY ConnTypes DEF IInv, TypeOK
<1>3. \A k \in Conns : link'[k] = "open" => link[k] = "open" \/ k > conn
  BY <1>2 DEF Connect, BreakWrites, Disconnect
<1>4. \A r \in Requests :
        /\ target'[r] >= target[r]
        /\ pc[r] = "done" => pc'[r] = "done" /\ target'[r] = target[r]
        /\ ~(pc'[r] = "done" /\ pc[r] # "done")
  BY <1>1, <1>2
<1>5. garbled \subseteq garbled' /\ (panicked => panicked')
  BY <1>1
<1> QED
  BY <1>1, <1>3, <1>4, <1>5, Unwritten

LEMMA PingPromises ==
  ASSUME IInv, TypeOK', NEW n \in Conns, PingStep(n)
  PROVE  Promises'
<1>1. link' = link /\ pc' = pc /\ target' = target
  BY DEF PingStep, PingBegin, PingEnd, requestVars
<1>2. wire' = wire /\ garbled \subseteq garbled' /\ (panicked => panicked')
  <2>1. CASE PingBegin(n)
    BY <2>1 DEF PingBegin, BeginWrite, writeVars
  <2>2. CASE PingEnd(n)
    <3>1. EndWrite(Pinger(n), n, <<>>)
      BY <2>2 DEF PingEnd
    <3>2. wire[n] \in Seq(Frames) /\ wire \in [Conns -> Seq(Frames)]
      BY WireType
    <3>3. wire[n] \o <<>> = wire[n]
      BY <3>2, ConcatEmptySeq
    <3>4. [wire EXCEPT ![n] = @ \o <<>>] = wire
      BY <3>2, <3>3
    <3>5. Pinger(n) \in Writers /\ TypeOK
      BY DEF Writers, IInv
    <3> QED
      BY <3>1, <3>4 DEF EndWrite
  <2> QED
    BY <2>1, <2>2 DEF PingStep
<1>3. \A r \in Requests : target[r] \in Int
  BY DEF IInv, TypeOK
<1>4. \A r \in Requests :
        /\ target'[r] >= target[r]
        /\ pc[r] = "done" => pc'[r] = "done" /\ target'[r] = target[r]
        /\ ~(pc'[r] = "done" /\ pc[r] # "done")
  BY <1>1, <1>3
<1>5. \A k \in Conns : link'[k] = "open" => link[k] = "open" \/ k > conn
  BY <1>1
<1> QED
  BY <1>2, <1>4, <1>5, Unwritten

LEMMA RequestPromises ==
  ASSUME IInv, TypeOK', NEW r \in Requests, ReadCommand(r) \/ RequestStep(r)
  PROVE  Promises'
<1>1. /\ pc \in [Requests -> RequestPCs] /\ target \in [Requests -> 0..MaxConns]
      /\ conn \in Int /\ \A q \in Requests : target[q] \in Int /\ target[q] <= conn
  BY ConnTypes DEF IInv, TypeOK, ConnsInOrder
<1>2. CASE ReadCommand(r)
  <2>1. /\ wire' = wire /\ garbled \subseteq garbled' /\ (panicked => panicked')
        /\ \A k \in Conns : link'[k] = "open" => link[k] = "open" \/ k > conn
    BY <1>2 DEF ReadCommand, linkVars, writeVars
  <2>2. \A q \in Requests :
          /\ target'[q] >= target[q]
          /\ pc[q] = "done" => pc'[q] = "done" /\ target'[q] = target[q]
          /\ ~(pc'[q] = "done" /\ pc[q] # "done")
    BY <1>1, <1>2 DEF ReadCommand
  <2> QED
    BY <2>1, <2>2, Unwritten
<1>3. ASSUME NEW from \in {"load_status", "load_result"}, NEW next \in {"begin_status", "begin_result"},
             Load(r, from, next)
      PROVE  Promises'
  <2>1. /\ wire' = wire /\ garbled \subseteq garbled' /\ (panicked => panicked')
        /\ \A k \in Conns : link'[k] = "open" => link[k] = "open" \/ k > conn
    BY <1>3 DEF Load, linkVars, writeVars
  <2>2. \A q \in Requests :
          /\ target'[q] >= target[q]
          /\ pc[q] = "done" => pc'[q] = "done" /\ target'[q] = target[q]
          /\ ~(pc'[q] = "done" /\ pc[q] # "done")
    BY <1>1, <1>3 DEF Load, Goto
  <2> QED
    BY <2>1, <2>2, Unwritten
<1>4. ASSUME NEW from \in {"begin_status", "begin_result"}, NEW next \in {"end_status", "end_result"},
             NEW after \in {"execute", "done"}, Begin(r, from, next, after)
      PROVE  Promises'
  <2>1. /\ wire' = wire /\ garbled \subseteq garbled' /\ (panicked => panicked')
        /\ \A k \in Conns : link'[k] = "open" => link[k] = "open" \/ k > conn
    BY <1>4 DEF Begin, BeginWrite, linkVars, writeVars
  <2>2. target[r] \in Conns /\ target' = target
    BY <1>4, Loaded DEF Begin, IInv, Control
  <2>3. /\ \A q \in Requests : q # r => pc'[q] = pc[q]
        /\ pc[r] # "done"
        /\ pc'[r] = "done" => link[target[r]] # "open"
    BY <1>1, <1>4 DEF Begin, Goto
  <2>4. \A q \in Requests :
          /\ target'[q] >= target[q]
          /\ pc[q] = "done" => pc'[q] = "done" /\ target'[q] = target[q]
          /\ pc'[q] = "done" /\ pc[q] # "done" =>
               target'[q] = target[q] /\ target[q] \in Conns /\ link[target[q]] # "open"
    BY <1>1, <2>2, <2>3
  <2> QED
    BY <2>1, <2>4, Unwritten
<1>5. CASE Execute(r)
  <2>1. /\ wire' = wire /\ garbled \subseteq garbled' /\ (panicked => panicked')
        /\ \A k \in Conns : link'[k] = "open" => link[k] = "open" \/ k > conn
    BY <1>5 DEF Execute, linkVars, writeVars
  <2>2. \A q \in Requests :
          /\ target'[q] >= target[q]
          /\ pc[q] = "done" => pc'[q] = "done" /\ target'[q] = target[q]
          /\ ~(pc'[q] = "done" /\ pc[q] # "done")
    BY <1>1, <1>5 DEF Execute, Goto
  <2> QED
    BY <2>1, <2>2, Unwritten
<1> QED
  BY <1>2, <1>3, <1>4, <1>5, RequestCases, Written

LEMMA UnchangedPromises == IInv /\ UNCHANGED vars => Promises'
<1> SUFFICES ASSUME IInv, UNCHANGED vars PROVE Promises'
  OBVIOUS
<1>1. ASSUME NEW r, NEW type PROVE At(wire', r, type) = At(wire, r, type)
  BY DEF At, vars, writeVars
<1> QED
  BY <1>1 DEF IInv, Promises, FramesFollowRequest, ResultOnceAndLast, LostOnlyWithConnection,
     vars, linkVars, requestVars, writeVars

\* IInv is inductive: types, connections in order, and where the frames are.
THEOREM Invariance == Spec => []IInv
<1>1. Init => IInv
  BY InitControl, InitPromises DEF IInv, Control, Promises
<1>2. IInv /\ [Next]_vars => IInv'
  <2> SUFFICES ASSUME IInv, [Next]_vars PROVE IInv'
    OBVIOUS
  <2>1. TypeOK' /\ ConnsInOrder'
    BY ControlKept DEF IInv, Control
  <2>2. Promises'
    BY <2>1, TunnelPromises, PingPromises, RequestPromises, UnchangedPromises DEF Next
  <2> QED
    BY <2>1, <2>2 DEF IInv, Promises
<1> QED
  BY <1>1, <1>2, PTL DEF Spec

\* However often the tunnel reconnects between the frames of a command, the
\* control plane gets at most one result, and no status after it.
THEOREM ResultsOnce == Spec => []ResultOnceAndLast
<1>1. IInv => ResultOnceAndLast
  BY DEF IInv
<1> QED
  BY <1>1, Invariance, PTL

\* The result of a command that has ended is on the wire of the connection it was
\* written to, unless that connection has failed or writes on it overlapped.
THEOREM LostWithConnection == Spec => []LostOnlyWithConnection
<1>1. IInv => LostOnlyWithConnection
  BY DEF IInv
<1> QED
  BY <1>1, Invariance, PTL

-----------------------------------------------------------------------------
(* A command only goes forward, and is counted once.                       *)

Stage ==
  [unsent |-> 0, load_status |-> 1, begin_status |-> 2, end_status |-> 3, execute |-> 4,
   load_result |-> 5, begin_result |-> 6, end_result |-> 7, done |-> 8]

PingStage == [off |-> 0, idle |-> 1, writing |-> 2, ended |-> 3]

Advances(r) == Stage[pc[r]] < Stage[pc'[r]]
Rests(r) == UNCHANGED <<pc[r], target[r], outcome[r]>>

\* Whatever moves a command brings it nearer to its end, and a ping goroutine that
\* has ended, or whose connection no longer works, begins no other ping.
StepsForward ==
  [][/\ \A r \in Requests : Advances(r) \/ Rests(r)
     /\ \A n \in Conns : /\ pinger[n] = "ended" => pinger'[n] = "ended"
                         /\ link[n] \in {"failing", "closed"} =>
                              PingStage[pinger[n]] < PingStage[pinger'[n]] \/ pinger'[n] = pinger[n]
    ]_vars

\* No connection is pinged before it opens.
PingersFollow == \A n \in Conns : link[n] = "new" => pinger[n] = "off"

\* A step of a command moves it, and no other.
LEMMA RequestAdvances ==
  ASSUME TypeOK, NEW r \in Requests, ReadCommand(r) \/ RequestStep(r)
  PROVE  /\ Advances(r) /\ \A q \in Requests \ {r} : Rests(q)
         /\ pinger' = pinger /\ link' = link
<1> USE DEF TypeOK, Advances, Rests, Stage
<1>1. CASE ReadCommand(r)
  BY <1>1 DEF ReadCommand, linkVars
<1>2. CASE Load(r, "load_status", "begin_status")
  BY <1>2 DEF Load, Goto, linkVars
<1>3. CASE Load(r, "load_result", "begin_result")
  BY <1>3 DEF Load, Goto, linkVars
<1>4. CASE Begin(r, "begin_status", "end_status", "execute")
  BY <1>4 DEF Begin, Goto, linkVars
<1>5. CASE Begin(r, "begin_result", "end_result", "done")
  BY <1>5 DEF Begin, Goto, linkVars
<1>6. CASE Execute(r)
  BY <1>6 DEF Execute, Goto, linkVars
<1>7. CASE End(r, "end_status", "command_status", "execute")
  BY <1>7 DEF End, Goto, linkVars
<1>8. CASE End(r, "end_result", "command_result", "done")
  BY <1>8 DEF End, Goto, linkVars
<1> QED
  BY <1>1, <1>2, <1>3, <1>4, <1>5, <1>6, <1>7, <1>8, RequestCases

\* Only a connection that is made starts a pinger, and it starts it idle.
LEMMA PingersFollowKept ==
  ASSUME TypeOK, PingersFollow, [Next]_vars
  PROVE  PingersFollow'
<1>1. ASSUME NEW n \in Conns, Connect(n) \/ BreakWrites(n) \/ Disconnect(n) PROVE PingersFollow'
  BY <1>1 DEF Connect, BreakWrites, Disconnect, PingersFollow, TypeOK
<1>2. ASSUME NEW n \in Conns, PingStep(n) PROVE PingersFollow'
  BY <1>2 DEF PingStep, PingBegin, PingEnd, PingersFollow, TypeOK
<1>3. ASSUME NEW r \in Requests, ReadCommand(r) \/ RequestStep(r) PROVE PingersFollow'
  BY <1>3, RequestAdvances DEF PingersFollow
<1>4. CASE UNCHANGED vars
  BY <1>4 DEF vars, linkVars, PingersFollow
<1> QED
  BY <1>1, <1>2, <1>3, <1>4 DEF Next

\* Executor.Execute takes at most eight steps and never takes one back, whatever
\* becomes of the connections; Manager.ping ends with its connection.
THEOREM Forward == Spec => StepsForward
<1>1. ASSUME TypeOK, ConnsInOrder, [Next]_vars, NEW r \in Requests PROVE Advances(r) \/ Rests(r)
  <2>1. ASSUME NEW n \in Conns, Connect(n) \/ BreakWrites(n) \/ Disconnect(n) \/ PingStep(n)
        PROVE  Rests(r)
    BY <2>1 DEF Connect, BreakWrites, Disconnect, PingStep, PingBegin, PingEnd, requestVars, Rests
  <2>2. ASSUME NEW q \in Requests, ReadCommand(q) \/ RequestStep(q) PROVE Advances(r) \/ Rests(r)
    BY <1>1, <2>2, RequestAdvances
  <2>3. CASE UNCHANGED vars
    BY <2>3 DEF vars, requestVars, Rests
  <2> QED
    BY <1>1, <2>1, <2>2, <2>3 DEF Next
<1>2. ASSUME TypeOK, ConnsInOrder, PingersFollow, [Next]_vars, NEW n \in Conns
      PROVE  /\ pinger[n] = "ended" => pinger'[n] = "ended"
             /\ link[n] \in {"failing", "closed"} =>
                  PingStage[pinger[n]] < PingStage[pinger'[n]] \/ pinger'[n] = pinger[n]
  <2>1. ASSUME NEW k \in Conns, PingStep(k) PROVE
          \/ pinger'[n] = pinger[n]
          \/ /\ pinger[n] # "ended"
             /\ link[n] # "open" => PingStage[pinger[n]] < PingStage[pinger'[n]]
    BY <1>2, <2>1 DEF PingStep, PingBegin, PingEnd, PingStage, TypeOK
  <2>2. ASSUME NEW k \in Conns, BreakWrites(k) \/ Disconnect(k) PROVE pinger'[n] = pinger[n]
    BY <2>2 DEF BreakWrites, Disconnect
  <2>3. ASSUME NEW k \in Conns, Connect(k)
        PROVE  pinger'[n] = pinger[n] \/ (pinger[n] = "off" /\ link[n] = "new")
    <3>1. k = conn + 1 /\ conn \in Nat /\ pinger' = [pinger EXCEPT ![k] = "idle"]
      BY <1>2, <2>3 DEF Connect, TypeOK
    <3>2. link[k] = "new"
      BY <1>2, <3>1, ConnTypes DEF ConnsInOrder
    <3>3. pinger[k] = "off"
      BY <1>2, <3>2 DEF PingersFollow
    <3> QED
      BY <1>2, <3>1, <3>2, <3>3 DEF TypeOK
  <2>4. ASSUME NEW q \in Requests, ReadCommand(q) \/ RequestStep(q) PROVE pinger'[n] = pinger[n]
    BY <1>2, <2>4, RequestAdvances
  <2>5. CASE UNCHANGED vars
    BY <2>5 DEF vars, linkVars
  <2> QED
    BY <1>2, <2>1, <2>2, <2>3, <2>4, <2>5 DEF Next
<1>3. TypeOK /\ ConnsInOrder /\ PingersFollow /\ [Next]_vars =>
        /\ \A r \in Requests : Advances(r) \/ Rests(r)
        /\ \A n \in Conns : /\ pinger[n] = "ended" => pinger'[n] = "ended"
                            /\ link[n] \in {"failing", "closed"} =>
                                 PingStage[pinger[n]] < PingStage[pinger'[n]] \/ pinger'[n] = pinger[n]
  BY <1>1, <1>2
<1>4. Init => PingersFollow
  BY DEF Init, PingersFollow
<1>5. TypeOK /\ PingersFollow /\ [Next]_vars => PingersFollow'
  BY PingersFollowKept
<1>6. Spec => [](TypeOK /\ ConnsInOrder)
  BY InitControl, ControlKept, PTL DEF Spec, Control
<1> QED
  BY <1>3, <1>4, <1>5, <1>6, PTL DEF Spec, StepsForward

\* The commands that commands.Execute has been asked to execute.
Executed == {r \in Requests : outcome[r] # "none"}

\* Each of them is counted once, and none as a failure.
CountedOnce ==
  IsFiniteSet(Executed) /\ commands = Cardinality(Executed) /\ failures = 0

\* What has been executed is past its execution.
OutcomeFollows ==
  \A r \in Requests :
    pc[r] \in {"unsent", "load_status", "begin_status", "end_status", "execute"} =>
      outcome[r] = "none"

\* A step that executes a command is the only one that adds it to the count.
LEMMA CountedKept ==
  ASSUME TypeOK, OutcomeFollows, CountedOnce, [Next]_vars
  PROVE  OutcomeFollows' /\ CountedOnce'
<1> USE DEF TypeOK, OutcomeFollows, CountedOnce, Executed
<1>1. ASSUME NEW n \in Conns, Connect(n) \/ BreakWrites(n) \/ Disconnect(n) \/ PingStep(n)
      PROVE  OutcomeFollows' /\ CountedOnce'
  BY <1>1 DEF Connect, BreakWrites, Disconnect, PingStep, PingBegin, PingEnd, requestVars, counters
<1>2. ASSUME NEW r \in Requests, Execute(r) PROVE OutcomeFollows' /\ CountedOnce'
  <2>1. pc[r] = "execute" /\ pc' = [pc EXCEPT ![r] = "load_result"]
    BY <1>2 DEF Execute, Goto
  <2>2. PICK o \in {"success", "failed", "unsupported"} :
          /\ outcome' = [outcome EXCEPT ![r] = o]
          /\ commands' = commands + 1 /\ failures' = failures
    BY <1>2 DEF Execute, Status
  <2>3. OutcomeFollows'
    BY <2>1, <2>2
  <2>4. Executed' = Executed \cup {r} /\ r \notin Executed
    BY <2>1, <2>2
  <2>5. IsFiniteSet(Executed \cup {r}) /\ Cardinality(Executed \cup {r}) = Cardinality(Executed) + 1
    <3> HIDE DEF Executed
    <3> QED
      BY <2>4, FS_AddElement DEF CountedOnce
  <2>6. CountedOnce'
    <3> HIDE DEF Executed
    <3> QED
      BY <2>2, <2>4, <2>5
  <2> QED
    BY <2>3, <2>6
<1>3. ASSUME NEW r \in Requests, ReadCommand(r) \/ RequestStep(r), ~Execute(r)
      PROVE  OutcomeFollows' /\ CountedOnce'
  <2>1. outcome' = outcome /\ UNCHANGED counters
    BY <1>3, RequestCases DEF ReadCommand, Load, Begin, End
  <2>2. \A q \in Requests :
          pc'[q] \in {"unsent", "load_status", "begin_status", "end_status", "execute"} =>
            pc[q] \in {"unsent", "load_status", "begin_status", "end_status", "execute"}
    BY <1>3, RequestCases DEF ReadCommand, Load, Begin, End, Goto
  <2> QED
    BY <2>1, <2>2 DEF counters
<1>4. CASE UNCHANGED vars
  BY <1>4 DEF vars, requestVars, counters
<1> QED
  BY <1>1, <1>2, <1>3, <1>4 DEF Next

\* Every command that is executed is booked on the counter Commands, once, and the
\* counter CommandFailures stays where it began: Executor.Execute looks for a
\* status that commands.Execute never returns.
THEOREM Counted == Spec => []CountedOnce
<1>1. Init => OutcomeFollows /\ CountedOnce
  <2> SUFFICES ASSUME Init PROVE OutcomeFollows /\ CountedOnce
    OBVIOUS
  <2>1. Executed = {} /\ commands = 0 /\ failures = 0
    BY DEF Init, Executed
  <2>2. IsFiniteSet({}) /\ Cardinality({}) = 0
    BY FS_EmptySet
  <2> QED
    BY <2>1, <2>2 DEF Init, OutcomeFollows, CountedOnce
<1>2. TypeOK /\ OutcomeFollows /\ CountedOnce /\ [Next]_vars => OutcomeFollows' /\ CountedOnce'
  BY CountedKept
<1>3. Spec => []TypeOK
  BY TypeCorrect
<1> QED
  BY <1>1, <1>2, <1>3, PTL DEF Spec

\* As soon as a command has failed the counter CommandFailures does not say what
\* its help text does, in every instance and whatever else happens.
THEOREM Uncounted ==
  Spec => []((\E r \in Requests : outcome[r] = "failed") => ~FailuresCounted)
<1>1. CountedOnce => ((\E r \in Requests : outcome[r] = "failed") => ~FailuresCounted)
  <2> SUFFICES ASSUME CountedOnce, NEW r \in Requests, outcome[r] = "failed"
               PROVE  ~FailuresCounted
    OBVIOUS
  <2> DEFINE Failed == {q \in Requests : outcome[q] = "failed"}
  <2>1. IsFiniteSet(Failed)
    <3>1. Failed \subseteq Executed
      BY DEF Executed
    <3> HIDE DEF Failed
    <3> QED
      BY <3>1, FS_Subset DEF CountedOnce
  <2>2. r \in Failed
    OBVIOUS
  <2>3. Cardinality(Failed) \in Nat /\ Cardinality(Failed) # 0
    <3> HIDE DEF Failed
    <3> QED
      BY <2>1, <2>2, FS_CardinalityType, FS_EmptySet
  <2> QED
    BY <2>3 DEF CountedOnce, FailuresCounted
<1> QED
  BY <1>1, Counted, PTL
=============================================================================
