--------------------------- MODULE KeepaliveProofs ---------------------------
(***************************************************************************)
(* The promises of Keepalive, for all periods and deadlines that satisfy   *)
(* KeepaliveAssumption: they rest on a ping and its pong fitting into the  *)
(* shorter of the two read deadlines, and on nothing else.                 *)
(***************************************************************************)
EXTENDS Keepalive, TLAPS

LEMMA ConstantTypes ==
  /\ PingEvery \in Nat \ {0} /\ InitialInterval \in 1..MaxInterval
  /\ PongWait \in Nat /\ ReadWait \in Nat /\ HandshakeTimeout \in Nat
  /\ MaxInterval \in Nat /\ MaxDelay \in Nat
<1>1. /\ PingEvery \in Nat \ {0} /\ InitialInterval \in Nat \ {0}
      /\ PongWait \in Nat /\ ReadWait \in Nat /\ HandshakeTimeout \in Nat
      /\ MaxInterval \in Nat /\ MaxDelay \in Nat
  BY KeepaliveAssumption
<1> QED
  BY <1>1, KeepaliveAssumption

\* The backoff's interval stays between one unit and its maximum, and a wait
\* is at most half as long again.
LEMMA BackoffBounds ==
  ASSUME NEW i \in 1..MaxInterval
  PROVE  /\ Grown(i) \in 1..MaxInterval
         /\ \A w \in Waits(i) : w \in Nat /\ w <= LongestWait
BY KeepaliveAssumption DEF Grown, Waits, LongestWait

\* Every variable keeps its type.
THEOREM TypeCorrect == Spec => []TypeOK
<1> USE ConstantTypes DEF TypeOK
<1>1. Init => TypeOK
  <2> SUFFICES ASSUME Init PROVE TypeOK
    OBVIOUS
  <2>1. flight \subseteq 0..MaxDelay /\ pinging \in BOOLEAN /\ reachable \in BOOLEAN
    BY Zenon DEF Init
  <2>2. nextPing \in 0..PingEvery /\ timer \in Nat /\ quiet \in Nat /\ interval \in 1..MaxInterval
    BY DEF Init
  <2> QED
    BY <2>1, <2>2 DEF Init
<1>2. TypeOK /\ [Next]_vars => TypeOK'
  <2> SUFFICES ASSUME TypeOK, [Next]_vars PROVE TypeOK'
    OBVIOUS
  <2> USE DEF connection
  <2>1. ASSUME Backoff, phase' = "wait" PROVE TypeOK'
    BY <2>1, BackoffBounds DEF Backoff
  <2>2. CASE Redial
    BY <2>2 DEF Redial
  <2>3. CASE DialOk
    <3>1. flight' \subseteq 0..MaxDelay /\ pinging' \in BOOLEAN /\ reachable' \in BOOLEAN
      BY <2>3, Zenon DEF DialOk
    <3>2. nextPing' \in 0..PingEvery /\ timer' \in Nat /\ quiet' \in Nat
      BY <2>3 DEF DialOk
    <3> QED
      BY <2>3, <3>1, <3>2 DEF DialOk
  <2>4. CASE DialFail \/ Expire \/ Close
    BY <2>1, <2>4 DEF DialFail, Expire, Close, Backoff
  <2>5. CASE Ping
    BY <2>5 DEF Ping
  <2>6. CASE Pong
    <3>1. flight' \subseteq flight
      BY <2>6, Zenon DEF Pong
    <3> QED
      BY <2>6, <3>1 DEF Pong
  <2>7. CASE Message
    BY <2>7 DEF Message
  <2>8. CASE WritesBreak \/ PeerVanishes
    BY <2>8 DEF WritesBreak, PeerVanishes
  <2>9. CASE Tick
    <3>1. timer' \in Nat /\ quiet' \in Nat
      BY <2>9 DEF Tick
    <3>2. nextPing' \in 0..PingEvery
      BY <2>9 DEF Tick
    <3>3. flight' \subseteq 0..MaxDelay
      <4>1. ASSUME NEW age \in flight, MaxDelay \notin flight
            PROVE  age + 1 \in 0..MaxDelay
        BY <4>1
      <4>2. (flight' = {age + 1 : age \in flight} /\ MaxDelay \notin flight) \/ flight' = flight
        BY <2>9 DEF Tick
      <4>3. \A a \in {age + 1 : age \in flight} : \E age \in flight : a = age + 1
        OBVIOUS
      <4> QED
        <5>1. CASE MaxDelay \notin flight /\ flight' = {age + 1 : age \in flight}
          <6> SUFFICES ASSUME NEW a \in flight' PROVE a \in 0..MaxDelay
            BY Zenon
          <6>1. PICK age \in flight : a = age + 1
            BY <5>1, <4>3, Zenon
          <6> QED
            BY <5>1, <6>1, <4>1, Zenon
        <5> QED
          BY <4>2, <5>1
    <3> QED
      BY <2>9, <3>1, <3>2, <3>3 DEF Tick
  <2>10. CASE UNCHANGED vars
    BY <2>10 DEF vars
  <2> QED
    BY <2>2, <2>3, <2>4, <2>5, <2>6, <2>7, <2>8, <2>9, <2>10 DEF Next
<1> QED
  BY <1>1, <1>2, PTL DEF Spec

-----------------------------------------------------------------------------
(* The inductive invariant.                                                 *)

LEMMA SignStep ==
  ASSUME TypeOK, SignInTime, Next
  PROVE  SignInTime'
<1> USE KeepaliveAssumption DEF TypeOK, SignInTime, connection
<1>1. CASE Redial \/ DialFail \/ Expire \/ Close
  BY <1>1 DEF Redial, DialFail, Expire, Close, Backoff
<1>2. CASE DialOk
  BY <1>2 DEF DialOk
<1>3. CASE Ping
  \* The ping is due at once: what was in flight still is, or its own age is 0.
  BY <1>3 DEF Ping
<1>4. CASE Pong
  \* A pong leaves PongWait, in which the next ping and its pong fit; one that
  \* stays in flight is younger than MaxDelay.
  <2>1. ASSUME NEW age \in flight, flight' = flight \ {age}, timer' = PongWait,
               nextPing' = nextPing
        PROVE  \/ flight' = {} /\ nextPing' + MaxDelay < timer'
               \/ \E a \in flight' : MaxDelay - a < timer'
    BY <2>1
  <2> QED
    BY <1>4, <2>1 DEF Pong
<1>5. CASE Message
  <2>1. flight = {} \/ \E a \in flight : MaxDelay - a < ReadWait
    OBVIOUS
  <2> QED
    BY <1>5, <2>1 DEF Message
<1>6. CASE WritesBreak \/ PeerVanishes
  BY <1>6 DEF WritesBreak, PeerVanishes
<1>7. CASE Tick
  <2>1. CASE phase = "serve" /\ reachable /\ pinging
    <3>1. CASE flight = {}
      BY <1>7, <2>1, <3>1 DEF Tick
    <3>2. ASSUME NEW a \in flight, MaxDelay - a < timer
          PROVE  a + 1 \in flight' /\ MaxDelay - (a + 1) < timer'
      BY <1>7, <2>1, <3>2 DEF Tick
    <3> QED
      BY <2>1, <3>1, <3>2
  <2>2. CASE ~(phase = "serve" /\ reachable /\ pinging)
    BY <1>7, <2>2 DEF Tick
  <2> QED
    BY <2>1, <2>2
<1> QED
  BY <1>1, <1>2, <1>3, <1>4, <1>5, <1>6, <1>7 DEF Next

LEMMA QuietStep ==
  ASSUME TypeOK, QuietBounded, Next
  PROVE  QuietBounded'
<1> USE KeepaliveAssumption DEF TypeOK, QuietBounded, connection
<1>1. CASE Redial \/ DialOk
  BY <1>1 DEF Redial, DialOk
<1>2. CASE DialFail \/ Expire \/ Close
  <2>1. quiet <= ReadWait
    BY <1>2 DEF DialFail, Expire, Close
  <2>2. timer' \in Nat /\ timer' <= LongestWait
    BY <1>2, BackoffBounds DEF DialFail, Expire, Close, Backoff
  <2>3. LongestWait \in Nat
    BY DEF LongestWait
  <2> QED
    BY <1>2, <2>1, <2>2, <2>3 DEF DialFail, Expire, Close, Backoff
<1>3. CASE Ping \/ WritesBreak \/ PeerVanishes
  BY <1>3 DEF Ping, WritesBreak, PeerVanishes
<1>4. CASE Pong \/ Message
  BY <1>4 DEF Pong, Message
<1>5. CASE Tick
  BY <1>5 DEF Tick, LongestWait
<1> QED
  BY <1>1, <1>2, <1>3, <1>4, <1>5 DEF Next

\* The inductive invariant of the clock holds: before the deadline there is always
\* time for the next sign of a peer that answers.
THEOREM Invariance == Spec => []KeepaliveInv
<1>1. Init => SignInTime /\ QuietBounded
  BY KeepaliveAssumption DEF Init, SignInTime, QuietBounded
<1>2. TypeOK /\ SignInTime /\ QuietBounded /\ [Next]_vars => (SignInTime /\ QuietBounded)'
  <2> SUFFICES ASSUME TypeOK, SignInTime, QuietBounded, [Next]_vars
               PROVE  (SignInTime /\ QuietBounded)'
    OBVIOUS
  <2>1. CASE UNCHANGED vars
    BY <2>1 DEF vars, SignInTime, QuietBounded
  <2> QED
    BY <2>1, SignStep, QuietStep
<1> QED
  BY <1>1, <1>2, TypeCorrect, PTL DEF Spec, KeepaliveInv

-----------------------------------------------------------------------------
\* A peer that answers pings is never cut off by a read deadline.
THEOREM LiveKept == Spec => []LivePeerKept
<1>1. KeepaliveInv => LivePeerKept
  <2> SUFFICES ASSUME KeepaliveInv, phase = "serve", reachable, pinging PROVE timer > 0
    BY DEF LivePeerKept
  <2> USE KeepaliveAssumption DEF KeepaliveInv, TypeOK, SignInTime
  <2>1. \A age \in flight : age \in Nat /\ MaxDelay - age >= 0
    OBVIOUS
  <2> QED
    BY <2>1
<1> QED
  BY <1>1, Invariance, PTL

\* A dead peer is noticed within the longer of the read deadlines.
THEOREM DeadNoticed == Spec => []DeadPeerNoticed
<1>1. KeepaliveInv => DeadPeerNoticed
  BY KeepaliveAssumption DEF KeepaliveInv, TypeOK, QuietBounded, DeadPeerNoticed
<1> QED
  BY <1>1, Invariance, PTL

\* However far the backoff has grown, the next attempt comes in time.
THEOREM RedialBounded == Spec => []RedialsInTime
<1>1. KeepaliveInv => RedialsInTime
  BY KeepaliveAssumption
     DEF KeepaliveInv, TypeOK, QuietBounded, RedialsInTime, LongestWait
<1> QED
  BY <1>1, Invariance, PTL
=============================================================================
