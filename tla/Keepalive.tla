------------------------------ MODULE Keepalive ------------------------------
(***************************************************************************)
(* internal/websocket in time: the pings, the two read deadlines and the   *)
(* backoff by which the agent tells a dead peer from a silent one and      *)
(* comes back to it.  Time passes in Tick, which waits for whatever is due *)
(* at once: a timer that ran out, or the pong of a peer that is there.     *)
(* What is read is in Tunnel, who writes in Commands.                      *)
(***************************************************************************)
EXTENDS Naturals

CONSTANTS PingEvery,        \* the ticker of ping: 20 seconds
          PongWait,         \* the read deadline set by the pong handler: 60 seconds
          ReadWait,         \* the read deadline set before each ReadJSON: 75 seconds
          HandshakeTimeout, \* of the dialer: 20 seconds
          InitialInterval,  \* of the backoff: 1 second
          MaxInterval,      \* of the backoff: 60 seconds
          MaxDelay          \* a peer that is there has its pong back by then

ASSUME KeepaliveAssumption ==
  /\ {PingEvery, InitialInterval} \subseteq Nat \ {0}
  /\ {PongWait, ReadWait, HandshakeTimeout, MaxInterval, MaxDelay} \subseteq Nat
  /\ PingEvery + MaxDelay < PongWait
  /\ PongWait <= ReadWait
  /\ HandshakeTimeout <= ReadWait
  /\ InitialInterval <= MaxInterval

VARIABLES phase,        \* what Run does: dial, serve a connection, or wait
          timer,        \* time left: of the handshake, the read deadline, the wait
          interval,     \* the current interval of the backoff
          pinging,      \* the connection's writes work, so that ping goes on
          nextPing,     \* time left until the ticker fires
          flight,       \* the ages of the pings whose pongs are to come
          reachable,    \* the peer of this connection is there
          quiet         \* history: time since the peer was heard, or last dialled

vars == <<phase, timer, interval, pinging, nextPing, flight, reachable, quiet>>

connection == <<pinging, nextPing, flight, reachable>>

Init ==
  /\ phase = "dial" /\ timer = HandshakeTimeout
  /\ interval = InitialInterval
  /\ pinging = FALSE /\ nextPing = 0 /\ flight = {} /\ reachable = FALSE
  /\ quiet = 0

-----------------------------------------------------------------------------
(* Run: dialling and waiting.                                              *)

\* NextBackOff: anything within half the interval of it.
Waits(i) == (i - i \div 2)..(i + i \div 2)

\* Mutant of Grown: no MaxInterval.
GrownWithoutEnd(i) == (3 * i + 1) \div 2

\* One and a half times the interval, up to MaxInterval.
Grown(i) == IF (3 * i + 1) \div 2 <= MaxInterval THEN (3 * i + 1) \div 2 ELSE MaxInterval

\* connectAndServe has returned.  The backoff is never Reset, so its interval
\* outlives the connections.
Backoff ==
  /\ phase' = "wait"
  /\ timer' \in Waits(interval)
  /\ interval' = Grown(interval)
  /\ UNCHANGED <<connection, quiet>>

Redial ==
  /\ phase = "wait" /\ timer = 0
  /\ phase' = "dial"
  /\ timer' = HandshakeTimeout
  /\ quiet' = 0
  /\ UNCHANGED <<interval, connection>>

DialFail == phase = "dial" /\ Backoff

\* The connection is there: the first deadline is set and ping started.
DialOk ==
  /\ phase = "dial"
  /\ phase' = "serve"
  /\ timer' = ReadWait
  /\ pinging' = TRUE /\ nextPing' = PingEvery
  /\ flight' = {} /\ reachable' = TRUE
  /\ quiet' = 0
  /\ UNCHANGED interval

-----------------------------------------------------------------------------
(* A connection.                                                           *)

\* Mutant of Ping: sending one puts off the deadline.
PingProlongs ==
  /\ phase = "serve" /\ pinging /\ nextPing = 0
  /\ nextPing' = PingEvery
  /\ timer' = PongWait
  /\ flight' = IF reachable THEN flight \cup {0} ELSE flight
  /\ UNCHANGED <<phase, interval, pinging, reachable, quiet>>

\* The ping is written, which tells nothing of the peer: one that is gone does
\* not get it.
Ping ==
  /\ phase = "serve" /\ pinging /\ nextPing = 0
  /\ nextPing' = PingEvery
  /\ flight' = IF reachable THEN flight \cup {0} ELSE flight
  /\ UNCHANGED <<phase, timer, interval, pinging, reachable, quiet>>

\* Mutant of Pong: there is no pong handler.
PongUnhandled ==
  /\ phase = "serve" /\ flight # {}
  /\ \E age \in flight : (\A a \in flight : a <= age) /\ flight' = flight \ {age}
  /\ quiet' = 0
  /\ UNCHANGED <<phase, timer, interval, pinging, nextPing, reachable>>

\* The oldest ping is answered.
Pong ==
  /\ phase = "serve" /\ flight # {}
  /\ \E age \in flight : (\A a \in flight : a <= age) /\ flight' = flight \ {age}
  /\ timer' = PongWait
  /\ quiet' = 0
  /\ UNCHANGED <<phase, interval, pinging, nextPing, reachable>>

\* ReadJSON returns an envelope and the loop comes round.
Message ==
  /\ phase = "serve" /\ reachable
  /\ timer' = ReadWait
  /\ quiet' = 0
  /\ UNCHANGED <<phase, interval, connection>>

\* ReadJSON fails: the deadline is over.
Expire == phase = "serve" /\ timer = 0 /\ Backoff

\* ReadJSON fails for another reason, or a revocation is handled.
Close == phase = "serve" /\ Backoff

\* A write fails, by its own deadline of 10 or 30 seconds or at once.  The error
\* stays with the connection, ping returns, and nobody closes the connection.
WritesBreak ==
  /\ phase = "serve" /\ pinging
  /\ pinging' = FALSE
  /\ UNCHANGED <<phase, timer, interval, nextPing, flight, reachable, quiet>>

\* The peer is gone and nothing says so.
PeerVanishes ==
  /\ phase = "serve" /\ reachable
  /\ reachable' = FALSE /\ flight' = {}
  /\ UNCHANGED <<phase, timer, interval, pinging, nextPing, quiet>>

Tick ==
  /\ timer > 0
  /\ timer' = timer - 1
  /\ quiet' = quiet + 1
  /\ IF phase = "serve"
     THEN /\ pinging => nextPing > 0
          /\ nextPing' = IF pinging THEN nextPing - 1 ELSE nextPing
          /\ MaxDelay \notin flight
          /\ flight' = {age + 1 : age \in flight}
     ELSE UNCHANGED <<nextPing, flight>>
  /\ UNCHANGED <<phase, interval, pinging, reachable>>

Next ==
  \/ Redial \/ DialFail \/ DialOk
  \/ Ping \/ Pong \/ Message \/ Expire \/ Close
  \/ WritesBreak \/ PeerVanishes
  \/ Tick

Spec == Init /\ [][Next]_vars

-----------------------------------------------------------------------------
LongestWait == MaxInterval + MaxInterval \div 2

\* Every variable has its type.
TypeOK ==
  /\ phase \in {"dial", "serve", "wait"}
  /\ timer \in Nat
  /\ interval \in 1..MaxInterval
  /\ pinging \in BOOLEAN
  /\ nextPing \in 0..PingEvery
  /\ flight \subseteq 0..MaxDelay
  /\ reachable \in BOOLEAN
  /\ quiet \in Nat

\* The deadline of a connection runs out only when its peer is gone or its
\* writes are broken: a peer that answers pings and sends nothing else is never
\* cut off, although a pong leaves less time than a message does.
LivePeerKept == phase = "serve" /\ reachable /\ pinging => timer > 0

\* A peer that vanishes without a word is noticed 75 seconds after it was last
\* heard, whether or not pings can still be written.
DeadPeerNoticed == phase = "serve" => quiet <= ReadWait

\* From the last sign of the peer, or the last attempt to reach it, until the
\* next attempt it takes 165 seconds at most, however often the backoff has
\* grown over earlier connections.
RedialsInTime == quiet <= ReadWait + LongestWait

\* While the peer can answer, its next sign arrives before the deadline.
SignInTime ==
  phase = "serve" /\ reachable /\ pinging =>
    \/ flight = {} /\ nextPing + MaxDelay < timer
    \/ \E age \in flight : MaxDelay - age < timer

\* How long it can be quiet in each phase.
QuietBounded ==
  /\ phase = "dial"  => quiet + timer <= HandshakeTimeout
  /\ phase = "serve" => quiet + timer <= ReadWait
  /\ phase = "wait"  => quiet + timer <= ReadWait + LongestWait

KeepaliveInv == TypeOK /\ SignInTime /\ QuietBounded
=============================================================================
