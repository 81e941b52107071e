------------------------------- MODULE Tunnel -------------------------------
(***************************************************************************)
(* internal/websocket: the goroutine that keeps one WebSocket tunnel to    *)
(* the control plane.  The machine and the token store are shared with the *)
(* other goroutines, so every access to them is a step of its own; what    *)
(* only this goroutine touches is folded into the neighbouring step.       *)
(***************************************************************************)
EXTENDS AgentState, Registration, Sequences

CONSTANTS Endpoints,    \* tunnel URLs the control plane may announce
          NoEndpoint,   \* the empty string
          ApiEndpoint,  \* the URL derived from cfg.APIEndpoint
          MaxInbox      \* bound: envelopes under way to the agent

ASSUME TunnelAssumption ==
  /\ NoEndpoint \notin Endpoints
  /\ ApiEndpoint \notin Endpoints \cup {NoEndpoint}
  /\ MaxInbox \in Nat \ {0}

VARIABLES tunnel,       \* where Manager.Run / connectAndServe is
          connected,    \* Manager.connected, what /readyz answers from
          link,         \* the connection: "none", "open", or "cut" by the peer
          inbox,        \* envelopes sent by the control plane and not yet read
          reg,          \* Manager.reg: [ws, url] = WSEndpoint, WebSocketURL
          announced     \* history: the endpoint of the last rotation that was read

tunnelVars == <<tunnel, connected, link, inbox, reg, announced>>
tokenVars  == <<token, issued, oldest, handed>>

TunnelPCs == {"off", "check", "connecting", "dial", "publish", "online", "serve",
              "close", "drop", "recheck", "offline", "backoff", "done"}

Optional == Endpoints \cup {NoEndpoint}

\* "command" stands for every envelope that changes nothing here (a command,
\* an unknown type, a payload that does not decode); "garbled" is a frame that
\* is no JSON envelope at all.
Envelopes ==
  [type : {"command", "credential_rotation", "revoke", "garbled"},
   jwt : Jwts, endpoint : Optional]

Plain(type) == [type |-> type, jwt |-> 0, endpoint |-> NoEndpoint]

\* Response.TunnelURL, and the fallback of connectAndServe.
TunnelURL == IF reg.url # NoEndpoint THEN reg.url ELSE reg.ws
Endpoint  == IF TunnelURL # NoEndpoint THEN TunnelURL ELSE ApiEndpoint

\* Register's normalisation of the endpoints in the response.
Registered(ws, url) == [ws |-> ws, url |-> IF url = NoEndpoint THEN ws ELSE url]

TunnelInit ==
  /\ tunnel = "off"
  /\ connected = FALSE
  /\ link = "none"
  /\ inbox = <<>>
  /\ reg = [ws |-> NoEndpoint, url |-> NoEndpoint]
  /\ announced = NoEndpoint

-----------------------------------------------------------------------------
(* Manager.Run, down to the call of connectAndServe.                       *)

\* Mutant of Check: Run does not look for a revocation.
CheckOnlyContext ==
  /\ tunnel = "check"
  /\ tunnel' = IF ctxDone THEN "done" ELSE "connecting"
  /\ UNCHANGED <<machine, connected, link, inbox, reg, announced, tokenVars, ctxDone>>

\* The loop condition and the test for revocation.
Check ==
  /\ tunnel = "check"
  /\ tunnel' = IF ctxDone \/ machine = "REVOKED" THEN "done" ELSE "connecting"
  /\ UNCHANGED <<machine, connected, link, inbox, reg, announced, tokenVars, ctxDone>>

StartConnecting ==
  /\ tunnel = "connecting"
  /\ Transition("CONNECTING")
  /\ tunnel' = "dial"
  /\ UNCHANGED <<connected, link, inbox, reg, announced, tokenVars, ctxDone>>

(* connectAndServe.                                                        *)

DialOk ==
  /\ tunnel = "dial"
  /\ ~ctxDone
  /\ Accepted
  /\ link' = "open"
  /\ inbox' = <<>>
  /\ tunnel' = "publish"
  /\ UNCHANGED <<machine, connected, reg, announced, tokenVars, ctxDone>>

DialFail ==
  /\ tunnel = "dial"
  /\ tunnel' = "drop"
  /\ UNCHANGED <<machine, connected, link, inbox, reg, announced, tokenVars, ctxDone>>

\* conn.Store and connected.Store.
Publish ==
  /\ tunnel = "publish"
  /\ connected' = TRUE
  /\ tunnel' = "online"
  /\ UNCHANGED <<machine, link, inbox, reg, announced, tokenVars, ctxDone>>

GoOnline ==
  /\ tunnel = "online"
  /\ Transition("ONLINE")
  /\ tunnel' = "serve"
  /\ UNCHANGED <<connected, link, inbox, reg, announced, tokenVars, ctxDone>>

\* ReadJSON returned an envelope of the given type.
Receive(types) ==
  /\ tunnel = "serve"
  /\ inbox # <<>>
  /\ Head(inbox).type \in types
  /\ inbox' = Tail(inbox)
  /\ UNCHANGED <<connected, link, issued, oldest, handed, ctxDone>>

\* The goroutine that a command starts is modelled on its own.
HandleCommand ==
  /\ Receive({"command"})
  /\ UNCHANGED <<machine, tunnel, reg, announced, token>>

\* Mutant of HandleRotation: only the first of the two fields is written.
HandleRotationOneField ==
  /\ Receive({"credential_rotation"})
  /\ ApplyRotation(Head(inbox).jwt)
  /\ LET e == Head(inbox).endpoint
     IN  IF e = NoEndpoint
         THEN UNCHANGED <<reg, announced>>
         ELSE /\ reg' = [reg EXCEPT !.ws = e]
              /\ announced' = e
  /\ UNCHANGED <<machine, tunnel>>

HandleRotation ==
  /\ Receive({"credential_rotation"})
  /\ ApplyRotation(Head(inbox).jwt)
  /\ LET e == Head(inbox).endpoint
     IN  IF e = NoEndpoint
         THEN UNCHANGED <<reg, announced>>
         ELSE /\ reg' = [ws |-> e, url |-> e]
              /\ announced' = e
  /\ UNCHANGED <<machine, tunnel>>

HandleRevoke ==
  /\ Receive({"revoke"})
  /\ Transition("REVOKED")
  /\ tunnel' = "close"
  /\ UNCHANGED <<reg, announced, token>>

\* ReadJSON failed: the peer is gone (found by the read deadline at the
\* latest), or the frame is no envelope.  Unread envelopes are lost.
ReadError ==
  /\ tunnel = "serve"
  /\ link = "cut" \/ (inbox # <<>> /\ Head(inbox).type = "garbled")
  /\ tunnel' = "close"
  /\ UNCHANGED <<machine, connected, link, inbox, reg, announced, tokenVars, ctxDone>>

\* The deferred conn.Close.  What was not read is lost.
Close ==
  /\ tunnel = "close"
  /\ link' = "none"
  /\ inbox' = <<>>
  /\ handed' = token
  /\ tunnel' = "drop"
  /\ UNCHANGED <<machine, connected, reg, announced, token, issued, oldest, ctxDone>>

(* Manager.Run, after connectAndServe, which never returns nil.            *)

\* Mutant of Drop: connected is left as it was.
DropStillConnected ==
  /\ tunnel = "drop"
  /\ tunnel' = "recheck"
  /\ UNCHANGED <<machine, connected, link, inbox, reg, announced, tokenVars, ctxDone>>

Drop ==
  /\ tunnel = "drop"
  /\ connected' = FALSE
  /\ tunnel' = "recheck"
  /\ UNCHANGED <<machine, link, inbox, reg, announced, tokenVars, ctxDone>>

\* Mutant of Recheck: the machine is not looked at again.
RecheckSkipped ==
  /\ tunnel = "recheck"
  /\ tunnel' = "offline"
  /\ UNCHANGED <<machine, connected, link, inbox, reg, announced, tokenVars, ctxDone>>

Recheck ==
  /\ tunnel = "recheck"
  /\ tunnel' = IF machine = "REVOKED" THEN "backoff" ELSE "offline"
  /\ UNCHANGED <<machine, connected, link, inbox, reg, announced, tokenVars, ctxDone>>

GoOffline ==
  /\ tunnel = "offline"
  /\ Transition("OFFLINE")
  /\ tunnel' = "backoff"
  /\ UNCHANGED <<connected, link, inbox, reg, announced, tokenVars, ctxDone>>

\* Mutant of Backoff: the default MaxElapsedTime, after which it gives up.
BackoffGivesUp ==
  /\ tunnel = "backoff"
  /\ tunnel' \in {"check", "done"}
  /\ UNCHANGED <<machine, connected, link, inbox, reg, announced, tokenVars, ctxDone>>

\* The select on the context and the backoff timer, which never gives up.
Backoff ==
  /\ tunnel = "backoff"
  /\ \/ tunnel' = "check"
     \/ ctxDone /\ tunnel' = "done"
  /\ UNCHANGED <<machine, connected, link, inbox, reg, announced, tokenVars, ctxDone>>

TunnelStep ==
  \/ Check \/ StartConnecting \/ DialOk \/ DialFail \/ Publish \/ GoOnline
  \/ HandleCommand \/ HandleRotation \/ HandleRevoke \/ ReadError
  \/ Close \/ Drop \/ Recheck \/ GoOffline \/ Backoff

-----------------------------------------------------------------------------
(* The control plane's end of the connection, and the network.             *)

Deliver(env) ==
  /\ link = "open"
  /\ Len(inbox) < MaxInbox
  /\ inbox' = Append(inbox, env)
  /\ UNCHANGED <<machine, tunnel, connected, link, reg, announced, token, oldest, ctxDone>>

\* The control plane sends an envelope; a rotation may carry the next JWT or
\* one issued before, a new endpoint, both or neither.
SendEnvelope ==
  \/ \E type \in {"command", "revoke", "garbled"} :
       Deliver(Plain(type)) /\ UNCHANGED <<issued, handed>>
  \/ \E jwt \in 0..(issued + 1) \cap Jwts, e \in Optional :
       /\ Deliver([type |-> "credential_rotation", jwt |-> jwt, endpoint |-> e])
       /\ issued' = IF jwt > issued THEN jwt ELSE issued
       /\ handed' = IF jwt = 0 THEN handed ELSE jwt

\* The peer closes, a middlebox forgets the connection, a pong never comes.
CutLink ==
  /\ link = "open"
  /\ link' = "cut"
  /\ UNCHANGED <<machine, tunnel, connected, inbox, reg, announced, tokenVars, ctxDone>>
=============================================================================
