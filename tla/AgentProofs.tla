---------------------------- MODULE AgentProofs ----------------------------
(***************************************************************************)
(* The invariants and action properties of Agent, for any number of JWTs,  *)
(* retries, restarts, endpoints and envelopes under way.                   *)
(***************************************************************************)
EXTENDS Agent, SequenceTheorems, TLAPS

-----------------------------------------------------------------------------
(* The two tables, row by row.                                             *)

LEMMA AllowedRows ==
  /\ allowed["PENDING_KEY"] = {"REGISTERED", "REVOKED"}
  /\ allowed["REGISTERED"] = {"CONNECTING", "REVOKED", "OFFLINE"}
  /\ allowed["CONNECTING"] = {"ONLINE", "DEGRADED", "OFFLINE", "REVOKED"}
  /\ allowed["ONLINE"] = {"DEGRADED", "OFFLINE", "CONNECTING", "REVOKED"}
  /\ allowed["DEGRADED"] = {"ONLINE", "OFFLINE", "CONNECTING", "REVOKED"}
  /\ allowed["OFFLINE"] = {"CONNECTING", "REGISTERED", "REVOKED"}
  /\ allowed["REVOKED"] = {}
BY DEF allowed, AgentStates

LEMMA StatesAtRows ==
  /\ StatesAt["off"] = {"PENDING_KEY", "REGISTERED"}
  /\ \A pc \in {"check", "done"} : StatesAt[pc] = {"REGISTERED", "OFFLINE", "REVOKED"}
  /\ StatesAt["connecting"] = {"REGISTERED", "OFFLINE"}
  /\ \A pc \in {"dial", "publish", "online"} : StatesAt[pc] = {"CONNECTING", "DEGRADED"}
  /\ StatesAt["serve"] = {"ONLINE", "DEGRADED"}
  /\ StatesAt["close"] = {"ONLINE", "DEGRADED", "REVOKED"}
  /\ \A pc \in {"drop", "recheck"} :
       StatesAt[pc] = {"CONNECTING", "ONLINE", "DEGRADED", "REVOKED"}
  /\ StatesAt["offline"] = {"CONNECTING", "ONLINE", "DEGRADED"}
  /\ StatesAt["backoff"] = {"OFFLINE", "REVOKED"}
BY DEF StatesAt, TunnelPCs

\* What the heartbeat's Transition(Degraded) does to the machine.
LEMMA DegradeEffect ==
  ASSUME machine \in AgentStates, Transition("DEGRADED")
  PROVE  /\ machine \in {"CONNECTING", "ONLINE", "DEGRADED"} => machine' = "DEGRADED"
         /\ machine \notin {"CONNECTING", "ONLINE", "DEGRADED"} => machine' = machine
BY AllowedRows DEF Transition, Permits, AgentStates

\* An envelope the control plane sends has the type of one.
LEMMA EnvelopeType ==
  /\ \A type \in {"command", "revoke", "garbled"} : Plain(type) \in Envelopes
  /\ \A jwt \in Jwts, e \in Optional :
       [type |-> "credential_rotation", jwt |-> jwt, endpoint |-> e] \in Envelopes
BY RegistrationAssumption DEF Plain, Envelopes, Jwts, Optional

LEMMA EmptyInbox ==
  /\ <<>> \in Seq(Envelopes) /\ Len(<<>>) = 0 /\ Len(<<>>) <= MaxInbox
  /\ \A i \in DOMAIN <<>> : FALSE
<1>1. <<>> \in Seq(Envelopes) /\ Len(<<>>) = 0
  BY EmptySeq
<1> QED
  BY <1>1, TunnelAssumption

-----------------------------------------------------------------------------
(* Type correctness.                                                       *)

LEMMA InitTypeOK == Init => TypeOK
<1> SUFFICES ASSUME Init PROVE TypeOK
  OBVIOUS
<1>1. token \in Jwts /\ issued \in Jwts /\ handed \in Jwts /\ oldest \in 1..(MaxJwt + 1)
  BY RegistrationAssumption DEF Init, Jwts
<1>2. inbox \in Seq(Envelopes) /\ Len(inbox) <= MaxInbox
  BY EmptyInbox DEF Init, TunnelInit
<1>3. reg \in [ws : Optional, url : Optional] /\ announced \in Optional
  BY DEF Init, TunnelInit, Optional
<1>4. main \in MainPCs /\ bootTries \in Nat /\ restarts \in 0..MaxRestarts
  BY AgentAssumption DEF Init, MainPCs
<1>5. hb \in HeartbeatPCs /\ hbTries \in Nat /\ kube \in BOOLEAN
  BY DEF Init, HeartbeatInit, HeartbeatPCs
<1>6. machine \in AgentStates /\ hbState \in AgentStates /\ reported \in AgentStates
  BY DEF Init, HeartbeatInit, AgentStates
<1>7. tunnel \in TunnelPCs /\ connected \in BOOLEAN /\ link \in {"none", "open", "cut"}
  BY DEF Init, TunnelInit, TunnelPCs
<1> QED
  BY <1>1, <1>2, <1>3, <1>4, <1>5, <1>6, <1>7 DEF Init, TypeOK

LEMMA BootTypeOK ==
  ASSUME TypeOK, BootStep \/ Signal \/ Crash
  PROVE  TypeOK'
<1>0. CASE MetadataOk
  BY <1>0 DEF MetadataOk, TypeOK, MainPCs, tunnelVars, tokenVars, heartbeatVars
<1>1. CASE RegisterOk
  BY <1>1 DEF RegisterOk, TypeOK, Set, Fresh, Registered, Optional, MainPCs, Jwts
<1>2. CASE MarkRegistered
  BY <1>2 DEF MarkRegistered, Transition, TypeOK, AgentStates, MainPCs, tunnelVars,
              tokenVars, heartbeatVars
<1>3. CASE CapabilitiesOk
  BY <1>3 DEF CapabilitiesOk, TypeOK, MainPCs, TunnelPCs, HeartbeatPCs, tokenVars
<1>4. CASE BootRetry
  BY <1>4 DEF BootRetry, TypeOK, tunnelVars, tokenVars, heartbeatVars
<1>5. CASE Exit
  <2>1. token' \in Jwts /\ handed' \in Jwts
    BY <1>5, RegistrationAssumption DEF Exit, Jwts
  <2>2. inbox' \in Seq(Envelopes) /\ Len(inbox') <= MaxInbox
    BY <1>5, EmptyInbox DEF Exit
  <2>3. reg' \in [ws : Optional, url : Optional] /\ announced' \in Optional
    BY <1>5 DEF Exit, Optional
  <2> QED
    BY <1>5, <2>1, <2>2, <2>3
       DEF Exit, TypeOK, MainPCs, AgentStates, TunnelPCs, HeartbeatPCs
<1>6. CASE Signal
  BY <1>6 DEF Signal, TypeOK, tunnelVars, tokenVars, heartbeatVars, bootVars
<1>7. CASE Restart
  BY <1>7, AgentAssumption
     DEF Restart, TypeOK, MainPCs, tunnelVars, tokenVars, heartbeatVars
<1> QED
  BY <1>0, <1>1, <1>2, <1>3, <1>4, <1>5, <1>6, <1>7
     DEF BootStep, BootFail, Shutdown, Crash

LEMMA TunnelTypeOK ==
  ASSUME TypeOK, TunnelRuns
  PROVE  TypeOK'
<1> USE DEF TypeOK, TunnelPCs, tokenVars, heartbeatVars, bootVars
<1>1. CASE Check
  BY <1>1, TunnelRuns DEF TunnelRuns, Check
<1>2. CASE StartConnecting
  BY <1>2, TunnelRuns DEF TunnelRuns, StartConnecting, Transition, AgentStates
<1>3. CASE DialOk
  BY <1>3, TunnelRuns, TunnelAssumption DEF TunnelRuns, DialOk
<1>4. CASE DialFail \/ Publish \/ ReadError \/ Drop \/ Recheck \/ Backoff
  BY <1>4, TunnelRuns DEF TunnelRuns, DialFail, Publish, ReadError, Drop, Recheck, Backoff
<1>5. CASE GoOnline \/ GoOffline
  BY <1>5, TunnelRuns DEF TunnelRuns, GoOnline, GoOffline, Transition, AgentStates
<1>6. CASE Close
  BY <1>6, TunnelRuns, TunnelAssumption DEF TunnelRuns, Close
<1>7. ASSUME NEW types, Receive(types)
      PROVE  /\ Head(inbox) \in Envelopes
             /\ inbox' \in Seq(Envelopes) /\ Len(inbox') <= MaxInbox
  BY <1>7, TunnelAssumption DEF Receive
<1>8. CASE HandleCommand
  BY <1>7, <1>8, TunnelRuns DEF TunnelRuns, HandleCommand, Receive
<1>9. CASE HandleRotation
  <2>1. token' \in Jwts
    BY <1>7, <1>9 DEF HandleRotation, ApplyRotation, Set, Envelopes
  <2>2. reg' \in [ws : Optional, url : Optional] /\ announced' \in Optional
    BY <1>7, <1>9 DEF HandleRotation, Envelopes
  <2> QED
    BY <1>7, <1>9, <2>1, <2>2, TunnelRuns DEF TunnelRuns, HandleRotation, Receive
<1>10. CASE HandleRevoke
  BY <1>7, <1>10, TunnelRuns
     DEF TunnelRuns, HandleRevoke, Receive, Transition, AgentStates
<1> QED
  BY <1>1, <1>2, <1>3, <1>4, <1>5, <1>6, <1>8, <1>9, <1>10, TunnelRuns
     DEF TunnelRuns, TunnelStep

LEMMA HeartbeatTypeOK ==
  ASSUME TypeOK, HeartbeatRuns
  PROVE  TypeOK'
<1> USE DEF TypeOK, HeartbeatPCs, shared, tunnelVars, bootVars
<1>1. CASE Collect \/ TakeSnapshot \/ Wait
  BY <1>1, HeartbeatRuns DEF HeartbeatRuns, Collect, TakeSnapshot, Wait
<1>2. CASE Degrade
  BY <1>2, HeartbeatRuns DEF HeartbeatRuns, Degrade, Transition, AgentStates
<1>3. CASE PostOk \/ PostFail \/ PostCancelled
  BY <1>3, HeartbeatRuns
     DEF HeartbeatRuns, PostOk, PostFail, PostCancelled, Return, AgentStates
<1> QED
  BY <1>1, <1>2, <1>3, HeartbeatRuns DEF HeartbeatRuns, HeartbeatStep

LEMMA EnvironmentTypeOK ==
  ASSUME TypeOK, Environment
  PROVE  TypeOK'
<1> USE DEF TypeOK, tunnelVars, tokenVars, heartbeatVars, bootVars
<1>1. ASSUME NEW env \in Envelopes, Deliver(env)
      PROVE  inbox' \in Seq(Envelopes) /\ Len(inbox') <= MaxInbox
  BY <1>1, TunnelAssumption DEF Deliver
<1>2. CASE SendEnvelope /\ UNCHANGED <<heartbeatVars, bootVars>>
  <2>1. ASSUME NEW type \in {"command", "revoke", "garbled"},
               Deliver(Plain(type)), UNCHANGED <<issued, handed>>
        PROVE  TypeOK'
    BY <1>1, <1>2, <2>1, EnvelopeType DEF Deliver
  <2>2. ASSUME NEW jwt \in 0..(issued + 1) \cap Jwts, NEW e \in Optional,
               Deliver([type |-> "credential_rotation", jwt |-> jwt, endpoint |-> e]),
               issued' = (IF jwt > issued THEN jwt ELSE issued),
               handed' = (IF jwt = 0 THEN handed ELSE jwt)
        PROVE  TypeOK'
    BY <1>1, <1>2, <2>2, EnvelopeType DEF Deliver
  <2> QED
    BY <1>2, <2>1, <2>2 DEF SendEnvelope
<1>3. CASE CutLink /\ UNCHANGED <<heartbeatVars, bootVars>>
  BY <1>3 DEF CutLink
<1>4. CASE ExpireJwt /\ UNCHANGED <<machine, tunnelVars, heartbeatVars, bootVars>>
  BY <1>4, RegistrationAssumption DEF ExpireJwt, Jwts
<1>5. CASE KubeToggles /\ UNCHANGED <<tunnelVars, bootVars>>
  BY <1>5 DEF KubeToggles, shared
<1>6. CASE TakeRegistration
  BY <1>6 DEF TakeRegistration, Fresh
<1> QED
  BY <1>2, <1>3, <1>4, <1>5, <1>6, Environment DEF Environment

\* Every variable keeps its type.
THEOREM TypeCorrect == Spec => []TypeOK
<1>1. TypeOK /\ [Next]_vars => TypeOK'
  <2> SUFFICES ASSUME TypeOK, [Next]_vars PROVE TypeOK'
    OBVIOUS
  <2>1. CASE UNCHANGED vars
    BY <2>1 DEF vars, TypeOK, tunnelVars, tokenVars, heartbeatVars, bootVars
  <2> QED
    BY <2>1, BootTypeOK, TunnelTypeOK, HeartbeatTypeOK, EnvironmentTypeOK DEF Next
<1> QED
  BY <1>1, InitTypeOK, PTL DEF Spec

-----------------------------------------------------------------------------
(* The inductive invariant.  Its parts that involve no queue are taken      *)
(* together: one step usually disturbs several of them.                     *)

Control ==
  /\ BootOrder
  /\ MachineFollowsTunnel
  /\ ReadyzHonest
  /\ LinkFollowsTunnel
  /\ ReportFollowsMachine
  /\ RotationInForce

LEMMA BootControl ==
  ASSUME TypeOK, Control, BootStep \/ Signal \/ Crash
  PROVE  Control'
<1> USE StatesAtRows DEF Control, BootOrder, MachineFollowsTunnel, ReadyzHonest,
        LinkFollowsTunnel, ReportFollowsMachine, RotationInForce
<1>0. CASE MetadataOk
  BY <1>0 DEF MetadataOk, tunnelVars, heartbeatVars
<1>1. CASE RegisterOk
  BY <1>1 DEF RegisterOk
<1>2. CASE MarkRegistered
  BY <1>2, AllowedRows
     DEF MarkRegistered, Transition, Permits, tunnelVars, heartbeatVars
<1>3. CASE CapabilitiesOk
  BY <1>3 DEF CapabilitiesOk
<1>4. CASE BootRetry
  BY <1>4 DEF BootRetry, tunnelVars, heartbeatVars
<1>5. CASE Exit
  BY <1>5 DEF Exit
<1>6. CASE Signal
  BY <1>6 DEF Signal, tunnelVars, heartbeatVars, bootVars
<1>7. CASE Restart
  BY <1>7 DEF Restart, tunnelVars, heartbeatVars
<1> QED
  BY <1>0, <1>1, <1>2, <1>3, <1>4, <1>5, <1>6, <1>7
     DEF BootStep, BootFail, Shutdown, Crash

LEMMA TunnelControl ==
  ASSUME TypeOK, Control, TunnelRuns
  PROVE  Control'
<1>1. tunnel # "off" /\ main = "running" /\ UNCHANGED <<heartbeatVars, bootVars>>
  BY TunnelRuns
     DEF Control, BootOrder, TunnelRuns, TunnelStep, Check, StartConnecting, DialOk,
         DialFail, Publish, GoOnline, HandleCommand, HandleRotation, HandleRevoke, Receive,
         ReadError, Close, Drop, Recheck, GoOffline, Backoff
<1> USE <1>1, StatesAtRows
        DEF Control, BootOrder, MachineFollowsTunnel, ReadyzHonest, LinkFollowsTunnel, ReportFollowsMachine,
            RotationInForce, heartbeatVars, bootVars
<1>2. CASE Check
  BY <1>2 DEF Check
<1>3. CASE StartConnecting
  BY <1>3, AllowedRows DEF StartConnecting, Transition, Permits
<1>4. CASE DialOk \/ DialFail
  BY <1>4 DEF DialOk, DialFail
<1>5. CASE Publish
  BY <1>5 DEF Publish
<1>6. CASE GoOnline
  BY <1>6, AllowedRows DEF GoOnline, Transition, Permits
<1>7. CASE HandleCommand
  BY <1>7 DEF HandleCommand, Receive
<1>8. CASE HandleRotation
  BY <1>8 DEF HandleRotation, Receive
<1>9. CASE HandleRevoke
  BY <1>9, AllowedRows DEF HandleRevoke, Receive, Transition, Permits
<1>10. CASE ReadError
  BY <1>10 DEF ReadError
<1>11. CASE Close
  BY <1>11 DEF Close
<1>12. CASE Drop
  BY <1>12 DEF Drop
<1>13. CASE Recheck
  BY <1>13 DEF Recheck
<1>14. CASE GoOffline
  BY <1>14, AllowedRows DEF GoOffline, Transition, Permits
<1>15. CASE Backoff
  BY <1>15 DEF Backoff
<1> QED
  BY <1>2, <1>3, <1>4, <1>5, <1>6, <1>7, <1>8, <1>9, <1>10, <1>11, <1>12, <1>13, <1>14,
     <1>15, TunnelRuns DEF TunnelRuns, TunnelStep

LEMMA HeartbeatControl ==
  ASSUME TypeOK, Control, HeartbeatRuns
  PROVE  Control'
<1>1. hb # "off" /\ main = "running" /\ UNCHANGED <<tunnelVars, bootVars>>
  BY HeartbeatRuns
     DEF Control, BootOrder, HeartbeatRuns, HeartbeatStep, Collect, Degrade, TakeSnapshot,
         PostOk, PostFail, PostCancelled, Wait
<1> USE <1>1, StatesAtRows
        DEF Control, BootOrder, MachineFollowsTunnel, ReadyzHonest, LinkFollowsTunnel, ReportFollowsMachine,
            RotationInForce, tunnelVars, bootVars
<1>2. CASE Collect
  BY <1>2 DEF Collect
<1>3. CASE Degrade
  <2>1. /\ machine \in {"CONNECTING", "ONLINE", "DEGRADED"} => machine' = "DEGRADED"
        /\ machine \notin {"CONNECTING", "ONLINE", "DEGRADED"} => machine' = machine
    BY <1>3, DegradeEffect DEF Degrade, TypeOK
  <2> QED
    BY <1>3, <2>1 DEF Degrade, TypeOK, TunnelPCs
<1>4. CASE TakeSnapshot
  BY <1>4 DEF TakeSnapshot
<1>5. CASE PostOk \/ PostFail \/ PostCancelled
  BY <1>5 DEF PostOk, PostFail, PostCancelled, Return
<1>6. CASE Wait
  BY <1>6 DEF Wait
<1> QED
  BY <1>2, <1>3, <1>4, <1>5, <1>6, HeartbeatRuns DEF HeartbeatRuns, HeartbeatStep

LEMMA EnvironmentControl ==
  ASSUME TypeOK, Control, Environment
  PROVE  Control'
<1>1. /\ UNCHANGED <<machine, tunnel, connected, reg, announced, hb, hbState, main>>
      /\ reported' = reported \/ main = "register"
      /\ link' # "none" <=> link # "none"
      /\ link = "none" => inbox' = inbox
  BY DEF Environment, TakeRegistration, SendEnvelope, Deliver, CutLink, ExpireJwt,
         KubeToggles, tunnelVars, tokenVars, heartbeatVars, bootVars
<1> QED
  BY <1>1 DEF Control, BootOrder, MachineFollowsTunnel, ReadyzHonest, LinkFollowsTunnel, ReportFollowsMachine,
              RotationInForce

-----------------------------------------------------------------------------
(* What the control plane handed out.  Most steps leave the token alone,    *)
(* hand out nothing and put nothing into the tunnel.                        *)

Tokens == JwtsInRotations /\ LastJwtWins

LEMMA TokensKept ==
  ASSUME Tokens, token' = token, handed' = handed, inbox' = inbox
  PROVE  Tokens'
BY DEF Tokens, JwtsInRotations, LastJwtWins, CarriesLastJwt

LEMMA TokensEmptied ==
  ASSUME token' = handed', inbox' = <<>>
  PROVE  Tokens'
BY EmptyInbox DEF Tokens, JwtsInRotations, LastJwtWins, CarriesLastJwt

\* Reading an envelope: what it carries is stored, unless it carries nothing.
LEMMA TokensRead ==
  ASSUME TypeOK, Tokens, inbox # <<>>, inbox' = Tail(inbox), handed' = handed,
         token' = (IF Head(inbox).jwt # 0 THEN Head(inbox).jwt ELSE token)
  PROVE  Tokens'
<1>1. /\ Len(inbox) \in Nat /\ DOMAIN inbox = 1..Len(inbox)
      /\ DOMAIN inbox' = 1..(Len(inbox) - 1) /\ 1 \in DOMAIN inbox
      /\ \A i \in DOMAIN inbox' : inbox'[i] = inbox[i + 1] /\ i + 1 \in DOMAIN inbox
      /\ Head(inbox) = inbox[1]
  BY EmptySeq, LenProperties, HeadTailProperties DEF TypeOK
<1>2. \A j \in DOMAIN inbox : j # 1 => j - 1 \in DOMAIN inbox' /\ inbox'[j - 1] = inbox[j]
  BY <1>1
<1>3. JwtsInRotations'
  BY <1>1 DEF Tokens, JwtsInRotations
<1>4. ASSUME NEW i \in DOMAIN inbox', CarriesLastJwt(i)'
      PROVE  inbox'[i].jwt = handed'
  <2>1. CarriesLastJwt(i + 1)
    BY <1>1, <1>2, <1>4 DEF CarriesLastJwt
  <2> QED
    BY <1>1, <2>1 DEF Tokens, LastJwtWins
<1>5. ASSUME \A i \in DOMAIN inbox' : inbox'[i].jwt = 0
      PROVE  token' = handed'
  <2>1. \A j \in DOMAIN inbox : j # 1 => inbox[j].jwt = 0
    BY <1>2, <1>5
  <2>2. CASE inbox[1].jwt = 0
    BY <1>1, <2>1, <2>2 DEF Tokens, LastJwtWins
  <2>3. CASE inbox[1].jwt # 0
    <3>1. CarriesLastJwt(1)
      BY <1>1, <2>1, <2>3 DEF CarriesLastJwt
    <3> QED
      BY <1>1, <2>3, <3>1 DEF Tokens, LastJwtWins
  <2> QED
    BY <2>2, <2>3
<1> QED
  BY <1>3, <1>4, <1>5 DEF Tokens, LastJwtWins

\* Sending one: it carries no JWT, or what is handed out now.
LEMMA TokensSent ==
  ASSUME TypeOK, Tokens, NEW env \in Envelopes, inbox' = Append(inbox, env), token' = token,
         env.jwt # 0 => env.type = "credential_rotation",
         handed' = (IF env.jwt = 0 THEN handed ELSE env.jwt)
  PROVE  Tokens'
<1>1. /\ Len(inbox) \in Nat /\ DOMAIN inbox = 1..Len(inbox)
      /\ DOMAIN inbox' = 1..(Len(inbox) + 1)
      /\ \A i \in DOMAIN inbox : i \in DOMAIN inbox' /\ inbox'[i] = inbox[i]
      /\ inbox'[Len(inbox) + 1] = env /\ Len(inbox) + 1 \in DOMAIN inbox'
      /\ \A i \in DOMAIN inbox' : i \in DOMAIN inbox \/ i = Len(inbox) + 1
      /\ \A i \in DOMAIN inbox : i < Len(inbox) + 1
  BY LenProperties, AppendProperties DEF TypeOK
<1>2. JwtsInRotations'
  BY <1>1 DEF Tokens, JwtsInRotations
<1>3. ASSUME NEW i \in DOMAIN inbox', CarriesLastJwt(i)'
      PROVE  inbox'[i].jwt = handed'
  <2>1. CASE i = Len(inbox) + 1
    BY <1>1, <1>3, <2>1 DEF CarriesLastJwt
  <2>2. CASE i \in DOMAIN inbox
    <3>1. env.jwt = 0
      BY <1>1, <1>3, <2>2 DEF CarriesLastJwt
    <3>2. CarriesLastJwt(i)
      BY <1>1, <1>3, <2>2 DEF CarriesLastJwt
    <3> QED
      BY <1>1, <2>2, <3>1, <3>2 DEF Tokens, LastJwtWins
  <2> QED
    BY <1>1, <2>1, <2>2
<1>4. ASSUME \A i \in DOMAIN inbox' : inbox'[i].jwt = 0
      PROVE  token' = handed'
  BY <1>1, <1>4 DEF Tokens, LastJwtWins
<1> QED
  BY <1>2, <1>3, <1>4 DEF Tokens, LastJwtWins

LEMMA BootTokens ==
  ASSUME TypeOK, Control, Tokens, BootStep \/ Signal \/ Crash
  PROVE  Tokens'
<1>1. CASE RegisterOk
  BY <1>1, TokensEmptied DEF RegisterOk, Set, Control, BootOrder
<1>2. CASE Exit
  BY <1>2, TokensEmptied DEF Exit
<1>3. CASE MetadataOk \/ MarkRegistered \/ CapabilitiesOk \/ BootRetry \/ Signal \/ Restart
  BY <1>3, TokensKept
     DEF MetadataOk, MarkRegistered, CapabilitiesOk, BootRetry, Signal, Restart, tunnelVars,
         tokenVars
<1> QED
  BY <1>1, <1>2, <1>3 DEF BootStep, BootFail, Shutdown, Crash

LEMMA TunnelTokens ==
  ASSUME TypeOK, Control, Tokens, TunnelRuns
  PROVE  Tokens'
<1>1. CASE Check \/ StartConnecting \/ DialFail \/ Publish \/ GoOnline \/ ReadError \/ Drop
           \/ Recheck \/ GoOffline \/ Backoff
  BY <1>1, TokensKept
     DEF Check, StartConnecting, DialFail, Publish, GoOnline, ReadError, Drop, Recheck,
         GoOffline, Backoff, tokenVars
<1>2. CASE DialOk
  <2>1. inbox = <<>>
    BY <1>2 DEF DialOk, Control, LinkFollowsTunnel, TypeOK
  <2> QED
    BY <1>2, <2>1, TokensKept DEF DialOk, tokenVars
<1>3. CASE Close
  BY <1>3, TokensEmptied DEF Close
<1>4. CASE HandleRotation
  BY <1>4, TokensRead DEF HandleRotation, Receive, ApplyRotation, Set
<1>5. CASE HandleCommand \/ HandleRevoke
  <2>1. inbox # <<>> /\ Head(inbox).type # "credential_rotation"
    BY <1>5 DEF HandleCommand, HandleRevoke, Receive
  <2>2. 1 \in DOMAIN inbox /\ Head(inbox) = inbox[1]
    BY <2>1, EmptySeq, LenProperties, HeadTailProperties DEF TypeOK
  <2>3. Head(inbox).jwt = 0
    BY <2>1, <2>2 DEF Tokens, JwtsInRotations
  <2> QED
    BY <1>5, <2>1, <2>3, TokensRead DEF HandleCommand, HandleRevoke, Receive
<1> QED
  BY <1>1, <1>2, <1>3, <1>4, <1>5, TunnelRuns DEF TunnelRuns, TunnelStep

LEMMA EnvironmentTokens ==
  ASSUME TypeOK, Control, Tokens, Environment
  PROVE  Tokens'
<1>1. ASSUME NEW type \in {"command", "revoke", "garbled"},
             Deliver(Plain(type)), UNCHANGED <<issued, handed>>
      PROVE  Tokens'
  BY <1>1, TokensSent, EnvelopeType DEF Deliver, Plain
<1>2. ASSUME NEW jwt \in 0..(issued + 1) \cap Jwts, NEW e \in Optional,
             Deliver([type |-> "credential_rotation", jwt |-> jwt, endpoint |-> e]),
             handed' = (IF jwt = 0 THEN handed ELSE jwt)
      PROVE  Tokens'
  BY <1>2, TokensSent, EnvelopeType DEF Deliver
<1>3. CASE CutLink
  BY <1>3, TokensKept DEF CutLink, tokenVars
<1>4. CASE ExpireJwt /\ UNCHANGED tunnelVars
  BY <1>4, TokensKept DEF ExpireJwt, tunnelVars
<1>5. CASE KubeToggles /\ UNCHANGED tunnelVars
  BY <1>5, TokensKept DEF KubeToggles, shared, tunnelVars
<1>6. CASE TakeRegistration
  BY <1>6, TokensKept DEF TakeRegistration, tunnelVars
<1> QED
  BY <1>1, <1>2, <1>3, <1>4, <1>5, <1>6, Environment DEF Environment, SendEnvelope

LEMMA HeartbeatTokens ==
  ASSUME TypeOK, Tokens, HeartbeatRuns
  PROVE  Tokens'
BY TokensKept
   DEF HeartbeatRuns, HeartbeatStep, Collect, Degrade, TakeSnapshot, PostOk, PostFail,
       PostCancelled, Wait, shared, tunnelVars

-----------------------------------------------------------------------------
(* What holds of the agent.                                                 *)

\* The inductive invariant holds: no interleaving of boot, tunnel, heartbeat,
\* control plane and crashes leads out of it.
THEOREM Invariance == Spec => []IInv
<1>1. Init => IInv
  <2> SUFFICES ASSUME Init PROVE IInv
    OBVIOUS
  <2>1. TypeOK
    BY InitTypeOK
  <2>2. Control
    BY StatesAtRows
       DEF Init, TunnelInit, HeartbeatInit, Control, BootOrder, MachineFollowsTunnel,
           ReadyzHonest, LinkFollowsTunnel, ReportFollowsMachine, RotationInForce
  <2>3. Tokens
    BY EmptyInbox DEF Init, TunnelInit, Tokens, JwtsInRotations, LastJwtWins, CarriesLastJwt
  <2> QED
    BY <2>1, <2>2, <2>3 DEF Control, Tokens, IInv
<1>2. IInv /\ [Next]_vars => IInv'
  <2> SUFFICES ASSUME IInv, [Next]_vars PROVE IInv'
    OBVIOUS
  <2>1. TypeOK /\ Control /\ Tokens
    BY DEF IInv, Control, Tokens
  <2>2. CASE BootStep \/ Signal \/ Crash
    BY <2>1, <2>2, BootTypeOK, BootControl, BootTokens
       DEF Control, Tokens, IInv
  <2>3. CASE TunnelRuns
    BY <2>1, <2>3, TunnelTypeOK, TunnelControl, TunnelTokens
       DEF Control, Tokens, IInv
  <2>4. CASE HeartbeatRuns
    BY <2>1, <2>4, HeartbeatTypeOK, HeartbeatControl, HeartbeatTokens
       DEF Control, Tokens, IInv
  <2>5. CASE Environment
    BY <2>1, <2>5, EnvironmentTypeOK, EnvironmentControl, EnvironmentTokens
       DEF Control, Tokens, IInv
  <2>6. CASE UNCHANGED vars
    BY <2>6 DEF vars, tunnelVars, tokenVars, heartbeatVars, bootVars, IInv, TypeOK,
                BootOrder, MachineFollowsTunnel, ReadyzHonest, LinkFollowsTunnel,
                JwtsInRotations, LastJwtWins, CarriesLastJwt, ReportFollowsMachine,
                RotationInForce
  <2> QED
    BY <2>2, <2>3, <2>4, <2>5, <2>6 DEF Next
<1> QED
  BY <1>1, <1>2, PTL DEF Spec

\* The state the agent reports and what its tunnel does agree at every point of
\* Run and connectAndServe.
THEOREM StateFollowsTunnel == Spec => []MachineFollowsTunnel
<1>1. IInv => MachineFollowsTunnel
  BY DEF IInv
<1> QED
  BY <1>1, Invariance, PTL

\* /readyz answers "ready" while the tunnel serves; and when it does there is a
\* connection, but for one step after its close.
THEOREM Readiness == Spec => []ReadyzHonest
<1>1. IInv => ReadyzHonest
  BY DEF IInv
<1> QED
  BY <1>1, Invariance, PTL

\* The agent holds the JWT that was handed out last, or is about to read it.
THEOREM JwtHandedOut == Spec => []LastJwtWins
<1>1. IInv => LastJwtWins
  BY DEF IInv
<1> QED
  BY <1>1, Invariance, PTL

\* Of the Transition errors that the code throws away, those of boot and tunnel
\* are never any, and the heartbeat's is one only where no tunnel is up.
THEOREM RefusalsHarmless == Spec => []RefusedOnlyWithoutTunnel
<1>1. IInv => RefusedOnlyWithoutTunnel
  <2> SUFFICES ASSUME IInv PROVE RefusedOnlyWithoutTunnel
    OBVIOUS
  <2>1. machine \in StatesAt[tunnel] /\ tunnel \in TunnelPCs
    BY DEF IInv, MachineFollowsTunnel, TypeOK
  <2>2. main = "registered" => Permits("REGISTERED")
    BY AllowedRows DEF IInv, BootOrder, Permits
  <2>3. /\ tunnel = "connecting" => Permits("CONNECTING")
        /\ tunnel = "online" => Permits("ONLINE")
        /\ tunnel = "serve" => Permits("REVOKED")
        /\ tunnel = "offline" => Permits("OFFLINE")
    BY <2>1, StatesAtRows, AllowedRows DEF Permits
  <2>4. ASSUME hb = "degrade", machine # "REVOKED",
               tunnel \notin {"backoff", "check", "connecting", "done"}
        PROVE  Permits("DEGRADED")
    <3>1. tunnel # "off"
      BY <2>4 DEF IInv, BootOrder
    <3>2. machine \in {"CONNECTING", "ONLINE", "DEGRADED"}
      BY <2>1, <2>4, <3>1, StatesAtRows DEF TunnelPCs
    <3> QED
      BY <3>2, AllowedRows DEF Permits
  <2> QED
    BY <2>2, <2>3, <2>4 DEF RefusedOnlyWithoutTunnel
<1> QED
  BY <1>1, Invariance, PTL

\* Every dial after a rotation goes to the rotated endpoint.
THEOREM EndpointInForce == Spec => []EndpointFollowsRotation
<1>1. IInv => EndpointFollowsRotation
  BY DEF IInv, RotationInForce, EndpointFollowsRotation, Endpoint, TunnelURL
<1> QED
  BY <1>1, Invariance, PTL

\* A revoked agent stays revoked for the life of its process.
THEOREM RevocationFinal == Spec => RevokedIsFinal
<1>1. IInv /\ [Next]_vars => [machine = "REVOKED" => machine' = "REVOKED" \/ main' = "exited"]_vars
  <2> SUFFICES ASSUME IInv, Next, machine = "REVOKED"
               PROVE  machine' = "REVOKED" \/ main' = "exited"
    OBVIOUS
  <2>1. CASE BootStep \/ Signal \/ Crash
    BY <2>1 DEF BootStep, BootFail, Shutdown, Crash, Exit, MetadataOk, RegisterOk, MarkRegistered,
                CapabilitiesOk, BootRetry, Signal, Restart, IInv, BootOrder
  <2>2. CASE TunnelRuns
    BY <2>2, StatesAtRows
       DEF TunnelRuns, TunnelStep, Check, StartConnecting, DialOk, DialFail, Publish,
           GoOnline, HandleCommand, HandleRotation, HandleRevoke, Receive, ReadError, Close,
           Drop, Recheck, GoOffline, Backoff, IInv, MachineFollowsTunnel
  <2>3. CASE HeartbeatRuns
    BY <2>3, DegradeEffect
       DEF HeartbeatRuns, HeartbeatStep, Collect, Degrade, TakeSnapshot, PostOk, PostFail,
           PostCancelled, Wait, IInv, TypeOK
  <2>4. CASE Environment
    BY <2>4 DEF Environment, TakeRegistration, SendEnvelope, Deliver, CutLink, ExpireJwt, KubeToggles
  <2> QED
    BY <2>1, <2>2, <2>3, <2>4 DEF Next
<1> QED
  BY <1>1, Invariance, PTL DEF Spec, RevokedIsFinal

\* No late or repeated heartbeat takes back a reported revocation.
THEOREM RevocationKept == Spec => RevocationNotTakenBack
<1>1. IInv /\ [Next]_vars
        => [reported = "REVOKED" => reported' = "REVOKED" \/ main = "register"]_vars
  <2> SUFFICES ASSUME IInv, Next, reported = "REVOKED"
               PROVE  reported' = "REVOKED" \/ main = "register"
    OBVIOUS
  <2>1. CASE BootStep \/ Signal \/ Crash
    BY <2>1 DEF BootStep, BootFail, Shutdown, Crash, Exit, MetadataOk, RegisterOk, MarkRegistered,
                CapabilitiesOk, BootRetry, Signal, Restart, heartbeatVars
  <2>2. CASE TunnelRuns
    BY <2>2 DEF TunnelRuns, heartbeatVars
  <2>3. CASE HeartbeatRuns
    BY <2>3
       DEF HeartbeatRuns, HeartbeatStep, Collect, Degrade, TakeSnapshot, PostOk, PostFail,
           PostCancelled, Wait, IInv, TypeOK, MainPCs, BootOrder, ReportFollowsMachine
  <2>4. CASE Environment
    BY <2>4 DEF Environment, TakeRegistration, ExpireJwt, KubeToggles, heartbeatVars
  <2> QED
    BY <2>1, <2>2, <2>3, <2>4 DEF Next
<1> QED
  BY <1>1, Invariance, PTL DEF Spec, RevocationNotTakenBack
=============================================================================
