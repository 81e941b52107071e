---------------------------- MODULE Registration ----------------------------
(***************************************************************************)
(* internal/registration and internal/auth: the token store, and what the  *)
(* control plane does with the tokens it issues.  JWTs are numbered in the *)
(* order the control plane issues them; 0 is the empty string.             *)
(***************************************************************************)
EXTENDS Retry

CONSTANT MaxJwt         \* bound: how many JWTs the control plane issues

ASSUME RegistrationAssumption == MaxJwt \in Nat \ {0}

VARIABLES token,        \* TokenStore.token
          issued,       \* control plane: the newest JWT
          oldest,       \* control plane: the oldest JWT it still accepts
          handed,       \* history: the JWT handed out last, unless lost with a connection
          ctxDone       \* the context every goroutine shares is cancelled

Jwts == 0..MaxJwt

\* The control plane answers a request that carries the stored token with 2xx.
Accepted == token \in oldest..issued

\* TokenStore.Set.
Set(jwt) == token' = jwt

\* Mutant of ApplyRotation: an empty JWT is stored too.
ApplyRotationUnchecked(jwt) == Set(jwt)

\* ApplyRotation: a rotation without a JWT leaves the token alone.
ApplyRotation(jwt) == IF jwt # 0 THEN Set(jwt) ELSE UNCHANGED token

\* The control plane stops accepting its oldest JWT.  It never outlives the
\* one after the newest.
ExpireJwt ==
  /\ oldest <= issued
  /\ oldest' = oldest + 1
  /\ UNCHANGED <<token, issued, handed, ctxDone>>
=============================================================================
