------------------------------- MODULE Retry -------------------------------
(***************************************************************************)
(* Client.retry of internal/registration: the exponential backoff around   *)
(* every request to the control plane.                                     *)
(***************************************************************************)
EXTENDS Naturals

CONSTANT MaxTries       \* bound: attempts that fit in MaxElapsedTime

ASSUME RetryAssumption == MaxTries \in Nat \ {0, 1}

\* backoff.Retry after failed attempt number n + 1: two attempts always fit in
\* the two minutes (30s timeout, about 1s pause), MaxTries is the most that do.
MayRetry(n) == n + 1 < MaxTries
MayStop(n)  == n + 1 >= 2
=============================================================================
