------------------------------ MODULE MCAgent ------------------------------
(***************************************************************************)
(* Constants for model checking Agent.  The endpoints are interchangeable. *)
(***************************************************************************)
EXTENDS Agent, TLC

Symmetry == Permutations(Endpoints)
=============================================================================
