----------------------------- MODULE MCCommands -----------------------------
(***************************************************************************)
(* Commands for TLC: requests are interchangeable.                         *)
(***************************************************************************)
EXTENDS Commands, TLC

RequestSymmetry == Permutations(Requests)
=============================================================================
