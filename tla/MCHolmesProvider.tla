-------------------------- MODULE MCHolmesProvider --------------------------
(***************************************************************************)
(* HolmesProvider for TLC: every kind of target, alone and together with   *)
(* those it takes precedence over.                                         *)
(***************************************************************************)
EXTENDS HolmesProvider

CONSTANT g

Named(ids) == [NoTarget EXCEPT !.ids = ids]

MCTargets ==
  {Named(<<1, 2>>), Named(<<2, 1>>), Named(<<1, 1>>), NoTarget,
   [NoTarget EXCEPT !.all = TRUE], [NoTarget EXCEPT !.group = g, !.all = TRUE],
   [ids |-> <<2>>, group |-> g, all |-> TRUE]}
=============================================================================
