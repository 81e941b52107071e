---------------------------- MODULE MCInventory ----------------------------
(***************************************************************************)
(* Inventory for TLC: two kinds, the first of which may have two objects.  *)
(***************************************************************************)
EXTENDS Inventory, TLC

CONSTANTS p1, p2, n1, pod, node

KindsOfThree == (p1 :> pod) @@ (p2 :> pod) @@ (n1 :> node)
KindsOfTwo == (p1 :> pod) @@ (n1 :> node)
=============================================================================
