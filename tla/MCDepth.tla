------------------------------ MODULE MCDepth ------------------------------
(***************************************************************************)
(* Constants for model-checking Depth.                                     *)
(***************************************************************************)
EXTENDS Depth, TLC

CONSTANTS o1, o2, o3, o4

FourOrders == {o1, o2, o3, o4}

(* No definition tells one order from another. *)
AnyOrder == Permutations(FourOrders)
=============================================================================
