----------------------------- MODULE MCDepthFeed -----------------------------
(***************************************************************************)
(* Constants for model-checking DepthFeed.                                 *)
(***************************************************************************)
EXTENDS DepthFeed

CONSTANTS c1, c2, s1, s2
=============================================================================
