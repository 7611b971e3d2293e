----------------------------- MODULE MCLifecycle ------------------------------
(***************************************************************************)
(* Instances of Lifecycle for TLC.                                         *)
(***************************************************************************)
EXTENDS Lifecycle, TLC

CONSTANTS w1, c1, c2
=============================================================================
