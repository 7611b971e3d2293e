------------------------------- MODULE MCConnIO -------------------------------
(***************************************************************************)
(* Instances of ConnIO with two workers, which are interchangeable.        *)
(***************************************************************************)
EXTENDS ConnIO, TLC

CONSTANTS w1, w2

WorkerSymmetry == Permutations({w1, w2})

=============================================================================
