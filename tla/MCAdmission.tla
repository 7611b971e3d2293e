---------------------------- MODULE MCAdmission -----------------------------
(***************************************************************************)
(* Instances of Admission for TLC.                                         *)
(***************************************************************************)
EXTENDS Admission, TLC

CONSTANTS c1, c2, c3, c4, ipA, ipB

\* c1 and c2 come from the same address.
TwoAddresses == [c \in Conns |-> IF c \in {c1, c2} THEN ipA ELSE ipB]

\* Workers are interchangeable, and so are clients of the same address.
WorkerAndClientSymmetry == Permutations(Workers) \cup Permutations({c1, c2})
=============================================================================
