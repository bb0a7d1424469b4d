-------------------------- MODULE MCRequestWorker --------------------------
(* Small instances of RequestWorker for TLC. *)
EXTENDS RequestWorker, TLC

CONSTANTS r1, r2, k1, k2

MCRequests == {r1, r2}
MCKeys == {k1, k2}
Symmetry == Permutations(MCRequests) \cup Permutations(MCKeys)
=============================================================================
