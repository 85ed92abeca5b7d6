------------------------------ MODULE MCServer -------------------------------
(* A small instance of Server. *)
EXTENDS Server, TLC

SessionSymmetry == Permutations(Sessions)
==============================================================================
