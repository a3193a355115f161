------------------------------- MODULE MCBank -------------------------------
(* Instances of Bank for TLC. *)
EXTENDS Bank, TLC

Symmetric == Permutations(Threads)

=============================================================================
