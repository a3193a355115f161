------------------------------- MODULE MCList -------------------------------
(* A small instance of List; cells are interchangeable, and so are threads. *)
EXTENDS List, TLC

Symmetric == Permutations(Workers) \cup Permutations(Cells)

=============================================================================
