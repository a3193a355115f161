-------------------------- MODULE MCNestedElision --------------------------
(* Instances of NestedElision: a path of two mutexes and its inner mutex.  *)
EXTENDS NestedElision, TLC

CONSTANTS Outer, Inner

\* Some thread enters the inner mutex alone.
NestedPaths == {<<Outer, Inner>>, <<Inner>>}

Symmetric == Permutations(Threads)

=============================================================================
