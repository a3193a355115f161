----------------------------- MODULE MCHashMap -----------------------------
EXTENDS HashMap, TLC

\* The threads run the same code.
MCSymmetry == Permutations(Threads)

=============================================================================
