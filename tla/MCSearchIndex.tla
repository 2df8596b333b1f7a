--------------------------- MODULE MCSearchIndex ---------------------------
EXTENDS SearchIndex, TLC
Symmetry == Permutations(Run)
=============================================================================
