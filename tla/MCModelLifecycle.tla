------------------------- MODULE MCModelLifecycle -------------------------
\* Symmetry sets for TLC.
EXTENDS ModelLifecycle, TLC

Symmetry == Permutations(Models) \cup Permutations(Workers) \cup Permutations(Apps)
=============================================================================
