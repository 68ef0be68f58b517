------------------------- MODULE MCManagerRelease -------------------------
\* Values of ManagerRelease's constants for TLC.
EXTENDS ManagerRelease, TLC

MCKinds == {Manager, Model, Session, Job}

Symmetry == Permutations(Apps) \cup Permutations(Workers)
=============================================================================
