------------------------- MODULE MCSpecPublication -------------------------
EXTENDS SpecPublication, TLC
Symmetry == Permutations(Procs)
=============================================================================
