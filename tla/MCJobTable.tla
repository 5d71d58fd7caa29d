----------------------------- MODULE MCJobTable -----------------------------
EXTENDS JobTable, TLC

Symmetry == Permutations(Insts) \cup Permutations(Handlers)
=============================================================================
