--------------------------- MODULE MCStateService ---------------------------
EXTENDS StateService, TLC

Symmetry == Permutations(Execution) \cup Permutations(Request)
=============================================================================
