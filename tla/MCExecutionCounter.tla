------------------------- MODULE MCExecutionCounter -------------------------
EXTENDS ExecutionCounter, TLC

Symmetry == Permutations(Execution) \cup Permutations(Request)
=============================================================================
