----------------------------- MODULE MCCapacity -----------------------------
EXTENDS Capacity, TLC

Symmetry == Permutations(Process)
=============================================================================
