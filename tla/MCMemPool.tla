------------------------------ MODULE MCMemPool ------------------------------
EXTENDS MemPool, TLC

Symmetry == Permutations(Threads) \cup Permutations(Blocks)
=============================================================================
