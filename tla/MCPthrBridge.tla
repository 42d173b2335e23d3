---------------------------- MODULE MCPthrBridge ----------------------------
EXTENDS PthrBridge, TLC

Symmetric == Permutations(Threads) \cup Permutations(Mutexes) \cup Permutations(Reals)
=============================================================================
