---------------------------- MODULE MCSearchMemory ----------------------------
\* Threads and visited lists are alike.
EXTENDS SearchMemory, TLC

Alike == Permutations(Threads) \cup Permutations(Lists)
=============================================================================
