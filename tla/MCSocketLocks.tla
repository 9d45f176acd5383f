--------------------------- MODULE MCSocketLocks ---------------------------
EXTENDS SocketLocks, TLC

Symmetry == Permutations(Threads) \cup Permutations(Sockets)
=============================================================================
