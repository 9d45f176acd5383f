-------------------------- MODULE MCSocketRegistry --------------------------
EXTENDS SocketRegistry, TLC

Symmetry == Permutations(Threads) \cup Permutations(Sockets) \cup Permutations(Devices)
              \cup Permutations(Configs) \cup Permutations(Ports)
=============================================================================
