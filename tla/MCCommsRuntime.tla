--------------------------- MODULE MCCommsRuntime ---------------------------
(* CommsRuntime on one Bluetooth peer and one or two Wi-Fi peers or        *)
(* interfaces; w1 and w2 are the same MAC seen through two interfaces.     *)
EXTENDS CommsRuntime, TLC

CONSTANTS b1, w1, w2, kb, kw

MCKeyOf == [c \in Candidates |-> IF c = b1 THEN kb ELSE kw]
Symmetry == Permutations(Fds)
=============================================================================
