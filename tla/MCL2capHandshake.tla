-------------------------- MODULE MCL2capHandshake --------------------------
(* Two peers, two connections (in the .cfg), and a queue of two.          *)
EXTENDS L2capHandshake
=============================================================================
