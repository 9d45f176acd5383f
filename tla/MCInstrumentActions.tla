------------------------ MODULE MCInstrumentActions ------------------------
(* Addresses are interchangeable. *)
EXTENDS InstrumentActions, TLC
Symmetry == Permutations(Macs)
=============================================================================
