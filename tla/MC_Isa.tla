--------------------------------- MODULE MC_Isa ---------------------------------
(* Isa for TLC: all compressed words, and the arithmetic at 8 bits. *)
EXTENDS Isa
=============================================================================
