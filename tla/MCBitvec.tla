------------------------------ MODULE MCBitvec ------------------------------
(***************************************************************************)
(* Instances of BitvecSet for TLC, with the sizes of a 64-bit build: words *)
(* of 8 bytes and a vector of FD_SETSIZE (1024) bits.                      *)
(***************************************************************************)
EXTENDS BitvecSet
=============================================================================
