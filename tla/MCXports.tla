------------------------------ MODULE MCXports ------------------------------
(***************************************************************************)
(* Instances of Xports for TLC.  The addresses and the descriptors are     *)
(* interchangeable.                                                        *)
(***************************************************************************)
EXTENDS Xports, TLC

Sym == Permutations(Xprt) \cup Permutations(Sock)
=============================================================================
