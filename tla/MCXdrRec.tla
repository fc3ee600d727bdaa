------------------------------ MODULE MCXdrRec -------------------------------
(***************************************************************************)
(* Instances of XdrRec for TLC.                                            *)
(***************************************************************************)
EXTENDS XdrRec

=============================================================================
