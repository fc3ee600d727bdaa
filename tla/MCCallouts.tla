----------------------------- MODULE MCCallouts -----------------------------
(***************************************************************************)
(* An instance of Callouts for TLC.                                        *)
(***************************************************************************)
EXTENDS Callouts

CalloutSym == Permutations(Block) \cup Permutations(Functions) \cup Permutations(Protocols)

=============================================================================
