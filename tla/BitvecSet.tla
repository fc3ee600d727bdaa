------------------------------ MODULE BitvecSet ------------------------------
(***************************************************************************)
(* A client of one bit vector that sets and clears the bits of Idx in any  *)
(* order, as the id allocator and the collector do, and what it may expect:*)
(* the vector behaves as the set of the indices that were set last, and    *)
(* only the memory that bitvec_init() allocated is written.                *)
(*                                                                         *)
(* An index at or above the size of the vector makes the code call         *)
(* svc_die(); the callers never pass one, hence Idx below NBits.           *)
(***************************************************************************)
EXTENDS Bitvec

CONSTANT Idx           (* the bit indices the client uses                  *)

VARIABLES
  vec,      (* the vector                                                  *)
  members   (* history: the indices set and not cleared since              *)

vars == <<vec, members>>

Init ==
  /\ vec = EmptyVec
  /\ members = {}

SetBit(idx) ==
  /\ vec' = BitvecSetBit(vec, idx)
  /\ members' = members \cup {idx}

ClrBit(idx) ==
  /\ vec' = BitvecClrBit(vec, idx)
  /\ members' = members \ {idx}

Next == \E idx \in Idx : SetBit(idx) \/ ClrBit(idx)

Spec == Init /\ [][Next]_vars

-----------------------------------------------------------------------------
(***************************************************************************)
(* bitvec_get_bit() answers, for every index, whether that very index was  *)
(* set and not cleared since: no operation on one index disturbs another.  *)
(***************************************************************************)
GetsWhatWasSet == \A idx \in Idx : BitvecGetBit(vec, idx) <=> idx \in members

(***************************************************************************)
(* Every word written by bitvec_set_bit() is one of the words that         *)
(* bitvec_init() allocated for the number of bits the vector "is to be able*)
(* to handle" (bitvec.h:49).                                               *)
(***************************************************************************)
WithinAllocation == \A cell \in vec : cell[1] < WordCount

=============================================================================
