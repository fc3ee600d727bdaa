------------------------------- MODULE Bitvec -------------------------------
(***************************************************************************)
(* The bit vector of src/librpc/bitvec.c, which RPC-MT uses for the set of *)
(* transport ids in use (xports_idset) and for the set of ids marked for   *)
(* garbage collection (xprtgc_idset).                                      *)
(*                                                                         *)
(* A vector is the set of its cells that hold 1.  A cell is a pair of a    *)
(* word number and a bit number in that word.  The address of the cell of  *)
(* a bit index is computed exactly as the code does it: the word number is *)
(* rounded up, and the bit number keeps as many values as a word has       *)
(* bytes (bvword_mask is sizeof (bvword_t) - 1).                           *)
(***************************************************************************)
EXTENDS Integers

CONSTANTS
  WordBytes,   (* sizeof (bvword_t): 8 on 64-bit builds, 4 on 32-bit ones  *)
  NBits        (* the number of bits the vector is created for             *)

ASSUME WordBytesAssumption == WordBytes \in Nat \ {0}
ASSUME NBitsAssumption     == NBits \in Nat \ {0}

\* BIT_SIZE(bvword_t)
WordBits == 8 * WordBytes

\* bitvec_init: the number of words allocated for NBits bits.
WordCount == (NBits + WordBits - 1) \div WordBits

\* The word and the bit that set, clr and get all address.  WordBytes is a
\* power of two, so  idx & (sizeof - 1)  is the remainder.
Wpos(idx) == (idx + WordBits - 1) \div WordBits
Bpos(idx) == idx % WordBytes
Cell(idx) == <<Wpos(idx), Bpos(idx)>>

\* bitvec_init: all words are zero.
EmptyVec == {}

BitvecSetBit(bv, idx) == bv \cup {Cell(idx)}
BitvecClrBit(bv, idx) == bv \ {Cell(idx)}
BitvecGetBit(bv, idx) == Cell(idx) \in bv

=============================================================================
