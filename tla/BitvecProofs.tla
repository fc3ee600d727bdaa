---------------------------- MODULE BitvecProofs ----------------------------
(***************************************************************************)
(* What a client of the bit vector may rely on, for every word size and    *)
(* vector size, and up to which index: the indices from 0 to WordBytes     *)
(* have cells of their own, and the next one, WordBytes + 1, shares the    *)
(* cell of index 1; the indices up to NBits - WordBits have their cells in *)
(* the memory of the vector, and the ones above have not.                  *)
(***************************************************************************)
EXTENDS BitvecSet, TLAPS

(***************************************************************************)
(* Index 0 is alone in word 0.                                             *)
(***************************************************************************)
LEMMA CellZero == Cell(0) = <<0, 0>>
  <1>1. WordBits \in Nat /\ WordBits > 0
    BY WordBytesAssumption DEF WordBits
  <1>2. (0 + WordBits - 1) \div WordBits = 0
    BY <1>1
  <1>3. 0 % WordBytes = 0
    BY WordBytesAssumption
  <1>. QED
    BY <1>2, <1>3 DEF Cell, Wpos, Bpos

(***************************************************************************)
(* The indices 1 .. WordBytes are in word 1.                               *)
(***************************************************************************)
LEMMA CellWordOne ==
  ASSUME NEW idx \in 1 .. WordBytes
  PROVE  Wpos(idx) = 1
  <1>1. WordBits \in Nat /\ WordBits > 0 /\ idx <= WordBits /\ idx >= 1 /\ idx \in Nat
    BY WordBytesAssumption DEF WordBits
  <1>2. (idx + WordBits - 1) \div WordBits = 1
    BY <1>1
  <1>. QED
    BY <1>2 DEF Wpos

(***************************************************************************)
(* Within a word, the bit number tells 1 .. WordBytes apart: only          *)
(* WordBytes itself wraps around to bit 0.                                 *)
(***************************************************************************)
LEMMA BposWithinWord ==
  ASSUME NEW idx \in 1 .. WordBytes
  PROVE  Bpos(idx) = IF idx = WordBytes THEN 0 ELSE idx
  <1>1. CASE idx = WordBytes
    <2>1. WordBytes % WordBytes = 0
      BY WordBytesAssumption
    <2>. QED
      BY <1>1, <2>1 DEF Bpos
  <1>2. CASE idx # WordBytes
    <2>1. idx \in Nat /\ idx < WordBytes
      BY <1>2, WordBytesAssumption
    <2>2. idx % WordBytes = idx
      BY <2>1, WordBytesAssumption
    <2>. QED
      BY <1>2, <2>2 DEF Bpos
  <1>. QED
    BY <1>1, <1>2

(***************************************************************************)
(* Two indices up to WordBytes never share a cell.                         *)
(***************************************************************************)
THEOREM CellInjective ==
  ASSUME NEW i \in 0 .. WordBytes, NEW j \in 0 .. WordBytes, Cell(i) = Cell(j)
  PROVE  i = j
  <1>1. CASE i = 0 /\ j = 0
    BY <1>1
  <1>2. CASE i = 0 /\ j # 0
    <2>1. j \in 1 .. WordBytes
      BY <1>2, WordBytesAssumption
    <2>2. Wpos(j) = 1
      BY <2>1, CellWordOne
    <2>. QED
      BY <1>2, <2>2, CellZero DEF Cell
  <1>3. CASE i # 0 /\ j = 0
    <2>1. i \in 1 .. WordBytes
      BY <1>3, WordBytesAssumption
    <2>2. Wpos(i) = 1
      BY <2>1, CellWordOne
    <2>. QED
      BY <1>3, <2>2, CellZero DEF Cell
  <1>4. CASE i # 0 /\ j # 0
    <2>1. i \in 1 .. WordBytes /\ j \in 1 .. WordBytes
      BY <1>4, WordBytesAssumption
    <2>2. Bpos(i) = Bpos(j)
      BY DEF Cell
    <2>. QED
      BY <2>1, <2>2, BposWithinWord, WordBytesAssumption
  <1>. QED
    BY <1>1, <1>2, <1>3, <1>4

(***************************************************************************)
(* The bound is sharp: index WordBytes + 1 has the cell of index 1, so that*)
(* bitvec_clr_bit() of the one clears the other.                           *)
(***************************************************************************)
THEOREM CellsCollide ==
  ASSUME WordBytes >= 2
  PROVE  Cell(WordBytes + 1) = Cell(1)
  <1>1. WordBits \in Nat /\ WordBytes + 1 <= WordBits
    BY WordBytesAssumption DEF WordBits
  <1>2. ((WordBytes + 1) + WordBits - 1) \div WordBits = 1
    BY <1>1, WordBytesAssumption
  <1>3. Wpos(1) = 1
    BY CellWordOne, WordBytesAssumption
  <1>4. (WordBytes + 1) % WordBytes = 1 /\ 1 % WordBytes = 1
    BY WordBytesAssumption
  <1>. QED
    BY <1>2, <1>3, <1>4 DEF Cell, Wpos, Bpos

(***************************************************************************)
(* A client that uses no index above WordBytes gets back what it set:      *)
(* bitvec_get_bit() answers for exactly the indices that were set last.    *)
(***************************************************************************)
THEOREM BitvecIsASet ==
  ASSUME Idx \subseteq 0 .. WordBytes
  PROVE  Spec => []GetsWhatWasSet
  <1>1. Init => GetsWhatWasSet
    BY DEF Init, GetsWhatWasSet, EmptyVec, BitvecGetBit
  <1>2. GetsWhatWasSet /\ [Next]_vars => GetsWhatWasSet'
    <2> SUFFICES ASSUME GetsWhatWasSet, [Next]_vars
                 PROVE  GetsWhatWasSet'
      OBVIOUS
    <2>1. \A i, j \in Idx : Cell(i) = Cell(j) => i = j
      BY CellInjective
    <2>2. ASSUME NEW idx \in Idx, SetBit(idx)
          PROVE  GetsWhatWasSet'
      BY <2>1, <2>2 DEF SetBit, GetsWhatWasSet, BitvecSetBit, BitvecGetBit
    <2>3. ASSUME NEW idx \in Idx, ClrBit(idx)
          PROVE  GetsWhatWasSet'
      BY <2>1, <2>3 DEF ClrBit, GetsWhatWasSet, BitvecClrBit, BitvecGetBit
    <2>4. CASE UNCHANGED vars
      BY <2>4 DEF vars, GetsWhatWasSet
    <2>. QED
      BY <2>2, <2>3, <2>4 DEF Next
  <1>. QED
    BY <1>1, <1>2, PTL DEF Spec

(***************************************************************************)
(* Quotients by the word size: an index at least one word size below       *)
(* another is in an earlier word.                                          *)
(***************************************************************************)
LEMMA DivEarlier ==
  ASSUME NEW a \in Nat, NEW c \in Nat, NEW b \in Nat \ {0}, a + b <= c
  PROVE  a \div b < c \div b
  <1>1. a = b * (a \div b) + (a % b) /\ a % b \in 0 .. b - 1 /\ a \div b \in Nat
    OBVIOUS
  <1>2. c = b * (c \div b) + (c % b) /\ c % b \in 0 .. b - 1 /\ c \div b \in Nat
    OBVIOUS
  <1> DEFINE qa == a \div b
             qc == c \div b
             ra == a % b
             rc == c % b
  <1>. HIDE DEF qa, qc, ra, rc
  <1>3. ASSUME qc <= qa PROVE b * qc <= b * qa
    BY <1>1, <1>2, <1>3 DEF qa, qc
  <1>4. b * qa + b \in Nat /\ b * qc \in Nat
    BY <1>1, <1>2 DEF qa, qc
  <1>. QED
    BY <1>1, <1>2, <1>3, <1>4 DEF qa, qc, ra, rc

(***************************************************************************)
(* The vector is never written outside its words as long as the client     *)
(* stays at least one word below the end.                                  *)
(***************************************************************************)
THEOREM BitvecStaysWithin ==
  ASSUME \A idx \in Idx : idx \in Nat /\ idx + WordBits <= NBits
  PROVE  Spec => []WithinAllocation
  <1>1. Init => WithinAllocation
    BY DEF Init, WithinAllocation, EmptyVec
  <1>2. ASSUME NEW idx \in Idx
        PROVE  Cell(idx)[1] < WordCount
    <2>1. WordBits \in Nat \ {0}
      BY WordBytesAssumption DEF WordBits
    <2>2. /\ idx + WordBits - 1 \in Nat
          /\ NBits + WordBits - 1 \in Nat
          /\ (idx + WordBits - 1) + WordBits <= NBits + WordBits - 1
      BY <2>1, NBitsAssumption
    <2>3. (idx + WordBits - 1) \div WordBits < (NBits + WordBits - 1) \div WordBits
      BY <2>1, <2>2, DivEarlier
    <2>. QED
      BY <2>3 DEF Cell, Wpos, WordCount
  <1>3. WithinAllocation /\ [Next]_vars => WithinAllocation'
    BY <1>2 DEF WithinAllocation, Next, vars, SetBit, ClrBit, BitvecSetBit,
                BitvecClrBit
  <1>. QED
    BY <1>1, <1>3, PTL DEF Spec

(***************************************************************************)
(* This bound is sharp as well: in a vector of Words full words, every     *)
(* index of the last WordBits - 1 has, by the rounding up of wpos, its cell*)
(* in the word behind the last one, although it is below NBits.            *)
(***************************************************************************)
THEOREM LastIndicesOverrun ==
  ASSUME NEW Words \in Nat \ {0}, NBits = Words * WordBits,
         NEW idx \in NBits - WordBits + 1 .. NBits - 1
  PROVE  Wpos(idx) = WordCount
  <1>1. WordBits \in Nat \ {0}
    BY WordBytesAssumption DEF WordBits
  <1> DEFINE off == idx - (NBits - WordBits) - 1
             base == Words * WordBits
  <1>2. base \in Nat /\ NBits = base
    BY <1>1, NBitsAssumption
  <1>3. off \in 0 .. WordBits - 2 /\ idx + WordBits - 1 = base + off
    BY <1>1, <1>2
  <1>4. \A r \in 0 .. WordBits - 1 : (Words * WordBits + r) \div WordBits = Words
    BY <1>1
  <1>5. (base + off) \div WordBits = Words
    BY <1>1, <1>3, <1>4
  <1>6. (base + (WordBits - 1)) \div WordBits = Words
    BY <1>1, <1>4
  <1>7. NBits + WordBits - 1 = base + (WordBits - 1)
    BY <1>1, <1>2
  <1>. QED
    BY <1>3, <1>5, <1>6, <1>7 DEF Wpos, WordCount

=============================================================================
