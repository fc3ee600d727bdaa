---------------------------- MODULE XdrRecProofs ----------------------------
(***************************************************************************)
(* The record stream delivers the records that were written, for every     *)
(* size of the buffers, of units and of bytes, and however the bytes are   *)
(* divided into fragments and reads.                                       *)
(***************************************************************************)
EXTENDS XdrRec, ListLemmas

-----------------------------------------------------------------------------
(* Multiples of the unit.                                                  *)

\* A multiple of the unit is Unit times something.
LEMMA WholeTimes ==
  ASSUME NEW a \in Int
  PROVE  Whole(a) <=> \E k \in Int : a = k * Unit
  <1>1. Unit \in Nat \ {0}
    BY RecAssumption
  <1>2. Whole(a) => \E k \in Int : a = k * Unit
    BY <1>1 DEF Whole
  <1>3. ASSUME NEW k \in Int, a = k * Unit
        PROVE  Whole(a)
    BY <1>1, <1>3 DEF Whole
  <1>. QED
    BY <1>2, <1>3

\* Sums and differences of multiples are multiples.
LEMMA WholeSum ==
  ASSUME NEW a \in Int, NEW b \in Int, Whole(a), Whole(b)
  PROVE  Whole(a + b) /\ Whole(a - b)
  <1>1. PICK j \in Int : a = j * Unit
    BY WholeTimes
  <1>2. PICK k \in Int : b = k * Unit
    BY WholeTimes
  <1>3. a + b = (j + k) * Unit /\ a - b = (j - k) * Unit
    BY <1>1, <1>2, RecAssumption
  <1>4. j + k \in Int /\ j - k \in Int /\ a + b \in Int /\ a - b \in Int
    OBVIOUS
  <1>. QED
    BY <1>3, <1>4, WholeTimes

\* The multiples that are written in the code.
LEMMA WholeUnits ==
  /\ Whole(0) /\ Whole(Unit)
  /\ \A k \in Int : Whole(k * Unit)
  <1>1. Unit \in Nat \ {0}
    BY RecAssumption
  <1>2. ASSUME NEW k \in Int
        PROVE  Whole(k * Unit)
    <2>1. k * Unit \in Int
      BY <1>1
    <2>. QED
      BY <2>1, WholeTimes
  <1>3. 0 = 0 * Unit /\ Unit = 1 * Unit
    BY <1>1
  <1>. QED
    BY <1>2, <1>3

\* Multiples are at least one unit apart.
LEMMA WholeApart ==
  ASSUME NEW a \in Int, NEW b \in Int, Whole(a), Whole(b), a < b
  PROVE  a + Unit <= b
  <1>1. PICK j \in Int : a = j * Unit
    BY WholeTimes
  <1>2. PICK k \in Int : b = k * Unit
    BY WholeTimes
  <1>3. Unit \in Nat \ {0}
    BY RecAssumption
  <1>4. ASSUME k <= j
        PROVE  FALSE
    <2>1. k * Unit <= j * Unit
      BY <1>3, <1>4
    <2>. QED
      BY <1>1, <1>2, <2>1
  <1>5. j + 1 <= k
    BY <1>4
  <1>6. (j + 1) * Unit <= k * Unit
    BY <1>3, <1>5
  <1>7. (j + 1) * Unit = j * Unit + Unit
    BY <1>3
  <1>. QED
    BY <1>1, <1>2, <1>6, <1>7

\* What the remainder takes away is a multiple.
LEMMA WholeRemainder ==
  ASSUME NEW a \in Int
  PROVE  a % Unit \in 0 .. Unit - 1 /\ Whole((a % Unit) - a)
  <1>1. Unit \in Nat \ {0}
    BY RecAssumption
  <1>2. a % Unit \in 0 .. Unit - 1 /\ a \div Unit \in Int /\ a = Unit * (a \div Unit) + (a % Unit)
    BY <1>1
  <1> DEFINE q == a \div Unit
             r == a % Unit
  <1>3. q \in Int /\ r \in Int /\ a = Unit * q + r
    BY <1>1, <1>2
  <1>. HIDE DEF q, r
  <1>4. r - a = (-q) * Unit /\ -q \in Int /\ r - a \in Int
    BY <1>1, <1>3
  <1>5. Whole(r - a)
    BY <1>4, WholeTimes
  <1>. QED
    BY <1>2, <1>5 DEF r

-----------------------------------------------------------------------------
(* Numbers as bytes.                                                       *)

\* The powers of Base.
LEMMA Powers ==
  /\ \A k \in 0 .. Unit : Power[k] \in Nat \ {0}
  /\ Power[0] = 1
  /\ \A k \in 1 .. Unit : Power[k] = Base * Power[k - 1]
  <1> DEFINE P == Nat \ {0}
             Loop(g) == [k \in 0 .. Unit |-> IF k = 0 THEN 1 ELSE Base * g[k - 1]]
  <1>1. Unit \in Nat /\ Base \in P /\ 1 \in P
    BY RecAssumption
  <1>2. \E g \in [0 .. Unit -> P] : g = Loop(g)
    <2> DEFINE step == [k \in 1 .. Unit |-> [v \in P |-> Base * v]]
    <2>1. \A v \in P : Base * v \in P
      BY <1>1
    <2>. HIDE DEF P
    <2>2. step \in LoopSteps(Unit, P)
      BY <2>1 DEF LoopSteps
    <2>3. \A k \in 1 .. Unit, v \in P : step[k][v] = Base * v
      OBVIOUS
    <2>. HIDE DEF step
    <2>4. PICK g \in [0 .. Unit -> P] : LoopValues(Unit, 1, step, g)
      BY <1>1, <2>2, LoopDefined
    <2>5. \A k \in 1 .. Unit : g[k - 1] \in P
      BY <1>1
    <2>6. g[0] = 1 /\ \A k \in 1 .. Unit : g[k] = Base * g[k - 1]
      BY <2>3, <2>4, <2>5 DEF LoopValues
    <2>7. g = Loop(g)
      BY <1>1, <2>6
    <2>. QED
      BY <2>7
  <1>3. PICK g \in [0 .. Unit -> P] : g = Loop(g)
    BY <1>2
  <1>4. Power = Loop(Power)
    BY <1>3 DEF Power
  <1>5. Power[0] = 1 /\ \A k \in 1 .. Unit : Power[k] = Base * Power[k - 1]
    <2>. HIDE DEF Power
    <2>1. \A k \in 0 .. Unit : Power[k] = Loop(Power)[k]
      BY <1>4
    <2>. QED
      BY <1>1, <2>1
  <1> DEFINE T == {k \in 0 .. Unit : Power[k] \in P}
  <1>6. T = 0 .. Unit
    <2>. HIDE DEF Power
    <2>1. 0 \in T
      BY <1>1, <1>5
    <2>2. \A k \in 1 .. Unit : k - 1 \in T => k \in T
      BY <1>1, <1>5
    <2>3. T \in SUBSET (0 .. Unit)
      OBVIOUS
    <2>. HIDE DEF T
    <2>. QED
      BY <1>1, <2>1, <2>2, <2>3, LoopInduction
  <1>. QED
    BY <1>5, <1>6

\* The bit of LAST_FRAG is the highest one.
LEMMA LastFragHighest ==
  /\ LAST_FRAG \in Nat \ {0}
  /\ 2 * LAST_FRAG <= Power[Unit]
  <1>1. Unit \in Nat \ {0} /\ Base \in Nat \ {0, 1} /\ Unit \in 1 .. Unit
    BY RecAssumption
  <1>2. Power[Unit] = Base * Power[Unit - 1] /\ Power[Unit - 1] \in Nat \ {0}
    BY <1>1, Powers
  <1>3. Power[Unit] \in Nat /\ Power[Unit] >= 2
    BY <1>1, <1>2
  <1>. HIDE DEF Power
  <1>. QED
    BY <1>3 DEF LAST_FRAG

\* A number has Unit bytes.
LEMMA BytesType ==
  ASSUME NEW n \in Nat
  PROVE  /\ Bytes(n) \in Seq(Byte)
         /\ Len(Bytes(n)) = Unit
         /\ \A i \in 1 .. Unit : Bytes(n)[i] = (n \div Power[Unit - i]) % Base /\ Bytes(n)[i] \in Byte
  <1>1. Unit \in Nat \ {0} /\ Base \in Nat \ {0, 1}
    BY RecAssumption
  <1>2. ASSUME NEW i \in 1 .. Unit
        PROVE  (n \div Power[Unit - i]) % Base \in Byte
    <2>1. Power[Unit - i] \in Nat \ {0}
      BY <1>1, Powers
    <2> DEFINE p == Power[Unit - i]
    <2>. HIDE DEF p
    <2>2. n \div p \in Nat
      BY <2>1 DEF p
    <2>3. (n \div p) % Base \in 0 .. Base - 1
      BY <1>1, <2>2
    <2>. QED
      BY <2>3 DEF p, Byte
  <1> DEFINE b == Bytes(n)
  <1>3. b \in [1 .. Unit -> Byte]
    BY <1>2 DEF Bytes
  <1>4. b \in Seq(Byte)
    BY <1>1, <1>3, SeqDef
  <1>5. Len(b) = Unit
    BY <1>1, <1>3, <1>4, LenProperties
  <1>. QED
    BY <1>2, <1>4, <1>5 DEF Bytes

\* Dividing in two steps.
LEMMA DivTwice ==
  ASSUME NEW n \in Nat, NEW b \in Nat \ {0}, NEW p \in Nat \ {0}
  PROVE  n \div (b * p) = (n \div p) \div b
  <1> DEFINE a == n \div p
             r == n % p
             c == a \div b
             s == a % b
  <1>1. a \in Nat /\ r \in 0 .. p - 1 /\ n = p * a + r
    OBVIOUS
  <1>. HIDE DEF a, r
  <1>2. c \in Nat /\ s \in 0 .. b - 1 /\ a = b * c + s
    BY <1>1
  <1>. HIDE DEF c, s
  <1>3. n = (b * p) * c + (p * s + r)
    BY <1>1, <1>2
  <1>4. p * s + r \in Nat /\ p * s + r < b * p
    <2>1. p * s <= p * (b - 1)
      BY <1>2
    <2>2. p * (b - 1) = b * p - p /\ p * s \in Nat /\ b * p \in Nat
      BY <1>2
    <2>. QED
      BY <1>1, <2>1, <2>2
  <1> DEFINE m == b * p
             t == p * s + r
  <1>5. m \in Nat \ {0} /\ t \in Nat /\ t < m /\ n = m * c + t
    BY <1>3, <1>4
  <1>. HIDE DEF m, t
  <1>6. n \div m = c
    BY <1>2, <1>5
  <1>. QED
    BY <1>6 DEF m, c, a

\* The value of a number read byte by byte.
LEMMA NumberLoop ==
  ASSUME NEW b, \A i \in 1 .. Unit : b[i] \in Nat
  PROVE  \E v \in [0 .. Unit -> Nat] :
           /\ v[0] = 0
           /\ \A i \in 1 .. Unit : v[i] = v[i - 1] * Base + b[i]
           /\ Number(b) = v[Unit]
  <1> DEFINE Loop(g) == [i \in 0 .. Unit |-> IF i = 0 THEN 0 ELSE g[i - 1] * Base + b[i]]
             value   == CHOOSE g : g = Loop(g)
             Goes(v) == v[0] = 0 /\ \A i \in 1 .. Unit : v[i] = v[i - 1] * Base + b[i]
  <1>1. Unit \in Nat /\ Base \in Nat /\ 0 \in Nat
    BY RecAssumption
  <1>2. \E g : g = Loop(g)
    <2> DEFINE step == [i \in 1 .. Unit |-> [v \in Nat |-> v * Base + b[i]]]
    <2>1. step \in LoopSteps(Unit, Nat)
      BY <1>1 DEF LoopSteps
    <2>2. \A i \in 1 .. Unit, v \in Nat : step[i][v] = v * Base + b[i]
      OBVIOUS
    <2>. HIDE DEF step, Loop, value
    <2>3. PICK g \in [0 .. Unit -> Nat] : LoopValues(Unit, 0, step, g)
      BY <1>1, <2>1, LoopDefined
    <2>4. \A i \in 1 .. Unit : g[i - 1] \in Nat
      BY <1>1
    <2>5. Goes(g)
      BY <2>2, <2>3, <2>4 DEF LoopValues
    <2>6. g = Loop(g)
      BY <1>1, <2>5 DEF Loop
    <2>. QED
      BY <2>6
  <1>3. value = Loop(value)
    BY <1>2
  <1>4. Number(b) = value[Unit]
    BY DEF Number
  <1>. HIDE DEF value
  <1>5. Goes(value) /\ DOMAIN value = 0 .. Unit
    <2>1. \A i \in 0 .. Unit : value[i] = Loop(value)[i]
      BY <1>3
    <2>2. DOMAIN value = 0 .. Unit
      BY <1>3
    <2>. QED
      BY <1>1, <2>1, <2>2
  <1> DEFINE T == {i \in 0 .. Unit : value[i] \in Nat}
  <1>6. T = 0 .. Unit
    <2>1. 0 \in T
      BY <1>1, <1>5
    <2>2. ASSUME NEW i \in 1 .. Unit, i - 1 \in T
          PROVE  i \in T
      <3>1. value[i - 1] \in Nat /\ b[i] \in Nat
        BY <2>2
      <3>2. value[i] = value[i - 1] * Base + b[i]
        BY <1>5
      <3>. QED
        BY <1>1, <3>1, <3>2
    <2>3. T \in SUBSET (0 .. Unit)
      OBVIOUS
    <2>. HIDE DEF T
    <2>. QED
      BY <1>1, <2>1, <2>2, <2>3, LoopInduction
  <1>7. value \in [0 .. Unit -> Nat]
    <2>1. value = [i \in 0 .. Unit |-> value[i]]
      BY <1>3
    <2>. QED
      BY <1>6, <2>1
  <1>. QED
    BY <1>4, <1>5, <1>7

\* A number that fits in a unit is read as it was written.
LEMMA NumberOfBytes ==
  ASSUME NEW n \in Nat, n < Power[Unit],
         NEW b, \A i \in 1 .. Unit : b[i] = Bytes(n)[i]
  PROVE  Number(b) = n
  <1>1. Unit \in Nat \ {0} /\ Base \in Nat \ {0, 1}
    BY RecAssumption
  <1>2. ASSUME NEW i \in 1 .. Unit
        PROVE  b[i] = (n \div Power[Unit - i]) % Base /\ b[i] \in Nat
    <2>1. b[i] = (n \div Power[Unit - i]) % Base /\ b[i] \in Byte
      BY BytesType
    <2>. QED
      BY <1>1, <2>1 DEF Byte
  <1>3. PICK v \in [0 .. Unit -> Nat] : /\ v[0] = 0
                                        /\ \A i \in 1 .. Unit : v[i] = v[i - 1] * Base + b[i]
                                        /\ Number(b) = v[Unit]
    BY <1>2, NumberLoop
  <1> DEFINE T == {i \in 0 .. Unit : v[i] = n \div Power[Unit - i]}
  <1>. HIDE DEF Power
  <1>4. 0 \in T
    <2>1. Power[Unit] \in Nat \ {0}
      BY <1>1, Powers
    <2>2. n \div Power[Unit] = 0
      BY <2>1
    <2>. QED
      BY <1>1, <1>3, <2>2
  <1>5. ASSUME NEW i \in 1 .. Unit, i - 1 \in T
        PROVE  i \in T
    <2> DEFINE p == Power[Unit - i]
               q == n \div p
    <2>1. Unit - i \in 0 .. Unit /\ Unit - (i - 1) \in 1 .. Unit /\ (Unit - (i - 1)) - 1 = Unit - i
      BY <1>1
    <2>2. p \in Nat \ {0} /\ Power[Unit - (i - 1)] = Base * p
      BY <2>1, Powers
    <2>. HIDE DEF p
    <2>3. q \in Nat
      BY <2>2
    <2>4. v[i - 1] = q \div Base
      <3>1. v[i - 1] = n \div Power[Unit - (i - 1)]
        BY <1>5
      <3>2. n \div (Base * p) = q \div Base
        BY <1>1, <2>2, DivTwice
      <3>. QED
        BY <2>2, <3>1, <3>2
    <2>5. v[i] = v[i - 1] * Base + (q % Base)
      BY <1>2, <1>3 DEF p
    <2>. HIDE DEF q
    <2>6. (q \div Base) * Base + (q % Base) = q
      <3>1. /\ q \div Base \in Int /\ q % Base \in Int
            /\ q = Base * (q \div Base) + (q % Base)
        BY ONLY <1>1, <2>3
      <3>2. PICK c \in Int : c = q \div Base
        BY <3>1
      <3>3. Base * c = c * Base
        BY ONLY <1>1, <3>2
      <3>. QED
        BY <3>1, <3>2, <3>3
    <2>7. v[i] = q
      BY <2>4, <2>5, <2>6
    <2>. QED
      BY <2>7 DEF q, p
  <1>6. T = 0 .. Unit
    <2>1. T \in SUBSET (0 .. Unit)
      OBVIOUS
    <2>. HIDE DEF T
    <2>. QED
      BY <1>1, <1>4, <1>5, <2>1, LoopInduction
  <1>7. v[Unit] = n \div Power[0]
    <2>1. Unit \in T
      BY <1>1, <1>6
    <2>2. Unit - Unit = 0
      BY <1>1
    <2>. QED
      BY <2>1, <2>2
  <1>8. n \div 1 = n
    OBVIOUS
  <1>. QED
    BY <1>3, <1>7, <1>8, Powers

\* What set_input_fragment() gets out of a header.
LEMMA HeaderDecoded ==
  ASSUME NEW n \in Nat, n < LAST_FRAG, NEW last \in BOOLEAN, last \/ n > 0,
         NEW b, \A i \in 1 .. Unit : b[i] = Bytes(n + (IF last THEN LAST_FRAG ELSE 0))[i]
  PROVE  /\ Number(b) # 0
         /\ Number(b) >= LAST_FRAG <=> last
         /\ Number(b) % LAST_FRAG = n
  <1> DEFINE F == LAST_FRAG
             m == n + (IF last THEN F ELSE 0)
  <1>1. F \in Nat \ {0} /\ 2 * F <= Power[Unit] /\ Power[Unit] \in Nat
    BY LastFragHighest, Powers, RecAssumption
  <1>. HIDE DEF F, Power
  <1>2. m \in Nat /\ m < Power[Unit]
    BY <1>1 DEF F
  <1>3. Number(b) = m
    BY <1>2, NumberOfBytes DEF F
  <1>4. n < F
    BY DEF F
  <1>5. CASE last
    <2>1. m = 1 * F + n
      BY <1>1, <1>5
    <2>2. m % F = n
      BY <1>1, <1>4, <2>1
    <2>. QED
      BY <1>1, <1>3, <1>4, <1>5, <2>1, <2>2 DEF F
  <1>6. CASE ~last
    <2>1. m = n
      BY <1>6
    <2>2. n % F = n
      BY <1>1, <1>4
    <2>. QED
      BY <1>1, <1>3, <1>4, <1>6, <2>1, <2>2 DEF F
  <1>. QED
    BY <1>5, <1>6

-----------------------------------------------------------------------------
(* The operators of the model.                                             *)

\* The sizes of the buffers are multiples of the unit, with room for more
\* than a header.
LEMMA Sizes ==
  /\ Unit \in Nat \ {0}
  /\ SendSize \in Nat /\ Whole(SendSize) /\ SendSize > 2 * Unit /\ SendSize <= LAST_FRAG
  /\ in_size \in Nat /\ Whole(in_size) /\ in_size > 2 * Unit
  <1>1. /\ Unit \in Nat \ {0}
        /\ MinBuf \in Nat /\ DefaultBuf \in Nat /\ sendsize \in Nat /\ recvsize \in Nat
        /\ MinBuf > 2 * Unit /\ DefaultBuf >= MinBuf
    BY RecAssumption
  <1>2. ASSUME NEW s \in Nat
        PROVE  fix_buf_size(s) \in Nat /\ Whole(fix_buf_size(s)) /\ fix_buf_size(s) > 2 * Unit
    <2> DEFINE m == IF s < MinBuf THEN DefaultBuf ELSE s
               q == (m + Unit - 1) \div Unit
               r == (m + Unit - 1) % Unit
    <2>1. m \in Nat /\ m > 2 * Unit
      BY <1>1
    <2>2. fix_buf_size(s) = q * Unit
      BY DEF fix_buf_size, RNDUP
    <2>. HIDE DEF m
    <2>3. q \in Nat /\ r \in 0 .. Unit - 1 /\ m + Unit - 1 = Unit * q + r
      BY <1>1, <2>1
    <2>. HIDE DEF q, r
    <2>4. q * Unit = Unit * q /\ q * Unit \in Nat
      BY <1>1, <2>3
    <2>5. q * Unit >= m
      BY <1>1, <2>1, <2>3, <2>4
    <2>. QED
      BY <1>1, <2>1, <2>2, <2>3, <2>4, <2>5, WholeUnits
  <1>. QED
    BY <1>1, <1>2, SizeAssumption DEF SendSize, in_size

\* The first n elements of a sequence.
LEMMA FrontOf ==
  ASSUME NEW S, NEW s \in Seq(S), NEW n \in 0 .. Len(s)
  PROVE  /\ SubSeq(s, 1, n) \in Seq(S)
         /\ Len(SubSeq(s, 1, n)) = n
         /\ \A i \in 1 .. n : SubSeq(s, 1, n)[i] = s[i]
  <1>1. Len(s) \in Nat /\ \A i \in 1 .. Len(s) : s[i] \in S
    BY LenProperties, ElementOfSeq
  <1>2. \A i \in 1 .. n : s[i] \in S
    BY <1>1
  <1>3. /\ SubSeq(s, 1, n) \in Seq(S)
        /\ Len(SubSeq(s, 1, n)) = IF 1 <= n THEN n - 1 + 1 ELSE 0
        /\ \A i \in 1 .. n - 1 + 1 : SubSeq(s, 1, n)[i] = s[1 + i - 1]
    BY <1>1, <1>2, SubSeqProperties
  <1>. QED
    BY <1>1, <1>3

\* What is left of a sequence without them.
LEMMA BackOf ==
  ASSUME NEW S, NEW s \in Seq(S), NEW n \in 0 .. Len(s)
  PROVE  /\ SubSeq(s, n + 1, Len(s)) \in Seq(S)
         /\ Len(SubSeq(s, n + 1, Len(s))) = Len(s) - n
         /\ \A i \in 1 .. Len(s) - n : SubSeq(s, n + 1, Len(s))[i] = s[n + i]
  <1>1. Len(s) \in Nat /\ \A i \in 1 .. Len(s) : s[i] \in S
    BY LenProperties, ElementOfSeq
  <1>2. \A i \in n + 1 .. Len(s) : s[i] \in S
    BY <1>1
  <1> DEFINE t == SubSeq(s, n + 1, Len(s))
             m == Len(s)
  <1>3. /\ t \in Seq(S)
        /\ Len(t) = IF n + 1 <= m THEN m - (n + 1) + 1 ELSE 0
        /\ \A i \in 1 .. m - (n + 1) + 1 : t[i] = s[n + 1 + i - 1]
    BY <1>1, <1>2, SubSeqProperties
  <1>. HIDE DEF t
  <1>4. n \in Nat /\ m \in Nat /\ n <= m
    BY <1>1
  <1>. HIDE DEF m
  <1>5. Len(t) = m - n
    BY <1>3, <1>4
  <1>6. \A i \in 1 .. m - n : t[i] = s[n + i]
    BY <1>3, <1>4
  <1>. QED
    BY <1>3, <1>5, <1>6 DEF t, m

\* The smaller of two numbers.
LEMMA MinOfTwo ==
  ASSUME NEW a \in Nat, NEW b \in Nat
  PROVE  Min({a, b}) = IF a <= b THEN a ELSE b
  <1>1. {a, b} \in SUBSET Nat
    OBVIOUS
  <1>2. CASE a <= b
    <2>1. a \in {a, b} /\ \A i \in {a, b} : a <= i
      BY <1>2
    <2>. QED
      BY <1>1, <1>2, <2>1, LeastIsMin
  <1>3. CASE ~(a <= b)
    <2>1. b \in {a, b} /\ \A i \in {a, b} : b <= i
      BY <1>3
    <2>. QED
      BY <1>1, <1>3, <2>1, LeastIsMin
  <1>. QED
    BY <1>2, <1>3

\* Written is a number.
LEMMA WrittenType ==
  ASSUME recs \in Seq(Seq(Byte))
  PROVE  Written \in Nat
  <1> DEFINE n       == Len(recs)
             Loop(g) == [i \in 0 .. n |-> IF i = 0 THEN 0 ELSE g[i - 1] + Len(recs[i])]
             sum     == CHOOSE g : g = Loop(g)
  <1>1. n \in Nat /\ \A i \in 1 .. n : recs[i] \in Seq(Byte)
    BY LenProperties, ElementOfSeq
  <1>2. \A i \in 1 .. n : Len(recs[i]) \in Nat
    BY <1>1, LenProperties
  <1>. HIDE DEF n
  <1>3. \E g \in [0 .. n -> Nat] : g = Loop(g)
    <2> DEFINE step == [i \in 1 .. n |-> [v \in Nat |-> v + Len(recs[i])]]
    <2>1. step \in LoopSteps(n, Nat)
      BY <1>2 DEF LoopSteps
    <2>2. \A i \in 1 .. n, v \in Nat : step[i][v] = v + Len(recs[i])
      OBVIOUS
    <2>. HIDE DEF step
    <2>3. PICK g \in [0 .. n -> Nat] : LoopValues(n, 0, step, g)
      BY <1>1, <2>1, LoopDefined
    <2>4. \A i \in 1 .. n : g[i - 1] \in Nat
      BY <1>1
    <2>5. g[0] = 0 /\ \A i \in 1 .. n : g[i] = g[i - 1] + Len(recs[i])
      BY <2>2, <2>3, <2>4 DEF LoopValues
    <2>6. g = Loop(g)
      BY <1>1, <2>5
    <2>. QED
      BY <2>6
  <1>4. sum = Loop(sum)
    BY <1>3
  <1>5. Written = sum[n]
    BY DEF Written, n
  <1>. HIDE DEF sum
  <1>6. \A i \in 0 .. n : sum[i] = IF i = 0 THEN 0 ELSE sum[i - 1] + Len(recs[i])
    BY <1>4
  <1> DEFINE T == {i \in 0 .. n : sum[i] \in Nat}
  <1>7. T = 0 .. n
    <2>1. 0 \in T
      BY <1>1, <1>6
    <2>2. ASSUME NEW i \in 1 .. n, i - 1 \in T
          PROVE  i \in T
      <3>1. sum[i - 1] \in Nat /\ Len(recs[i]) \in Nat /\ i \in 0 .. n /\ i # 0
        BY <1>1, <1>2, <2>2
      <3>2. sum[i] = sum[i - 1] + Len(recs[i])
        BY <1>6, <3>1
      <3>. QED
        BY <3>1, <3>2
    <2>3. T \in SUBSET (0 .. n)
      OBVIOUS
    <2>. HIDE DEF T
    <2>. QED
      BY <1>1, <2>1, <2>2, <2>3, LoopInduction
  <1>. QED
    BY <1>1, <1>5, <1>7

\* The data that the application writes.
LEMMA FreshType ==
  ASSUME recs \in Seq(Seq(Byte)), NEW units \in Nat
  PROVE  /\ Fresh(units) \in Seq(Byte)
         /\ Len(Fresh(units)) = units * Unit
         /\ units * Unit \in Nat
  <1>1. Unit \in Nat /\ Base \in Nat \ {0, 1} /\ Written \in Nat
    BY RecAssumption, WrittenType
  <1>2. units * Unit \in Nat
    BY <1>1
  <1> DEFINE m == units * Unit
             f == Fresh(units)
  <1>. HIDE DEF m
  <1>3. ASSUME NEW i \in 1 .. m
        PROVE  Data(Written + i) \in Byte
    <2>1. Written + i \in Nat /\ Base - 1 \in Nat \ {0}
      BY <1>1, <1>2 DEF m
    <2> DEFINE x == Written + i
               k == Base - 1
    <2>. HIDE DEF x, k
    <2>2. x \in Nat /\ k \in Nat \ {0}
      BY <2>1 DEF x, k
    <2>3. x % k \in 0 .. k - 1
      BY <2>2
    <2>4. Data(Written + i) = 1 + (x % k)
      BY DEF Data, x, k
    <2>5. 1 + (x % k) \in 0 .. k
      BY <2>2, <2>3
    <2>. QED
      BY <2>4, <2>5 DEF Byte, k
  <1>4. f \in [1 .. m -> Byte]
    BY <1>3 DEF Fresh, m
  <1>5. m \in Nat
    BY <1>2 DEF m
  <1>. HIDE DEF f
  <1>6. f \in Seq(Byte)
    BY <1>4, <1>5, SeqDef
  <1>7. Len(f) = m
    BY <1>4, <1>5, <1>6, LenProperties
  <1>. QED
    BY <1>2, <1>6, <1>7 DEF m, f

\* The space that is left for a header.
LEMMA EmptyOutType ==
  EmptyOut \in Seq(Byte) /\ Len(EmptyOut) = Unit
  <1>1. Unit \in Nat /\ 0 \in Byte
    BY RecAssumption DEF Byte
  <1> DEFINE e == EmptyOut
  <1>2. e \in [1 .. Unit -> Byte]
    BY <1>1 DEF EmptyOut
  <1>3. e \in Seq(Byte)
    BY <1>1, <1>2, SeqDef
  <1>. QED
    BY <1>1, <1>2, <1>3, LenProperties

\* A buffer with the header of its current fragment filled in.
LEMMA WithHeaderType ==
  ASSUME NEW b \in Seq(Byte), NEW eor \in BOOLEAN,
         frag_header \in Nat, frag_header + Unit <= Len(b)
  PROVE  LET n == Len(b) - frag_header - Unit
             w == WithHeader(b, eor)
         IN  /\ n \in Nat
             /\ w \in Seq(Byte) /\ Len(w) = Len(b)
             /\ \A i \in 1 .. frag_header : w[i] = b[i]
             /\ \A i \in 1 .. Unit :
                  w[frag_header + i] = Bytes(n + (IF eor THEN LAST_FRAG ELSE 0))[i]
             /\ \A i \in 1 .. n : w[frag_header + Unit + i] = b[frag_header + Unit + i]
  <1> DEFINE n == Len(b) - frag_header - Unit
             m == n + (IF eor THEN LAST_FRAG ELSE 0)
             w == WithHeader(b, eor)
             f == frag_header
  <1>1. Unit \in Nat \ {0} /\ LAST_FRAG \in Nat /\ Len(b) \in Nat /\ DOMAIN b = 1 .. Len(b)
    BY Sizes, LastFragHighest, LenProperties
  <1>2. n \in Nat /\ m \in Nat
    BY <1>1
  <1>3. w = [i \in 1 .. Len(b) |-> IF i - f \in 1 .. Unit THEN Bytes(m)[i - f] ELSE b[i]]
    BY <1>1 DEF WithHeader
  <1>. HIDE DEF n, m, w
  <1>4. \A i \in 1 .. Unit : Bytes(m)[i] \in Byte
    BY <1>2, BytesType
  <1>5. \A i \in 1 .. Len(b) : b[i] \in Byte
    BY ElementOfSeq
  <1>6. w \in [1 .. Len(b) -> Byte]
    BY <1>3, <1>4, <1>5
  <1>7. w \in Seq(Byte)
    BY <1>1, <1>6, SeqDef
  <1>8. Len(w) = Len(b)
    BY <1>1, <1>6, <1>7, LenProperties
  <1>9. \A i \in 1 .. Len(b) : w[i] = IF i - f \in 1 .. Unit THEN Bytes(m)[i - f] ELSE b[i]
    BY <1>3
  <1>10. \A i \in 1 .. f : w[i] = b[i]
    BY <1>1, <1>9
  <1>11. ASSUME NEW i \in 1 .. Unit
         PROVE  w[f + i] = Bytes(m)[i]
    <2>1. f + i \in 1 .. Len(b) /\ (f + i) - f = i
      BY <1>1
    <2>. QED
      BY <1>9, <2>1
  <1>12. ASSUME NEW i \in 1 .. n
         PROVE  w[f + Unit + i] = b[f + Unit + i]
    <2>1. f + Unit + i \in 1 .. Len(b) /\ (f + Unit + i) - f \notin 1 .. Unit
      BY <1>1 DEF n
    <2>. QED
      BY <1>9, <2>1
  <1>. QED
    BY <1>2, <1>7, <1>8, <1>10, <1>11, <1>12 DEF n, m, w

\* Two sequences one after the other.
LEMMA JoinOf ==
  ASSUME NEW S, NEW s \in Seq(S), NEW t \in Seq(S)
  PROVE  /\ s \o t \in Seq(S)
         /\ Len(s \o t) = Len(s) + Len(t)
         /\ \A i \in 1 .. Len(s) : (s \o t)[i] = s[i]
         /\ \A i \in 1 .. Len(t) : (s \o t)[Len(s) + i] = t[i]
  <1>1. Len(s) \in Nat /\ Len(t) \in Nat
    BY LenProperties
  <1>2. /\ s \o t \in Seq(S)
        /\ Len(s \o t) = Len(s) + Len(t)
        /\ \A i \in 1 .. Len(s) + Len(t) : (s \o t)[i] = IF i <= Len(s) THEN s[i] ELSE t[i - Len(s)]
    BY ConcatProperties
  <1> DEFINE m == Len(s)
             n == Len(t)
             u == s \o t
  <1>. HIDE DEF m, n, u
  <1>3. m \in Nat /\ n \in Nat /\ \A i \in 1 .. m + n : u[i] = IF i <= m THEN s[i] ELSE t[i - m]
    BY <1>1, <1>2 DEF m, n, u
  <1>4. \A i \in 1 .. m : u[i] = s[i]
    BY <1>3
  <1>5. ASSUME NEW i \in 1 .. n
        PROVE  u[m + i] = t[i]
    <2>1. m + i \in 1 .. m + n /\ ~(m + i <= m) /\ (m + i) - m = i
      BY <1>3
    <2>. QED
      BY <1>3, <2>1
  <1>. QED
    BY <1>2, <1>4, <1>5 DEF m, n, u

-----------------------------------------------------------------------------
(* The output buffer and the open record.                                  *)

\* Of a record r, the output buffer b holds the end but for p, from the header
\* at f on.
Carries(b, f, p, r) ==
  LET at == Len(r) - Len(p) - (Len(b) - f - Unit)
  IN  /\ at >= 0
      /\ \A i \in 1 .. Len(b) - f - Unit : b[f + Unit + i] = r[at + i]
      /\ \A i \in 1 .. Len(p) : p[i] = r[Len(r) - Len(p) + i]

\* Bytes that are stored in the buffer and in the record.
LEMMA CarriesStores ==
  ASSUME NEW b \in Seq(Byte), NEW r \in Seq(Byte), NEW d \in Seq(Byte),
         NEW f \in Nat, f + Unit <= Len(b), Carries(b, f, <<>>, r)
  PROVE  Carries(b \o d, f, <<>>, r \o d)
  <1> DEFINE bd == b \o d
             rd == r \o d
             at == Len(r) - (Len(b) - f - Unit)
             m  == Len(b) - f - Unit
             k  == Len(d)
  <1>1. Unit \in Nat /\ Len(b) \in Nat /\ Len(r) \in Nat /\ Len(d) \in Nat /\ Len(<<>>) = 0
    BY Sizes, LenProperties
  <1>2. /\ Len(bd) = Len(b) + k /\ Len(rd) = Len(r) + k
        /\ \A i \in 1 .. Len(b) : bd[i] = b[i]
        /\ \A i \in 1 .. k : bd[Len(b) + i] = d[i]
        /\ \A i \in 1 .. Len(r) : rd[i] = r[i]
        /\ \A i \in 1 .. k : rd[Len(r) + i] = d[i]
    BY JoinOf
  <1>3. at >= 0 /\ \A i \in 1 .. m : b[f + Unit + i] = r[at + i]
    BY <1>1 DEF Carries
  <1>. HIDE DEF bd, rd
  <1>4. ASSUME NEW i \in 1 .. m + k
        PROVE  bd[f + Unit + i] = rd[at + i]
    <2>1. CASE i <= m
      <3>1. f + Unit + i \in 1 .. Len(b) /\ at + i \in 1 .. Len(r) /\ i \in 1 .. m
        BY <1>1, <1>3, <2>1
      <3>. QED
        BY <1>2, <1>3, <3>1
    <2>2. CASE ~(i <= m)
      <3>1. i - m \in 1 .. k /\ f + Unit + i = Len(b) + (i - m) /\ at + i = Len(r) + (i - m)
        BY <1>1, <1>3, <2>2
      <3>. QED
        BY <1>2, <3>1
    <2>. QED
      BY <2>1, <2>2
  <1>5. Len(bd) - f - Unit = m + k /\ Len(rd) - Len(<<>>) - (Len(bd) - f - Unit) = at
    BY <1>1, <1>2
  <1>6. Carries(bd, f, <<>>, rd)
    <2>1. \A i \in 1 .. Len(<<>>) : <<>>[i] = rd[Len(rd) - Len(<<>>) + i]
      BY <1>1
    <2>. HIDE DEF at, m, k
    <2>. QED
      BY <1>3, <1>4, <1>5, <2>1 DEF Carries
  <1>. QED
    BY <1>6 DEF bd, rd

\* Bytes of the record that are still to be stored.
LEMMA CarriesOwes ==
  ASSUME NEW b \in Seq(Byte), NEW r \in Seq(Byte), NEW d \in Seq(Byte),
         NEW f \in Nat, f + Unit <= Len(b), Carries(b, f, <<>>, r)
  PROVE  Carries(b, f, d, r \o d)
  <1> DEFINE rd == r \o d
             at == Len(r) - (Len(b) - f - Unit)
             m  == Len(b) - f - Unit
             k  == Len(d)
  <1>1. Unit \in Nat /\ Len(b) \in Nat /\ Len(r) \in Nat /\ Len(d) \in Nat /\ Len(<<>>) = 0
    BY Sizes, LenProperties
  <1>2. /\ Len(rd) = Len(r) + k
        /\ \A i \in 1 .. Len(r) : rd[i] = r[i]
        /\ \A i \in 1 .. k : rd[Len(r) + i] = d[i]
    BY JoinOf
  <1>3. at >= 0 /\ \A i \in 1 .. m : b[f + Unit + i] = r[at + i]
    BY <1>1 DEF Carries
  <1>. HIDE DEF rd
  <1>4. ASSUME NEW i \in 1 .. m
        PROVE  b[f + Unit + i] = rd[at + i]
    <2>1. at + i \in 1 .. Len(r)
      BY <1>1, <1>3
    <2>. QED
      BY <1>2, <1>3, <2>1
  <1>5. Len(rd) - k - m = at /\ Len(rd) - k = Len(r)
    BY <1>1, <1>2
  <1>6. Carries(b, f, d, rd)
    BY <1>1, <1>2, <1>3, <1>4, <1>5 DEF Carries
  <1>. QED
    BY <1>6 DEF rd

\* Some of them are stored.
LEMMA CarriesMoves ==
  ASSUME NEW b \in Seq(Byte), NEW r \in Seq(Byte), NEW p \in Seq(Byte),
         NEW f \in Nat, f + Unit <= Len(b), NEW n \in 0 .. Len(p), Carries(b, f, p, r)
  PROVE  Carries(b \o SubSeq(p, 1, n), f, SubSeq(p, n + 1, Len(p)), r)
  <1> DEFINE q  == SubSeq(p, 1, n)
             s  == SubSeq(p, n + 1, Len(p))
             bq == b \o q
             m  == Len(b) - f - Unit
             at == Len(r) - Len(p) - m
  <1>1. Unit \in Nat /\ Len(b) \in Nat /\ Len(r) \in Nat /\ Len(p) \in Nat
    BY Sizes, LenProperties
  <1>2. /\ q \in Seq(Byte) /\ Len(q) = n /\ \A i \in 1 .. n : q[i] = p[i]
        /\ Len(s) = Len(p) - n /\ \A i \in 1 .. Len(p) - n : s[i] = p[n + i]
    BY FrontOf, BackOf
  <1>. HIDE DEF q, s
  <1>3. /\ Len(bq) = Len(b) + n
        /\ \A i \in 1 .. Len(b) : bq[i] = b[i]
        /\ \A i \in 1 .. n : bq[Len(b) + i] = p[i]
    <2>1. q \in Seq(Byte)
      BY <1>2
    <2>2. /\ Len(bq) = Len(b) + Len(q)
          /\ \A i \in 1 .. Len(b) : bq[i] = b[i]
          /\ \A i \in 1 .. Len(q) : bq[Len(b) + i] = q[i]
      BY <2>1, JoinOf
    <2>. QED
      BY <1>2, <2>2
  <1>4. /\ at >= 0 /\ \A i \in 1 .. m : b[f + Unit + i] = r[at + i]
        /\ \A i \in 1 .. Len(p) : p[i] = r[Len(r) - Len(p) + i]
    BY DEF Carries
  <1>. HIDE DEF bq
  <1>5. ASSUME NEW i \in 1 .. m + n
        PROVE  bq[f + Unit + i] = r[at + i]
    <2>1. CASE i <= m
      <3>1. f + Unit + i \in 1 .. Len(b) /\ i \in 1 .. m
        BY <1>1, <2>1
      <3>. QED
        BY <1>3, <1>4, <3>1
    <2>2. CASE ~(i <= m)
      <3>1. /\ i - m \in 1 .. n /\ i - m \in 1 .. Len(p)
            /\ f + Unit + i = Len(b) + (i - m) /\ at + i = Len(r) - Len(p) + (i - m)
        BY <1>1, <2>2
      <3>. QED
        BY <1>3, <1>4, <3>1
    <2>. QED
      BY <2>1, <2>2
  <1>6. ASSUME NEW i \in 1 .. Len(s)
        PROVE  s[i] = r[Len(r) - Len(s) + i]
    <2>1. /\ n + i \in 1 .. Len(p) /\ i \in 1 .. Len(p) - n
          /\ Len(r) - Len(s) + i = Len(r) - Len(p) + (n + i)
      BY <1>1, <1>2
    <2>. QED
      BY <1>2, <1>4, <2>1
  <1>7. Len(bq) - f - Unit = m + n /\ Len(r) - Len(s) - (Len(bq) - f - Unit) = at
    BY <1>1, <1>2, <1>3
  <1>8. Carries(bq, f, s, r)
    BY <1>4, <1>5, <1>6, <1>7 DEF Carries
  <1>. QED
    BY <1>8 DEF bq, q, s

\* A new buffer behind a fragment that has been sent.
LEMMA CarriesFlushed ==
  ASSUME NEW b \in Seq(Byte), NEW r \in Seq(Byte), NEW p \in Seq(Byte),
         NEW f \in Nat, f + Unit <= Len(b), Carries(b, f, p, r)
  PROVE  Carries(EmptyOut, 0, p, r)
  <1>1. Unit \in Nat /\ Len(b) \in Nat /\ Len(r) \in Nat /\ Len(p) \in Nat /\ Len(EmptyOut) = Unit
    BY Sizes, LenProperties, EmptyOutType
  <1>2. /\ Len(r) - Len(p) - (Len(b) - f - Unit) >= 0
        /\ \A i \in 1 .. Len(p) : p[i] = r[Len(r) - Len(p) + i]
    BY DEF Carries
  <1>3. Len(EmptyOut) - 0 - Unit = 0 /\ Len(r) - Len(p) - 0 >= 0
    BY <1>1, <1>2
  <1>. QED
    BY <1>2, <1>3 DEF Carries

\* The header of a fragment that ends a record, and of the next one.
LEMMA CarriesBegins ==
  ASSUME NEW b \in Seq(Byte)
  PROVE  Carries(b \o EmptyOut, Len(b), <<>>, <<>>)
  <1>1. EmptyOut \in Seq(Byte) /\ Len(EmptyOut) = Unit
    BY EmptyOutType
  <1>2. Unit \in Nat /\ Len(b) \in Nat /\ Len(<<>>) = 0 /\ Len(b \o EmptyOut) = Len(b) + Unit
    BY <1>1, Sizes, LenProperties, JoinOf
  <1>3. Len(b \o EmptyOut) - Len(b) - Unit = 0
    BY <1>2
  <1>. QED
    BY <1>2, <1>3 DEF Carries

-----------------------------------------------------------------------------
(* The steps of the sender keep the invariant.                             *)

OpenRec == recs[Len(recs)]

SenderTypes ==
  /\ out \in Seq(Byte) /\ pending \in Seq(Byte) /\ wire \in Seq(Byte)
  /\ Len(out) \in Unit .. SendSize /\ frag_header \in 0 .. Len(out) - Unit
  /\ frag_sent \in BOOLEAN /\ peer \in {"open", "closed"}
  /\ recs \in Seq(Seq(Byte)) /\ recs # <<>>

ReaderTypes ==
  /\ last_frag \in BOOLEAN /\ strm_stat \in {"IDLE", "DIED"}
  /\ inbuf \in Seq(Byte) /\ Len(inbuf) <= in_size /\ in_boundry \in 0 .. Unit - 1
  /\ fbtbc \in 0 .. LAST_FRAG - 1
  /\ rpc \in {"poll", "skip", "msg", "get", "stat", "eof", "destroyed"}
  /\ len \in Nat /\ current \in Nat /\ left \in 0 .. current
  /\ header = NoHeader \/ Len(header) < Unit
  /\ timeouts \in 0 .. MaxTimeouts
  /\ got \in Seq(Seq(Byte))

\* The types of the two ends.
LEMMA TypesSplit ==
  /\ RecTypes <=> SenderTypes /\ ReaderTypes
  /\ RecTypes' <=> SenderTypes' /\ ReaderTypes'
  BY DEF RecTypes, RecTypeOK, SenderTypes, ReaderTypes, Byte

SenderSizes ==
  /\ Whole(Len(out)) /\ Whole(frag_header) /\ Whole(Len(pending)) /\ Whole(Len(OpenRec))
  /\ frag_header + 2 * Unit <= SendSize

\* What OutputRight says of the sequences.
LEMMA OutputSplit ==
  /\ OutputRight <=> SenderSizes /\ (peer = "open" => Carries(out, frag_header, pending, OpenRec))
  /\ OutputRight' <=>
       SenderSizes' /\ (peer' = "open" => Carries(out', frag_header', pending', OpenRec'))
  BY DEF OutputRight, SenderSizes, Carries, OpenRec, OpenAt

\* A step that the reader does not notice.
LEMMA SenderKeeps ==
  ASSUME RecInv, UNCHANGED <<invars, got>>, SenderTypes', OutputRight'
  PROVE  RecInv'
  <1>1. ReaderTypes'
    BY TypesSplit DEF RecInv, ReaderTypes, invars
  <1>2. InputRight'
    BY DEF RecInv, InputRight, invars, Reading
  <1>. QED
    BY <1>1, <1>2, TypesSplit DEF RecInv

\* The open record, and the number of records.
LEMMA OpenRecType ==
  ASSUME SenderTypes
  PROVE  Len(recs) \in Nat \ {0} /\ OpenRec \in Seq(Byte) /\ Len(OpenRec) \in Nat
  <1>1. recs \in Seq(Seq(Byte)) /\ recs # <<>>
    BY DEF SenderTypes
  <1>2. Len(recs) \in Nat \ {0}
    BY <1>1, EmptySeq, LenProperties
  <1>3. OpenRec \in Seq(Byte)
    BY <1>1, <1>2, ElementOfSeq DEF OpenRec
  <1>. QED
    BY <1>2, <1>3, LenProperties

\* Data is written into the open record.
LEMMA ExtendRecord ==
  ASSUME SenderTypes, NEW d \in Seq(Byte), Extend(d)
  PROVE  /\ recs' \in Seq(Seq(Byte)) /\ recs' # <<>>
         /\ Len(recs') = Len(recs)
         /\ OpenRec' = OpenRec \o d
         /\ OpenRec' \in Seq(Byte) /\ Len(OpenRec') = Len(OpenRec) + Len(d)
         /\ \A i \in 1 .. Len(recs) - 1 : recs'[i] = recs[i]
  <1> DEFINE n == Len(recs)
             e == OpenRec \o d
  <1>1. n \in Nat \ {0} /\ OpenRec \in Seq(Byte)
    BY OpenRecType
  <1>2. e \in Seq(Byte) /\ Len(e) = Len(OpenRec) + Len(d)
    BY <1>1, JoinOf
  <1>3. recs \in Seq(Seq(Byte)) /\ DOMAIN recs = 1 .. n /\ recs \in [1 .. n -> Seq(Byte)]
    BY LenProperties DEF SenderTypes
  <1>4. recs' = [recs EXCEPT ![n] = e]
    BY DEF Extend, OpenRec
  <1>. HIDE DEF n, e
  <1>5. recs' \in [1 .. n -> Seq(Byte)] /\ recs'[n] = e /\ \A i \in 1 .. n - 1 : recs'[i] = recs[i]
    BY <1>1, <1>2, <1>3, <1>4
  <1>6. recs' \in Seq(Seq(Byte))
    BY <1>1, <1>5, SeqDef
  <1>7. Len(recs') = n
    BY <1>1, <1>5, <1>6, LenProperties
  <1>8. recs' # <<>>
    BY <1>1, <1>6, <1>7, EmptySeq
  <1>9. OpenRec' = e
    BY <1>5, <1>7 DEF OpenRec
  <1>. QED
    BY <1>2, <1>5, <1>6, <1>7, <1>8, <1>9 DEF n, e

\* A record is ended, and the next one begun.
LEMMA AppendRecord ==
  ASSUME SenderTypes, recs' = Append(recs, <<>>)
  PROVE  /\ recs' \in Seq(Seq(Byte)) /\ recs' # <<>>
         /\ Len(recs') = Len(recs) + 1
         /\ OpenRec' = <<>>
         /\ \A i \in 1 .. Len(recs) : recs'[i] = recs[i]
  <1>1. Len(recs) \in Nat \ {0} /\ recs \in Seq(Seq(Byte)) /\ <<>> \in Seq(Byte)
    BY OpenRecType, EmptySeq DEF SenderTypes
  <1>2. /\ recs' \in Seq(Seq(Byte))
        /\ Len(recs') = Len(recs) + 1
        /\ \A i \in 1 .. Len(recs) : recs'[i] = recs[i]
        /\ recs'[Len(recs) + 1] = <<>>
    BY <1>1, AppendProperties
  <1>3. recs' # <<>>
    BY <1>1, <1>2, EmptySeq
  <1>. QED
    BY <1>2, <1>3 DEF OpenRec

\* What flush_out() leaves behind.
LEMMA FlushKeeps ==
  ASSUME SenderTypes, SenderSizes,
         NEW b \in Seq(Byte), Len(b) \in Len(out) .. SendSize, Whole(Len(b)), NEW eor \in BOOLEAN,
         NEW d \in Seq(Byte), Len(d) <= Unit, Whole(Len(d)), flush_out(b, eor, d)
  PROVE  /\ out' \in Seq(Byte) /\ Len(out') \in Unit .. SendSize /\ Whole(Len(out'))
         /\ wire' \in Seq(Byte)
         /\ frag_header' \in 0 .. Len(out') - Unit /\ Whole(frag_header')
         /\ frag_header' + 2 * Unit <= SendSize
         /\ peer' \in {"open", "closed"}
         /\ peer' = "open" => /\ peer = "open"
                              /\ out' = EmptyOut \o d /\ frag_header' = 0
                              /\ wire' = wire \o WithHeader(b, eor)
         /\ peer = "open" /\ peer' = "closed" => wire' = wire
  <1>1. /\ Unit \in Nat \ {0} /\ SendSize \in Nat /\ Whole(SendSize) /\ SendSize > 2 * Unit
        /\ Len(b) \in Nat /\ Len(d) \in Nat /\ Len(out) \in Nat
    BY Sizes, LenProperties DEF SenderTypes
  <1>2. CASE /\ wire' = wire \o WithHeader(b, eor)
             /\ out' = EmptyOut \o d
             /\ frag_header' = 0
             /\ UNCHANGED peer
    <2>1. WithHeader(b, eor) \in Seq(Byte)
      <3>1. frag_header \in Nat /\ frag_header + Unit <= Len(b)
        BY <1>1 DEF SenderTypes
      <3>. QED
        BY <3>1, WithHeaderType
    <2>2. wire' \in Seq(Byte)
      BY <1>2, <2>1, JoinOf DEF SenderTypes
    <2>3. out' \in Seq(Byte) /\ Len(out') = Unit + Len(d)
      BY <1>2, EmptyOutType, JoinOf
    <2>4. Whole(Len(out')) /\ Whole(0)
      BY <1>1, <2>3, WholeUnits, WholeSum
    <2>. QED
      BY <1>1, <1>2, <2>2, <2>3, <2>4 DEF SenderTypes
  <1>3. CASE /\ peer' = "closed"
             /\ out' = b
             /\ UNCHANGED <<frag_header, wire>>
    BY <1>1, <1>3 DEF SenderTypes, SenderSizes
  <1>. QED
    BY <1>2, <1>3 DEF flush_out

\* What is known before a step of the sender.
LEMMA SenderBefore ==
  ASSUME RecInv
  PROVE  /\ SenderTypes /\ SenderSizes /\ ReaderTypes
         /\ peer = "open" => Carries(out, frag_header, pending, OpenRec)
         /\ Unit \in Nat \ {0} /\ SendSize \in Nat /\ Whole(SendSize)
         /\ Len(out) \in Nat /\ frag_header \in Nat /\ frag_header + Unit <= Len(out)
         /\ Len(pending) \in Nat /\ Len(OpenRec) \in Nat
  <1>1. SenderTypes /\ ReaderTypes /\ SenderSizes
    BY TypesSplit, OutputSplit DEF RecInv
  <1>2. Unit \in Nat \ {0} /\ SendSize \in Nat /\ Whole(SendSize)
    BY Sizes
  <1>3. Len(out) \in Nat /\ Len(pending) \in Nat
    BY <1>1, LenProperties DEF SenderTypes
  <1>. QED
    BY <1>1, <1>2, <1>3, OpenRecType, OutputSplit DEF RecInv, SenderTypes

\* A unit or more, at hand.
LEMMA FreshUnits ==
  ASSUME SenderTypes, NEW units \in Nat
  PROVE  /\ Fresh(units) \in Seq(Byte) /\ Len(Fresh(units)) = units * Unit
         /\ units * Unit \in Nat /\ Whole(Len(Fresh(units)))
  <1>1. Fresh(units) \in Seq(Byte) /\ Len(Fresh(units)) = units * Unit /\ units * Unit \in Nat
    BY FreshType DEF SenderTypes
  <1>2. Whole(units * Unit)
    BY WholeUnits
  <1>. QED
    BY <1>1, <1>2

\* xdrrec_putlong()
LEMMA PutlongKeeps ==
  ASSUME RecInv, xdrrec_putlong
  PROVE  RecInv'
  <1> DEFINE d == Fresh(1)
  <1>1. /\ SenderTypes /\ SenderSizes
        /\ Unit \in Nat \ {0} /\ SendSize \in Nat
        /\ Len(out) \in Nat /\ frag_header \in Nat /\ frag_header + Unit <= Len(out)
        /\ Len(OpenRec) \in Nat
    BY SenderBefore
  <1>2. /\ peer = "open" /\ pending = <<>> /\ Extend(d)
        /\ UNCHANGED <<pending, invars, got>>
    BY DEF xdrrec_putlong, CanWrite
  <1>3. /\ IF Len(out) + Unit > SendSize
           THEN frag_sent' = TRUE /\ flush_out(out, FALSE, d)
           ELSE out' = out \o d /\ UNCHANGED <<frag_header, frag_sent, wire, peer>>
    BY DEF xdrrec_putlong
  <1>4. d \in Seq(Byte) /\ Len(d) = Unit /\ Whole(Len(d))
    BY <1>1, FreshUnits
  <1>. HIDE DEF d
  <1>5. /\ recs' \in Seq(Seq(Byte)) /\ recs' # <<>>
        /\ OpenRec' = OpenRec \o d /\ Len(OpenRec') = Len(OpenRec) + Len(d)
    BY <1>1, <1>2, <1>4, ExtendRecord
  <1>6. Carries(out, frag_header, <<>>, OpenRec) /\ OpenRec \in Seq(Byte) /\ out \in Seq(Byte)
    BY <1>1, <1>2, SenderBefore, OpenRecType DEF SenderTypes
  <1>7. Whole(Len(OpenRec')) /\ Whole(Len(pending')) /\ pending' \in Seq(Byte)
    BY <1>1, <1>2, <1>4, <1>5, WholeSum DEF SenderSizes, SenderTypes
  <1>8. CASE Len(out) + Unit > SendSize
    <2>1. frag_sent' = TRUE /\ flush_out(out, FALSE, d)
      BY <1>3, <1>8
    <2>2. /\ out' \in Seq(Byte) /\ Len(out') \in Unit .. SendSize /\ Whole(Len(out'))
          /\ wire' \in Seq(Byte)
          /\ frag_header' \in 0 .. Len(out') - Unit /\ Whole(frag_header')
          /\ frag_header' + 2 * Unit <= SendSize
          /\ peer' \in {"open", "closed"}
          /\ peer' = "open" => out' = EmptyOut \o d /\ frag_header' = 0
      <3>1. Len(out) \in Len(out) .. SendSize /\ Whole(Len(out)) /\ Len(d) <= Unit
        BY <1>1, <1>4 DEF SenderTypes, SenderSizes
      <3>. QED
        BY <1>1, <1>4, <1>6, <2>1, <3>1, FlushKeeps
    <2>3. Carries(EmptyOut \o d, 0, <<>>, OpenRec \o d)
      <3>1. Carries(EmptyOut, 0, <<>>, OpenRec)
        BY <1>1, <1>6, CarriesFlushed, EmptySeq
      <3>. QED
        BY <1>1, <1>4, <1>6, <3>1, CarriesStores, EmptyOutType
    <2>4. SenderTypes'
      BY <1>5, <1>7, <2>1, <2>2 DEF SenderTypes
    <2>5. OutputRight'
      BY <1>2, <1>5, <1>7, <2>2, <2>3, OutputSplit DEF SenderSizes
    <2>. QED
      BY <1>2, <2>4, <2>5, SenderKeeps
  <1>9. CASE ~(Len(out) + Unit > SendSize)
    <2>1. out' = out \o d /\ UNCHANGED <<frag_header, frag_sent, wire, peer>>
      BY <1>3, <1>9
    <2>2. out' \in Seq(Byte) /\ Len(out') = Len(out) + Unit
      BY <1>4, <1>6, <2>1, JoinOf
    <2>3. Whole(Len(out'))
      BY <1>1, <1>4, <2>2, WholeSum DEF SenderSizes
    <2>4. Carries(out', frag_header, <<>>, OpenRec')
      BY <1>1, <1>4, <1>5, <1>6, <2>1, CarriesStores
    <2>5. SenderTypes'
      BY <1>1, <1>5, <1>7, <1>9, <2>1, <2>2 DEF SenderTypes
    <2>6. OutputRight'
      BY <1>1, <1>2, <1>7, <2>1, <2>3, <2>4, OutputSplit DEF SenderSizes
    <2>. QED
      BY <1>2, <2>5, <2>6, SenderKeeps
  <1>. QED
    BY <1>8, <1>9

\* xdrrec_inline() for encoding
LEMMA InlineEncodeKeeps ==
  ASSUME RecInv, NEW units \in Nat, xdrrec_inline_encode(units)
  PROVE  RecInv'
  <1> DEFINE d == Fresh(units)
  <1>1. /\ SenderTypes /\ SenderSizes
        /\ Unit \in Nat \ {0} /\ SendSize \in Nat
        /\ Len(out) \in Nat /\ frag_header \in Nat /\ frag_header + Unit <= Len(out)
        /\ Len(OpenRec) \in Nat
    BY SenderBefore
  <1>2. /\ peer = "open" /\ pending = <<>> /\ Extend(d) /\ out' = out \o d
        /\ Len(out) + units * Unit <= SendSize
        /\ UNCHANGED <<frag_header, frag_sent, pending, wire, peer, invars, got>>
    BY DEF xdrrec_inline_encode, CanWrite
  <1>3. d \in Seq(Byte) /\ Len(d) = units * Unit /\ units * Unit \in Nat /\ Whole(Len(d))
    BY <1>1, FreshUnits
  <1>. HIDE DEF d
  <1>4. /\ recs' \in Seq(Seq(Byte)) /\ recs' # <<>>
        /\ OpenRec' = OpenRec \o d /\ Len(OpenRec') = Len(OpenRec) + Len(d)
    BY <1>1, <1>2, <1>3, ExtendRecord
  <1>5. Carries(out, frag_header, <<>>, OpenRec) /\ OpenRec \in Seq(Byte) /\ out \in Seq(Byte)
    BY <1>1, <1>2, SenderBefore, OpenRecType DEF SenderTypes
  <1>6. out' \in Seq(Byte) /\ Len(out') = Len(out) + Len(d)
    BY <1>2, <1>3, <1>5, JoinOf
  <1>7. Whole(Len(OpenRec')) /\ Whole(Len(out'))
    BY <1>1, <1>3, <1>4, <1>6, WholeSum DEF SenderSizes
  <1>8. Carries(out', frag_header, <<>>, OpenRec')
    BY <1>1, <1>2, <1>3, <1>4, <1>5, CarriesStores
  <1> DEFINE k == units * Unit
  <1>9. SenderTypes'
    <2>1. k \in Nat /\ Len(out') = Len(out) + k /\ Len(out) + k <= SendSize
      BY <1>2, <1>3, <1>6
    <2>. HIDE DEF k
    <2>. QED
      BY <1>1, <1>2, <1>4, <1>6, <2>1 DEF SenderTypes
  <1>10. OutputRight'
    BY <1>1, <1>2, <1>7, <1>8, OutputSplit DEF SenderSizes
  <1>. QED
    BY <1>2, <1>9, <1>10, SenderKeeps

\* xdrrec_putbytes() before its loop
LEMMA PutbytesKeeps ==
  ASSUME RecInv, NEW units \in Nat, xdrrec_putbytes(units)
  PROVE  RecInv'
  <1> DEFINE d == Fresh(units)
  <1>1. /\ SenderTypes /\ SenderSizes
        /\ Unit \in Nat \ {0}
        /\ Len(out) \in Nat /\ frag_header \in Nat /\ frag_header + Unit <= Len(out)
        /\ Len(OpenRec) \in Nat
    BY SenderBefore
  <1>2. /\ peer = "open" /\ pending = <<>> /\ Extend(d) /\ pending' = d
        /\ UNCHANGED <<out, frag_header, frag_sent, wire, peer, invars, got>>
    BY DEF xdrrec_putbytes, CanWrite
  <1>3. d \in Seq(Byte) /\ Len(d) \in Nat /\ Whole(Len(d))
    BY <1>1, FreshUnits
  <1>. HIDE DEF d
  <1>4. /\ recs' \in Seq(Seq(Byte)) /\ recs' # <<>>
        /\ OpenRec' = OpenRec \o d /\ Len(OpenRec') = Len(OpenRec) + Len(d)
    BY <1>1, <1>2, <1>3, ExtendRecord
  <1>5. Carries(out, frag_header, <<>>, OpenRec) /\ OpenRec \in Seq(Byte) /\ out \in Seq(Byte)
    BY <1>1, <1>2, SenderBefore, OpenRecType DEF SenderTypes
  <1>6. Whole(Len(OpenRec'))
    BY <1>1, <1>3, <1>4, WholeSum DEF SenderSizes
  <1>7. Carries(out, frag_header, d, OpenRec')
    BY <1>1, <1>3, <1>4, <1>5, CarriesOwes
  <1>8. SenderTypes'
    BY <1>1, <1>2, <1>3, <1>4 DEF SenderTypes
  <1>9. OutputRight'
    BY <1>1, <1>2, <1>3, <1>6, <1>7, OutputSplit DEF SenderSizes
  <1>. QED
    BY <1>2, <1>8, <1>9, SenderKeeps

\* What a round of the loop of xdrrec_putbytes() stores.
LEMMA RoundStores ==
  ASSUME RecInv
  PROVE  LET n    == Min({SendSize - Len(out), Len(pending)})
             full == out \o SubSeq(pending, 1, n)
             rest == SubSeq(pending, n + 1, Len(pending))
         IN  /\ n \in 0 .. Len(pending) /\ Whole(n) /\ n <= SendSize - Len(out)
             /\ n < Len(pending) => n = SendSize - Len(out)
             /\ full \in Seq(Byte) /\ Len(full) = Len(out) + n
             /\ Len(full) \in Len(out) .. SendSize /\ Whole(Len(full))
             /\ rest \in Seq(Byte) /\ Len(rest) = Len(pending) - n /\ Whole(Len(rest))
             /\ peer = "open" => Carries(full, frag_header, rest, OpenRec)
  <1> DEFINE a    == SendSize - Len(out)
             m    == Len(pending)
             n    == Min({SendSize - Len(out), Len(pending)})
             full == out \o SubSeq(pending, 1, n)
             rest == SubSeq(pending, n + 1, Len(pending))
  <1>1. /\ SenderTypes /\ SenderSizes
        /\ Unit \in Nat \ {0} /\ SendSize \in Nat /\ Whole(SendSize)
        /\ Len(out) \in Nat /\ frag_header \in Nat /\ frag_header + Unit <= Len(out)
        /\ m \in Nat
    BY SenderBefore
  <1>2. a \in Nat /\ Whole(a) /\ Whole(m) /\ Len(out) <= SendSize
    BY <1>1, WholeSum DEF SenderTypes, SenderSizes
  <1>3. n = IF a <= m THEN a ELSE m
    BY <1>1, <1>2, MinOfTwo
  <1>. HIDE DEF n
  <1>4. n \in 0 .. m /\ Whole(n) /\ n <= a /\ (n < m => n = a)
    BY <1>1, <1>2, <1>3
  <1>5. out \in Seq(Byte) /\ pending \in Seq(Byte)
    BY <1>1 DEF SenderTypes
  <1>6. SubSeq(pending, 1, n) \in Seq(Byte) /\ Len(SubSeq(pending, 1, n)) = n
    BY <1>4, <1>5, FrontOf
  <1>7. full \in Seq(Byte) /\ Len(full) = Len(out) + n
    BY <1>5, <1>6, JoinOf
  <1>8. Whole(Len(full)) /\ Len(full) \in Len(out) .. SendSize
    BY <1>1, <1>2, <1>4, <1>7, WholeSum DEF SenderSizes
  <1>9. rest \in Seq(Byte) /\ Len(rest) = m - n
    BY <1>4, <1>5, BackOf
  <1>10. Whole(Len(rest))
    <2>1. m \in Int /\ n \in Int /\ Whole(m) /\ Whole(n)
      BY <1>1, <1>2, <1>4
    <2>2. Whole(m - n)
      BY <2>1, WholeSum
    <2>. QED
      BY <1>9, <2>2
  <1>11. peer = "open" => Carries(full, frag_header, rest, OpenRec)
    <2>1. OpenRec \in Seq(Byte) /\ (peer = "open" => Carries(out, frag_header, pending, OpenRec))
      BY <1>1, SenderBefore, OpenRecType
    <2>. QED
      BY <1>1, <1>4, <1>5, <2>1, CarriesMoves
  <1>. QED
    BY <1>4, <1>7, <1>8, <1>9, <1>10, <1>11 DEF n

\* xdrrec_putbytes(), a round of its loop
LEMMA PutbytesRoundKeeps ==
  ASSUME RecInv, PutbytesRound
  PROVE  RecInv'
  <1> DEFINE n    == Min({SendSize - Len(out), Len(pending)})
             full == out \o SubSeq(pending, 1, n)
             rest == SubSeq(pending, n + 1, Len(pending))
  <1>1. /\ SenderTypes /\ SenderSizes
        /\ Unit \in Nat \ {0} /\ SendSize \in Nat
        /\ Len(out) \in Nat /\ frag_header \in Nat /\ frag_header + Unit <= Len(out)
    BY SenderBefore
  <1>2. /\ full \in Seq(Byte) /\ Len(full) \in Len(out) .. SendSize /\ Whole(Len(full))
        /\ rest \in Seq(Byte) /\ Whole(Len(rest))
        /\ peer = "open" => Carries(full, frag_header, rest, OpenRec)
    BY RoundStores
  <1>3. /\ peer = "open"
        /\ IF n < Len(pending)
           THEN frag_sent' = TRUE /\ flush_out(full, FALSE, <<>>)
           ELSE out' = full /\ UNCHANGED <<frag_header, frag_sent, wire, peer>>
        /\ pending' = rest
        /\ UNCHANGED <<invars, recs, got>>
    BY DEF PutbytesRound
  <1>. HIDE DEF n, full, rest
  <1>4. OpenRec' = OpenRec /\ OpenRec \in Seq(Byte)
    BY <1>1, <1>3, OpenRecType DEF OpenRec
  <1>5. CASE n < Len(pending)
    <2>1. frag_sent' = TRUE /\ flush_out(full, FALSE, <<>>)
      BY <1>3, <1>5
    <2>2. <<>> \in Seq(Byte) /\ Len(<<>>) = 0 /\ Len(<<>>) <= Unit /\ Whole(Len(<<>>))
      BY <1>1, EmptySeq, WholeUnits
    <2>3. /\ out' \in Seq(Byte) /\ Len(out') \in Unit .. SendSize /\ Whole(Len(out'))
          /\ wire' \in Seq(Byte)
          /\ frag_header' \in 0 .. Len(out') - Unit /\ Whole(frag_header')
          /\ frag_header' + 2 * Unit <= SendSize
          /\ peer' \in {"open", "closed"}
          /\ peer' = "open" => out' = EmptyOut \o <<>> /\ frag_header' = 0
      BY <1>1, <1>2, <2>1, <2>2, FlushKeeps
    <2>4. EmptyOut \o <<>> = EmptyOut
      BY EmptyOutType, ConcatEmptySeq
    <2>5. Carries(EmptyOut, 0, rest, OpenRec)
      <3>1. frag_header + Unit <= Len(full)
        BY <1>1, <1>2
      <3>. QED
        BY <1>1, <1>2, <1>3, <1>4, <3>1, CarriesFlushed
    <2>6. SenderTypes'
      BY <1>1, <1>2, <1>3, <2>1, <2>3 DEF SenderTypes
    <2>7. OutputRight'
      BY <1>1, <1>2, <1>3, <1>4, <2>3, <2>4, <2>5, OutputSplit DEF SenderSizes
    <2>. QED
      BY <1>3, <2>6, <2>7, SenderKeeps
  <1>6. CASE ~(n < Len(pending))
    <2>1. out' = full /\ UNCHANGED <<frag_header, frag_sent, wire, peer>>
      BY <1>3, <1>6
    <2>2. SenderTypes'
      BY <1>1, <1>2, <1>3, <2>1 DEF SenderTypes
    <2>3. OutputRight'
      BY <1>1, <1>2, <1>3, <1>4, <2>1, OutputSplit DEF SenderSizes
    <2>. QED
      BY <1>3, <2>2, <2>3, SenderKeeps
  <1>. QED
    BY <1>5, <1>6

\* xdrrec_endofrecord()
LEMMA EndofrecordKeeps ==
  ASSUME RecInv, NEW sendnow \in BOOLEAN, xdrrec_endofrecord(sendnow)
  PROVE  RecInv'
  <1>1. /\ SenderTypes /\ SenderSizes
        /\ Unit \in Nat \ {0} /\ SendSize \in Nat /\ Whole(SendSize)
        /\ Len(out) \in Nat /\ frag_header \in Nat /\ frag_header + Unit <= Len(out)
        /\ out \in Seq(Byte) /\ Len(out) <= SendSize
    BY SenderBefore DEF SenderTypes
  <1>2. /\ peer = "open" /\ pending = <<>> /\ recs' = Append(recs, <<>>)
        /\ IF sendnow \/ frag_sent \/ TooFull
           THEN frag_sent' = FALSE /\ flush_out(out, TRUE, <<>>)
           ELSE /\ out' = WithHeader(out, TRUE) \o EmptyOut
                /\ frag_header' = Len(out)
                /\ UNCHANGED <<frag_sent, wire, peer>>
        /\ UNCHANGED <<pending, invars, got>>
    BY DEF xdrrec_endofrecord, CanWrite
  <1>3. recs' \in Seq(Seq(Byte)) /\ recs' # <<>> /\ OpenRec' = <<>>
    BY <1>1, <1>2, AppendRecord
  <1>4. <<>> \in Seq(Byte) /\ Len(<<>>) = 0 /\ Len(<<>>) <= Unit /\ Whole(Len(<<>>))
    BY <1>1, EmptySeq, WholeUnits
  <1>5. CASE sendnow \/ frag_sent \/ TooFull
    <2>1. frag_sent' = FALSE /\ flush_out(out, TRUE, <<>>)
      BY <1>2, <1>5
    <2>2. /\ out' \in Seq(Byte) /\ Len(out') \in Unit .. SendSize /\ Whole(Len(out'))
          /\ wire' \in Seq(Byte)
          /\ frag_header' \in 0 .. Len(out') - Unit /\ Whole(frag_header')
          /\ frag_header' + 2 * Unit <= SendSize
          /\ peer' \in {"open", "closed"}
          /\ peer' = "open" => out' = EmptyOut \o <<>> /\ frag_header' = 0
      <3>1. Len(out) \in Len(out) .. SendSize /\ Whole(Len(out))
        BY <1>1 DEF SenderSizes
      <3>. QED
        BY <1>1, <1>4, <2>1, <3>1, FlushKeeps
    <2>3. Carries(EmptyOut \o <<>>, 0, <<>>, <<>>)
      <3>1. Carries(<<>> \o EmptyOut, Len(<<>>), <<>>, <<>>)
        BY <1>4, CarriesBegins
      <3>2. EmptyOut \o <<>> = EmptyOut /\ <<>> \o EmptyOut = EmptyOut
        BY EmptyOutType, ConcatEmptySeq
      <3>. QED
        BY <1>4, <3>1, <3>2
    <2>4. SenderTypes'
      BY <1>2, <1>3, <1>4, <2>1, <2>2 DEF SenderTypes
    <2>5. OutputRight'
      BY <1>2, <1>3, <1>4, <2>2, <2>3, OutputSplit DEF SenderSizes
    <2>. QED
      BY <1>2, <2>4, <2>5, SenderKeeps
  <1>6. CASE ~(sendnow \/ frag_sent \/ TooFull)
    <2> DEFINE w == WithHeader(out, TRUE)
    <2>1. out' = w \o EmptyOut /\ frag_header' = Len(out) /\ UNCHANGED <<frag_sent, wire, peer>>
      BY <1>2, <1>6
    <2>2. w \in Seq(Byte) /\ Len(w) = Len(out)
      BY <1>1, WithHeaderType
    <2>. HIDE DEF w
    <2>3. out' \in Seq(Byte) /\ Len(out') = Len(out) + Unit
      <3>1. w \o EmptyOut \in Seq(Byte) /\ Len(w \o EmptyOut) = Len(w) + Len(EmptyOut)
        BY <2>2, EmptyOutType, JoinOf
      <3>. QED
        BY <2>1, <2>2, <3>1, EmptyOutType
    <2>4. Whole(Len(out')) /\ Whole(Len(out)) /\ Whole(Len(out) + Unit)
      BY <1>1, <2>3, WholeSum, WholeUnits DEF SenderSizes
    <2>5. Len(out) + 2 * Unit <= SendSize
      <3>1. Len(out) + Unit < SendSize
        BY <1>1, <1>6 DEF TooFull
      <3>2. (Len(out) + Unit) + Unit <= SendSize
        BY <1>1, <2>4, <3>1, WholeApart
      <3>. QED
        BY <1>1, <3>2
    <2>6. Carries(out', frag_header', <<>>, <<>>)
      BY <2>1, <2>2, CarriesBegins
    <2>7. SenderTypes'
      BY <1>1, <1>2, <1>3, <1>4, <2>1, <2>3, <2>5 DEF SenderTypes
    <2>8. OutputRight'
      BY <1>2, <1>3, <1>4, <2>1, <2>4, <2>5, <2>6, OutputSplit DEF SenderSizes
    <2>. QED
      BY <1>2, <2>7, <2>8, SenderKeeps
  <1>. QED
    BY <1>5, <1>6

\* The sender goes away.
LEMMA CloseKeeps ==
  ASSUME RecInv, Close
  PROVE  RecInv'
  <1>1. SenderTypes /\ SenderSizes
    BY SenderBefore
  <1>2. peer' = "closed" /\ UNCHANGED <<outvars, wire, invars, recs, got>>
    BY DEF Close
  <1>3. SenderTypes'
    BY <1>1, <1>2 DEF SenderTypes, outvars
  <1>4. OutputRight'
    BY <1>1, <1>2, OutputSplit DEF SenderSizes, OpenRec, outvars
  <1>. QED
    BY <1>2, <1>3, <1>4, SenderKeeps

-----------------------------------------------------------------------------
(* The steps of the reader keep the invariant.                             *)

\* A step that the sender does not notice.
LEMMA ReaderKeeps ==
  ASSUME RecInv, UNCHANGED <<outvars, peer, recs>>, wire' \in Seq(Byte), ReaderTypes', InputRight'
  PROVE  RecInv'
  <1>1. SenderTypes /\ SenderSizes /\ (peer = "open" => Carries(out, frag_header, pending, OpenRec))
    BY SenderBefore
  <1>2. SenderTypes'
    BY <1>1 DEF SenderTypes, outvars
  <1>3. OutputRight'
    BY <1>1, OutputSplit DEF SenderSizes, OpenRec, outvars
  <1>. QED
    BY <1>2, <1>3, TypesSplit DEF RecInv

\* The sequence that the reader is at.
LEMMA LastGotType ==
  ASSUME ReaderTypes, got # <<>>
  PROVE  Len(got) \in Nat \ {0} /\ got[Len(got)] \in Seq(Byte) /\ Len(got[Len(got)]) \in Nat
  <1>1. got \in Seq(Seq(Byte))
    BY DEF ReaderTypes
  <1>2. Len(got) \in Nat \ {0}
    BY <1>1, EmptySeq, LenProperties
  <1>3. got[Len(got)] \in Seq(Byte)
    BY <1>1, <1>2, ElementOfSeq
  <1>. QED
    BY <1>2, <1>3, LenProperties

\* What is known before a step of the reader.
LEMMA ReaderBefore ==
  ASSUME RecInv
  PROVE  /\ ReaderTypes /\ InputRight /\ wire \in Seq(Byte)
         /\ Unit \in Nat \ {0} /\ LAST_FRAG \in Nat \ {0} /\ in_size \in Nat
         /\ Len(inbuf) \in Nat /\ Len(got) \in Nat
         /\ header # NoHeader => /\ header \in Seq(Byte) /\ Len(header) \in 0 .. Unit - 1
                                 /\ Need \in 1 .. Unit /\ fbtbc = 0 /\ current = 0 /\ left = 0
         /\ header = NoHeader => Need = left
         /\ Need \in Nat
         /\ Need = 0 => header = NoHeader /\ left = 0 /\ current = 0
  <1>1. ReaderTypes /\ InputRight /\ wire \in Seq(Byte)
    BY SenderBefore DEF RecInv, SenderTypes
  <1>2. Unit \in Nat \ {0} /\ LAST_FRAG \in Nat \ {0} /\ in_size \in Nat
    BY Sizes, LastFragHighest
  <1>3. Len(inbuf) \in Nat /\ Len(got) \in Nat
    BY <1>1, LenProperties DEF ReaderTypes
  <1>4. ASSUME header # NoHeader
        PROVE  /\ header \in Seq(Byte) /\ Len(header) \in 0 .. Unit - 1
               /\ Need \in 1 .. Unit /\ fbtbc = 0 /\ current = 0 /\ left = 0
    <2>1. header \in Seq(Byte) /\ Len(header) < Unit /\ fbtbc = 0
      BY <1>1, <1>4 DEF ReaderTypes, InputRight
    <2>2. Len(header) \in Nat
      BY <2>1, LenProperties
    <2>3. current = 0 /\ left = 0
      BY <1>1, <2>1 DEF ReaderTypes, InputRight
    <2>. QED
      BY <1>2, <1>4, <2>1, <2>2, <2>3 DEF Need
  <1>5. left \in Nat /\ (left = 0 => current = 0)
    BY <1>1 DEF ReaderTypes, InputRight
  <1>. QED
    BY <1>1, <1>2, <1>3, <1>4, <1>5 DEF Need

\* The bytes taken from the input buffer.
LEMMA TakenBytes ==
  ASSUME RecInv
  PROVE  LET m == Len(Taken) IN
         /\ m = IF Need <= Len(inbuf) THEN Need ELSE Len(inbuf)
         /\ m \in 0 .. Len(inbuf) /\ m <= Need
         /\ Taken \in Seq(Byte) /\ \A i \in 1 .. m : Taken[i] = inbuf[i]
         /\ Consume(m) => /\ inbuf' \in Seq(Byte) /\ Len(inbuf') = Len(inbuf) - m
                          /\ \A i \in 1 .. Len(inbuf) - m : inbuf'[i] = inbuf[m + i]
         /\ inbuf # <<>> /\ Need > 0 => m > 0
  <1> DEFINE m == Min({Need, Len(inbuf)})
  <1>1. inbuf \in Seq(Byte) /\ Len(inbuf) \in Nat /\ Need \in Nat
    BY ReaderBefore DEF ReaderTypes
  <1>2. m = IF Need <= Len(inbuf) THEN Need ELSE Len(inbuf)
    BY <1>1, MinOfTwo
  <1>. HIDE DEF m
  <1>3. m \in 0 .. Len(inbuf) /\ m <= Need
    BY <1>1, <1>2
  <1>4. Taken \in Seq(Byte) /\ Len(Taken) = m /\ \A i \in 1 .. m : Taken[i] = inbuf[i]
    BY <1>1, <1>3, FrontOf DEF Taken, m
  <1>5. ASSUME Consume(m)
        PROVE  /\ inbuf' \in Seq(Byte) /\ Len(inbuf') = Len(inbuf) - m
               /\ \A i \in 1 .. Len(inbuf) - m : inbuf'[i] = inbuf[m + i]
    BY <1>1, <1>3, <1>5, BackOf DEF Consume
  <1>6. inbuf # <<>> => Len(inbuf) > 0
    BY <1>1, EmptySeq
  <1>. QED
    BY <1>1, <1>2, <1>3, <1>4, <1>5, <1>6

\* Bytes are delivered.
LEMMA DeliverRecord ==
  ASSUME ReaderTypes, got # <<>>, NEW d \in Seq(Byte), Deliver(d)
  PROVE  /\ got' \in Seq(Seq(Byte)) /\ got' # <<>> /\ Len(got') = Len(got)
         /\ got'[Len(got)] = got[Len(got)] \o d
         /\ Len(got'[Len(got)]) = Len(got[Len(got)]) + Len(d)
  <1> DEFINE n == Len(got)
             e == got[Len(got)] \o d
  <1>1. n \in Nat \ {0} /\ got[n] \in Seq(Byte)
    BY LastGotType
  <1>2. e \in Seq(Byte) /\ Len(e) = Len(got[n]) + Len(d)
    BY <1>1, JoinOf
  <1>3. got \in [1 .. n -> Seq(Byte)]
    BY LenProperties DEF ReaderTypes
  <1>4. got' = [got EXCEPT ![n] = e]
    BY DEF Deliver
  <1>. HIDE DEF n, e
  <1>5. got' \in [1 .. n -> Seq(Byte)] /\ got'[n] = e
    BY <1>1, <1>2, <1>3, <1>4
  <1>6. got' \in Seq(Seq(Byte))
    BY <1>1, <1>5, SeqDef
  <1>7. Len(got') = n
    BY <1>1, <1>5, <1>6, LenProperties
  <1>8. got' # <<>>
    BY <1>1, <1>6, <1>7, EmptySeq
  <1>. QED
    BY <1>2, <1>5, <1>6, <1>7, <1>8 DEF n, e

\* A new message.
LEMMA BeginRecord ==
  ASSUME ReaderTypes, got' = Append(got, <<>>)
  PROVE  /\ got' \in Seq(Seq(Byte)) /\ got' # <<>>
         /\ Len(got') = Len(got) + 1 /\ got'[Len(got')] = <<>>
  <1>1. got \in Seq(Seq(Byte)) /\ <<>> \in Seq(Byte) /\ Len(got) \in Nat
    BY EmptySeq, LenProperties DEF ReaderTypes
  <1>2. got' \in Seq(Seq(Byte)) /\ Len(got') = Len(got) + 1 /\ got'[Len(got) + 1] = <<>>
    BY <1>1, AppendProperties
  <1>3. got' # <<>>
    BY <1>1, <1>2, EmptySeq
  <1>. QED
    BY <1>2, <1>3

\* fill_input_buf()
LEMMA FillKeeps ==
  ASSUME RecInv, NEW k \in Nat, fill_input_buf(k)
  PROVE  /\ RecInv'
         /\ k <= Len(wire) /\ inbuf' = SubSeq(wire, 1, k) /\ wire' = SubSeq(wire, k + 1, Len(wire))
  <1>1. /\ ReaderTypes /\ InputRight /\ wire \in Seq(Byte)
        /\ Unit \in Nat \ {0} /\ in_size \in Nat
    BY ReaderBefore
  <1>2. /\ k <= Min({Len(wire), in_size - in_boundry})
        /\ inbuf' = SubSeq(wire, 1, k)
        /\ wire' = SubSeq(wire, k + 1, Len(wire))
        /\ in_boundry' = (in_boundry + k) % Unit
        /\ UNCHANGED <<outvars, peer, fbtbc, last_frag, rpc, len, current, left, header,
                       strm_stat, timeouts, recs, got>>
    BY DEF fill_input_buf, Phase
  <1>3. Len(wire) \in Nat /\ in_size - in_boundry \in Nat
    BY <1>1, LenProperties, Sizes DEF ReaderTypes
  <1>4. k <= Len(wire) /\ k <= in_size - in_boundry
    BY <1>2, <1>3, MinOfTwo
  <1>5. /\ inbuf' \in Seq(Byte) /\ Len(inbuf') = k
        /\ wire' \in Seq(Byte)
    BY <1>1, <1>2, <1>3, <1>4, FrontOf, BackOf
  <1>6. in_boundry' \in 0 .. Unit - 1
    <2>1. in_boundry + k \in Int
      BY <1>1 DEF ReaderTypes
    <2>. QED
      BY <1>2, <2>1, WholeRemainder
  <1>7. Len(inbuf') <= in_size
    BY <1>1, <1>4, <1>5 DEF ReaderTypes
  <1>8. ReaderTypes'
    BY <1>1, <1>2, <1>5, <1>6, <1>7 DEF ReaderTypes
  <1>9. InputRight'
    BY <1>1, <1>2 DEF InputRight, Reading
  <1>. QED
    BY <1>2, <1>4, <1>5, <1>8, <1>9, ReaderKeeps

\* The caller of a read that failed.
LEMMA FailureKeeps ==
  ASSUME RecInv, InputFailed, UNCHANGED <<outvars, wire, peer, in_boundry, fbtbc, recs>>,
         inbuf' \in Seq(Byte), Len(inbuf') <= in_size,
         last_frag' \in BOOLEAN, strm_stat' \in {"IDLE", "DIED"}, timeouts' \in 0 .. MaxTimeouts
  PROVE  RecInv'
  <1>1. ReaderTypes /\ InputRight /\ wire \in Seq(Byte)
    BY ReaderBefore
  <1>2. header' = NoHeader /\ left' = 0 /\ current' = 0 /\ len' = 0
    BY DEF InputFailed
  <1>3. /\ rpc' \in {"msg", "stat", "poll"} /\ got' \in Seq(Seq(Byte))
        /\ rpc' # "poll" => got' # <<>>
        /\ rpc' = "msg" => got'[Len(got')] = <<>>
    <2>1. CASE rpc = "skip" /\ BeginMessage
      BY <1>1, <2>1, BeginRecord DEF BeginMessage
    <2>2. CASE rpc = "get" /\ rpc' = "stat" /\ UNCHANGED got
      BY <1>1, <2>2 DEF ReaderTypes, InputRight
    <2>3. CASE rpc = "eof" /\ rpc' = "poll" /\ UNCHANGED got
      BY <1>1, <2>3 DEF ReaderTypes
    <2>. QED
      BY <2>1, <2>2, <2>3 DEF InputFailed
  <1>4. ReaderTypes'
    BY <1>1, <1>2, <1>3 DEF ReaderTypes
  <1>5. rpc' = "msg" => Whole(Len(got'[Len(got')]) + len' - (current' - left'))
    <2>1. Len(<<>>) + 0 - (0 - 0) = 0 /\ Whole(0)
      BY EmptySeq, WholeUnits
    <2>. QED
      BY <1>2, <1>3, <2>1
  <1>6. fbtbc \in Nat
    BY <1>1 DEF ReaderTypes
  <1>7. InputRight'
    BY <1>2, <1>3, <1>5, <1>6 DEF InputRight, Reading
  <1>. QED
    BY <1>1, <1>4, <1>7, ReaderKeeps

\* readtcp() fails.
LEMMA ReadFailsKeeps ==
  ASSUME RecInv, ReadFails
  PROVE  RecInv'
  <1>1. /\ InputFailed /\ strm_stat' = "DIED"
        /\ UNCHANGED <<outvars, wire, peer, inbuf, in_boundry, fbtbc, last_frag, recs>>
        /\ UNCHANGED timeouts \/ (timeouts < MaxTimeouts /\ timeouts' = timeouts + 1)
    BY DEF ReadFails
  <1>2. ReaderTypes
    BY ReaderBefore
  <1>3. timeouts' \in 0 .. MaxTimeouts
    BY <1>1, <1>2, RecAssumption DEF ReaderTypes
  <1>. QED
    BY <1>1, <1>2, <1>3, FailureKeeps DEF ReaderTypes

\* The bytes of a header so far.
LEMMA HeaderBytes ==
  ASSUME RecInv, header # NoHeader
  PROVE  LET b == header \o Taken IN
         /\ b \in Seq(Byte) /\ Len(b) = Len(header) + Len(Taken) /\ Len(b) <= Unit
         /\ \A i \in 1 .. Len(header) : b[i] = header[i]
         /\ \A i \in 1 .. Len(Taken) : b[Len(header) + i] = inbuf[i]
         /\ Len(b) >= Unit => Len(b) = Unit /\ Number(b) \in Nat
  <1> DEFINE b == header \o Taken
  <1>1. /\ header \in Seq(Byte) /\ Len(header) \in 0 .. Unit - 1 /\ Unit \in Nat \ {0}
        /\ Need = Unit - Len(header)
    BY ReaderBefore DEF Need
  <1>2. /\ Taken \in Seq(Byte) /\ Len(Taken) \in Nat /\ Len(Taken) <= Need
        /\ \A i \in 1 .. Len(Taken) : Taken[i] = inbuf[i]
    BY TakenBytes
  <1>3. /\ b \in Seq(Byte) /\ Len(b) = Len(header) + Len(Taken)
        /\ \A i \in 1 .. Len(header) : b[i] = header[i]
        /\ \A i \in 1 .. Len(Taken) : b[Len(header) + i] = Taken[i]
    BY <1>1, <1>2, JoinOf
  <1>. HIDE DEF b
  <1>4. Len(b) <= Unit
    BY <1>1, <1>2, <1>3
  <1>5. ASSUME Len(b) >= Unit
        PROVE  Len(b) = Unit /\ Number(b) \in Nat
    <2>1. Len(b) = Unit
      <3>1. Len(b) \in Nat /\ Unit \in Nat
        BY <1>1, <1>2, <1>3
      <3>. QED
        BY <1>4, <1>5, <3>1
    <2>2. \A i \in 1 .. Unit : b[i] \in Byte
      BY <1>3, <2>1, ElementOfSeq
    <2>3. \A i \in 1 .. Unit : b[i] \in Nat
      BY <2>2, RecAssumption DEF Byte
    <2>4. PICK v \in [0 .. Unit -> Nat] : Number(b) = v[Unit]
      BY <2>3, NumberLoop
    <2>. QED
      BY <1>1, <2>1, <2>4
  <1>. QED
    BY <1>2, <1>3, <1>4, <1>5 DEF b

\* set_input_fragment()
LEMMA SetInputFragmentKeeps ==
  ASSUME RecInv, set_input_fragment
  PROVE  RecInv'
  <1> DEFINE b == header \o Taken
             h == Number(b)
  <1>1. /\ header # NoHeader
        /\ Consume(Len(Taken))
        /\ IF Len(b) < Unit
           THEN /\ header' = b
                /\ UNCHANGED <<fbtbc, last_frag, rpc, len, current, left, got>>
           ELSE /\ last_frag' = (h >= LAST_FRAG)
                /\ IF h = 0
                   THEN InputFailed /\ UNCHANGED fbtbc
                   ELSE /\ fbtbc' = h % LAST_FRAG
                        /\ header' = NoHeader
                        /\ UNCHANGED <<rpc, len, current, left, got>>
        /\ UNCHANGED <<outvars, wire, peer, in_boundry, strm_stat, timeouts, recs>>
    BY DEF set_input_fragment
  <1>2. /\ ReaderTypes /\ InputRight /\ wire \in Seq(Byte)
        /\ Unit \in Nat \ {0} /\ LAST_FRAG \in Nat \ {0}
        /\ Len(inbuf) \in Nat /\ Len(inbuf) <= in_size /\ in_size \in Nat
        /\ fbtbc = 0 /\ current = 0 /\ left = 0
    BY <1>1, ReaderBefore DEF ReaderTypes
  <1>3. /\ b \in Seq(Byte) /\ Len(b) \in Nat
        /\ ~(Len(b) < Unit) => Len(b) = Unit /\ h \in Nat
    BY <1>1, <1>2, HeaderBytes, LenProperties
  <1>. HIDE DEF b, h
  <1>4. inbuf' \in Seq(Byte) /\ Len(inbuf') <= in_size
    BY <1>1, <1>2, TakenBytes
  <1>5. CASE Len(b) < Unit
    <2>1. header' = b /\ UNCHANGED <<fbtbc, last_frag, rpc, len, current, left, got>>
      BY <1>1, <1>5
    <2>2. ReaderTypes'
      BY <1>1, <1>2, <1>4, <1>5, <2>1 DEF ReaderTypes
    <2>3. InputRight'
      BY <1>1, <1>2, <1>3, <2>1 DEF InputRight, Reading
    <2>. QED
      BY <1>1, <1>2, <2>2, <2>3, ReaderKeeps
  <1>6. CASE ~(Len(b) < Unit) /\ h = 0
    <2>1. InputFailed /\ UNCHANGED fbtbc /\ last_frag' \in BOOLEAN
      BY <1>1, <1>6
    <2>. QED
      BY <1>1, <1>2, <1>4, <2>1, FailureKeeps DEF ReaderTypes
  <1>7. CASE ~(Len(b) < Unit) /\ h # 0
    <2>1. /\ last_frag' = (h >= LAST_FRAG) /\ fbtbc' = h % LAST_FRAG /\ header' = NoHeader
          /\ UNCHANGED <<rpc, len, current, left, got>>
      BY <1>1, <1>7
    <2>2. fbtbc' \in 0 .. LAST_FRAG - 1 /\ last_frag' \in BOOLEAN
      <3> DEFINE F == LAST_FRAG
      <3>1. F \in Nat \ {0} /\ h \in Nat
        BY <1>2, <1>3, <1>7
      <3>. HIDE DEF F
      <3>2. h % F \in 0 .. F - 1
        BY <3>1
      <3>. QED
        BY <2>1, <3>2 DEF F
    <2>3. ReaderTypes'
      BY <1>1, <1>2, <1>4, <2>1, <2>2 DEF ReaderTypes
    <2>4. InputRight'
      BY <1>1, <1>2, <2>1, <2>2 DEF InputRight, Reading
    <2>. QED
      BY <1>1, <1>2, <2>3, <2>4, ReaderKeeps
  <1>. QED
    BY <1>5, <1>6, <1>7

\* get_input_bytes(), for data
LEMMA GetInputBytesKeeps ==
  ASSUME RecInv, get_input_bytes
  PROVE  RecInv' /\ header = NoHeader /\ Need = left /\ got # <<>>
  <1> DEFINE m == Len(Taken)
             g == Len(got[Len(got)])
  <1>1. /\ rpc = "get" /\ left > 0
        /\ Consume(m) /\ Deliver(Taken)
        /\ left' = left - m
        /\ fbtbc' = IF left' = 0 THEN fbtbc - current ELSE fbtbc
        /\ len' = IF left' = 0 THEN len - current ELSE len
        /\ current' = IF left' = 0 THEN 0 ELSE current
        /\ UNCHANGED <<outvars, wire, peer, in_boundry, last_frag, rpc, header,
                       strm_stat, timeouts, recs>>
    BY DEF get_input_bytes
  <1>2. /\ ReaderTypes /\ InputRight /\ wire \in Seq(Byte)
        /\ Len(inbuf) \in Nat /\ Len(inbuf) <= in_size /\ in_size \in Nat
        /\ LAST_FRAG \in Nat
    BY ReaderBefore DEF ReaderTypes
  <1>3. header = NoHeader /\ Need = left /\ got # <<>>
    BY <1>1, <1>2, ReaderBefore DEF InputRight
  <1>4. /\ m \in Nat /\ m <= left /\ Taken \in Seq(Byte)
        /\ inbuf' \in Seq(Byte) /\ Len(inbuf') <= in_size
    BY <1>1, <1>2, <1>3, TakenBytes
  <1>5. /\ got' \in Seq(Seq(Byte)) /\ got' # <<>> /\ Len(got') = Len(got)
        /\ Len(got'[Len(got')]) = g + m /\ g \in Nat
    BY <1>1, <1>2, <1>3, <1>4, DeliverRecord, LastGotType
  <1>6. /\ len \in Nat /\ current \in Nat /\ left \in 1 .. current
        /\ current <= fbtbc /\ current <= len /\ fbtbc \in 0 .. LAST_FRAG - 1
        /\ Whole(g + len - (current - left))
    <2>1. len \in Nat /\ current \in Nat /\ left \in 0 .. current /\ fbtbc \in 0 .. LAST_FRAG - 1
      BY <1>2 DEF ReaderTypes
    <2>2. current <= fbtbc /\ current <= len /\ Whole(g + len - (current - left))
      BY <1>1, <1>2 DEF InputRight, Reading
    <2>3. left \in 1 .. current
      <3>1. left > 0
        BY <1>1
      <3>. QED
        BY <2>1, <3>1
    <2>. QED
      BY <2>1, <2>2, <2>3
  <1>. HIDE DEF m, g
  <1>7. /\ left' \in 0 .. current' /\ current' \in Nat /\ len' \in Nat
        /\ fbtbc' \in 0 .. LAST_FRAG - 1
        /\ current' <= fbtbc' /\ current' <= len' /\ (left' = 0 => current' = 0)
    BY <1>1, <1>2, <1>4, <1>6
  <1>8. g + m + len' - (current' - left') = g + len - (current - left)
    BY <1>1, <1>4, <1>5, <1>6
  <1>9. ReaderTypes'
    BY <1>1, <1>2, <1>4, <1>5, <1>7 DEF ReaderTypes
  <1>10. InputRight'
    BY <1>1, <1>3, <1>5, <1>6, <1>7, <1>8 DEF InputRight, Reading
  <1>. QED
    BY <1>1, <1>2, <1>3, <1>9, <1>10, ReaderKeeps

\* skip_input_bytes()
LEMMA SkipInputBytesKeeps ==
  ASSUME RecInv, skip_input_bytes
  PROVE  RecInv' /\ header = NoHeader /\ Need = left /\ current = fbtbc
  <1> DEFINE m == Len(Taken)
  <1>1. /\ rpc \in {"skip", "eof"} /\ left > 0
        /\ Consume(m)
        /\ left' = left - m
        /\ fbtbc' = IF left' = 0 THEN 0 ELSE fbtbc
        /\ current' = IF left' = 0 THEN 0 ELSE current
        /\ UNCHANGED <<outvars, wire, peer, in_boundry, last_frag, rpc, len, header,
                       strm_stat, timeouts, recs, got>>
    BY DEF skip_input_bytes
  <1>2. /\ ReaderTypes /\ InputRight /\ wire \in Seq(Byte)
        /\ Len(inbuf) \in Nat /\ Len(inbuf) <= in_size /\ in_size \in Nat
        /\ LAST_FRAG \in Nat \ {0}
    BY ReaderBefore DEF ReaderTypes
  <1>3. header = NoHeader /\ Need = left
    BY <1>1, <1>2, ReaderBefore
  <1>4. m \in Nat /\ m <= left /\ inbuf' \in Seq(Byte) /\ Len(inbuf') <= in_size
    BY <1>1, <1>2, <1>3, TakenBytes
  <1>5. /\ current \in Nat /\ left \in 1 .. current
        /\ current = fbtbc /\ fbtbc \in 0 .. LAST_FRAG - 1
    BY <1>1, <1>2 DEF ReaderTypes, InputRight
  <1>. HIDE DEF m
  <1>6. /\ left' \in 0 .. current' /\ current' \in Nat
        /\ fbtbc' \in 0 .. LAST_FRAG - 1
        /\ current' = fbtbc' /\ (left' = 0 => current' = 0)
    BY <1>1, <1>2, <1>4, <1>5
  <1>7. ReaderTypes'
    BY <1>1, <1>2, <1>4, <1>6 DEF ReaderTypes
  <1>8. InputRight'
    BY <1>1, <1>2, <1>3, <1>6 DEF InputRight, Reading
  <1>. QED
    BY <1>1, <1>2, <1>3, <1>5, <1>7, <1>8, ReaderKeeps

\* The next round of a loop of the reader
LEMMA NextRoundKeeps ==
  ASSUME RecInv, NextRound
  PROVE  RecInv' /\ header = NoHeader /\ left = 0 /\ current = 0
  <1>1. /\ rpc \in {"skip", "eof", "get"} /\ Need = 0 /\ (rpc = "get" => len > 0)
        /\ \/ /\ fbtbc > 0
              /\ current' = IF rpc = "get" THEN Min({len, fbtbc}) ELSE fbtbc
              /\ left' = current'
              /\ UNCHANGED header
           \/ /\ fbtbc = 0
              /\ ~last_frag
              /\ header' = <<>>
              /\ UNCHANGED <<current, left>>
        /\ UNCHANGED <<outvars, wire, peer, inbuf, in_boundry, fbtbc, last_frag, rpc, len,
                       strm_stat, timeouts, recs, got>>
    BY DEF NextRound
  <1>2. /\ ReaderTypes /\ InputRight /\ wire \in Seq(Byte)
        /\ header = NoHeader /\ left = 0 /\ current = 0
    BY <1>1, ReaderBefore
  <1>3. len \in Nat /\ fbtbc \in Nat
    BY <1>2, LastFragHighest DEF ReaderTypes
  <1>4. CASE fbtbc > 0 /\ left' = current' /\ UNCHANGED header
    <2>1. current' = IF rpc = "get" THEN IF len <= fbtbc THEN len ELSE fbtbc ELSE fbtbc
      BY <1>1, <1>3, <1>4, MinOfTwo
    <2>2. /\ current' \in Nat /\ left' \in 0 .. current' /\ current' <= fbtbc /\ (left' = 0 => current' = 0)
          /\ IF rpc = "get" THEN current' <= len ELSE current' = fbtbc
          /\ current' - left' = 0 /\ current - left = 0
      BY <1>2, <1>3, <1>4, <2>1
    <2>3. ReaderTypes'
      BY <1>1, <1>2, <1>4, <2>2 DEF ReaderTypes
    <2>4. InputRight'
      BY <1>1, <1>2, <1>4, <2>2 DEF InputRight, Reading
    <2>. QED
      BY <1>1, <1>2, <2>3, <2>4, ReaderKeeps
  <1>5. CASE fbtbc = 0 /\ ~last_frag /\ header' = <<>> /\ UNCHANGED <<current, left>>
    <2>1. <<>> \in Seq(Byte) /\ Len(<<>>) < Unit
      BY EmptySeq, Sizes
    <2>2. ReaderTypes'
      BY <1>1, <1>2, <1>5, <2>1 DEF ReaderTypes
    <2>3. InputRight'
      BY <1>1, <1>2, <1>5, <2>1 DEF InputRight, Reading
    <2>. QED
      BY <1>1, <1>2, <2>2, <2>3, ReaderKeeps
  <1>. QED
    BY <1>1, <1>4, <1>5

\* xdrrec_inline() for decoding
LEMMA InlineDecodeKeeps ==
  ASSUME RecInv, NEW units \in Nat, xdrrec_inline_decode(units)
  PROVE  LET n == units * Unit IN
         /\ RecInv' /\ header = NoHeader /\ left = 0 /\ current = 0 /\ got # <<>>
         /\ n \in 0 .. Len(inbuf) /\ n <= fbtbc
         /\ SubSeq(inbuf, 1, n) \in Seq(Byte) /\ Len(SubSeq(inbuf, 1, n)) = n
         /\ \A i \in 1 .. n : SubSeq(inbuf, 1, n)[i] = inbuf[i]
         /\ Len(inbuf') = Len(inbuf) - n /\ \A i \in 1 .. Len(inbuf) - n : inbuf'[i] = inbuf[n + i]
  <1> DEFINE n == units * Unit
             d == SubSeq(inbuf, 1, n)
             g == Len(got[Len(got)])
  <1>1. /\ rpc = "msg" /\ fbtbc >= n /\ Len(inbuf) >= n
        /\ Deliver(d) /\ Consume(n) /\ fbtbc' = fbtbc - n
        /\ UNCHANGED <<outvars, wire, peer, in_boundry, last_frag, rpc, len, current, left, header,
                       strm_stat, timeouts, recs>>
    BY DEF xdrrec_inline_decode, AtHand
  <1>2. /\ ReaderTypes /\ InputRight /\ wire \in Seq(Byte)
        /\ Unit \in Nat \ {0} /\ LAST_FRAG \in Nat \ {0}
        /\ inbuf \in Seq(Byte) /\ Len(inbuf) \in Nat /\ Len(inbuf) <= in_size /\ in_size \in Nat
    BY ReaderBefore DEF ReaderTypes
  <1>3. n \in Nat /\ Whole(n)
    BY <1>2, WholeUnits
  <1>4. /\ header = NoHeader /\ current = 0 /\ left = 0 /\ len = 0 /\ got # <<>>
        /\ Whole(g + len - (current - left))
    BY <1>1, <1>2 DEF ReaderTypes, InputRight, Reading
  <1>. HIDE DEF n, g
  <1>5. n \in 0 .. Len(inbuf)
    BY <1>1, <1>2, <1>3
  <1>6. d \in Seq(Byte) /\ Len(d) = n /\ \A i \in 1 .. n : d[i] = inbuf[i]
    BY <1>2, <1>5, FrontOf
  <1>. HIDE DEF d
  <1>7. /\ inbuf' \in Seq(Byte) /\ Len(inbuf') = Len(inbuf) - n
        /\ \A i \in 1 .. Len(inbuf) - n : inbuf'[i] = inbuf[n + i]
    BY <1>1, <1>2, <1>5, BackOf DEF Consume
  <1>8. /\ got' \in Seq(Seq(Byte)) /\ got' # <<>> /\ Len(got'[Len(got')]) = g + n /\ g \in Nat
    BY <1>1, <1>2, <1>4, <1>6, DeliverRecord, LastGotType DEF g
  <1>9. fbtbc \in 0 .. LAST_FRAG - 1 /\ fbtbc' \in 0 .. LAST_FRAG - 1 /\ n <= fbtbc
    <2>1. fbtbc \in 0 .. LAST_FRAG - 1
      BY <1>2 DEF ReaderTypes
    <2>2. fbtbc >= n /\ fbtbc' = fbtbc - n
      BY <1>1
    <2>. QED
      BY <1>2, <1>3, <2>1, <2>2
  <1>10. Whole(g + n)
    <2>1. g + len - (current - left) = g
      BY <1>4, <1>8
    <2>. QED
      BY <1>3, <1>4, <1>8, <2>1, WholeSum
  <1>11. ReaderTypes'
    BY <1>1, <1>2, <1>5, <1>7, <1>8, <1>9 DEF ReaderTypes
  <1>12. InputRight'
    <2>1. g + n + len' - (current' - left') = g + n
      BY <1>1, <1>3, <1>4, <1>8
    <2>. QED
      BY <1>1, <1>4, <1>8, <1>9, <1>10, <2>1 DEF InputRight, Reading
  <1>13. RecInv'
    BY <1>1, <1>2, <1>11, <1>12, ReaderKeeps
  <1>. QED
    BY <1>4, <1>5, <1>6, <1>7, <1>9, <1>13 DEF n, d

\* xdrrec_getbytes() before its loop
LEMMA GetbytesKeeps ==
  ASSUME RecInv, NEW units \in Nat, xdrrec_getbytes(units)
  PROVE  RecInv'
  <1> DEFINE n == units * Unit
             g == Len(got[Len(got)])
  <1>1. /\ rpc = "msg" /\ rpc' = "get" /\ len' = n
        /\ UNCHANGED <<outvars, wire, peer, inbuf, in_boundry, fbtbc, last_frag, current, left,
                       header, strm_stat, timeouts, recs, got>>
    BY DEF xdrrec_getbytes
  <1>2. ReaderTypes /\ InputRight /\ wire \in Seq(Byte) /\ Unit \in Nat \ {0}
    BY ReaderBefore
  <1>3. n \in Nat /\ Whole(n)
    BY <1>2, WholeUnits
  <1>4. /\ header = NoHeader /\ current = 0 /\ left = 0 /\ len = 0 /\ got # <<>>
        /\ Whole(g + len - (current - left))
    BY <1>1, <1>2 DEF ReaderTypes, InputRight, Reading
  <1>5. g \in Nat
    BY <1>2, <1>4, LastGotType
  <1>. HIDE DEF n, g
  <1>6. Whole(g + n)
    <2>1. g + len - (current - left) = g
      BY <1>4, <1>5
    <2>. QED
      BY <1>3, <1>4, <1>5, <2>1, WholeSum
  <1>7. ReaderTypes'
    BY <1>1, <1>2, <1>3 DEF ReaderTypes
  <1>8. InputRight'
    <2>1. g + len' - (current' - left') = g + n /\ g' = g
      BY <1>1, <1>3, <1>4, <1>5 DEF g
    <2>2. Reading' => Whole(Len(got[Len(got)])' + len' - (current' - left'))
      BY <1>6, <2>1 DEF g
    <2>. QED
      BY <1>1, <1>2, <1>3, <1>4, <2>2 DEF InputRight
  <1>. QED
    BY <1>1, <1>2, <1>7, <1>8, ReaderKeeps

\* xdrrec_getbytes() returns.
LEMMA GetbytesReturnKeeps ==
  ASSUME RecInv, GetbytesReturn
  PROVE  RecInv'
  <1>1. /\ rpc = "get" /\ Need = 0 /\ len' = 0
        /\ \/ len = 0 /\ rpc' = "msg" /\ UNCHANGED strm_stat
           \/ rpc' = "stat" /\ strm_stat' \in {strm_stat, "DIED"}
        /\ UNCHANGED <<outvars, wire, peer, inbuf, in_boundry, fbtbc, last_frag, current, left,
                       header, timeouts, recs, got>>
    BY DEF GetbytesReturn
  <1>2. /\ ReaderTypes /\ InputRight /\ wire \in Seq(Byte)
        /\ header = NoHeader /\ left = 0 /\ current = 0
    BY <1>1, ReaderBefore
  <1>3. ReaderTypes'
    BY <1>1, <1>2 DEF ReaderTypes
  <1>4. rpc' = "msg" => Whole(Len(got'[Len(got')]) + len' - (current' - left'))
    BY <1>1, <1>2 DEF InputRight, Reading
  <1>5. fbtbc \in Nat
    BY <1>2 DEF ReaderTypes
  <1>6. InputRight'
    BY <1>1, <1>2, <1>4, <1>5 DEF InputRight, Reading
  <1>. QED
    BY <1>1, <1>2, <1>3, <1>6, ReaderKeeps

\* xdrrec_skiprecord() returns.
LEMMA SkiprecordKeeps ==
  ASSUME RecInv, xdrrec_skiprecord
  PROVE  RecInv'
  <1>1. /\ rpc = "skip" /\ Need = 0 /\ last_frag' = FALSE
        /\ rpc' = "msg" /\ got' = Append(got, <<>>)
        /\ UNCHANGED <<outvars, wire, peer, inbuf, in_boundry, fbtbc, len, current, left, header,
                       strm_stat, timeouts, recs>>
    BY DEF xdrrec_skiprecord, AtEndOfRecord, BeginMessage
  <1>2. /\ ReaderTypes /\ InputRight /\ wire \in Seq(Byte)
        /\ header = NoHeader /\ left = 0 /\ current = 0
    BY <1>1, ReaderBefore
  <1>3. got' \in Seq(Seq(Byte)) /\ got' # <<>> /\ got'[Len(got')] = <<>>
    BY <1>1, <1>2, BeginRecord
  <1>4. len = 0 /\ fbtbc \in Nat
    BY <1>1, <1>2 DEF InputRight, ReaderTypes
  <1>5. ReaderTypes'
    BY <1>1, <1>2, <1>3 DEF ReaderTypes
  <1>6. Whole(Len(got'[Len(got')]) + len' - (current' - left'))
    <2>1. Len(<<>>) + 0 - (0 - 0) = 0 /\ Whole(0)
      BY EmptySeq, WholeUnits
    <2>. QED
      BY <1>1, <1>2, <1>3, <1>4, <2>1
  <1>7. InputRight'
    BY <1>1, <1>2, <1>3, <1>4, <1>6 DEF InputRight
  <1>. QED
    BY <1>1, <1>2, <1>5, <1>7, ReaderKeeps

\* The other steps of the reader, which only move on.
LEMMA MovesOn ==
  ASSUME RecInv, xdrrec_eof \/ SvcPoll \/ MessageDone \/ svctcp_stat
  PROVE  RecInv'
  <1>1. /\ UNCHANGED <<outvars, wire, peer, inbuf, in_boundry, fbtbc, last_frag, len, current,
                       left, header, strm_stat, timeouts, recs, got>>
        /\ \/ rpc = "eof" /\ Need = 0 /\ rpc' \in {"skip", "poll"}
           \/ rpc = "poll" /\ rpc' = "skip"
           \/ rpc = "msg" /\ rpc' = "stat"
           \/ rpc = "stat" /\ rpc' \in {"destroyed", "eof"}
    BY DEF xdrrec_eof, SvcPoll, MessageDone, svctcp_stat, AtEndOfRecord
  <1>2. /\ ReaderTypes /\ InputRight /\ wire \in Seq(Byte)
        /\ Need = 0 => header = NoHeader /\ current = 0
    BY ReaderBefore
  <1>3. ReaderTypes'
    BY <1>1, <1>2 DEF ReaderTypes
  <1>4. InputRight'
    BY <1>1, <1>2 DEF InputRight, Reading
  <1>. QED
    BY <1>1, <1>2, <1>3, <1>4, ReaderKeeps

-----------------------------------------------------------------------------
(* What holds of every stream, however often the peer falls silent.        *)

\* RecInv holds of streams that have just been created.
LEMMA InitRecInv ==
  ASSUME Init
  PROVE  RecInv
  <1>1. EmptyOut \in Seq(Byte) /\ Len(EmptyOut) = Unit /\ <<>> \in Seq(Byte) /\ Len(<<>>) = 0
    BY EmptyOutType, EmptySeq
  <1>2. /\ Unit \in Nat \ {0} /\ SendSize \in Nat /\ SendSize > 2 * Unit
        /\ in_size \in Nat /\ LAST_FRAG \in Nat \ {0}
    BY Sizes, LastFragHighest
  <1>3. << <<>> >> \in Seq(Seq(Byte)) /\ Len(<< <<>> >>) = 1 /\ << <<>> >>[1] = <<>> /\ << <<>> >> # <<>>
    BY <1>1
  <1>4. recs = << <<>> >> /\ OpenRec = <<>>
    BY <1>3 DEF Init, OpenRec
  <1>5. SenderTypes
    <2>1. /\ out = EmptyOut /\ pending = <<>> /\ wire = <<>> /\ frag_header = 0
          /\ frag_sent = FALSE /\ peer = "open"
      BY DEF Init
    <2>2. Len(out) \in Unit .. SendSize /\ frag_header \in 0 .. Len(out) - Unit
      BY <1>1, <1>2, <2>1
    <2>. QED
      BY <1>1, <1>3, <1>4, <2>1, <2>2 DEF SenderTypes
  <1>6. ReaderTypes
    <2>1. in_boundry \in 0 .. Unit - 1
      <3>1. in_size % Unit \in 0 .. Unit - 1
        BY <1>2, WholeRemainder
      <3>. QED
        BY <3>1 DEF Init
    <2>2. <<>> \in Seq(Seq(Byte))
      BY EmptySeq
    <2>3. MaxTimeouts \in Nat
      BY RecAssumption
    <2>. QED
      BY <1>1, <1>2, <2>1, <2>2, <2>3 DEF Init, ReaderTypes
  <1>7. OutputRight
    <2>1. SenderSizes
      BY <1>1, <1>2, <1>4, WholeUnits DEF Init, SenderSizes
    <2>2. Carries(out, 0, <<>>, <<>>)
      <3>1. Carries(<<>> \o EmptyOut, Len(<<>>), <<>>, <<>>)
        BY <1>1, CarriesBegins
      <3>2. <<>> \o EmptyOut = EmptyOut
        BY <1>1, ConcatEmptySeq
      <3>. QED
        BY <1>1, <3>1, <3>2 DEF Init
    <2>. QED
      BY <1>4, <2>1, <2>2, OutputSplit DEF Init
  <1>8. InputRight
    BY DEF Init, InputRight, Reading
  <1>. QED
    BY <1>5, <1>6, <1>7, <1>8, TypesSplit DEF RecInv

\* Every step keeps it.
LEMMA NextRecInv ==
  ASSUME RecInv, [Next]_vars
  PROVE  RecInv'
  <1>1. ASSUME UNCHANGED vars
        PROVE  RecInv'
    <2>1. UNCHANGED <<recs, out, frag_header, frag_sent, pending, wire, peer, inbuf, in_boundry, fbtbc,
                      last_frag, strm_stat, rpc, len, current, left, header, got, timeouts>>
      BY <1>1 DEF vars, outvars, invars
    <2>2. SenderTypes' <=> SenderTypes
      BY <2>1, Zenon DEF SenderTypes
    <2>3. ReaderTypes' <=> ReaderTypes
      BY <2>1, Zenon DEF ReaderTypes
    <2>4. OutputRight' <=> OutputRight
      BY <2>1, Zenon DEF OutputRight, OpenAt
    <2>5. InputRight' <=> InputRight
      BY <2>1, Zenon DEF InputRight, Reading
    <2>. QED
      BY <2>2, <2>3, <2>4, <2>5, TypesSplit, Zenon DEF RecInv
  <1>2. ASSUME Sender
        PROVE  RecInv'
    <2>1. CASE xdrrec_putlong \/ xdrrec_putint32
      BY <2>1, PutlongKeeps DEF xdrrec_putint32
    <2>2. ASSUME NEW n \in 1 .. MaxUnits, xdrrec_inline_encode(n) \/ xdrrec_putbytes(n)
          PROVE  RecInv'
      <3>1. n \in Nat
        BY RecAssumption
      <3>. QED
        BY <2>2, <3>1, InlineEncodeKeeps, PutbytesKeeps
    <2>3. CASE PutbytesRound
      BY <2>3, PutbytesRoundKeeps
    <2>4. ASSUME NEW sendnow \in BOOLEAN, xdrrec_endofrecord(sendnow)
          PROVE  RecInv'
      BY <2>4, EndofrecordKeeps
    <2>5. CASE Close
      BY <2>5, CloseKeeps
    <2>. QED
      BY <1>2, <2>1, <2>2, <2>3, <2>4, <2>5 DEF Sender
  <1>3. ASSUME Receiver
        PROVE  RecInv'
    <2>1. ASSUME NEW k \in 1 .. in_size, fill_input_buf(k)
          PROVE  RecInv'
      <3>1. k \in Nat
        BY Sizes
      <3>. QED
        BY <2>1, <3>1, FillKeeps
    <2>2. CASE ReadFails
      BY <2>2, ReadFailsKeeps
    <2>3. CASE set_input_fragment
      BY <2>3, SetInputFragmentKeeps
    <2>4. CASE get_input_bytes \/ skip_input_bytes
      BY <2>4, GetInputBytesKeeps, SkipInputBytesKeeps
    <2>5. CASE NextRound
      BY <2>5, NextRoundKeeps
    <2>6. CASE xdrrec_skiprecord
      BY <2>6, SkiprecordKeeps
    <2>7. CASE xdrrec_eof \/ SvcPoll \/ MessageDone \/ svctcp_stat
      BY <2>7, MovesOn
    <2>8. ASSUME NEW n \in Nat, xdrrec_getbytes(n) \/ xdrrec_inline_decode(n)
          PROVE  RecInv'
      BY <2>8, GetbytesKeeps, InlineDecodeKeeps
    <2>9. ASSUME NEW n \in 1 .. MaxUnits, xdrrec_getbytes(n) \/ xdrrec_inline_decode(n)
          PROVE  RecInv'
      <3>1. n \in Nat
        BY RecAssumption
      <3>. QED
        BY <2>8, <2>9, <3>1
    <2>10. CASE xdrrec_getlong \/ xdrrec_getint32
      BY <2>8, <2>10 DEF xdrrec_getlong, xdrrec_getint32
    <2>11. CASE GetbytesReturn
      BY <2>11, GetbytesReturnKeeps
    <2>. QED
      BY <1>3, <2>1, <2>2, <2>3, <2>4, <2>5, <2>6, <2>7, <2>9, <2>10, <2>11 DEF Receiver
  <1>. QED
    BY <1>1, <1>2, <1>3 DEF Next

\* RecInv holds of every reachable state.
LEMMA RecInvHolds ==
  Spec => []RecInv
  <1>1. Init => RecInv
    BY InitRecInv
  <1>2. RecInv /\ [Next]_vars => RecInv'
    BY NextRecInv
  <1>. QED
    BY <1>1, <1>2, PTL DEF Spec

\* Positions, lengths and counters of the record stream stay in range, and
\* xdrrec_putlong(), xdrrec_putbytes() and xdrrec_endofrecord() never write
\* behind the end of the output buffer, for every size of the buffers.
THEOREM RecTypesCorrect ==
  Spec => []RecTypeOK
  <1>1. RecInv => RecTypeOK
    BY DEF RecInv, RecTypes
  <1>. QED
    BY <1>1, RecInvHolds, PTL

\* xdrrec_putlong() never sends an empty fragment, which set_input_fragment()
\* would take for an error.
THEOREM NoFragmentIsEmpty ==
  Spec => []NoEmptyFragment
  <1>1. ASSUME RecInv
        PROVE  NoEmptyFragment
    <2>1. /\ SenderSizes /\ Unit \in Nat \ {0} /\ SendSize \in Nat /\ Whole(SendSize)
          /\ Len(out) \in Nat /\ frag_header \in Nat
      BY <1>1, SenderBefore
    <2>2. ASSUME Len(out) < SendSize
          PROVE  Len(out) + Unit <= SendSize
      BY <2>1, <2>2, WholeApart DEF SenderSizes
    <2>3. ASSUME Len(out) + Unit > SendSize
          PROVE  Len(out) > frag_header + Unit
      BY <2>1, <2>2, <2>3 DEF SenderSizes
    <2>. QED
      BY <2>3 DEF NoEmptyFragment
  <1>. QED
    BY <1>1, RecInvHolds, PTL

-----------------------------------------------------------------------------
(* The bytes under way and their labels.                                   *)

\* Three sequences one after the other.
LEMMA JoinThree ==
  ASSUME NEW S, NEW x \in Seq(S), NEW y \in Seq(S), NEW z \in Seq(S)
  PROVE  LET s == x \o y \o z IN
         /\ s \in Seq(S)
         /\ Len(s) = Len(x) + Len(y) + Len(z)
         /\ \A p \in 1 .. Len(x) : s[p] = x[p]
         /\ \A p \in 1 .. Len(y) : s[Len(x) + p] = y[p]
         /\ \A p \in 1 .. Len(z) : s[Len(x) + Len(y) + p] = z[p]
  <1> DEFINE t == x \o y
             s == x \o y \o z
  <1>1. Len(x) \in Nat /\ Len(y) \in Nat /\ Len(z) \in Nat
    BY LenProperties
  <1>2. /\ t \in Seq(S) /\ Len(t) = Len(x) + Len(y)
        /\ \A p \in 1 .. Len(x) : t[p] = x[p]
        /\ \A p \in 1 .. Len(y) : t[Len(x) + p] = y[p]
    BY JoinOf
  <1>3. s = t \o z
    OBVIOUS
  <1>. HIDE DEF t, s
  <1>4. t \in Seq(S)
    BY <1>2
  <1>5. /\ s \in Seq(S) /\ Len(s) = Len(t) + Len(z)
        /\ \A p \in 1 .. Len(t) : s[p] = t[p]
        /\ \A p \in 1 .. Len(z) : s[Len(t) + p] = z[p]
    BY <1>3, <1>4, JoinOf
  <1>6. \A p \in 1 .. Len(x) : p \in 1 .. Len(t)
    BY <1>1, <1>2
  <1>7. \A p \in 1 .. Len(y) : Len(x) + p \in 1 .. Len(t)
    BY <1>1, <1>2
  <1>. QED
    BY <1>1, <1>2, <1>5, <1>6, <1>7 DEF s

\* The bytes of complete fragments that are still in the output buffer.
Kept == IF peer = "open" THEN SubSeq(out, 1, frag_header) ELSE <<>>

\* Where the bytes under way are.
AheadIs ==
  LET a == Len(inbuf)
      w == Len(wire)
      f == IF peer = "open" THEN frag_header ELSE 0
  IN  /\ a \in Nat /\ w \in Nat /\ f \in Nat
      /\ Ahead \in Seq(Byte) /\ Len(Ahead) = a + w + f /\ Len(Ahead) \in Nat
      /\ \A p \in 1 .. a : Ahead[p] = inbuf[p]
      /\ \A p \in 1 .. w : Ahead[a + p] = wire[p]
      /\ \A p \in 1 .. f : Ahead[a + w + p] = out[p]

\* They are one after the other.
LEMMA AheadParts ==
  RecInv => AheadIs
  <1>. SUFFICES ASSUME RecInv
                PROVE  AheadIs
    OBVIOUS
  <1> DEFINE f == IF peer = "open" THEN frag_header ELSE 0
  <1>1. /\ inbuf \in Seq(Byte) /\ wire \in Seq(Byte) /\ out \in Seq(Byte)
        /\ frag_header \in 0 .. Len(out)
    <2>1. SenderTypes /\ ReaderTypes
      BY SenderBefore
    <2>2. Len(out) \in Nat /\ frag_header \in Nat /\ frag_header + Unit <= Len(out) /\ Unit \in Nat
      BY SenderBefore
    <2>3. frag_header \in 0 .. Len(out)
      BY <2>2
    <2>. QED
      BY <2>1, <2>3 DEF SenderTypes, ReaderTypes
  <1>2. Kept \in Seq(Byte) /\ Len(Kept) = f /\ f \in Nat /\ \A p \in 1 .. f : Kept[p] = out[p]
    <2>1. CASE peer = "open"
      BY <1>1, <2>1, FrontOf DEF Kept
    <2>2. CASE peer # "open"
      BY <2>2, EmptySeq DEF Kept
    <2>. QED
      BY <2>1, <2>2
  <1>3. Ahead = inbuf \o wire \o Kept
    BY DEF Ahead, Kept
  <1>. HIDE DEF f
  <1>4. Len(inbuf) \in Nat /\ Len(wire) \in Nat
    BY <1>1, LenProperties
  <1>5. /\ Ahead \in Seq(Byte)
        /\ Len(Ahead) = Len(inbuf) + Len(wire) + Len(Kept)
        /\ \A p \in 1 .. Len(inbuf) : Ahead[p] = inbuf[p]
        /\ \A p \in 1 .. Len(wire) : Ahead[Len(inbuf) + p] = wire[p]
        /\ \A p \in 1 .. Len(Kept) : Ahead[Len(inbuf) + Len(wire) + p] = Kept[p]
    <2>1. inbuf \in Seq(Byte) /\ wire \in Seq(Byte) /\ Kept \in Seq(Byte)
      BY <1>1, <1>2
    <2>. QED
      BY <1>3, <2>1, JoinThree
  <1>6. /\ Len(Ahead) = Len(inbuf) + Len(wire) + f /\ Len(Ahead) \in Nat
        /\ \A p \in 1 .. f : Ahead[Len(inbuf) + Len(wire) + p] = out[p]
    BY <1>2, <1>4, <1>5
  <1>. QED
    BY <1>2, <1>4, <1>5, <1>6 DEF f, AheadIs

\* The same after a step.
LEMMA AheadPartsAfter ==
  RecInv' => AheadIs'
  BY AheadParts, PTL

\* What was written stays.
Grows ==
  /\ Len(recs) \in Nat /\ Len(recs') \in Nat /\ Len(recs) <= Len(recs')
  /\ DOMAIN recs = 1 .. Len(recs) /\ DOMAIN recs' = 1 .. Len(recs')
  /\ \A i \in 1 .. Len(recs) :
       /\ DOMAIN recs[i] \subseteq DOMAIN recs'[i]
       /\ \A j \in DOMAIN recs[i] : recs'[i][j] = recs[i][j]

\* The byte b is what the label l says, if the records are R.
HoldsIn(l, b, R) ==
  IF l.h > 0 THEN b = HeaderByte(l, l.h)
  ELSE l.rec \in DOMAIN R /\ l.at \in DOMAIN R[l.rec] /\ b = R[l.rec][l.at]

\* The data that a label stands for does not change.
LEMMA HoldsGrows ==
  ASSUME Grows, NEW l, NEW b, HoldsIn(l, b, recs)
  PROVE  HoldsIn(l, b, recs')
  <1>1. CASE l.h > 0
    BY <1>1 DEF HoldsIn
  <1>2. CASE ~(l.h > 0)
    <2>1. l.rec \in DOMAIN recs /\ l.at \in DOMAIN recs[l.rec] /\ b = recs[l.rec][l.at]
      BY <1>2 DEF HoldsIn
    <2>2. l.rec \in DOMAIN recs'
      BY <2>1 DEF Grows
    <2>3. l.at \in DOMAIN recs'[l.rec] /\ b = recs'[l.rec][l.at]
      BY <2>1 DEF Grows
    <2>. QED
      BY <1>2, <2>2, <2>3 DEF HoldsIn
  <1>. QED
    BY <1>1, <1>2

\* The records grow by what is written.
LEMMA GrowsByData ==
  ASSUME SenderTypes, NEW d \in Seq(Byte), Extend(d)
  PROVE  Grows
  <1>1. Len(recs) \in Nat \ {0} /\ OpenRec \in Seq(Byte) /\ Len(OpenRec) \in Nat /\ Len(d) \in Nat
    BY OpenRecType, LenProperties
  <1>2. /\ recs' \in Seq(Seq(Byte)) /\ Len(recs') = Len(recs)
        /\ OpenRec' = OpenRec \o d /\ OpenRec' \in Seq(Byte)
        /\ \A i \in 1 .. Len(recs) - 1 : recs'[i] = recs[i]
    BY ExtendRecord
  <1>3. DOMAIN recs = 1 .. Len(recs) /\ DOMAIN recs' = 1 .. Len(recs')
    BY <1>2, LenProperties DEF SenderTypes
  <1>4. recs'[Len(recs)] = OpenRec \o d /\ recs[Len(recs)] = OpenRec
    BY <1>2 DEF OpenRec
  <1>5. /\ DOMAIN OpenRec \subseteq DOMAIN (OpenRec \o d)
        /\ \A j \in DOMAIN OpenRec : (OpenRec \o d)[j] = OpenRec[j]
    <2>1. /\ OpenRec \o d \in Seq(Byte) /\ Len(OpenRec \o d) = Len(OpenRec) + Len(d)
          /\ \A j \in 1 .. Len(OpenRec) : (OpenRec \o d)[j] = OpenRec[j]
      BY <1>1, JoinOf
    <2>2. DOMAIN OpenRec = 1 .. Len(OpenRec) /\ DOMAIN (OpenRec \o d) = 1 .. Len(OpenRec \o d)
      BY <1>1, <2>1, LenProperties
    <2>. QED
      BY <1>1, <2>1, <2>2
  <1>6. ASSUME NEW i \in 1 .. Len(recs)
        PROVE  /\ DOMAIN recs[i] \subseteq DOMAIN recs'[i]
               /\ \A j \in DOMAIN recs[i] : recs'[i][j] = recs[i][j]
    <2>1. CASE i = Len(recs)
      BY <1>4, <1>5, <2>1
    <2>2. CASE i # Len(recs)
      <3>1. i \in 1 .. Len(recs) - 1
        BY <1>1, <2>2
      <3>. QED
        BY <1>2, <3>1
    <2>. QED
      BY <2>1, <2>2
  <1>. QED
    BY <1>1, <1>2, <1>3, <1>6 DEF Grows

\* And when a record is ended.
LEMMA GrowsByRecord ==
  ASSUME SenderTypes, recs' = Append(recs, <<>>)
  PROVE  Grows
  <1>1. Len(recs) \in Nat \ {0}
    BY OpenRecType
  <1>2. /\ recs' \in Seq(Seq(Byte)) /\ Len(recs') = Len(recs) + 1
        /\ \A i \in 1 .. Len(recs) : recs'[i] = recs[i]
    BY AppendRecord
  <1>3. DOMAIN recs = 1 .. Len(recs) /\ DOMAIN recs' = 1 .. Len(recs')
    BY <1>2, LenProperties DEF SenderTypes
  <1>. QED
    BY <1>1, <1>2, <1>3 DEF Grows

\* Or not.
LEMMA GrowsNot ==
  ASSUME SenderTypes, UNCHANGED recs
  PROVE  Grows
  <1>1. Len(recs) \in Nat /\ DOMAIN recs = 1 .. Len(recs)
    BY LenProperties DEF SenderTypes
  <1>. QED
    BY <1>1 DEF Grows

\* The byte at p is at a multiple of the unit, or as far behind one as its
\* label says.
Aligned(l, c, p) == Whole(c + p - (IF l.h > 0 THEN l.h ELSE l.at))

Origin == in_boundry - Len(inbuf)

\* The labels before a step.
LEMMA LabelsBefore ==
  ASSUME NEW L, Labels(L)
  PROVE  /\ \A p \in 1 .. Len(Ahead) + 1 : Legal(L[p]) /\ Aligned(L[p], Origin, p)
         /\ \A p \in 1 .. Len(Ahead) : HoldsIn(L[p], Ahead[p], recs) /\ Follows(L[p], L[p + 1])
         /\ ReaderAt(L[1])
         /\ peer = "open" => WriterAt(L[Len(Ahead) + 1])
  BY DEF Labels, Aligned, Origin, Holds, HoldsIn

\* And after it.
LEMMA LabelsAfter ==
  ASSUME NEW B, B = Len(Ahead'), NEW M \in [1 .. B + 1 -> Label],
         \A p \in 1 .. B + 1 : Legal(M[p]) /\ Aligned(M[p], Origin', p),
         \A p \in 1 .. B : HoldsIn(M[p], Ahead'[p], recs') /\ Follows(M[p], M[p + 1]),
         ReaderAt(M[1])',
         peer' = "open" => WriterAt(M[B + 1])'
  PROVE  Framed'
  <1>1. Labels(M)'
    <2>1. peer' = "open" => WriterAt(M[Len(Ahead) + 1])'
      BY DEF WriterAt
    <2>2. \A p \in 1 .. Len(Ahead') + 1 :
            /\ Legal(M[p])
            /\ Whole(in_boundry' - Len(inbuf') + p - (IF M[p].h > 0 THEN M[p].h ELSE M[p].at))
      BY DEF Aligned, Origin
    <2>3. \A p \in 1 .. Len(Ahead') : Holds(M[p], Ahead[p])' /\ Follows(M[p], M[p + 1])
      BY DEF Holds, HoldsIn
    <2>. QED
      BY <2>1, <2>2, <2>3 DEF Labels
  <1>. QED
    BY <1>1 DEF Framed

\* A step of the sender that closes no fragment, or fails to send it.
LEMMA SenderKeepsLabels ==
  ASSUME RecInv, RecInv', Framed, Grows, UNCHANGED <<invars, got>>,
         peer = "open", peer' = "open" => wire' = wire /\ frag_header' = frag_header /\
                                          Len(recs') = Len(recs) /\ OpenAt' = OpenAt /\
                                          \A p \in 1 .. frag_header : out'[p] = out[p],
         peer' = "closed" => wire' = wire
  PROVE  Framed'
  <1>1. CASE Over
    BY <1>1 DEF Over, Framed, invars
  <1>2. ASSUME NEW L \in [1 .. Len(Ahead) + 1 -> Label], Labels(L)
        PROVE  Framed'
    <2> DEFINE A == Len(Ahead)
    <2>1. AheadIs /\ AheadIs' /\ inbuf' = inbuf /\ in_boundry' = in_boundry
      BY AheadParts, AheadPartsAfter DEF invars
    <2>2. peer' \in {"open", "closed"}
      BY TypesSplit DEF RecInv, SenderTypes
    <2>3. PICK B \in Nat : B = Len(Ahead')
      BY <2>1 DEF AheadIs
    <2>4. A \in Nat /\ B <= A /\ (peer' = "open" => B = A)
      <3>1. /\ Len(inbuf) \in Nat /\ Len(wire) \in Nat /\ frag_header \in Nat
            /\ A = Len(inbuf) + Len(wire) + frag_header
        BY <2>1 DEF AheadIs
      <3>2. B = Len(inbuf) + Len(wire) + (IF peer' = "open" THEN frag_header ELSE 0)
        BY <2>1, <2>2, <2>3 DEF AheadIs
      <3>. QED
        BY <3>1, <3>2
    <2>5. ASSUME NEW p \in 1 .. B
          PROVE  Ahead'[p] = Ahead[p]
      <3> DEFINE a == Len(inbuf)
                 w == Len(wire)
      <3>1. a \in Nat /\ w \in Nat /\ frag_header \in Nat
        BY <2>1, SenderBefore DEF AheadIs
      <3>2. /\ \A q \in 1 .. a : Ahead[q] = inbuf[q]
            /\ \A q \in 1 .. w : Ahead[a + q] = wire[q]
            /\ \A q \in 1 .. frag_header : Ahead[a + w + q] = out[q]
        BY <2>1 DEF AheadIs
      <3>3. wire' = wire
        BY <2>2
      <3>4. /\ \A q \in 1 .. a : Ahead'[q] = inbuf[q]
            /\ \A q \in 1 .. w : Ahead'[a + q] = wire[q]
            /\ peer' = "open" => \A q \in 1 .. frag_header : Ahead'[a + w + q] = out[q]
            /\ B = a + w + (IF peer' = "open" THEN frag_header ELSE 0)
        BY <2>1, <2>3, <3>3 DEF AheadIs
      <3>. HIDE DEF a, w
      <3>5. CASE p <= a
        BY <3>1, <3>2, <3>4, <3>5
      <3>6. CASE p > a /\ p <= a + w
        <4>1. p - a \in 1 .. w /\ a + (p - a) = p
          BY <3>1, <3>6
        <4>. QED
          BY <3>2, <3>4, <4>1
      <3>7. CASE p > a + w
        <4>1. /\ peer' = "open" /\ p - (a + w) \in 1 .. frag_header
              /\ a + w + (p - (a + w)) = p
          BY <3>1, <3>4, <3>7
        <4>. QED
          BY <3>2, <3>4, <4>1
      <3>. QED
        BY <3>1, <3>5, <3>6, <3>7
    <2>6. PICK M \in [1 .. B + 1 -> Label] : \A p \in 1 .. B + 1 : M[p] = L[p]
      <3> DEFINE M == [p \in 1 .. B + 1 |-> L[p]]
      <3>1. M \in [1 .. B + 1 -> Label] /\ \A p \in 1 .. B + 1 : M[p] = L[p]
        BY <2>4
      <3>. QED
        BY <3>1
    <2>7. ASSUME NEW p \in 1 .. B + 1
          PROVE  Legal(M[p]) /\ Aligned(M[p], Origin', p)
      <3>1. p \in 1 .. A + 1
        BY <2>4
      <3>2. Legal(L[p]) /\ Aligned(L[p], Origin, p) /\ Origin' = Origin
        BY <1>2, <2>1, <3>1, LabelsBefore DEF Origin
      <3>. QED
        BY <2>6, <3>2
    <2>8. ASSUME NEW p \in 1 .. B
          PROVE  HoldsIn(M[p], Ahead'[p], recs') /\ Follows(M[p], M[p + 1])
      <3>1. p \in 1 .. A /\ p \in 1 .. B + 1 /\ p + 1 \in 1 .. B + 1
        BY <2>4
      <3>2. HoldsIn(L[p], Ahead[p], recs) /\ Follows(L[p], L[p + 1])
        BY <1>2, <3>1, LabelsBefore
      <3>3. HoldsIn(L[p], Ahead[p], recs')
        BY <3>2, HoldsGrows
      <3>. QED
        BY <2>5, <2>6, <3>1, <3>2, <3>3
    <2>9. ReaderAt(M[1])'
      <3>1. M[1] = L[1] /\ ReaderAt(L[1])
        BY <1>2, <2>6, LabelsBefore
      <3>2. ReaderAt(M[1])
        BY <3>1
      <3>. QED
        BY <3>2 DEF ReaderAt, Rest, Reading, invars
    <2>10. peer' = "open" => WriterAt(M[B + 1])'
      <3>1. peer' = "open" => WriterAt(M[B + 1])
        BY <1>2, <2>4, <2>6, LabelsBefore
      <3>. QED
        BY <3>1 DEF WriterAt
    <2>. QED
      BY <2>3, <2>7, <2>8, <2>9, <2>10, LabelsAfter
  <1>. QED
    BY <1>1, <1>2 DEF Framed

\* The labels of a fragment of n bytes that begins behind byte at of record
\* rec, and of the header behind it.
FragmentLabel(rec, at, n, last, i) ==
  IF i <= Unit
  THEN [h |-> i, rec |-> rec, at |-> at + 1, n |-> n, last |-> last]
  ELSE IF i <= Unit + n
  THEN [h |-> 0, rec |-> rec, at |-> at + (i - Unit), n |-> n - (i - Unit) + 1, last |-> last]
  ELSE [h |-> 1, rec |-> IF last THEN rec + 1 ELSE rec, at |-> IF last THEN 1 ELSE at + n + 1,
        n |-> 0, last |-> TRUE]

\* A label is what its parts are.
LEMMA LabelsEqual ==
  ASSUME NEW l \in Label, NEW m \in Label,
         l.h = m.h, l.rec = m.rec, l.at = m.at, l.n = m.n, l.last = m.last
  PROVE  l = m
  BY DEF Label

\* They are legal and follow each other.
LEMMA FragmentLabels ==
  ASSUME NEW rec \in Nat, NEW at \in Nat, NEW n \in Nat, NEW last \in BOOLEAN,
         Whole(at), Whole(n), n < LAST_FRAG, last \/ n > 0,
         NEW c \in Int, Whole(c), NEW i \in 1 .. Unit + n + 1
  PROVE  LET l == FragmentLabel(rec, at, n, last, i)
             m == FragmentLabel(rec, at, n, last, i + 1)
         IN  /\ l \in Label /\ Legal(l) /\ Aligned(l, c, i)
             /\ i <= Unit + n => Follows(l, m)
  <1> DEFINE l == FragmentLabel(rec, at, n, last, i)
             m == FragmentLabel(rec, at, n, last, i + 1)
  <1>1. Unit \in Nat \ {0} /\ LAST_FRAG \in Nat \ {0} /\ Whole(Unit) /\ Whole(0)
    BY Sizes, LastFragHighest, WholeUnits
  <1>2. CASE i <= Unit
    <2>1. l = [h |-> i, rec |-> rec, at |-> at + 1, n |-> n, last |-> last]
      BY <1>2 DEF FragmentLabel
    <2>2. i \in 0 .. Unit /\ i > 0 /\ at + 1 \in Nat /\ (at + 1) - 1 = at
      BY <1>1, <1>2
    <2>3. l \in Label
      BY <2>1, <2>2 DEF Label
    <2>4. Legal(l)
      BY <2>1, <2>2 DEF Legal
    <2>5. Aligned(l, c, i)
      <3>1. c + i - i = c
        BY <1>1
      <3>. QED
        BY <2>1, <2>2, <3>1 DEF Aligned
    <2>6. Follows(l, m)
      <3>1. CASE i < Unit
        <4>1. m = [h |-> i + 1, rec |-> rec, at |-> at + 1, n |-> n, last |-> last]
          BY <1>1, <3>1 DEF FragmentLabel
        <4>2. m = [l EXCEPT !.h = @ + 1] /\ l.h \in 1 .. Unit - 1
          BY <1>1, <2>1, <3>1, <4>1
        <4>. QED
          BY <4>2 DEF Follows
      <3>2. CASE i = Unit /\ n > 0
        <4>1. ~(i + 1 <= Unit) /\ i + 1 <= Unit + n /\ (i + 1) - Unit = 1 /\ n - 1 + 1 = n
          BY <1>1, <3>2
        <4>2. m = [h |-> 0, rec |-> rec, at |-> at + 1, n |-> n, last |-> last]
          BY <4>1 DEF FragmentLabel
        <4>3. m = [l EXCEPT !.h = 0] /\ l.h = Unit /\ l.n > 0
          BY <2>1, <3>2, <4>2
        <4>. QED
          BY <4>3 DEF Follows
      <3>3. CASE i = Unit /\ n = 0
        <4>1. ~(i + 1 <= Unit) /\ ~(i + 1 <= Unit + n) /\ last
          BY <1>1, <3>3
        <4>2. m.h = 1 /\ m.rec = rec + 1 /\ m.at = 1
          BY <4>1 DEF FragmentLabel
        <4>3. Heads(m, l.rec, l.at, l.last) /\ l.h = Unit /\ l.n = 0
          <5>. HIDE DEF l, m
          <5>1. l.rec = rec /\ l.last = last /\ l.h = i /\ l.n = n
            BY <2>1
          <5>. QED
            BY <3>3, <4>1, <4>2, <5>1 DEF Heads
        <4>. QED
          BY <4>3 DEF Follows
      <3>. QED
        BY <1>1, <1>2, <3>1, <3>2, <3>3
    <2>. QED
      BY <2>3, <2>4, <2>5, <2>6
  <1>3. CASE ~(i <= Unit) /\ i <= Unit + n
    <2>1. PICK k \in 1 .. n : i = Unit + k
      <3>1. i - Unit \in 1 .. n /\ i = Unit + (i - Unit)
        BY <1>1, <1>3
      <3>. QED
        BY <3>1
    <2>2. i - Unit = k /\ k \in Nat /\ k > 0 /\ k <= n
      BY <1>1, <2>1
    <2>3. l = [h |-> 0, rec |-> rec, at |-> at + k, n |-> n - k + 1, last |-> last]
      BY <1>3, <2>2 DEF FragmentLabel
    <2>4. at + k \in Nat /\ n - k + 1 \in Nat /\ n - k + 1 > 0 /\ n - k + 1 < LAST_FRAG
      BY <1>1, <2>2
    <2>5. l \in Label
      BY <1>1, <2>3, <2>4 DEF Label
    <2>6. Legal(l)
      <3>1. (at + k) - 1 + (n - k + 1) = at + n
        BY <2>2
      <3>2. Whole(at + n)
        BY WholeSum
      <3>. QED
        BY <2>3, <2>4, <3>1, <3>2 DEF Legal
    <2>7. Aligned(l, c, i)
      <3>1. c + i - (at + k) = (c + Unit) - at
        BY <1>1, <2>1, <2>2
      <3>2. Whole(c + Unit)
        BY <1>1, WholeSum
      <3>3. Whole((c + Unit) - at)
        BY <1>1, <3>2, WholeSum
      <3>. QED
        BY <2>3, <3>1, <3>3 DEF Aligned
    <2>8. Follows(l, m)
      <3>1. CASE k < n
        <4>1. ~(i + 1 <= Unit) /\ i + 1 <= Unit + n /\ (i + 1) - Unit = k + 1
          BY <1>1, <2>1, <2>2, <3>1
        <4>2. m = [h |-> 0, rec |-> rec, at |-> at + (k + 1), n |-> n - (k + 1) + 1, last |-> last]
          BY <4>1 DEF FragmentLabel
        <4>3. at + (k + 1) = (at + k) + 1 /\ n - (k + 1) + 1 = (n - k + 1) - 1 /\ n - k + 1 > 1
          BY <2>2, <3>1
        <4>4. m = [l EXCEPT !.at = @ + 1, !.n = @ - 1] /\ l.h = 0 /\ l.n > 1
          <5>. HIDE DEF l, m
          <5>1. l.h = 0 /\ l.at = at + k /\ l.n = n - k + 1
            BY <2>3
          <5> DEFINE x == at + k
                     y == n - k + 1
          <5>2. /\ l = [h |-> 0, rec |-> rec, at |-> x, n |-> y, last |-> last]
                /\ m = [h |-> 0, rec |-> rec, at |-> x + 1, n |-> y - 1, last |-> last]
            BY <2>3, <4>2, <4>3
          <5>. HIDE DEF x, y
          <5>3. x \in Nat /\ y \in Nat /\ x + 1 \in Nat /\ y - 1 \in Nat
            BY <4>3, <2>4 DEF x, y
          <5>4. l \in Label /\ m \in Label
            BY <1>1, <5>2, <5>3 DEF Label
          <5>5. m = [l EXCEPT !.at = @ + 1, !.n = @ - 1]
            <6> DEFINE e == [l EXCEPT !.at = @ + 1, !.n = @ - 1]
            <6>1. e \in Label
              BY <5>2, <5>3, <5>4 DEF Label
            <6>2. e.h = m.h /\ e.rec = m.rec /\ e.at = m.at /\ e.n = m.n /\ e.last = m.last
              BY <5>2
            <6>. HIDE DEF e
            <6>3. e = m
              BY <5>4, <6>1, <6>2, LabelsEqual
            <6>. QED
              BY <6>3 DEF e
          <5>. QED
            BY <4>3, <5>1, <5>5
        <4>. QED
          BY <4>4 DEF Follows
      <3>2. CASE k = n
        <4>1. ~(i + 1 <= Unit) /\ ~(i + 1 <= Unit + n)
          BY <1>1, <2>1, <3>2
        <4>2. /\ m.h = 1 /\ m.rec = (IF last THEN rec + 1 ELSE rec)
              /\ m.at = (IF last THEN 1 ELSE at + n + 1)
          BY <4>1 DEF FragmentLabel
        <4>3. l.h = 0 /\ l.n = 1 /\ l.at = at + n /\ l.rec = rec /\ l.last = last
          BY <2>3, <3>2
        <4>4. Heads(m, l.rec, l.at + 1, l.last)
          BY <4>2, <4>3 DEF Heads
        <4>. QED
          BY <4>3, <4>4 DEF Follows
      <3>. QED
        BY <2>2, <3>1, <3>2
    <2>. QED
      BY <2>5, <2>6, <2>7, <2>8
  <1>4. CASE ~(i <= Unit) /\ ~(i <= Unit + n)
    <2>1. i = Unit + n + 1
      BY <1>1, <1>4
    <2>2. l = [h |-> 1, rec |-> IF last THEN rec + 1 ELSE rec,
               at |-> IF last THEN 1 ELSE at + n + 1, n |-> 0, last |-> TRUE]
      BY <1>4 DEF FragmentLabel
    <2>3. l \in Label
      BY <1>1, <2>2 DEF Label
    <2>4. Legal(l)
      <3>1. l.at - 1 = IF last THEN 0 ELSE at + n
        BY <2>2
      <3>2. Whole(at + n)
        BY WholeSum
      <3>. QED
        BY <1>1, <2>2, <3>1, <3>2 DEF Legal
    <2>5. Aligned(l, c, i)
      <3>1. c + i - 1 = (c + Unit) + n
        BY <1>1, <2>1
      <3>2. Whole(c + Unit)
        BY <1>1, WholeSum
      <3>3. Whole((c + Unit) + n)
        BY <1>1, <3>2, WholeSum
      <3>. QED
        BY <2>2, <3>1, <3>3 DEF Aligned
    <2>. QED
      BY <1>4, <2>3, <2>4, <2>5
  <1>. QED
    BY <1>2, <1>3, <1>4

\* A header may be any at the same place.
LEMMA SameHeader ==
  ASSUME NEW l \in Label, NEW m, NEW k, m.h = 1, k.h = 1, k.rec = m.rec, k.at = m.at,
         Follows(l, m)
  PROVE  Follows(l, k)
  <1>1. ASSUME l.h \in 1 .. Unit - 1, m = [l EXCEPT !.h = @ + 1]
        PROVE  FALSE
    <2>1. m.h = l.h + 1 /\ l.h > 0 /\ l.h \in Int
      BY <1>1, Sizes DEF Label
    <2>. QED
      BY <2>1
  <1>2. ASSUME m = [l EXCEPT !.h = 0]
        PROVE  FALSE
    BY <1>2 DEF Label
  <1>3. ASSUME l.h = 0, m = [l EXCEPT !.at = @ + 1, !.n = @ - 1]
        PROVE  FALSE
    <2>1. m.h = l.h
      BY <1>3 DEF Label
    <2>. QED
      BY <1>3, <2>1
  <1>4. ASSUME NEW rec, NEW at, NEW last, Heads(m, rec, at, last)
        PROVE  Heads(k, rec, at, last)
    BY <1>4 DEF Heads
  <1>. QED
    BY <1>1, <1>2, <1>3, <1>4 DEF Follows

\* The reader does not know either what is in a header that it expects.
LEMMA SameHeaderRead ==
  ASSUME RecInv, NEW m, NEW k, m.h = 1, k.h = 1, k.rec = m.rec, k.at = m.at, ReaderAt(m)
  PROVE  ReaderAt(k)
  <1>1. header # NoHeader => Len(header) \in Nat
    BY ReaderBefore
  <1>2. header # NoHeader => Len(header) = 0
    BY <1>1 DEF ReaderAt
  <1>. QED
    BY <1>2 DEF ReaderAt

\* Labels of A bytes, and of the one behind them, that follow each other.
Run(L, A, c) ==
  /\ L \in [1 .. A + 1 -> Label]
  /\ \A p \in 1 .. A + 1 : Legal(L[p]) /\ Aligned(L[p], c, p)
  /\ \A p \in 1 .. A : Follows(L[p], L[p + 1])

\* A fragment behind them.
Joins(L, A, M, rec, at, n, last) ==
  /\ \A p \in 1 .. A : M[p] = L[p]
  /\ \A i \in 1 .. Unit + n + 1 : M[A + i] = FragmentLabel(rec, at, n, last, i)

\* A label for the header behind byte at of record rec.
Expects(l, rec, at) == l.h = 1 /\ l.rec = rec /\ l.at = at + 1

\* The length that a fragment may have.
Allowed(n, last) == Whole(n) /\ n < LAST_FRAG /\ (last \/ n > 0)

\* The labels of a fragment can be put behind a header that is expected.
LEMMA RunJoins ==
  ASSUME NEW L, NEW A \in Nat, NEW c \in Int, Run(L, A, c),
         NEW rec \in Nat, NEW at \in Nat, NEW n \in Nat, NEW last \in BOOLEAN,
         Allowed(n, last), Expects(L[A + 1], rec, at)
  PROVE  \E M : Run(M, A + Unit + n, c) /\ Joins(L, A, M, rec, at, n, last)
  <1> DEFINE F(i) == FragmentLabel(rec, at, n, last, i)
  <1>1. Unit \in Nat \ {0}
    BY Sizes
  <1>2. PICK B \in Nat : B = A + Unit + n
    BY <1>1
  <1>3. /\ L \in [1 .. A + 1 -> Label] /\ A + 1 \in 1 .. A + 1
        /\ \A p \in 1 .. A + 1 : Legal(L[p]) /\ Aligned(L[p], c, p)
        /\ \A p \in 1 .. A : Follows(L[p], L[p + 1])
    BY DEF Run
  <1>4. Whole(at) /\ Whole(c + A) /\ c + A \in Int
    <2>1. Legal(L[A + 1]) /\ Aligned(L[A + 1], c, A + 1)
      BY <1>3
    <2>2. Whole((at + 1) - 1) /\ Whole(c + (A + 1) - 1)
      BY <2>1 DEF Legal, Aligned, Expects
    <2>3. (at + 1) - 1 = at /\ c + (A + 1) - 1 = c + A
      OBVIOUS
    <2>. QED
      BY <2>2, <2>3
  <1>5. ASSUME NEW i \in 1 .. Unit + n + 1
        PROVE  /\ F(i) \in Label /\ Legal(F(i)) /\ Aligned(F(i), c + A, i)
               /\ i <= Unit + n => Follows(F(i), F(i + 1))
    BY <1>4, FragmentLabels DEF Allowed
  <1>. HIDE DEF F
  <1>6. PICK M \in [1 .. B + 1 -> Label] :
          \A p \in 1 .. B + 1 : M[p] = IF p <= A THEN L[p] ELSE F(p - A)
    <2> DEFINE M == [p \in 1 .. B + 1 |-> IF p <= A THEN L[p] ELSE F(p - A)]
    <2>1. ASSUME NEW p \in 1 .. B + 1, ~(p <= A)
          PROVE  F(p - A) \in Label
      <3>1. p - A \in 1 .. Unit + n + 1
        BY <1>1, <1>2, <2>1
      <3>. QED
        BY <1>5, <3>1
    <2>2. \A p \in 1 .. B + 1 : p <= A => L[p] \in Label
      BY <1>3
    <2>3. M \in [1 .. B + 1 -> Label]
      BY <2>1, <2>2
    <2>. QED
      BY <2>3
  <1>7. ASSUME NEW p \in 1 .. A
        PROVE  M[p] = L[p] /\ p \in 1 .. A + 1 /\ p \in 1 .. B + 1 /\ p + 1 \in 1 .. A + 1
    <2>1. p \in 1 .. A + 1 /\ p \in 1 .. B + 1 /\ p <= A /\ p + 1 \in 1 .. A + 1
      BY <1>1, <1>2
    <2>. QED
      BY <1>6, <2>1
  <1>8. ASSUME NEW i \in 1 .. Unit + n + 1
        PROVE  M[A + i] = F(i) /\ A + i \in 1 .. B + 1
    <2>1. A + i \in 1 .. B + 1 /\ ~(A + i <= A) /\ (A + i) - A = i
      BY <1>1, <1>2
    <2>. QED
      BY <1>6, <2>1
  <1>9. ASSUME NEW p \in 1 .. B + 1, ~(p <= A)
        PROVE  \E i \in 1 .. Unit + n + 1 : p = A + i
    <2>1. p - A \in 1 .. Unit + n + 1 /\ p = A + (p - A)
      BY <1>1, <1>2, <1>9
    <2>. QED
      BY <2>1
  <1>10. ASSUME NEW p \in 1 .. B + 1
         PROVE  Legal(M[p]) /\ Aligned(M[p], c, p)
    <2>1. CASE p <= A
      <3>1. p \in 1 .. A
        BY <2>1
      <3>. QED
        BY <1>3, <1>7, <3>1
    <2>2. CASE ~(p <= A)
      <3>1. PICK i \in 1 .. Unit + n + 1 : p = A + i
        BY <1>9, <2>2
      <3>2. M[p] = F(i) /\ F(i) \in Label /\ Legal(F(i)) /\ Aligned(F(i), c + A, i)
        BY <1>5, <1>8, <3>1
      <3>3. F(i).h \in Int /\ F(i).at \in Int
        BY <1>1, <3>2 DEF Label
      <3>4. PICK x \in Int : x = IF F(i).h > 0 THEN F(i).h ELSE F(i).at
        BY <3>3
      <3>5. (c + A) + i - x = c + (A + i) - x
        BY <1>1
      <3>. QED
        BY <3>1, <3>2, <3>4, <3>5 DEF Aligned
    <2>. QED
      BY <2>1, <2>2
  <1>11. M[A + 1].h = 1 /\ M[A + 1].rec = rec /\ M[A + 1].at = at + 1
    <2>1. 1 \in 1 .. Unit + n + 1 /\ 1 <= Unit
      BY <1>1
    <2>2. F(1) = [h |-> 1, rec |-> rec, at |-> at + 1, n |-> n, last |-> last]
      BY <2>1 DEF F, FragmentLabel
    <2>. QED
      BY <1>8, <2>1, <2>2
  <1>12. ASSUME NEW p \in 1 .. B
         PROVE  Follows(M[p], M[p + 1])
    <2>1. CASE p < A
      <3>1. p \in 1 .. A /\ p + 1 \in 1 .. A
        BY <2>1
      <3>. QED
        BY <1>3, <1>7, <3>1
    <2>2. CASE p = A
      <3>1. p \in 1 .. A /\ p + 1 = A + 1
        BY <2>2
      <3>2. M[p] = L[p] /\ L[p] \in Label /\ Follows(L[p], L[A + 1])
        BY <1>3, <1>7, <3>1
      <3>3. Follows(L[p], M[A + 1])
        BY <1>11, <3>2, SameHeader DEF Expects
      <3>. QED
        BY <3>1, <3>2, <3>3
    <2>3. CASE p > A
      <3>1. p \in 1 .. B + 1 /\ ~(p <= A)
        BY <2>3
      <3>2. PICK i \in 1 .. Unit + n + 1 : p = A + i
        BY <1>9, <3>1
      <3>3. i <= Unit + n /\ i + 1 \in 1 .. Unit + n + 1 /\ p + 1 = A + (i + 1)
        BY <1>1, <1>2, <3>2
      <3>4. M[p] = F(i) /\ M[p + 1] = F(i + 1)
        BY <1>8, <3>2, <3>3
      <3>. QED
        BY <1>5, <3>3, <3>4
    <2>. QED
      BY <2>1, <2>2, <2>3
  <1>13. Run(M, B, c)
    BY <1>10, <1>12 DEF Run
  <1>14. Joins(L, A, M, rec, at, n, last)
    BY <1>7, <1>8 DEF Joins, F
  <1>. QED
    BY <1>2, <1>13, <1>14

\* The sender closes a fragment of n bytes, the last of its record or not.
Closes(n, eor) ==
  /\ Allowed(n, eor)
  /\ Len(Ahead') = Len(Ahead) + Unit + n
  /\ \A p \in 1 .. Len(Ahead) : Ahead'[p] = Ahead[p]
  /\ \A i \in 1 .. Unit :
       Ahead'[Len(Ahead) + i] = Bytes(n + (IF eor THEN LAST_FRAG ELSE 0))[i]
  /\ \A i \in 1 .. n : Ahead'[Len(Ahead) + Unit + i] = OpenRec[OpenAt + i]
  /\ OpenAt \in Nat /\ OpenAt + n <= Len(OpenRec)
  /\ Len(recs') = IF eor THEN Len(recs) + 1 ELSE Len(recs)
  /\ OpenAt' = IF eor THEN 0 ELSE OpenAt + n

\* The bytes of the fragment are what their labels say.
LEMMA FragmentHolds ==
  ASSUME RecInv, NEW n \in Nat, NEW eor \in BOOLEAN, Closes(n, eor), NEW i \in 1 .. Unit + n
  PROVE  HoldsIn(FragmentLabel(Len(recs), OpenAt, n, eor, i), Ahead'[Len(Ahead) + i], recs)
  <1> DEFINE l == FragmentLabel(Len(recs), OpenAt, n, eor, i)
  <1>1. PICK A \in Nat, K \in Nat, at \in Nat : A = Len(Ahead) /\ K = Len(recs) /\ at = OpenAt
    <2>1. Len(Ahead) \in Nat /\ Len(recs) \in Nat /\ OpenAt \in Nat
      BY AheadParts, SenderBefore, OpenRecType DEF AheadIs, Closes
    <2>. QED
      BY <2>1
  <1>2. Unit \in Nat \ {0}
    BY Sizes
  <1>3. CASE i <= Unit
    <2>1. l = [h |-> i, rec |-> K, at |-> at + 1, n |-> n, last |-> eor]
      BY <1>1, <1>3 DEF FragmentLabel
    <2>2. i \in 1 .. Unit
      BY <1>2, <1>3
    <2>3. Ahead'[A + i] = Bytes(n + (IF eor THEN LAST_FRAG ELSE 0))[i]
      BY <1>1, <2>2 DEF Closes
    <2>4. l.h = i /\ l.n = n /\ l.last = eor /\ i > 0
      BY <2>1, <2>2
    <2>. HIDE DEF l
    <2>5. HoldsIn(l, Ahead'[A + i], recs)
      BY <2>3, <2>4 DEF HoldsIn, HeaderByte
    <2>. QED
      BY <1>1, <2>5 DEF l
  <1>4. CASE ~(i <= Unit)
    <2>1. PICK k \in 1 .. n : i = Unit + k
      <3>1. i - Unit \in 1 .. n /\ i = Unit + (i - Unit)
        BY <1>2, <1>4
      <3>. QED
        BY <3>1
    <2>2. i <= Unit + n /\ i - Unit = k /\ A + i = A + Unit + k
      BY <1>2, <2>1
    <2>3. l = [h |-> 0, rec |-> K, at |-> at + k, n |-> n - k + 1, last |-> eor]
      BY <1>1, <1>4, <2>2 DEF FragmentLabel
    <2>4. Ahead'[A + i] = OpenRec[at + k]
      BY <1>1, <2>1, <2>2 DEF Closes
    <2>5. K \in DOMAIN recs /\ at + k \in DOMAIN recs[K] /\ recs[K] = OpenRec
      <3>1. /\ Len(recs) \in Nat \ {0} /\ OpenRec \in Seq(Byte) /\ Len(OpenRec) \in Nat
            /\ recs \in Seq(Seq(Byte))
        BY SenderBefore, OpenRecType DEF SenderTypes
      <3>2. DOMAIN recs = 1 .. Len(recs) /\ DOMAIN OpenRec = 1 .. Len(OpenRec)
        BY <3>1, LenProperties
      <3>3. at + n <= Len(OpenRec)
        BY <1>1 DEF Closes
      <3>4. at + k \in 1 .. Len(OpenRec) /\ Len(recs) \in 1 .. Len(recs)
        BY <3>1, <3>3
      <3>. QED
        BY <1>1, <3>2, <3>4 DEF OpenRec
    <2>6. l.h = 0 /\ l.rec = K /\ l.at = at + k
      BY <2>3
    <2>. HIDE DEF l
    <2>7. HoldsIn(l, Ahead'[A + i], recs)
      BY <2>4, <2>5, <2>6 DEF HoldsIn
    <2>. QED
      BY <1>1, <2>7 DEF l
  <1>. QED
    BY <1>3, <1>4

\* What it leaves is labelled as well.
LEMMA ClosesKeepsLabels ==
  ASSUME RecInv, RecInv', Framed, Grows, UNCHANGED <<invars, got>>, peer = "open",
         NEW n \in Nat, NEW eor \in BOOLEAN, Closes(n, eor)
  PROVE  Framed'
  <1>1. CASE Over
    BY <1>1 DEF Over, Framed, invars
  <1>2. ASSUME NEW L \in [1 .. Len(Ahead) + 1 -> Label], Labels(L)
        PROVE  Framed'
    <2>1. Unit \in Nat \ {0} /\ Origin \in Int /\ Origin' = Origin
      <3>1. in_boundry \in Int /\ Len(inbuf) \in Int
        BY ReaderBefore DEF ReaderTypes
      <3>. QED
        BY <3>1, Sizes DEF Origin, invars
    <2>2. Len(Ahead) \in Nat /\ Len(recs) \in Nat /\ OpenAt \in Nat
      BY AheadParts, SenderBefore, OpenRecType DEF AheadIs, Closes
    <2>3. PICK A \in Nat, K \in Nat, at \in Nat, c \in Int :
            A = Len(Ahead) /\ K = Len(recs) /\ at = OpenAt /\ c = Origin
      BY <2>1, <2>2
    <2>4. PICK B \in Nat : B = A + Unit + n
      BY <2>1
    <2>5. /\ \A p \in 1 .. A : HoldsIn(L[p], Ahead[p], recs)
          /\ ReaderAt(L[1])
          /\ L[A + 1].h = 1 /\ L[A + 1].rec = K /\ L[A + 1].at = at + 1
      BY <1>2, <2>3, LabelsBefore DEF WriterAt
    <2>6. Run(L, A, c)
      BY <1>2, <2>3, LabelsBefore DEF Run
    <2>7. Allowed(n, eor)
      BY DEF Closes
    <2>8. PICK M : Run(M, B, c) /\ Joins(L, A, M, K, at, n, eor)
      <3>1. Expects(L[A + 1], K, at)
        BY <2>5 DEF Expects
      <3>2. \E M : Run(M, A + Unit + n, c) /\ Joins(L, A, M, K, at, n, eor)
        BY <2>6, <2>7, <3>1, RunJoins
      <3>. QED
        BY <2>4, <3>2
    <2>9. /\ M \in [1 .. B + 1 -> Label]
          /\ \A p \in 1 .. B + 1 : Legal(M[p]) /\ Aligned(M[p], Origin', p)
          /\ \A p \in 1 .. B : Follows(M[p], M[p + 1])
      BY <2>1, <2>3, <2>8 DEF Run
    <2>10. /\ \A p \in 1 .. A : M[p] = L[p]
           /\ \A i \in 1 .. Unit + n + 1 : M[A + i] = FragmentLabel(K, at, n, eor, i)
      BY <2>8 DEF Joins
    <2>11. ASSUME NEW p \in 1 .. B
           PROVE  HoldsIn(M[p], Ahead'[p], recs')
      <3>1. CASE p <= A
        <4>1. p \in 1 .. A
          BY <3>1
        <4>2. M[p] = L[p] /\ Ahead'[p] = Ahead[p] /\ HoldsIn(L[p], Ahead[p], recs)
          BY <2>3, <2>5, <2>10, <4>1 DEF Closes
        <4>. QED
          BY <4>2, HoldsGrows
      <3>2. CASE ~(p <= A)
        <4>1. PICK i \in 1 .. Unit + n : p = A + i
          <5>1. p - A \in 1 .. Unit + n /\ p = A + (p - A)
            BY <2>1, <2>4, <3>2
          <5>. QED
            BY <5>1
        <4>2. i \in 1 .. Unit + n + 1
          BY <2>1
        <4>3. M[p] = FragmentLabel(K, at, n, eor, i)
          BY <2>10, <4>1, <4>2
        <4>4. HoldsIn(M[p], Ahead'[p], recs)
          BY <2>3, <4>1, <4>3, FragmentHolds
        <4>. QED
          BY <4>4, HoldsGrows
      <3>. QED
        BY <3>1, <3>2
    <2>12. ReaderAt(M[1])'
      <3>1. ReaderAt(M[1])
        <4>1. CASE A = 0
          <5>1. 1 \in 1 .. Unit + n + 1 /\ 1 <= Unit /\ A + 1 = 1
            BY <2>1, <4>1
          <5>2. M[1] = [h |-> 1, rec |-> K, at |-> at + 1, n |-> n, last |-> eor]
            BY <2>10, <5>1 DEF FragmentLabel
          <5>3. M[1].h = 1 /\ M[1].rec = L[1].rec /\ M[1].at = L[1].at /\ L[1].h = 1
            BY <2>5, <5>1, <5>2
          <5>. QED
            BY <2>5, <5>3, SameHeaderRead
        <4>2. CASE A # 0
          <5>1. 1 \in 1 .. A
            BY <4>2
          <5>. QED
            BY <2>5, <2>10, <5>1
        <4>. QED
          BY <4>1, <4>2
      <3>. QED
        BY <3>1 DEF ReaderAt, Rest, Reading, invars
    <2>13. WriterAt(M[B + 1])'
      <3>1. /\ Unit + n + 1 \in 1 .. Unit + n + 1 /\ A + (Unit + n + 1) = B + 1
            /\ ~(Unit + n + 1 <= Unit) /\ ~(Unit + n + 1 <= Unit + n)
        BY <2>1, <2>4
      <3>2. M[B + 1] = FragmentLabel(K, at, n, eor, Unit + n + 1)
        BY <2>10, <3>1
      <3>3. /\ M[B + 1].h = 1 /\ M[B + 1].rec = (IF eor THEN K + 1 ELSE K)
            /\ M[B + 1].at = (IF eor THEN 1 ELSE at + n + 1)
        BY <3>1, <3>2 DEF FragmentLabel
      <3>4. M[B + 1].rec = Len(recs')
        BY <2>3, <3>3 DEF Closes
      <3>5. M[B + 1].at = OpenAt' + 1
        <4>1. OpenAt' = IF eor THEN 0 ELSE at + n
          BY <2>3 DEF Closes
        <4>. QED
          BY <3>3, <4>1
      <3>. QED
        BY <3>3, <3>4, <3>5 DEF WriterAt
    <2>14. B = Len(Ahead')
      BY <2>3, <2>4 DEF Closes
    <2>. QED
      BY <2>9, <2>11, <2>12, <2>13, <2>14, LabelsAfter
  <1>. QED
    BY <1>1, <1>2 DEF Framed

-----------------------------------------------------------------------------
(* The steps of the sender keep the labels.                                *)

\* The bytes of b, with its header, are now under way behind those that had
\* left the output buffer.
Sends(b, eor) ==
  /\ Len(Ahead') = Len(inbuf) + Len(wire) + Len(b)
  /\ \A p \in 1 .. Len(inbuf) + Len(wire) : Ahead'[p] = Ahead[p]
  /\ \A j \in 1 .. Len(b) : Ahead'[Len(inbuf) + Len(wire) + j] = WithHeader(b, eor)[j]

\* flush_out() sends them,
LEMMA FlushSends ==
  ASSUME RecInv, RecInv', UNCHANGED invars, peer = "open", peer' = "open",
         NEW b \in Seq(Byte), NEW eor \in BOOLEAN, frag_header + Unit <= Len(b),
         wire' = wire \o WithHeader(b, eor), frag_header' = 0
  PROVE  Sends(b, eor)
  <1> DEFINE W == WithHeader(b, eor)
             a == Len(inbuf)
             w == Len(wire)
  <1>1. AheadIs /\ AheadIs' /\ inbuf' = inbuf
    BY AheadParts, AheadPartsAfter DEF invars
  <1>2. wire \in Seq(Byte) /\ frag_header \in Nat /\ Len(b) \in Nat
    BY SenderBefore, LenProperties DEF SenderTypes
  <1>3. W \in Seq(Byte) /\ Len(W) = Len(b)
    BY <1>2, WithHeaderType
  <1>. HIDE DEF W
  <1>4. /\ Len(wire') = w + Len(b)
        /\ \A p \in 1 .. w : wire'[p] = wire[p]
        /\ \A j \in 1 .. Len(b) : wire'[w + j] = W[j]
    <2>1. /\ Len(wire \o W) = Len(wire) + Len(W)
          /\ \A p \in 1 .. Len(wire) : (wire \o W)[p] = wire[p]
          /\ \A j \in 1 .. Len(W) : (wire \o W)[Len(wire) + j] = W[j]
      <3>1. wire \in Seq(Byte) /\ W \in Seq(Byte)
        BY <1>2, <1>3
      <3>. QED
        BY ONLY <3>1, JoinOf
    <2>2. wire' = wire \o W
      BY DEF W
    <2>. QED
      BY <1>3, <2>1, <2>2
  <1>5. /\ a \in Nat /\ w \in Nat
        /\ \A p \in 1 .. a : Ahead[p] = inbuf[p]
        /\ \A p \in 1 .. w : Ahead[a + p] = wire[p]
    BY <1>1 DEF AheadIs
  <1>6. /\ Len(Ahead') = a + Len(wire') + 0
        /\ \A p \in 1 .. a : Ahead'[p] = inbuf[p]
        /\ \A p \in 1 .. Len(wire') : Ahead'[a + p] = wire'[p]
    BY <1>1 DEF AheadIs
  <1>. HIDE DEF a, w
  <1>7. Len(Ahead') = a + w + Len(b)
    BY <1>2, <1>4, <1>5, <1>6
  <1>8. ASSUME NEW p \in 1 .. a + w
        PROVE  Ahead'[p] = Ahead[p]
    <2>1. CASE p <= a
      BY <1>5, <1>6, <2>1
    <2>2. CASE ~(p <= a)
      <3>1. PICK q \in 1 .. w : p = a + q
        <4>1. p - a \in 1 .. w /\ p = a + (p - a)
          BY <1>5, <2>2
        <4>. QED
          BY <4>1
      <3>2. q \in 1 .. Len(wire') /\ wire'[q] = wire[q]
        BY <1>2, <1>4, <1>5
      <3>3. Ahead[a + q] = wire[q]
        BY <1>5
      <3>4. Ahead'[a + q] = wire'[q]
        BY <1>6, <3>2
      <3>. QED
        BY <3>1, <3>2, <3>3, <3>4
    <2>. QED
      BY <2>1, <2>2
  <1>9. ASSUME NEW j \in 1 .. Len(b)
        PROVE  Ahead'[a + w + j] = W[j]
    <2>1. w + j \in 1 .. Len(wire') /\ a + (w + j) = a + w + j
      BY <1>2, <1>4, <1>5
    <2>. QED
      BY <1>4, <1>6, <2>1
  <1>. QED
    BY <1>7, <1>8, <1>9 DEF Sends, W, a, w

\* and xdrrec_endofrecord() leaves them in the buffer.
LEMMA EndSends ==
  ASSUME RecInv, RecInv', UNCHANGED <<invars, wire>>, peer = "open", peer' = "open",
         out' = WithHeader(out, TRUE) \o EmptyOut, frag_header' = Len(out)
  PROVE  Sends(out, TRUE)
  <1> DEFINE W == WithHeader(out, TRUE)
             a == Len(inbuf)
             w == Len(wire)
  <1>1. AheadIs /\ AheadIs' /\ inbuf' = inbuf
    BY AheadParts, AheadPartsAfter DEF invars
  <1>2. out \in Seq(Byte) /\ frag_header \in Nat /\ frag_header + Unit <= Len(out)
    BY SenderBefore DEF SenderTypes
  <1>3. W \in Seq(Byte) /\ Len(W) = Len(out)
    BY <1>2, WithHeaderType
  <1>. HIDE DEF W
  <1>4. \A j \in 1 .. Len(out) : out'[j] = W[j]
    <2>1. \A j \in 1 .. Len(W) : (W \o EmptyOut)[j] = W[j]
      BY <1>3, EmptyOutType, JoinOf
    <2>2. out' = W \o EmptyOut
      BY DEF W
    <2>. QED
      BY <1>3, <2>1, <2>2
  <1>5. /\ a \in Nat /\ w \in Nat
        /\ \A p \in 1 .. a : Ahead[p] = inbuf[p]
        /\ \A p \in 1 .. w : Ahead[a + p] = wire[p]
    BY <1>1 DEF AheadIs
  <1>6. /\ Len(Ahead') = a + w + Len(out)
        /\ \A p \in 1 .. a : Ahead'[p] = inbuf[p]
        /\ \A p \in 1 .. w : Ahead'[a + p] = wire[p]
        /\ \A p \in 1 .. Len(out) : Ahead'[a + w + p] = out'[p]
    BY <1>1 DEF AheadIs
  <1>. HIDE DEF a, w
  <1>7. ASSUME NEW p \in 1 .. a + w
        PROVE  Ahead'[p] = Ahead[p]
    <2>1. CASE p <= a
      BY <1>5, <1>6, <2>1
    <2>2. CASE ~(p <= a)
      <3>1. p - a \in 1 .. w /\ a + (p - a) = p
        BY <1>5, <2>2
      <3>. QED
        BY <1>5, <1>6, <3>1
    <2>. QED
      BY <2>1, <2>2
  <1>. QED
    BY <1>4, <1>6, <1>7 DEF Sends, W, a, w

\* A buffer that extends the one there is, with the header filled in, closes
\* the fragment.
LEMMA SendsCloses ==
  ASSUME RecInv, peer = "open",
         NEW b \in Seq(Byte), NEW eor \in BOOLEAN, NEW rest \in Seq(Byte), Sends(b, eor),
         Len(b) \in Len(out) .. SendSize, Whole(Len(b)),
         \A i \in 1 .. frag_header : b[i] = out[i],
         Carries(b, frag_header, rest, OpenRec),
         OpenAt = Len(OpenRec) - Len(rest) - (Len(b) - frag_header - Unit),
         eor \/ Len(b) > frag_header + Unit,
         Len(recs') = IF eor THEN Len(recs) + 1 ELSE Len(recs),
         OpenAt' = IF eor THEN 0 ELSE Len(OpenRec) - Len(rest)
  PROVE  Len(b) - frag_header - Unit \in Nat /\ Closes(Len(b) - frag_header - Unit, eor)
  <1> DEFINE n == Len(b) - frag_header - Unit
             W == WithHeader(b, eor)
             a == Len(inbuf)
             w == Len(wire)
             f == frag_header
  <1>1. /\ SenderSizes /\ Unit \in Nat \ {0} /\ SendSize \in Nat /\ SendSize <= LAST_FRAG
        /\ LAST_FRAG \in Nat
        /\ Len(out) \in Nat /\ f \in Nat /\ f + Unit <= Len(out) /\ Len(OpenRec) \in Nat
        /\ Len(b) \in Nat /\ Len(rest) \in Nat
    BY SenderBefore, Sizes, LastFragHighest, LenProperties
  <1>2. n \in Nat /\ f + Unit <= Len(b)
    BY <1>1
  <1>3. Allowed(n, eor)
    <2>1. Whole(n)
      <3>1. Whole(Len(b) - f)
        BY <1>1, WholeSum DEF SenderSizes
      <3>2. Whole((Len(b) - f) - Unit)
        BY <1>1, <3>1, WholeUnits, WholeSum
      <3>. QED
        BY <3>2
    <2>2. n < LAST_FRAG
      BY <1>1
    <2>3. eor \/ n > 0
      BY <1>1
    <2>. QED
      BY <2>1, <2>2, <2>3 DEF Allowed
  <1>4. /\ \A i \in 1 .. f : W[i] = b[i]
        /\ \A i \in 1 .. Unit : W[f + i] = Bytes(n + (IF eor THEN LAST_FRAG ELSE 0))[i]
        /\ \A i \in 1 .. n : W[f + Unit + i] = b[f + Unit + i]
    BY <1>1, <1>2, WithHeaderType
  <1>5. /\ a \in Nat /\ w \in Nat /\ Len(Ahead) = a + w + f
        /\ \A p \in 1 .. f : Ahead[a + w + p] = out[p]
    BY AheadParts DEF AheadIs
  <1>6. /\ Len(Ahead') = a + w + Len(b)
        /\ \A p \in 1 .. a + w : Ahead'[p] = Ahead[p]
        /\ \A j \in 1 .. Len(b) : Ahead'[a + w + j] = W[j]
    BY DEF Sends
  <1>7. OpenAt >= 0 /\ \A i \in 1 .. n : b[f + Unit + i] = OpenRec[OpenAt + i]
    BY DEF Carries
  <1>. HIDE DEF W, a, w, f
  <1>8. Len(Ahead') = Len(Ahead) + Unit + n
    BY <1>1, <1>5, <1>6 DEF f
  <1>9. ASSUME NEW p \in 1 .. Len(Ahead)
        PROVE  Ahead'[p] = Ahead[p]
    <2>1. CASE p <= a + w
      BY <1>5, <1>6, <2>1
    <2>2. CASE ~(p <= a + w)
      <3>1. PICK j \in 1 .. f : p = a + w + j
        <4>1. p - (a + w) \in 1 .. f /\ p = a + w + (p - (a + w))
          BY <1>1, <1>5, <2>2
        <4>. QED
          BY <4>1
      <3>2. j \in 1 .. Len(b)
        BY <1>1, <1>2 DEF f
      <3>3. b[j] = out[j]
        BY DEF f
      <3>. QED
        BY <1>4, <1>5, <1>6, <3>1, <3>2, <3>3
    <2>. QED
      BY <2>1, <2>2
  <1>10. ASSUME NEW i \in 1 .. Unit
         PROVE  Ahead'[Len(Ahead) + i] = Bytes(n + (IF eor THEN LAST_FRAG ELSE 0))[i]
    <2>1. f + i \in 1 .. Len(b)
      <3>1. f \in Nat /\ Len(b) \in Nat /\ f + Unit <= Len(b) /\ Unit \in Nat
        BY <1>1, <1>2
      <3>. QED
        BY <3>1
    <2>2. Len(Ahead) + i = a + w + (f + i)
      <3>1. f \in Nat /\ Unit \in Nat
        BY <1>1
      <3>. QED
        BY <1>5, <3>1
    <2>. QED
      BY <1>4, <1>6, <2>1, <2>2
  <1>11. ASSUME NEW i \in 1 .. n
         PROVE  Ahead'[Len(Ahead) + Unit + i] = OpenRec[OpenAt + i]
    <2>1. f + Unit + i \in 1 .. Len(b) /\ Len(Ahead) + Unit + i = a + w + (f + Unit + i)
      BY <1>1, <1>2, <1>5 DEF f
    <2>. QED
      BY <1>4, <1>6, <1>7, <2>1
  <1>12. OpenAt \in Nat /\ OpenAt + n = Len(OpenRec) - Len(rest)
    BY <1>1, <1>2, <1>7
  <1>13. OpenAt + n <= Len(OpenRec)
    BY <1>1, <1>12
  <1>14. Closes(n, eor)
    BY <1>3, <1>8, <1>9, <1>10, <1>11, <1>12, <1>13 DEF Closes
  <1>. QED
    BY <1>2, <1>14

\* A flush keeps the labels, whether the connection holds or not.
LEMMA FlushKeepsLabels ==
  ASSUME RecInv, RecInv', Framed, Grows, UNCHANGED <<invars, got>>, peer = "open",
         NEW b \in Seq(Byte), NEW eor \in BOOLEAN, NEW rest \in Seq(Byte), NEW d,
         flush_out(b, eor, d),
         Len(b) \in Len(out) .. SendSize, Whole(Len(b)),
         \A i \in 1 .. frag_header : b[i] = out[i],
         Carries(b, frag_header, rest, OpenRec),
         OpenAt = Len(OpenRec) - Len(rest) - (Len(b) - frag_header - Unit),
         eor \/ Len(b) > frag_header + Unit,
         Len(recs') = IF eor THEN Len(recs) + 1 ELSE Len(recs),
         peer' = "open" => OpenAt' = IF eor THEN 0 ELSE Len(OpenRec) - Len(rest)
  PROVE  Framed'
  <1>1. CASE peer' = "closed" /\ wire' = wire
    BY <1>1, SenderKeepsLabels
  <1>2. CASE peer' = "open" /\ wire' = wire \o WithHeader(b, eor) /\ frag_header' = 0
    <2>1. frag_header + Unit <= Len(b)
      <3>1. /\ Len(out) \in Nat /\ frag_header \in Nat /\ frag_header + Unit <= Len(out)
            /\ Unit \in Nat /\ SendSize \in Nat
        BY SenderBefore
      <3>. QED
        BY <3>1
    <2>2. Sends(b, eor)
      BY <1>2, <2>1, FlushSends DEF invars
    <2>3. Len(b) - frag_header - Unit \in Nat /\ Closes(Len(b) - frag_header - Unit, eor)
      BY <1>2, <2>2, SendsCloses
    <2>. QED
      BY <2>3, ClosesKeepsLabels
  <1>. QED
    BY <1>1, <1>2 DEF flush_out

\* xdrrec_putlong() keeps the labels.
LEMMA PutlongFramed ==
  ASSUME RecInv, RecInv', Framed, xdrrec_putlong
  PROVE  Framed'
  <1> DEFINE d == Fresh(1)
  <1>1. /\ SenderTypes /\ SenderSizes
        /\ Unit \in Nat \ {0} /\ SendSize \in Nat /\ Whole(SendSize)
        /\ Len(out) \in Nat /\ frag_header \in Nat /\ frag_header + Unit <= Len(out)
        /\ Len(OpenRec) \in Nat
    BY SenderBefore
  <1>2. /\ peer = "open" /\ pending = <<>> /\ Extend(d)
        /\ UNCHANGED <<pending, invars, got>>
    BY DEF xdrrec_putlong, CanWrite
  <1>3. /\ IF Len(out) + Unit > SendSize
           THEN frag_sent' = TRUE /\ flush_out(out, FALSE, d)
           ELSE out' = out \o d /\ UNCHANGED <<frag_header, frag_sent, wire, peer>>
    BY DEF xdrrec_putlong
  <1>4. d \in Seq(Byte) /\ Len(d) = Unit /\ Whole(Len(d))
    BY <1>1, FreshUnits
  <1>. HIDE DEF d
  <1>5. Grows
    BY <1>1, <1>2, <1>4, GrowsByData
  <1>6. Len(recs') = Len(recs) /\ Len(OpenRec') = Len(OpenRec) + Unit
    BY <1>1, <1>2, <1>4, ExtendRecord
  <1>7. /\ Len(pending) = 0 /\ Len(pending') = 0 /\ <<>> \in Seq(Byte) /\ Len(<<>>) = 0
        /\ out \in Seq(Byte)
    BY <1>1, <1>2, EmptySeq DEF SenderTypes
  <1>8. OpenAt = Len(OpenRec) - Len(<<>>) - (Len(out) - frag_header - Unit)
    BY <1>7 DEF OpenAt, OpenRec
  <1>9. OpenAt' = Len(OpenRec') - 0 - (Len(out') - frag_header' - Unit)
    BY <1>7 DEF OpenAt, OpenRec
  <1>10. CASE Len(out) + Unit > SendSize
    <2>1. flush_out(out, FALSE, d)
      BY <1>3, <1>10
    <2>2. ASSUME peer' = "open"
          PROVE  OpenAt' = Len(OpenRec) - Len(<<>>)
      <3>1. out' = EmptyOut \o d /\ frag_header' = 0
        BY <2>1, <2>2 DEF flush_out
      <3>2. Len(out') = Unit + Unit
        <4>1. EmptyOut \in Seq(Byte) /\ d \in Seq(Byte)
          BY <1>4, EmptyOutType
        <4>2. Len(EmptyOut \o d) = Len(EmptyOut) + Len(d)
          BY ONLY <4>1, JoinOf
        <4>. QED
          BY <1>4, <3>1, <4>2, EmptyOutType
      <3>. QED
        BY <1>1, <1>6, <1>7, <1>9, <3>1, <3>2
    <2>3. Len(out) > frag_header + Unit
      <3>1. ASSUME Len(out) < SendSize
            PROVE  Len(out) + Unit <= SendSize
        BY <1>1, <3>1, WholeApart DEF SenderSizes
      <3>. QED
        BY <1>1, <1>10, <3>1 DEF SenderSizes
    <2>4. Len(out) \in Len(out) .. SendSize /\ Whole(Len(out))
      BY <1>1 DEF SenderTypes, SenderSizes
    <2>5. Carries(out, frag_header, <<>>, OpenRec)
      BY <1>2, SenderBefore
    <2>. QED
      BY <1>2, <1>5, <1>6, <1>7, <1>8, <2>1, <2>2, <2>3, <2>4, <2>5, FlushKeepsLabels
  <1>11. CASE ~(Len(out) + Unit > SendSize)
    <2>1. out' = out \o d /\ UNCHANGED <<frag_header, wire, peer>>
      BY <1>3, <1>11
    <2>2. Len(out') = Len(out) + Unit /\ \A i \in 1 .. Len(out) : out'[i] = out[i]
      BY <1>4, <1>7, <2>1, JoinOf
    <2>3. \A p \in 1 .. frag_header : out'[p] = out[p]
      BY <1>1, <2>2
    <2>4. OpenAt' = OpenAt
      BY <1>1, <1>6, <1>7, <1>8, <1>9, <2>1, <2>2
    <2>. QED
      BY <1>2, <1>5, <1>6, <2>1, <2>3, <2>4, SenderKeepsLabels
  <1>. QED
    BY <1>10, <1>11

\* xdrrec_inline() for encoding keeps them,
LEMMA InlineEncodeFramed ==
  ASSUME RecInv, RecInv', Framed, NEW units \in Nat, xdrrec_inline_encode(units)
  PROVE  Framed'
  <1> DEFINE d == Fresh(units)
  <1>1. /\ SenderTypes /\ Unit \in Nat \ {0}
        /\ Len(out) \in Nat /\ frag_header \in Nat /\ frag_header + Unit <= Len(out)
        /\ Len(OpenRec) \in Nat /\ out \in Seq(Byte) /\ Len(pending) \in Nat
    BY SenderBefore DEF SenderTypes
  <1>2. /\ peer = "open" /\ Extend(d) /\ out' = out \o d
        /\ UNCHANGED <<frag_header, pending, wire, peer, invars, got>>
    BY DEF xdrrec_inline_encode, CanWrite
  <1>3. d \in Seq(Byte) /\ Len(d) \in Nat
    BY <1>1, FreshUnits
  <1>. HIDE DEF d
  <1>4. Grows
    BY <1>1, <1>2, <1>3, GrowsByData
  <1>5. Len(recs') = Len(recs) /\ Len(OpenRec') = Len(OpenRec) + Len(d)
    BY <1>1, <1>2, <1>3, ExtendRecord
  <1>6. Len(out') = Len(out) + Len(d) /\ \A i \in 1 .. Len(out) : out'[i] = out[i]
    BY <1>1, <1>2, <1>3, JoinOf
  <1>7. \A p \in 1 .. frag_header : out'[p] = out[p]
    BY <1>1, <1>6
  <1>8. OpenAt' = OpenAt
    <2>1. OpenAt = Len(OpenRec) - Len(pending) - (Len(out) - frag_header - Unit)
      BY DEF OpenAt, OpenRec
    <2>2. OpenAt' = Len(OpenRec') - Len(pending) - (Len(out') - frag_header - Unit)
      BY <1>2 DEF OpenAt, OpenRec
    <2>. QED
      BY <1>1, <1>3, <1>5, <1>6, <2>1, <2>2
  <1>. QED
    BY <1>2, <1>4, <1>5, <1>7, <1>8, SenderKeepsLabels

\* and so does xdrrec_putbytes() before its loop
LEMMA PutbytesFramed ==
  ASSUME RecInv, RecInv', Framed, NEW units \in Nat, xdrrec_putbytes(units)
  PROVE  Framed'
  <1> DEFINE d == Fresh(units)
  <1>1. /\ SenderTypes /\ Unit \in Nat \ {0}
        /\ Len(out) \in Nat /\ frag_header \in Nat /\ Len(OpenRec) \in Nat
    BY SenderBefore
  <1>2. /\ peer = "open" /\ pending = <<>> /\ Extend(d) /\ pending' = d
        /\ UNCHANGED <<out, frag_header, wire, peer, invars, got>>
    BY DEF xdrrec_putbytes, CanWrite
  <1>3. d \in Seq(Byte) /\ Len(d) \in Nat
    BY <1>1, FreshUnits
  <1>. HIDE DEF d
  <1>4. Grows
    BY <1>1, <1>2, <1>3, GrowsByData
  <1>5. Len(recs') = Len(recs) /\ Len(OpenRec') = Len(OpenRec) + Len(d)
    BY <1>1, <1>2, <1>3, ExtendRecord
  <1>6. OpenAt' = OpenAt
    <2>1. OpenAt = Len(OpenRec) - 0 - (Len(out) - frag_header - Unit)
      BY <1>2, EmptySeq DEF OpenAt, OpenRec
    <2>2. OpenAt' = Len(OpenRec') - Len(d) - (Len(out) - frag_header - Unit)
      BY <1>2 DEF OpenAt, OpenRec
    <2>. QED
      BY <1>1, <1>3, <1>5, <2>1, <2>2
  <1>. QED
    BY <1>2, <1>4, <1>5, <1>6, SenderKeepsLabels

\* and a round of it.
LEMMA PutbytesRoundFramed ==
  ASSUME RecInv, RecInv', Framed, PutbytesRound
  PROVE  Framed'
  <1> DEFINE n    == Min({SendSize - Len(out), Len(pending)})
             full == out \o SubSeq(pending, 1, n)
             rest == SubSeq(pending, n + 1, Len(pending))
  <1>1. /\ SenderTypes /\ SenderSizes
        /\ Unit \in Nat \ {0} /\ SendSize \in Nat /\ out \in Seq(Byte) /\ pending \in Seq(Byte)
        /\ Len(out) \in Nat /\ frag_header \in Nat /\ frag_header + Unit <= Len(out)
        /\ Len(OpenRec) \in Nat /\ Len(pending) \in Nat
    BY SenderBefore DEF SenderTypes
  <1>2. /\ full \in Seq(Byte) /\ Len(full) \in Len(out) .. SendSize /\ Whole(Len(full))
        /\ rest \in Seq(Byte) /\ Len(rest) = Len(pending) - n
        /\ Len(full) = Len(out) + n /\ n \in 0 .. Len(pending)
        /\ n < Len(pending) => n = SendSize - Len(out)
        /\ peer = "open" => Carries(full, frag_header, rest, OpenRec)
    BY RoundStores
  <1>3. /\ peer = "open"
        /\ IF n < Len(pending)
           THEN frag_sent' = TRUE /\ flush_out(full, FALSE, <<>>)
           ELSE out' = full /\ UNCHANGED <<frag_header, frag_sent, wire, peer>>
        /\ pending' = rest
        /\ UNCHANGED <<invars, recs, got>>
    BY DEF PutbytesRound
  <1>4. \A i \in 1 .. Len(out) : full[i] = out[i]
    <2>1. SubSeq(pending, 1, n) \in Seq(Byte)
      BY <1>1, <1>2, FrontOf
    <2>2. out \in Seq(Byte)
      BY <1>1
    <2>. QED
      BY <2>1, <2>2, JoinOf
  <1>. HIDE DEF n, full, rest
  <1>5. \A i \in 1 .. frag_header : full[i] = out[i]
    BY <1>1, <1>4
  <1>6. Grows
    BY <1>1, <1>3, GrowsNot
  <1>7. OpenAt = Len(OpenRec) - Len(rest) - (Len(full) - frag_header - Unit)
    <2>1. OpenAt = Len(OpenRec) - Len(pending) - (Len(out) - frag_header - Unit)
      BY DEF OpenAt, OpenRec
    <2>. QED
      BY <1>1, <1>2, <2>1
  <1>8. OpenAt' = Len(OpenRec) - Len(rest) - (Len(out') - frag_header' - Unit)
    BY <1>3 DEF OpenAt, OpenRec
  <1>9. CASE n < Len(pending)
    <2>1. flush_out(full, FALSE, <<>>)
      BY <1>3, <1>9
    <2>2. Len(full) > frag_header + Unit
      BY <1>1, <1>2, <1>9 DEF SenderSizes
    <2>3. ASSUME peer' = "open"
          PROVE  OpenAt' = Len(OpenRec) - Len(rest)
      <3>1. out' = EmptyOut \o <<>> /\ frag_header' = 0
        BY <2>1, <2>3 DEF flush_out
      <3>2. Len(out') = Unit
        BY <3>1, EmptyOutType, ConcatEmptySeq
      <3>3. Len(rest) \in Nat
        BY <1>2, LenProperties
      <3>. QED
        BY <1>1, <1>8, <3>1, <3>2, <3>3
    <2>. QED
      BY <1>2, <1>3, <1>5, <1>6, <1>7, <2>1, <2>2, <2>3, FlushKeepsLabels
  <1>10. CASE ~(n < Len(pending))
    <2>1. out' = full /\ UNCHANGED <<frag_header, wire, peer>>
      BY <1>3, <1>10
    <2>2. OpenAt' = OpenAt
      BY <1>7, <1>8, <2>1
    <2>. QED
      BY <1>3, <1>5, <1>6, <2>1, <2>2, SenderKeepsLabels
  <1>. QED
    BY <1>9, <1>10

\* xdrrec_endofrecord() keeps the labels,
LEMMA EndofrecordFramed ==
  ASSUME RecInv, RecInv', Framed, NEW sendnow \in BOOLEAN, xdrrec_endofrecord(sendnow)
  PROVE  Framed'
  <1>1. /\ SenderTypes /\ SenderSizes
        /\ Unit \in Nat \ {0} /\ SendSize \in Nat
        /\ Len(out) \in Nat /\ frag_header \in Nat /\ frag_header + Unit <= Len(out)
        /\ out \in Seq(Byte) /\ Len(out) <= SendSize /\ Len(OpenRec) \in Nat
    BY SenderBefore DEF SenderTypes
  <1>2. /\ peer = "open" /\ pending = <<>> /\ recs' = Append(recs, <<>>)
        /\ IF sendnow \/ frag_sent \/ TooFull
           THEN frag_sent' = FALSE /\ flush_out(out, TRUE, <<>>)
           ELSE /\ out' = WithHeader(out, TRUE) \o EmptyOut
                /\ frag_header' = Len(out)
                /\ UNCHANGED <<frag_sent, wire, peer>>
        /\ UNCHANGED <<pending, invars, got>>
    BY DEF xdrrec_endofrecord, CanWrite
  <1>3. Grows /\ Len(recs') = Len(recs) + 1 /\ OpenRec' = <<>>
    BY <1>1, <1>2, GrowsByRecord, AppendRecord
  <1>4. <<>> \in Seq(Byte) /\ Len(<<>>) = 0
    BY EmptySeq
  <1>5. Carries(out, frag_header, <<>>, OpenRec)
    BY <1>2, SenderBefore
  <1>6. OpenAt = Len(OpenRec) - Len(<<>>) - (Len(out) - frag_header - Unit)
    BY <1>2 DEF OpenAt, OpenRec
  <1>7. OpenAt' = 0 - 0 - (Len(out') - frag_header' - Unit)
    <2>1. OpenAt' = Len(OpenRec') - Len(pending') - (Len(out') - frag_header' - Unit)
      BY DEF OpenAt, OpenRec
    <2>. QED
      BY <1>2, <1>3, <1>4, <2>1
  <1>8. Len(out) \in Len(out) .. SendSize /\ Whole(Len(out))
    BY <1>1 DEF SenderSizes
  <1>9. CASE sendnow \/ frag_sent \/ TooFull
    <2>1. flush_out(out, TRUE, <<>>)
      BY <1>2, <1>9
    <2>2. ASSUME peer' = "open"
          PROVE  OpenAt' = 0
      <3>1. out' = EmptyOut \o <<>> /\ frag_header' = 0
        BY <2>1, <2>2 DEF flush_out
      <3>2. Len(out') = Unit
        BY <3>1, EmptyOutType, ConcatEmptySeq
      <3>. QED
        BY <1>1, <1>7, <3>1, <3>2
    <2>. QED
      BY <1>1, <1>2, <1>3, <1>4, <1>5, <1>6, <1>8, <2>1, <2>2, FlushKeepsLabels
  <1>10. CASE ~(sendnow \/ frag_sent \/ TooFull)
    <2>1. /\ out' = WithHeader(out, TRUE) \o EmptyOut /\ frag_header' = Len(out)
          /\ UNCHANGED <<wire, peer>>
      BY <1>2, <1>10
    <2>2. Len(out') = Len(out) + Unit
      <3>1. WithHeader(out, TRUE) \in Seq(Byte) /\ Len(WithHeader(out, TRUE)) = Len(out)
        BY <1>1, WithHeaderType
      <3>2. WithHeader(out, TRUE) \in Seq(Byte) /\ EmptyOut \in Seq(Byte)
        BY <3>1, EmptyOutType
      <3>3. Len(WithHeader(out, TRUE) \o EmptyOut) = Len(WithHeader(out, TRUE)) + Len(EmptyOut)
        BY ONLY <3>2, JoinOf
      <3>. QED
        BY <2>1, <3>1, <3>3, EmptyOutType
    <2>3. OpenAt' = 0
      <3>1. OpenAt' = 0 - 0 - ((Len(out) + Unit) - Len(out) - Unit)
        BY <1>7, <2>1, <2>2
      <3>2. Len(out) \in Nat /\ Unit \in Nat
        BY <1>1
      <3>. QED
        BY <3>1, <3>2
    <2>4. Sends(out, TRUE)
      BY <1>2, <2>1, EndSends DEF invars
    <2>5. Len(out) - frag_header - Unit \in Nat /\ Closes(Len(out) - frag_header - Unit, TRUE)
      <3>1. /\ Len(recs') = IF TRUE THEN Len(recs) + 1 ELSE Len(recs)
            /\ OpenAt' = IF TRUE THEN 0 ELSE Len(OpenRec) - Len(<<>>)
        BY <1>3, <2>3
      <3>2. out \in Seq(Byte) /\ peer = "open"
        BY <1>1, <1>2
      <3>. QED
        BY <1>4, <1>5, <1>6, <1>8, <2>4, <3>1, <3>2, SendsCloses
    <2>. QED
      BY <1>2, <1>3, <2>5, ClosesKeepsLabels
  <1>. QED
    BY <1>9, <1>10

\* and the sender may leave: what it has sent can still be read.
LEMMA CloseFramed ==
  ASSUME RecInv, RecInv', Framed, Close
  PROVE  Framed'
  <1>1. peer = "open" /\ peer' = "closed" /\ UNCHANGED <<outvars, wire, invars, recs, got>>
    BY DEF Close
  <1>2. Grows
    BY <1>1, SenderBefore, GrowsNot
  <1>. QED
    BY <1>1, <1>2, SenderKeepsLabels

-----------------------------------------------------------------------------
(* The labels that the reader goes through.                                *)

\* The fragment of two headers is the same.
SameFragment(l, m) == m.rec = l.rec /\ m.at = l.at /\ m.n = l.n /\ m.last = l.last

\* m is the label i bytes behind the label l of data, at most at the header
\* behind the fragment.
DataBehind(l, m, i) ==
  IF i < l.n
  THEN m.h = 0 /\ m.rec = l.rec /\ m.at = l.at + i /\ m.n = l.n - i /\ m.last = l.last
  ELSE Heads(m, l.rec, l.at + i, l.last)

\* Behind a byte of a header that is not its last one.
LEMMA BehindHeaderByte ==
  ASSUME NEW l \in Label, NEW m, Follows(l, m), l.h \in 1 .. Unit - 1
  PROVE  m.h = l.h + 1 /\ SameFragment(l, m)
  <1>1. Unit \in Nat \ {0} /\ l.h \in Int /\ l.h # Unit /\ l.h # 0
    BY Sizes DEF Label
  <1>2. m = [l EXCEPT !.h = @ + 1]
    BY <1>1 DEF Follows
  <1>. QED
    BY <1>2 DEF Label, SameFragment

\* Behind a header.
LEMMA BehindHeader ==
  ASSUME NEW l \in Label, NEW m, Follows(l, m), l.h = Unit
  PROVE  /\ l.n > 0 => m.h = 0 /\ SameFragment(l, m)
         /\ l.n = 0 => Heads(m, l.rec, l.at, l.last)
  <1>1. Unit \in Nat \ {0} /\ ~(l.h \in 1 .. Unit - 1) /\ l.h # 0 /\ l.n \in Nat
    BY Sizes DEF Label
  <1>2. \/ l.n > 0 /\ m = [l EXCEPT !.h = 0]
        \/ l.n = 0 /\ Heads(m, l.rec, l.at, l.last)
    BY <1>1 DEF Follows
  <1>3. m = [l EXCEPT !.h = 0] => m.h = 0 /\ SameFragment(l, m)
    BY DEF Label, SameFragment
  <1>. QED
    BY <1>1, <1>2, <1>3

\* Behind a byte of data.
LEMMA BehindData ==
  ASSUME NEW l \in Label, NEW m, Follows(l, m), l.h = 0
  PROVE  l.n >= 1 /\ DataBehind(l, m, 1)
  <1>1. Unit \in Nat \ {0} /\ ~(l.h \in 1 .. Unit - 1) /\ l.h # Unit /\ l.n \in Nat
    BY Sizes DEF Label
  <1>2. \/ l.n > 1 /\ m = [l EXCEPT !.at = @ + 1, !.n = @ - 1]
        \/ l.n = 1 /\ Heads(m, l.rec, l.at + 1, l.last)
    BY <1>1 DEF Follows
  <1>3. ASSUME m = [l EXCEPT !.at = @ + 1, !.n = @ - 1]
        PROVE  m.h = l.h /\ m.rec = l.rec /\ m.at = l.at + 1 /\ m.n = l.n - 1 /\ m.last = l.last
    BY <1>3 DEF Label
  <1>. QED
    BY <1>1, <1>2, <1>3 DEF DataBehind

\* The bytes of a header.
LEMMA HeaderRun ==
  ASSUME NEW A \in Nat, NEW L \in [1 .. A + 1 -> Label],
         \A p \in 1 .. A : Follows(L[p], L[p + 1]),
         NEW m \in 0 .. A, L[1].h > 0, L[1].h + m <= Unit
  PROVE  \A i \in 0 .. m : L[i + 1].h = L[1].h + i /\ SameFragment(L[1], L[i + 1])
  <1> DEFINE T == {i \in 0 .. m : L[i + 1].h = L[1].h + i /\ SameFragment(L[1], L[i + 1])}
  <1>1. Unit \in Nat \ {0} /\ L[1].h \in Nat
    <2>1. 1 \in 1 .. A + 1
      OBVIOUS
    <2>2. L[1] \in Label
      BY <2>1
    <2>. QED
      BY <2>2, Sizes DEF Label
  <1>2. 0 \in T
    BY <1>1 DEF SameFragment
  <1>3. ASSUME NEW i \in 1 .. m, i - 1 \in T
        PROVE  i \in T
    <2>1. i \in 1 .. A /\ i \in 1 .. A + 1 /\ (i - 1) + 1 = i
      OBVIOUS
    <2>2. L[i].h = L[1].h + (i - 1) /\ SameFragment(L[1], L[i])
      BY <1>3, <2>1
    <2>3. L[i] \in Label /\ Follows(L[i], L[i + 1])
      BY <2>1
    <2>4. L[i].h \in 1 .. Unit - 1
      <3>1. PICK a \in Nat : a = L[1].h
        BY <1>1
      <3>2. L[i].h = a + (i - 1) /\ a > 0 /\ a + m <= Unit
        BY <2>2, <3>1
      <3>. QED
        BY <1>1, <3>2
    <2>5. L[i + 1].h = L[i].h + 1 /\ SameFragment(L[i], L[i + 1])
      BY <2>3, <2>4, BehindHeaderByte
    <2>6. L[i + 1].h = L[1].h + i
      BY <1>1, <2>2, <2>5
    <2>7. SameFragment(L[1], L[i + 1])
      BY <2>2, <2>5 DEF SameFragment
    <2>. QED
      BY <2>6, <2>7
  <1>4. T = 0 .. m
    <2>1. T \in SUBSET (0 .. m) /\ m \in Nat
      OBVIOUS
    <2>. HIDE DEF T
    <2>. QED
      BY <1>2, <1>3, <2>1, LoopInduction
  <1>. QED
    BY <1>4

\* The bytes of a fragment.
LEMMA DataRun ==
  ASSUME NEW A \in Nat, NEW L \in [1 .. A + 1 -> Label],
         \A p \in 1 .. A : Follows(L[p], L[p + 1]),
         NEW m \in 0 .. A, L[1].h = 0, L[1].n > 0, m <= L[1].n
  PROVE  \A i \in 0 .. m : DataBehind(L[1], L[i + 1], i)
  <1> DEFINE T == {i \in 0 .. m : DataBehind(L[1], L[i + 1], i)}
  <1>1. PICK l \in Label : l = L[1]
    <2>1. 1 \in 1 .. A + 1
      OBVIOUS
    <2>. QED
      BY <2>1
  <1>2. l.at \in Nat /\ l.n \in Nat /\ l.h = 0 /\ l.n > 0 /\ m <= l.n
    BY <1>1 DEF Label
  <1>3. 0 \in T
    BY <1>1, <1>2 DEF DataBehind
  <1>4. ASSUME NEW i \in 1 .. m, i - 1 \in T
        PROVE  i \in T
    <2>1. i \in 1 .. A /\ i \in 1 .. A + 1 /\ (i - 1) + 1 = i
      OBVIOUS
    <2>2. DataBehind(l, L[i], i - 1)
      BY <1>1, <1>4, <2>1
    <2>3. L[i] \in Label /\ Follows(L[i], L[i + 1])
      BY <2>1
    <2>4. PICK k \in Label : k = L[i]
      BY <2>3
    <2>5. PICK j : j = L[i + 1]
      OBVIOUS
    <2>6. i - 1 < l.n
      BY <1>2
    <2>7. /\ k.h = 0 /\ k.rec = l.rec /\ k.at = l.at + (i - 1) /\ k.n = l.n - (i - 1)
          /\ k.last = l.last
      BY <2>2, <2>4, <2>6 DEF DataBehind
    <2>8. DataBehind(k, j, 1)
      BY <2>3, <2>4, <2>5, <2>7, BehindData
    <2>9. CASE i < l.n
      <3>1. 1 < k.n
        BY <1>2, <2>7, <2>9
      <3>2. j.h = 0 /\ j.rec = k.rec /\ j.at = k.at + 1 /\ j.n = k.n - 1 /\ j.last = k.last
        BY <2>8, <3>1 DEF DataBehind
      <3>3. j.at = l.at + i /\ j.n = l.n - i
        BY <1>2, <2>7, <3>2
      <3>4. DataBehind(l, j, i)
        BY <2>7, <2>9, <3>2, <3>3 DEF DataBehind
      <3>. QED
        BY <1>1, <2>5, <3>4
    <2>10. CASE ~(i < l.n)
      <3>1. ~(1 < k.n)
        BY <1>2, <2>7, <2>10
      <3>2. Heads(j, k.rec, k.at + 1, k.last)
        BY <2>8, <3>1 DEF DataBehind
      <3>3. k.at + 1 = l.at + i
        BY <1>2, <2>7
      <3>4. Heads(j, l.rec, l.at + i, l.last)
        BY <2>7, <3>2, <3>3
      <3>5. DataBehind(l, j, i)
        BY <2>10, <3>4 DEF DataBehind
      <3>. QED
        BY <1>1, <2>5, <3>5
    <2>. QED
      BY <2>9, <2>10
  <1>5. T = 0 .. m
    <2>1. T \in SUBSET (0 .. m) /\ m \in Nat
      OBVIOUS
    <2>. HIDE DEF T
    <2>. QED
      BY <1>3, <1>4, <2>1, LoopInduction
  <1>. QED
    BY <1>5

-----------------------------------------------------------------------------
(* The steps of the reader keep the labels.                                *)

\* The reader has taken k bytes from the buffer.
Moves(k) ==
  /\ UNCHANGED <<outvars, wire, peer, in_boundry, recs>>
  /\ k \in 0 .. Len(inbuf) /\ Len(inbuf') = Len(inbuf) - k
  /\ \A i \in 1 .. Len(inbuf) - k : inbuf'[i] = inbuf[k + i]

\* The bytes under way are those behind them.
LEMMA MovesAhead ==
  ASSUME RecInv, RecInv', NEW k \in Nat, Moves(k)
  PROVE  /\ k <= Len(Ahead) /\ Len(Ahead') = Len(Ahead) - k
         /\ \A p \in 1 .. Len(Ahead) - k : Ahead'[p] = Ahead[k + p]
  <1> DEFINE a == Len(inbuf)
             w == Len(wire)
             f == IF peer = "open" THEN frag_header ELSE 0
  <1>1. AheadIs /\ AheadIs'
    BY AheadParts, AheadPartsAfter
  <1>2. /\ wire' = wire /\ peer' = peer /\ out' = out /\ frag_header' = frag_header
        /\ k <= a /\ Len(inbuf') = a - k
        /\ \A i \in 1 .. a - k : inbuf'[i] = inbuf[k + i]
    BY DEF Moves, outvars
  <1>3. /\ a \in Nat /\ w \in Nat /\ f \in Nat /\ Len(Ahead) = a + w + f
        /\ \A p \in 1 .. a : Ahead[p] = inbuf[p]
        /\ \A p \in 1 .. w : Ahead[a + p] = wire[p]
        /\ \A p \in 1 .. f : Ahead[a + w + p] = out[p]
    BY <1>1 DEF AheadIs
  <1>4. /\ Len(Ahead') = (a - k) + w + f
        /\ \A p \in 1 .. a - k : Ahead'[p] = inbuf'[p]
        /\ \A p \in 1 .. w : Ahead'[(a - k) + p] = wire[p]
        /\ \A p \in 1 .. f : Ahead'[(a - k) + w + p] = out[p]
    BY <1>1, <1>2 DEF AheadIs
  <1>. HIDE DEF a, w, f
  <1>5. k <= Len(Ahead) /\ Len(Ahead') = Len(Ahead) - k
    BY <1>2, <1>3, <1>4
  <1>6. ASSUME NEW p \in 1 .. Len(Ahead) - k
        PROVE  Ahead'[p] = Ahead[k + p]
    <2>1. p \in Nat /\ p >= 1 /\ p <= (a - k) + w + f
      BY <1>3
    <2>2. CASE p <= a - k
      <3>1. p \in 1 .. a - k /\ k + p \in 1 .. a
        BY <1>2, <1>3, <2>1, <2>2
      <3>2. Ahead'[p] = inbuf'[p] /\ inbuf'[p] = inbuf[k + p] /\ Ahead[k + p] = inbuf[k + p]
        BY <1>2, <1>3, <1>4, <3>1
      <3>. QED
        BY <3>2
    <2>3. CASE ~(p <= a - k) /\ p <= (a - k) + w
      <3>1. PICK q \in 1 .. w : p = (a - k) + q
        <4>1. p - (a - k) \in 1 .. w /\ p = (a - k) + (p - (a - k))
          <5>1. a \in Nat /\ w \in Nat /\ k <= a
            BY <1>2, <1>3
          <5>. QED
            BY <2>1, <2>3, <5>1
        <4>. QED
          BY <4>1
      <3>2. k + p = a + q
        BY <1>3, <3>1
      <3>3. Ahead'[p] = wire[q] /\ Ahead[a + q] = wire[q]
        BY <1>3, <1>4, <3>1
      <3>. QED
        BY <3>2, <3>3
    <2>4. CASE ~(p <= (a - k) + w)
      <3>1. PICK q \in 1 .. f : p = (a - k) + w + q
        <4>1. p - ((a - k) + w) \in 1 .. f /\ p = (a - k) + w + (p - ((a - k) + w))
          BY <1>2, <1>3, <2>1, <2>4
        <4>. QED
          BY <4>1
      <3>2. k + p = a + w + q
        BY <1>3, <3>1
      <3>3. Ahead'[p] = out[q] /\ Ahead[a + w + q] = out[q]
        BY <1>3, <1>4, <3>1
      <3>. QED
        BY <3>2, <3>3
    <2>. QED
      BY <2>2, <2>3, <2>4
  <1>. QED
    BY <1>5, <1>6

\* The labels that are left are right, if the first is what the reader expects.
LEMMA Advance ==
  ASSUME RecInv, RecInv', NEW k \in Nat, Moves(k),
         NEW L \in [1 .. Len(Ahead) + 1 -> Label], Labels(L), ReaderAt(L[k + 1])'
  PROVE  Framed'
  <1>1. /\ k <= Len(Ahead) /\ Len(Ahead') = Len(Ahead) - k
        /\ \A p \in 1 .. Len(Ahead) - k : Ahead'[p] = Ahead[k + p]
    BY MovesAhead
  <1>2. PICK A \in Nat : A = Len(Ahead)
    BY AheadParts DEF AheadIs
  <1>3. PICK B \in Nat : B = A - k
    <2>1. A - k \in Nat
      BY <1>1, <1>2
    <2>. QED
      BY <2>1
  <1>4. PICK c \in Int : c = Origin
    <2>1. in_boundry \in Int /\ Len(inbuf) \in Int
      BY ReaderBefore DEF ReaderTypes
    <2>. QED
      BY <2>1 DEF Origin
  <1>5. Origin' = c + k
    <2>1. in_boundry \in Int /\ Len(inbuf) \in Int
      BY ReaderBefore DEF ReaderTypes
    <2>2. Origin' = in_boundry - (Len(inbuf) - k)
      BY DEF Origin, Moves
    <2>. QED
      BY <1>4, <2>1, <2>2 DEF Origin
  <1>6. PICK M \in [1 .. B + 1 -> Label] : \A p \in 1 .. B + 1 : M[p] = L[k + p]
    <2> DEFINE M == [p \in 1 .. B + 1 |-> L[k + p]]
    <2>1. \A p \in 1 .. B + 1 : k + p \in 1 .. A + 1
      BY <1>3
    <2>2. M \in [1 .. B + 1 -> Label] /\ \A p \in 1 .. B + 1 : M[p] = L[k + p]
      BY <1>2, <2>1
    <2>. QED
      BY <2>2
  <1>7. /\ \A p \in 1 .. A + 1 : Legal(L[p]) /\ Aligned(L[p], c, p)
        /\ \A p \in 1 .. A : HoldsIn(L[p], Ahead[p], recs) /\ Follows(L[p], L[p + 1])
        /\ peer = "open" => WriterAt(L[A + 1])
    BY <1>2, <1>4, LabelsBefore
  <1>8. ASSUME NEW p \in 1 .. B + 1
        PROVE  Legal(M[p]) /\ Aligned(M[p], Origin', p)
    <2>1. k + p \in 1 .. A + 1
      BY <1>3
    <2>2. M[p] = L[k + p] /\ Legal(L[k + p]) /\ Aligned(L[k + p], c, k + p)
      BY <1>6, <1>7, <2>1
    <2>3. PICK x \in Int : x = IF L[k + p].h > 0 THEN L[k + p].h ELSE L[k + p].at
      <3>1. PICK l \in Label : l = L[k + p]
        BY <1>2, <2>1
      <3>2. (IF l.h > 0 THEN l.h ELSE l.at) \in Int
        BY Sizes DEF Label
      <3>. QED
        BY <3>1, <3>2
    <2>4. Aligned(L[k + p], c + k, p)
      <3>1. c + (k + p) - x = (c + k) + p - x
        OBVIOUS
      <3>2. Whole(c + (k + p) - x)
        BY <2>2, <2>3 DEF Aligned
      <3>3. Whole((c + k) + p - x)
        BY <3>1, <3>2
      <3>. QED
        BY <2>3, <3>3 DEF Aligned
    <2>. QED
      BY <1>5, <2>2, <2>4
  <1>9. ASSUME NEW p \in 1 .. B
        PROVE  HoldsIn(M[p], Ahead'[p], recs') /\ Follows(M[p], M[p + 1])
    <2>1. /\ k + p \in 1 .. A /\ p \in 1 .. B + 1 /\ p + 1 \in 1 .. B + 1
          /\ k + (p + 1) = (k + p) + 1 /\ p \in 1 .. A - k
      BY <1>3
    <2>2. M[p] = L[k + p] /\ M[p + 1] = L[(k + p) + 1] /\ Ahead'[p] = Ahead[k + p]
      BY <1>1, <1>2, <1>6, <2>1
    <2>3. HoldsIn(L[k + p], Ahead[k + p], recs) /\ Follows(L[k + p], L[(k + p) + 1])
      BY <1>7, <2>1
    <2>4. recs' = recs
      BY DEF Moves
    <2>. QED
      BY <2>2, <2>3, <2>4
  <1>10. ReaderAt(M[1])'
    <2>1. M[1] = L[k + 1]
      BY <1>6
    <2>. QED
      BY <2>1
  <1>11. peer' = "open" => WriterAt(M[B + 1])'
    <2>1. M[B + 1] = L[A + 1]
      <3>1. k + (B + 1) = A + 1 /\ B + 1 \in 1 .. B + 1
        BY <1>3
      <3>. QED
        BY <1>6, <3>1
    <2>2. peer' = "open" => WriterAt(L[A + 1])
      BY <1>7 DEF Moves
    <2>3. OpenAt' = OpenAt /\ recs' = recs
      BY DEF OpenAt, Moves, outvars
    <2>. QED
      BY <2>1, <2>2, <2>3 DEF WriterAt
  <1>12. B = Len(Ahead')
    BY <1>1, <1>2, <1>3
  <1>. QED
    BY <1>8, <1>9, <1>10, <1>11, <1>12, LabelsAfter

\* fill_input_buf() moves bytes that stay under way, and keeps their places
\* modulo the unit.
LEMMA FillFramed ==
  ASSUME RecInv, RecInv', Framed, NEW k \in Nat, k > 0, fill_input_buf(k)
  PROVE  Framed'
  <1>1. /\ inbuf = <<>> /\ in_boundry' = (in_boundry + k) % Unit
        /\ UNCHANGED <<outvars, peer, fbtbc, last_frag, rpc, len, current, left, header,
                       strm_stat, timeouts, recs, got>>
    BY DEF fill_input_buf, Phase
  <1>2. k <= Len(wire) /\ inbuf' = SubSeq(wire, 1, k) /\ wire' = SubSeq(wire, k + 1, Len(wire))
    BY FillKeeps
  <1>3. CASE Over
    <2>1. wire # <<>>
      BY <1>2, EmptySeq
    <2>. QED
      BY <1>1, <1>3, <2>1 DEF Over, Framed
  <1>4. ASSUME NEW L \in [1 .. Len(Ahead) + 1 -> Label], Labels(L)
        PROVE  Framed'
    <2>1. wire \in Seq(Byte) /\ Len(wire) \in Nat /\ in_boundry \in Int
      BY ReaderBefore, LenProperties DEF ReaderTypes
    <2>2. k \in 0 .. Len(wire)
      BY <1>2, <2>1
    <2>3. /\ Len(inbuf') = k /\ \A i \in 1 .. k : inbuf'[i] = wire[i]
          /\ Len(wire') = Len(wire) - k /\ \A i \in 1 .. Len(wire) - k : wire'[i] = wire[k + i]
      BY <1>2, <2>1, <2>2, FrontOf, BackOf
    <2>4. PICK c \in Int : c = Origin
      BY <1>1, <2>1, EmptySeq DEF Origin
    <2>5. Origin' \in Int /\ Whole(Origin' - c)
      <3>1. Origin = in_boundry - 0
        BY <1>1, EmptySeq DEF Origin
      <3>2. Origin' = ((in_boundry + k) % Unit) - k
        BY <1>1, <2>3 DEF Origin
      <3>3. in_boundry + k \in Int
        BY <2>1
      <3>4. (in_boundry + k) % Unit \in Int /\ Whole(((in_boundry + k) % Unit) - (in_boundry + k))
        BY <3>3, WholeRemainder
      <3> DEFINE r == (in_boundry + k) % Unit
      <3>5. r \in Int /\ Whole(r - (in_boundry + k)) /\ Origin' = r - k
        BY <3>2, <3>4, Sizes
      <3>. HIDE DEF r
      <3>6. r - (in_boundry + k) = (r - k) - c /\ r - k \in Int
        BY <2>1, <2>4, <3>1, <3>5
      <3>. QED
        BY <3>5, <3>6
    <2>6. PICK A \in Nat : A = Len(Ahead)
      BY AheadParts DEF AheadIs
    <2>7. Len(Ahead') = A /\ \A p \in 1 .. A : Ahead'[p] = Ahead[p]
      <3> DEFINE w == Len(wire)
                 f == IF peer = "open" THEN frag_header ELSE 0
      <3>1. AheadIs /\ AheadIs'
        BY AheadParts, AheadPartsAfter
      <3>2. /\ w \in Nat /\ f \in Nat /\ Len(Ahead) = 0 + w + f
            /\ \A p \in 1 .. w : Ahead[0 + p] = wire[p]
            /\ \A p \in 1 .. f : Ahead[0 + w + p] = out[p]
        BY <1>1, <3>1, EmptySeq DEF AheadIs
      <3>3. peer' = peer /\ out' = out /\ frag_header' = frag_header
        BY <1>1 DEF outvars
      <3>4. /\ Len(Ahead') = k + (w - k) + f
            /\ \A p \in 1 .. k : Ahead'[p] = inbuf'[p]
            /\ \A p \in 1 .. w - k : Ahead'[k + p] = wire'[p]
            /\ \A p \in 1 .. f : Ahead'[k + (w - k) + p] = out[p]
        BY <2>3, <3>1, <3>3 DEF AheadIs
      <3>5. \A i \in 1 .. w - k : wire'[i] = wire[k + i]
        BY <2>3
      <3>6. k <= w
        BY <1>2
      <3>. HIDE DEF w, f
      <3>7. Len(Ahead') = A /\ A = w + f
        BY <2>6, <3>2, <3>4, <3>6
      <3>8. ASSUME NEW p \in 1 .. A
            PROVE  Ahead'[p] = Ahead[p]
        <4>1. p \in Nat /\ p >= 1 /\ p <= w + f
          BY <3>2, <3>7
        <4>2. CASE p <= k
          <5>1. p \in 1 .. k /\ p \in 1 .. w /\ 0 + p = p
            BY <3>2, <3>6, <4>1, <4>2
          <5>. QED
            BY <2>3, <3>2, <3>4, <5>1
        <4>3. CASE ~(p <= k) /\ p <= w
          <5>1. PICK q \in 1 .. w - k : p = k + q
            <6>1. p - k \in 1 .. w - k /\ p = k + (p - k)
              BY <3>2, <3>6, <4>1, <4>3
            <6>. QED
              BY <6>1
          <5>2. p \in 1 .. w /\ 0 + p = p
            BY <3>2, <4>1, <4>3
          <5>3. Ahead'[p] = wire'[q] /\ wire'[q] = wire[p] /\ Ahead[p] = wire[p]
            BY <3>2, <3>4, <3>5, <5>1, <5>2
          <5>. QED
            BY <5>3
        <4>4. CASE ~(p <= w)
          <5>1. PICK q \in 1 .. f : p = w + q
            <6>1. p - w \in 1 .. f /\ p = w + (p - w)
              BY <3>2, <4>1, <4>4
            <6>. QED
              BY <6>1
          <5>2. k + (w - k) + q = p /\ 0 + w + q = p
            BY <3>2, <5>1
          <5>3. Ahead'[p] = out[q] /\ Ahead[p] = out[q]
            BY <3>2, <3>4, <5>1, <5>2
          <5>. QED
            BY <5>3
        <4>. QED
          BY <4>2, <4>3, <4>4
      <3>. QED
        BY <3>7, <3>8
    <2>8. /\ \A p \in 1 .. A + 1 : Legal(L[p]) /\ Aligned(L[p], c, p)
          /\ \A p \in 1 .. A : HoldsIn(L[p], Ahead[p], recs) /\ Follows(L[p], L[p + 1])
          /\ ReaderAt(L[1])
          /\ peer = "open" => WriterAt(L[A + 1])
      BY <1>4, <2>4, <2>6, LabelsBefore
    <2>9. ASSUME NEW p \in 1 .. A + 1
          PROVE  Legal(L[p]) /\ Aligned(L[p], Origin', p)
      <3>1. PICK x \in Int : x = IF L[p].h > 0 THEN L[p].h ELSE L[p].at
        <4>1. L[p] \in Label
          BY <2>6
        <4>. QED
          BY <4>1, Sizes DEF Label
      <3>2. Whole(c + p - x)
        BY <2>8, <3>1 DEF Aligned
      <3>3. Origin' + p - x = (Origin' - c) + (c + p - x) /\ Origin' - c \in Int /\ c + p - x \in Int
        BY <2>5
      <3>4. Whole((Origin' - c) + (c + p - x))
        BY <2>5, <3>2, <3>3, WholeSum
      <3>. QED
        BY <2>8, <3>1, <3>3, <3>4 DEF Aligned
    <2>10. ASSUME NEW p \in 1 .. A
           PROVE  HoldsIn(L[p], Ahead'[p], recs') /\ Follows(L[p], L[p + 1])
      BY <1>1, <2>7, <2>8
    <2>11. ReaderAt(L[1])'
      BY <1>1, <2>8 DEF ReaderAt, Rest, Reading
    <2>12. peer' = "open" => WriterAt(L[A + 1])'
      BY <1>1, <2>8 DEF WriterAt, OpenAt, outvars
    <2>. QED
      BY <2>6, <2>7, <2>9, <2>10, <2>11, <2>12, LabelsAfter
  <1>. QED
    BY <1>3, <1>4 DEF Framed

\* What the labels say of the bytes that the reader is at.
LEMMA ReaderFirst ==
  ASSUME RecInv, NEW L \in [1 .. Len(Ahead) + 1 -> Label], Labels(L)
  PROVE  /\ L[1] \in Label /\ Legal(L[1]) /\ ReaderAt(L[1])
         /\ Len(Ahead) \in Nat /\ Len(inbuf) <= Len(Ahead)
         /\ \A p \in 1 .. Len(Ahead) : Follows(L[p], L[p + 1])
         /\ \A p \in 1 .. Len(inbuf) : HoldsIn(L[p], inbuf[p], recs)
  <1>1. AheadIs
    BY AheadParts
  <1>2. /\ Len(Ahead) \in Nat /\ Len(inbuf) \in Nat /\ Len(inbuf) <= Len(Ahead)
        /\ \A p \in 1 .. Len(inbuf) : Ahead[p] = inbuf[p]
    BY <1>1 DEF AheadIs
  <1>3. 1 \in 1 .. Len(Ahead) + 1
    BY <1>2
  <1>4. /\ \A p \in 1 .. Len(Ahead) + 1 : Legal(L[p])
        /\ \A p \in 1 .. Len(Ahead) : HoldsIn(L[p], Ahead[p], recs) /\ Follows(L[p], L[p + 1])
        /\ ReaderAt(L[1])
    BY LabelsBefore
  <1>5. \A p \in 1 .. Len(inbuf) : p \in 1 .. Len(Ahead)
    BY <1>2
  <1>. QED
    BY <1>2, <1>3, <1>4, <1>5

\* What is left of a fragment.
LEMMA RestType ==
  ASSUME RecInv
  PROVE  /\ Rest \in Nat /\ left <= Rest
         /\ fbtbc \in Nat /\ current \in Nat /\ left \in Nat /\ left <= current /\ current <= fbtbc
         /\ header # NoHeader => Rest = 0 /\ ~last_frag
         /\ Need > 0 => rpc \in {"skip", "eof", "get"}
  <1>1. /\ ReaderTypes /\ InputRight /\ LAST_FRAG \in Nat
        /\ header # NoHeader => fbtbc = 0 /\ current = 0 /\ left = 0
        /\ header = NoHeader => Need = left
    BY ReaderBefore
  <1>2. /\ fbtbc \in Nat /\ current \in Nat /\ left \in Nat /\ left <= current /\ current <= fbtbc
        /\ header # NoHeader => ~last_frag
    BY <1>1 DEF ReaderTypes, InputRight
  <1>3. Need > 0 => rpc \in {"skip", "eof", "get"}
    BY <1>1, <1>2 DEF ReaderTypes, InputRight
  <1>. QED
    BY <1>1, <1>2, <1>3 DEF Rest

\* Once nothing will be read, nothing is.
LEMMA OverStays ==
  ASSUME Over, peer' = peer, wire = <<>> /\ inbuf = <<>> => wire' = <<>> /\ inbuf' = <<>>,
         rpc # "destroyed", rpc = "stat" /\ strm_stat = "DIED" => rpc' = "destroyed"
  PROVE  Framed'
  BY DEF Over, Framed

\* A step of the server between its calls: it consumes nothing.
LEMMA StaysThere ==
  ASSUME RecInv, RecInv', UNCHANGED <<outvars, wire, peer, inbuf, in_boundry, recs>>,
         NEW L \in [1 .. Len(Ahead) + 1 -> Label], Labels(L), ReaderAt(L[1])'
  PROVE  Framed'
  <1>1. Len(inbuf) \in Nat
    BY ReaderBefore
  <1>2. Moves(0)
    BY <1>1 DEF Moves
  <1>3. ReaderAt(L[0 + 1])'
    BY DEF ReaderAt
  <1>. QED
    BY <1>2, <1>3, Advance

\* Nor does its place change.
LEMMA SamePlace ==
  ASSUME NEW l, ReaderAt(l), UNCHANGED <<header, fbtbc, current, left, last_frag, got>>,
         Reading' => Reading,
         rpc' \in {"poll", "skip"} => rpc \in {"poll", "skip"} \/ (fbtbc = 0 /\ last_frag)
  PROVE  ReaderAt(l)'
  BY DEF ReaderAt, Rest

\* The steps that do not touch it.
LEMMA ControlFramed ==
  ASSUME RecInv, RecInv', Framed,
         \/ xdrrec_eof \/ SvcPoll \/ MessageDone \/ svctcp_stat \/ GetbytesReturn
         \/ \E units \in Nat : xdrrec_getbytes(units)
  PROVE  Framed'
  <1>1. /\ UNCHANGED <<outvars, wire, peer, inbuf, in_boundry, fbtbc, last_frag, current,
                       left, header, timeouts, recs, got>>
        /\ \/ rpc = "eof" /\ rpc' \in {"skip", "poll"} /\ fbtbc = 0 /\ last_frag
           \/ rpc = "poll" /\ rpc' = "skip"
           \/ rpc = "msg" /\ rpc' \in {"stat", "get"}
           \/ rpc = "get" /\ rpc' \in {"stat", "msg"}
           \/ rpc = "stat" /\ rpc' = IF strm_stat = "DIED" THEN "destroyed" ELSE "eof"
    BY DEF xdrrec_eof, SvcPoll, MessageDone, svctcp_stat, GetbytesReturn, xdrrec_getbytes,
           AtEndOfRecord
  <1>2. CASE Over
    BY <1>1, <1>2, OverStays
  <1>3. ASSUME NEW L \in [1 .. Len(Ahead) + 1 -> Label], Labels(L)
        PROVE  Framed'
    <2>1. ReaderAt(L[1])
      BY <1>3, ReaderFirst
    <2>2. PICK l : l = L[1]
      OBVIOUS
    <2>3. /\ Reading' => Reading
          /\ rpc' \in {"poll", "skip"} => rpc \in {"poll", "skip"} \/ (fbtbc = 0 /\ last_frag)
      BY <1>1 DEF Reading
    <2>4. ReaderAt(l)'
      BY <1>1, <2>1, <2>2, <2>3, SamePlace
    <2>. QED
      BY <1>1, <1>3, <2>2, <2>4, StaysThere
  <1>. QED
    BY <1>2, <1>3 DEF Framed

\* xdrrec_skiprecord() at the end of a record: the next header is that of the
\* next record.
LEMMA SkiprecordFramed ==
  ASSUME RecInv, RecInv', Framed, xdrrec_skiprecord
  PROVE  Framed'
  <1>1. /\ rpc = "skip" /\ Need = 0 /\ fbtbc = 0 /\ last_frag /\ last_frag' = FALSE
        /\ rpc' = "msg" /\ got' = Append(got, <<>>)
        /\ UNCHANGED <<outvars, wire, peer, inbuf, in_boundry, fbtbc, len, current, left, header,
                       strm_stat, timeouts, recs>>
    BY DEF xdrrec_skiprecord, AtEndOfRecord, BeginMessage
  <1>2. CASE Over
    BY <1>1, <1>2, OverStays
  <1>3. ASSUME NEW L \in [1 .. Len(Ahead) + 1 -> Label], Labels(L)
        PROVE  Framed'
    <2>1. header = NoHeader /\ left = 0 /\ current = 0 /\ ReaderTypes /\ Len(got) \in Nat
      BY <1>1, ReaderBefore
    <2>2. PICK l : l = L[1]
      OBVIOUS
    <2>3. l.h = 1 /\ l.rec = Len(got) + 1 /\ l.at = 1
      <3>1. ReaderAt(l)
        BY <1>3, <2>2, ReaderFirst
      <3>2. Rest = 0
        BY <1>1, <2>1 DEF Rest
      <3>. QED
        BY <1>1, <2>1, <3>1, <3>2 DEF ReaderAt
    <2>4. Len(got') = Len(got) + 1 /\ got'[Len(got')] = <<>>
      BY <1>1, <2>1, BeginRecord
    <2>5. ReaderAt(l)'
      <3>1. Rest' = 0
        BY <1>1, <2>1 DEF Rest
      <3>2. l.at = Len(got'[Len(got')]) + 1
        BY <2>3, <2>4, EmptySeq
      <3>. QED
        BY <1>1, <2>1, <2>3, <2>4, <3>1, <3>2 DEF ReaderAt
    <2>. QED
      BY <1>1, <1>3, <2>2, <2>5, StaysThere
  <1>. QED
    BY <1>2, <1>3 DEF Framed

\* The next round of a loop asks for the rest of the fragment, or for the
\* header that comes next.
LEMMA NextRoundFramed ==
  ASSUME RecInv, RecInv', Framed, NextRound
  PROVE  Framed'
  <1>1. /\ rpc \in {"skip", "eof", "get"}
        /\ \/ fbtbc > 0 /\ left' = current' /\ UNCHANGED header
           \/ fbtbc = 0 /\ ~last_frag /\ header' = <<>> /\ UNCHANGED <<current, left>>
        /\ UNCHANGED <<outvars, wire, peer, inbuf, in_boundry, fbtbc, last_frag, rpc, len,
                       strm_stat, timeouts, recs, got>>
    BY DEF NextRound
  <1>2. header = NoHeader /\ left = 0 /\ current = 0 /\ fbtbc \in Nat
    BY NextRoundKeeps, RestType
  <1>3. CASE Over
    BY <1>1, <1>3, OverStays
  <1>4. ASSUME NEW L \in [1 .. Len(Ahead) + 1 -> Label], Labels(L)
        PROVE  Framed'
    <2>1. PICK l : l = L[1]
      OBVIOUS
    <2>2. ReaderAt(l) /\ Rest = fbtbc
      BY <1>2, <1>4, <2>1, ReaderFirst DEF Rest
    <2>3. CASE fbtbc > 0 /\ left' = current' /\ UNCHANGED header
      <3>1. current' \in Int
        BY RestType, TypesSplit DEF RecInv, ReaderTypes
      <3>2. Rest' = fbtbc
        <4>1. PICK c \in Int : c = current'
          BY <3>1
        <4>2. Rest' = fbtbc - (c - c)
          BY <1>1, <2>3, <4>1 DEF Rest
        <4>. QED
          BY <1>2, <4>2
      <3>3. ReaderAt(l)'
        BY <1>1, <1>2, <2>2, <2>3, <3>2 DEF ReaderAt, Reading
      <3>. QED
        BY <1>1, <1>4, <2>1, <3>3, StaysThere
    <2>4. CASE fbtbc = 0 /\ ~last_frag /\ header' = <<>> /\ UNCHANGED <<current, left>>
      <3>1. l.h = 1 /\ l.rec = Len(got) /\ (Reading => l.at = Len(got[Len(got)]) + 1)
            /\ rpc \notin {"poll", "skip"}
        BY <1>2, <2>2, <2>4 DEF ReaderAt
      <3>2. <<>> # NoHeader /\ Len(<<>>) = 0
        BY EmptySeq DEF NoHeader
      <3>3. ReaderAt(l)'
        BY <1>1, <2>4, <3>1, <3>2 DEF ReaderAt, Reading
      <3>. QED
        BY <1>1, <1>4, <2>1, <3>3, StaysThere
    <2>. QED
      BY <1>1, <2>3, <2>4
  <1>. QED
    BY <1>3, <1>4 DEF Framed

\* A read that fails is the last one, unless the server is in xdrrec_eof().
LEMMA ReadFailsFramed ==
  ASSUME RecInv, RecInv', Framed, ReadFails, "eof" \notin TimesOutIn
  PROVE  Framed'
  <1>1. /\ Need > 0 /\ inbuf = <<>> /\ strm_stat' = "DIED" /\ InputFailed
        /\ \/ peer = "closed" /\ wire = <<>>
           \/ rpc \in TimesOutIn
        /\ UNCHANGED <<outvars, wire, peer, inbuf, in_boundry, fbtbc, last_frag, recs>>
    BY DEF ReadFails
  <1>2. CASE peer = "closed" /\ wire = <<>>
    BY <1>1, <1>2 DEF Framed, Over
  <1>3. CASE rpc = "get"
    BY <1>1, <1>3 DEF Framed, Over, InputFailed
  <1>4. ASSUME rpc = "skip", NEW L \in [1 .. Len(Ahead) + 1 -> Label], Labels(L)
        PROVE  FALSE
    <2>1. ReaderAt(L[1])
      BY <1>4, ReaderFirst
    <2>2. fbtbc = 0 /\ last_frag
      BY <1>4, <2>1 DEF ReaderAt
    <2>3. header = NoHeader /\ left = 0
      BY <2>2, RestType
    <2>. QED
      BY <1>1, <2>3, ReaderBefore
  <1>5. rpc \in {"skip", "eof", "get"}
    BY <1>1, RestType
  <1>6. CASE rpc = "skip"
    <2>1. ASSUME Over
          PROVE  Framed'
      BY <1>1, <1>6, <2>1 DEF Over, Framed
    <2>. QED
      BY <1>4, <1>6, <2>1 DEF Framed
  <1>. QED
    BY <1>1, <1>2, <1>3, <1>5, <1>6

\* The bytes that are read into a header are those of the header.
LEMMA HeaderTaken ==
  ASSUME RecInv, NEW L \in [1 .. Len(Ahead) + 1 -> Label], Labels(L), header # NoHeader,
         NEW m \in Nat, m = Len(Taken), m > 0
  PROVE  LET b == header \o Taken IN
         /\ L[1].h = Len(header) + 1 /\ m <= Len(Ahead) /\ Len(header) + m <= Unit
         /\ \A j \in 1 .. Len(b) : b[j] = HeaderByte(L[1], j)
         /\ L[m].h = Len(header) + m /\ SameFragment(L[1], L[m])
  <1> DEFINE b == header \o Taken
  <1>1. PICK l \in Label : l = L[1] /\ ReaderAt(l)
    BY ReaderFirst
  <1>2. PICK A \in Nat : A = Len(Ahead)
    BY ReaderFirst
  <1>3. PICK k \in Nat : k = Len(header)
    BY ReaderBefore
  <1>4. /\ l.h = k + 1 /\ \A i \in 1 .. k : header[i] = HeaderByte(l, i)
    BY <1>1, <1>3 DEF ReaderAt
  <1>5. /\ Len(b) = k + m /\ k + m <= Unit
        /\ \A i \in 1 .. k : b[i] = header[i]
        /\ \A i \in 1 .. m : b[k + i] = inbuf[i]
    BY <1>3, HeaderBytes
  <1>6. m <= Len(inbuf) /\ m <= A /\ Len(inbuf) \in Nat
    BY <1>2, TakenBytes, ReaderFirst, ReaderBefore
  <1>. HIDE DEF b
  <1>7. \A i \in 0 .. m - 1 : L[i + 1].h = L[1].h + i /\ SameFragment(L[1], L[i + 1])
    <2>1. L \in [1 .. A + 1 -> Label] /\ \A p \in 1 .. A : Follows(L[p], L[p + 1])
      BY <1>2, ReaderFirst
    <2>2. PICK n \in 0 .. A : n = m - 1
      <3>1. m - 1 \in 0 .. A
        BY <1>6
      <3>. QED
        BY <3>1
    <2>3. Unit \in Nat
      BY Sizes
    <2>4. L[1].h > 0 /\ L[1].h + n <= Unit
      BY <1>1, <1>4, <1>5, <2>2, <2>3
    <2>. QED
      BY <2>1, <2>2, <2>4, HeaderRun
  <1>8. ASSUME NEW i \in 1 .. m
        PROVE  L[i].h = k + i /\ SameFragment(l, L[i])
    <2>1. i - 1 \in 0 .. m - 1 /\ (i - 1) + 1 = i /\ (k + 1) + (i - 1) = k + i
      OBVIOUS
    <2>. QED
      BY <1>1, <1>4, <1>7, <2>1
  <1>9. ASSUME NEW i \in 1 .. m
        PROVE  inbuf[i] = HeaderByte(l, k + i)
    <2>1. i \in 1 .. Len(inbuf)
      BY <1>6
    <2>2. HoldsIn(L[i], inbuf[i], recs)
      BY <2>1, ReaderFirst
    <2>3. L[i].h > 0
      BY <1>8
    <2>4. inbuf[i] = HeaderByte(L[i], L[i].h)
      BY <2>2, <2>3 DEF HoldsIn
    <2>. QED
      BY <1>8, <2>4 DEF HeaderByte, SameFragment
  <1>10. ASSUME NEW j \in 1 .. Len(b)
         PROVE  b[j] = HeaderByte(l, j)
    <2>1. CASE j <= k
      BY <1>4, <1>5, <2>1
    <2>2. CASE ~(j <= k)
      <3>1. PICK i \in 1 .. m : j = k + i
        <4>1. j - k \in 1 .. m /\ j = k + (j - k)
          BY <1>5, <2>2
        <4>. QED
          BY <4>1
      <3>. QED
        BY <1>5, <1>9, <3>1
    <2>. QED
      BY <2>1, <2>2
  <1>11. m \in 1 .. m
    OBVIOUS
  <1>12. L[m].h = k + m /\ SameFragment(l, L[m])
    BY <1>8, <1>11
  <1>. QED
    BY <1>1, <1>2, <1>3, <1>4, <1>5, <1>6, <1>10, <1>12 DEF b

\* set_input_fragment() takes the next bytes of a header, and what it gets out
\* of the last ones is the length of the fragment and whether it is the last.
LEMMA SetInputFragmentFramed ==
  ASSUME RecInv, RecInv', Framed, set_input_fragment
  PROVE  Framed'
  <1> DEFINE b == header \o Taken
             h == Number(b)
  <1>1. /\ header # NoHeader /\ inbuf # <<>>
        /\ Consume(Len(Taken))
        /\ IF Len(b) < Unit
           THEN /\ header' = b
                /\ UNCHANGED <<fbtbc, last_frag, rpc, len, current, left, got>>
           ELSE /\ last_frag' = (h >= LAST_FRAG)
                /\ IF h = 0
                   THEN InputFailed /\ UNCHANGED fbtbc
                   ELSE /\ fbtbc' = h % LAST_FRAG
                        /\ header' = NoHeader
                        /\ UNCHANGED <<rpc, len, current, left, got>>
        /\ UNCHANGED <<outvars, wire, peer, in_boundry, strm_stat, timeouts, recs>>
    BY DEF set_input_fragment
  <1>2. /\ Unit \in Nat \ {0} /\ Len(header) \in 0 .. Unit - 1 /\ Need \in 1 .. Unit
        /\ current = 0 /\ left = 0 /\ Len(got) \in Nat /\ header \in Seq(Byte)
    BY <1>1, ReaderBefore
  <1>3. rpc \in {"skip", "eof", "get"} /\ ~last_frag
    BY <1>1, <1>2, RestType
  <1>4. CASE Over
    <2>1. FALSE
      BY <1>1, <1>3, <1>4 DEF Over
    <2>. QED
      BY <2>1
  <1>5. ASSUME NEW L \in [1 .. Len(Ahead) + 1 -> Label], Labels(L)
        PROVE  Framed'
    <2>1. PICK m \in Nat : m = Len(Taken) /\ m > 0 /\ m <= Len(inbuf)
      <3>1. Len(Taken) \in 0 .. Len(inbuf) /\ Len(Taken) > 0
        BY <1>1, <1>2, TakenBytes
      <3>. QED
        BY <3>1, ReaderBefore
    <2>2. Moves(m)
      <3>1. Len(inbuf') = Len(inbuf) - m /\ \A i \in 1 .. Len(inbuf) - m : inbuf'[i] = inbuf[m + i]
        BY <1>1, <2>1, TakenBytes
      <3>2. m \in 0 .. Len(inbuf)
        BY <2>1, ReaderBefore
      <3>. QED
        BY <1>1, <3>1, <3>2 DEF Moves
    <2>3. PICK l \in Label : l = L[1] /\ ReaderAt(l) /\ Legal(l)
      BY <1>5, ReaderFirst
    <2>4. PICK k \in Nat : k = Len(header)
      BY <1>2
    <2>5. PICK A \in Nat : A = Len(Ahead)
      BY <1>5, ReaderFirst
    <2>6. /\ l.h = k + 1 /\ m <= A /\ k + m <= Unit
          /\ \A j \in 1 .. Len(b) : b[j] = HeaderByte(l, j)
          /\ L[m].h = k + m /\ SameFragment(l, L[m])
      BY <1>1, <1>5, <2>1, <2>3, <2>4, <2>5, HeaderTaken
    <2>7. Len(b) = k + m /\ b \in Seq(Byte)
      BY <1>1, <2>1, <2>4, HeaderBytes
    <2>8. m \in 1 .. A /\ L[m] \in Label /\ Follows(L[m], L[m + 1])
      <3>1. m \in 1 .. A /\ m \in 1 .. A + 1
        BY <2>1, <2>6
      <3>. QED
        BY <1>5, <2>5, <3>1, ReaderFirst
    <2>9. /\ l.rec = Len(got) /\ (Reading => l.at = Len(got[Len(got)]) + 1)
          /\ rpc \notin {"poll", "skip"}
      BY <1>1, <1>3, <2>3 DEF ReaderAt
    <2>. HIDE DEF b
    <2>10. CASE Len(b) < Unit
      <3>1. /\ header' = b /\ UNCHANGED <<fbtbc, last_frag, rpc, len, current, left, got>>
        BY <1>1, <2>10
      <3>2. L[m + 1].h = Len(b) + 1 /\ SameFragment(l, L[m + 1])
        <4>1. L[m].h \in 1 .. Unit - 1
          BY <1>2, <2>1, <2>6, <2>7, <2>10
        <4>2. L[m + 1].h = L[m].h + 1 /\ SameFragment(L[m], L[m + 1])
          BY <2>8, <4>1, BehindHeaderByte
        <4>3. L[m + 1].h = Len(b) + 1
          BY <2>6, <2>7, <4>2
        <4>4. SameFragment(l, L[m + 1])
          BY <2>6, <4>2 DEF SameFragment
        <4>. QED
          BY <4>3, <4>4
      <3>3. b # NoHeader
        <4>1. 1 \in 1 .. Len(b)
          BY <2>1, <2>7
        <4>2. b[1] \in Byte
          BY <2>7, <4>1, ElementOfSeq
        <4>3. NoHeader[1] = -1 /\ ~(-1 \in Byte)
          BY RecAssumption DEF NoHeader, Byte
        <4>. QED
          BY <4>2, <4>3
      <3>4. PICK j : j = L[m + 1]
        OBVIOUS
      <3>5. \A i \in 1 .. Len(b) : b[i] = HeaderByte(j, i)
        BY <2>6, <3>2, <3>4 DEF HeaderByte, SameFragment
      <3>6. /\ j.h = Len(b) + 1 /\ j.rec = Len(got) /\ (Reading => j.at = Len(got[Len(got)]) + 1)
        BY <2>9, <3>2, <3>4 DEF SameFragment
      <3>7. ReaderAt(j)'
        BY <2>9, <3>1, <3>3, <3>5, <3>6 DEF ReaderAt, Reading
      <3>. QED
        BY <1>5, <2>2, <3>4, <3>7, Advance
    <2>11. CASE ~(Len(b) < Unit)
      <3>1. Len(b) = Unit /\ L[m].h = Unit
        BY <1>2, <2>6, <2>7, <2>11
      <3>2. l.n \in Nat /\ l.last \in BOOLEAN /\ l.n < LAST_FRAG /\ (l.last \/ l.n > 0) /\ l.h > 0
        BY <2>3, <2>6 DEF Label, Legal
      <3>3. \A i \in 1 .. Unit : b[i] = Bytes(l.n + (IF l.last THEN LAST_FRAG ELSE 0))[i]
        BY <2>6, <3>1 DEF HeaderByte
      <3>4. h # 0 /\ (h >= LAST_FRAG <=> l.last) /\ h % LAST_FRAG = l.n
        BY <3>2, <3>3, HeaderDecoded
      <3>5. /\ last_frag' = l.last /\ fbtbc' = l.n /\ header' = NoHeader
            /\ UNCHANGED <<rpc, len, current, left, got>>
        <4>1. last_frag' = (h >= LAST_FRAG)
          BY <1>1, <2>11
        <4>2. last_frag' = l.last
          <5>1. last_frag' \in BOOLEAN
            BY TypesSplit DEF RecInv, ReaderTypes
          <5>. QED
            BY <3>2, <3>4, <4>1, <5>1
        <4>. QED
          BY <1>1, <2>11, <3>4, <4>2
      <3>. HIDE DEF h
      <3>6. Rest' = l.n
        BY <1>2, <3>2, <3>5 DEF Rest
      <3>7. PICK j : j = L[m + 1]
        OBVIOUS
      <3>8. /\ l.n > 0 => j.h = 0 /\ SameFragment(l, j)
            /\ l.n = 0 => Heads(j, l.rec, l.at, l.last)
        <4>1. /\ L[m].n > 0 => j.h = 0 /\ SameFragment(L[m], j)
              /\ L[m].n = 0 => Heads(j, L[m].rec, L[m].at, L[m].last)
          BY <2>8, <3>1, <3>7, BehindHeader
        <4>. QED
          BY <2>6, <4>1 DEF SameFragment
      <3>9. ReaderAt(j)'
        <4>1. CASE l.n > 0
          <5>1. j.h = 0 /\ j.rec = Len(got) /\ j.n = l.n /\ j.last = l.last /\ j.at = l.at
            BY <2>9, <3>8, <4>1 DEF SameFragment
          <5>. QED
            BY <2>9, <3>5, <3>6, <4>1, <5>1 DEF ReaderAt, Reading
        <4>2. CASE l.n = 0
          <5>1. l.last
            BY <3>2, <4>2
          <5>2. j.h = 1 /\ j.rec = Len(got) + 1 /\ j.at = 1
            BY <2>9, <3>8, <4>2, <5>1 DEF Heads
          <5>3. j.rec # Len(got)
            BY <1>2, <5>2
          <5>. QED
            BY <2>9, <3>5, <3>6, <4>2, <5>1, <5>2, <5>3 DEF ReaderAt, Reading
        <4>. QED
          BY <3>2, <4>1, <4>2
      <3>. QED
        BY <1>5, <2>2, <3>7, <3>9, Advance
    <2>. QED
      BY <2>10, <2>11
  <1>. QED
    BY <1>4, <1>5 DEF Framed

\* The reader has taken k bytes of the data of the fragment it is in.
TakesData(k) ==
  /\ header = NoHeader /\ k > 0 /\ k <= Rest
  /\ header' = NoHeader /\ Rest' = Rest - k
  /\ UNCHANGED <<last_frag, rpc>> /\ Len(got') = Len(got)
  /\ Reading => Len(got'[Len(got)]) = Len(got[Len(got)]) + k

\* The label of the next byte is that of the next byte of the data, or of the
\* header behind it.
LEMMA DataTaken ==
  ASSUME RecInv, RecInv', NEW k \in Nat, Moves(k), TakesData(k),
         NEW L \in [1 .. Len(Ahead) + 1 -> Label], Labels(L)
  PROVE  Framed'
  <1>1. PICK l \in Label : l = L[1] /\ ReaderAt(l)
    BY ReaderFirst
  <1>2. /\ header = NoHeader /\ k > 0 /\ k <= Rest
        /\ header' = NoHeader /\ Rest' = Rest - k
        /\ last_frag' = last_frag /\ rpc' = rpc /\ Len(got') = Len(got)
        /\ Reading => Len(got'[Len(got)]) = Len(got[Len(got)]) + k
    BY DEF TakesData
  <1>3. PICK r \in Nat : r = Rest
    BY RestType
  <1>4. /\ l.h = 0 /\ l.rec = Len(got) /\ l.n = r /\ l.last = last_frag
        /\ Reading => l.at = Len(got[Len(got)]) + 1
    BY <1>1, <1>2, <1>3 DEF ReaderAt
  <1>5. rpc \notin {"poll", "skip"}
    <2>1. fbtbc \in Nat /\ current \in Nat /\ left \in Nat /\ left <= current /\ current <= fbtbc
      BY RestType
    <2>2. fbtbc # 0
      BY <1>2, <1>3, <2>1 DEF Rest
    <2>. QED
      BY <1>1, <2>2 DEF ReaderAt
  <1>6. PICK j : j = L[k + 1]
    OBVIOUS
  <1>7. DataBehind(l, j, k)
    <2>1. PICK A \in Nat : A = Len(Ahead)
      BY ReaderFirst
    <2>2. L \in [1 .. A + 1 -> Label] /\ \A p \in 1 .. A : Follows(L[p], L[p + 1])
      BY <2>1, ReaderFirst
    <2>3. k \in 0 .. A
      <3>1. k <= Len(Ahead)
        BY MovesAhead
      <3>. QED
        BY <2>1, <3>1
    <2>4. L[1].h = 0 /\ L[1].n > 0 /\ k <= L[1].n
      BY <1>1, <1>2, <1>3, <1>4
    <2>5. \A i \in 0 .. k : DataBehind(L[1], L[i + 1], i)
      BY <2>2, <2>3, <2>4, DataRun
    <2>6. k \in 0 .. k
      OBVIOUS
    <2>. QED
      BY <1>1, <1>6, <2>5, <2>6
  <1>8. Len(got) \in Nat /\ l.at \in Nat /\ l.n \in Nat
    BY ReaderBefore DEF Label
  <1>9. PICK g : g = Len(got[Len(got)])
    OBVIOUS
  <1>10. Reading => l.at + k = (g + k) + 1 /\ Len(got'[Len(got')]) = g + k
    <2>1. ASSUME Reading
          PROVE  g \in Nat
      <3>1. ReaderTypes /\ got # <<>>
        BY <2>1, ReaderBefore DEF InputRight, Reading
      <3>. QED
        BY <1>9, <3>1, LastGotType
    <2>2. ASSUME Reading
          PROVE  l.at + k = (g + k) + 1
      <3>1. g \in Nat /\ l.at = g + 1
        BY <1>4, <1>9, <2>1, <2>2
      <3>. QED
        BY <3>1
    <2>3. ASSUME Reading
          PROVE  Len(got'[Len(got')]) = g + k
      BY <1>2, <1>9, <2>3
    <2>. QED
      BY <2>2, <2>3
  <1>11. ReaderAt(j)'
    <2>1. CASE k < r
      <3>1. j.h = 0 /\ j.rec = l.rec /\ j.at = l.at + k /\ j.n = l.n - k /\ j.last = l.last
        BY <1>4, <1>7, <2>1 DEF DataBehind
      <3>2. Rest' > 0 /\ j.n = Rest'
        BY <1>2, <1>3, <1>4, <2>1, <3>1
      <3>. QED
        BY <1>2, <1>4, <1>5, <1>10, <3>1, <3>2 DEF ReaderAt, Reading
    <2>2. CASE ~(k < r)
      <3>1. Heads(j, l.rec, l.at + k, l.last)
        BY <1>4, <1>7, <2>2 DEF DataBehind
      <3>2. Rest' = 0
        BY <1>2, <1>3, <2>2
      <3>3. CASE last_frag
        <4>1. j.h = 1 /\ j.rec = Len(got) + 1 /\ j.at = 1 /\ j.rec # Len(got)
          BY <1>4, <1>8, <3>1, <3>3 DEF Heads
        <4>. QED
          BY <1>2, <1>5, <3>2, <3>3, <4>1 DEF ReaderAt, Reading
      <3>4. CASE ~last_frag
        <4>1. j.h = 1 /\ j.rec = Len(got) /\ j.at = l.at + k
          BY <1>4, <3>1, <3>4 DEF Heads
        <4>. QED
          BY <1>2, <1>5, <1>10, <3>2, <3>4, <4>1 DEF ReaderAt, Reading
      <3>. QED
        BY <3>3, <3>4
    <2>. QED
      BY <2>1, <2>2
  <1>. QED
    BY <1>6, <1>11, Advance

\* get_input_bytes()
LEMMA GetInputBytesTakes ==
  ASSUME RecInv, get_input_bytes
  PROVE  LET m == Len(Taken) IN
         /\ m \in Nat /\ Moves(m) /\ TakesData(m) /\ Reading /\ inbuf # <<>>
         /\ Taken \in Seq(Byte) /\ Deliver(Taken) /\ \A i \in 1 .. m : Taken[i] = inbuf[i]
  <1> DEFINE m == Len(Taken)
  <1>1. /\ rpc = "get" /\ left > 0 /\ inbuf # <<>>
        /\ Consume(m) /\ Deliver(Taken)
        /\ left' = left - m
        /\ fbtbc' = IF left' = 0 THEN fbtbc - current ELSE fbtbc
        /\ current' = IF left' = 0 THEN 0 ELSE current
        /\ UNCHANGED <<outvars, wire, peer, in_boundry, last_frag, rpc, header,
                       strm_stat, timeouts, recs>>
    BY DEF get_input_bytes
  <1>2. header = NoHeader /\ Need = left /\ got # <<>> /\ ReaderTypes
    BY GetInputBytesKeeps, ReaderBefore
  <1>3. /\ m \in 0 .. Len(inbuf) /\ m <= left /\ m > 0 /\ Taken \in Seq(Byte)
        /\ \A i \in 1 .. m : Taken[i] = inbuf[i]
        /\ Len(inbuf') = Len(inbuf) - m /\ \A i \in 1 .. Len(inbuf) - m : inbuf'[i] = inbuf[m + i]
    BY <1>1, <1>2, TakenBytes
  <1>4. Len(inbuf) \in Nat
    BY ReaderBefore
  <1>5. Moves(m)
    BY <1>1, <1>3 DEF Moves
  <1>6. /\ Len(got') = Len(got) /\ Len(got'[Len(got)]) = Len(got[Len(got)]) + m
    BY <1>1, <1>2, <1>3, DeliverRecord
  <1>. HIDE DEF m
  <1>7. /\ fbtbc \in Nat /\ current \in Nat /\ left \in Nat /\ left <= current /\ current <= fbtbc
        /\ Rest \in Nat /\ left <= Rest
    BY RestType
  <1>8. m <= Rest /\ Rest' = Rest - m
    <2>1. m \in Nat
      BY <1>3, <1>4
    <2>2. m <= Rest
      BY <1>3, <1>7, <2>1
    <2>3. CASE left - m = 0
      <3>1. fbtbc' = fbtbc - current /\ current' = 0 /\ left' = 0
        BY <1>1, <2>3
      <3>2. Rest' = (fbtbc - current) - (0 - 0)
        BY <3>1 DEF Rest
      <3>. QED
        BY <1>7, <2>1, <2>2, <2>3, <3>2 DEF Rest
    <2>4. CASE left - m # 0
      <3>1. fbtbc' = fbtbc /\ current' = current /\ left' = left - m
        BY <1>1, <2>4
      <3>2. Rest' = fbtbc - (current - (left - m))
        BY <3>1 DEF Rest
      <3>. QED
        BY <1>7, <2>1, <2>2, <3>2 DEF Rest
    <2>. QED
      BY <2>3, <2>4
  <1>9. TakesData(m)
    BY <1>1, <1>2, <1>3, <1>6, <1>8 DEF TakesData
  <1>10. m \in Nat
    BY <1>3, <1>4
  <1>. QED
    BY <1>1, <1>3, <1>5, <1>9, <1>10 DEF m, Reading

\* skip_input_bytes()
LEMMA SkipInputBytesTakes ==
  ASSUME RecInv, skip_input_bytes
  PROVE  Len(Taken) \in Nat /\ Moves(Len(Taken)) /\ TakesData(Len(Taken))
  <1> DEFINE m == Len(Taken)
  <1>1. /\ rpc \in {"skip", "eof"} /\ left > 0 /\ inbuf # <<>>
        /\ Consume(m)
        /\ left' = left - m
        /\ fbtbc' = IF left' = 0 THEN 0 ELSE fbtbc
        /\ current' = IF left' = 0 THEN 0 ELSE current
        /\ UNCHANGED <<outvars, wire, peer, in_boundry, last_frag, rpc, len, header,
                       strm_stat, timeouts, recs, got>>
    BY DEF skip_input_bytes
  <1>2. header = NoHeader /\ Need = left /\ current = fbtbc
    BY SkipInputBytesKeeps
  <1>3. /\ m \in 0 .. Len(inbuf) /\ m <= left /\ m > 0
        /\ Len(inbuf') = Len(inbuf) - m /\ \A i \in 1 .. Len(inbuf) - m : inbuf'[i] = inbuf[m + i]
    BY <1>1, <1>2, TakenBytes
  <1>4. Len(inbuf) \in Nat
    BY ReaderBefore
  <1>5. Moves(m)
    BY <1>1, <1>3 DEF Moves
  <1>. HIDE DEF m
  <1>6. fbtbc \in Nat /\ current \in Nat /\ left \in Nat /\ m \in Nat
    BY <1>3, <1>4, RestType
  <1>7. Rest = left
    BY <1>2, <1>6 DEF Rest
  <1>8. Rest' = Rest - m
    <2>1. CASE left - m = 0
      <3>1. Rest' = 0 - (0 - 0)
        BY <1>1, <2>1 DEF Rest
      <3>. QED
        BY <1>6, <1>7, <2>1, <3>1
    <2>2. CASE left - m # 0
      <3>1. Rest' = fbtbc - (current - (left - m))
        BY <1>1, <2>2 DEF Rest
      <3>. QED
        BY <1>2, <1>6, <1>7, <3>1
    <2>. QED
      BY <2>1, <2>2
  <1>9. TakesData(m)
    BY <1>1, <1>2, <1>3, <1>7, <1>8 DEF TakesData, Reading
  <1>. QED
    BY <1>5, <1>6, <1>9 DEF m

\* xdrrec_inline() for decoding
LEMMA InlineDecodeTakes ==
  ASSUME RecInv, NEW units \in Nat \ {0}, xdrrec_inline_decode(units)
  PROVE  LET m == units * Unit
             d == SubSeq(inbuf, 1, m) IN
         /\ m \in Nat /\ Moves(m) /\ TakesData(m) /\ Reading /\ inbuf # <<>>
         /\ d \in Seq(Byte) /\ Len(d) = m /\ Deliver(d) /\ \A i \in 1 .. m : d[i] = inbuf[i]
  <1> DEFINE m == units * Unit
             d == SubSeq(inbuf, 1, m)
  <1>1. /\ rpc = "msg"
        /\ Deliver(d) /\ fbtbc' = fbtbc - m
        /\ UNCHANGED <<outvars, wire, peer, in_boundry, last_frag, rpc, len, current, left, header,
                       strm_stat, timeouts, recs>>
    BY DEF xdrrec_inline_decode
  <1>2. /\ header = NoHeader /\ left = 0 /\ current = 0 /\ got # <<>>
        /\ m \in 0 .. Len(inbuf) /\ m <= fbtbc
        /\ d \in Seq(Byte) /\ Len(d) = m
        /\ \A i \in 1 .. m : d[i] = inbuf[i]
        /\ Len(inbuf') = Len(inbuf) - m /\ \A i \in 1 .. Len(inbuf) - m : inbuf'[i] = inbuf[m + i]
    BY InlineDecodeKeeps
  <1>3. m > 0 /\ m \in Nat
    BY Sizes
  <1>. HIDE DEF m, d
  <1>4. ReaderTypes /\ Len(inbuf) \in Nat /\ fbtbc \in Nat
    BY ReaderBefore, RestType
  <1>5. inbuf # <<>>
    BY <1>2, <1>3, <1>4, EmptySeq
  <1>6. Moves(m)
    BY <1>1, <1>2 DEF Moves
  <1>7. Len(got') = Len(got) /\ Len(got'[Len(got)]) = Len(got[Len(got)]) + m
    BY <1>1, <1>2, <1>4, DeliverRecord
  <1>8. Rest = fbtbc /\ Rest' = fbtbc - m
    BY <1>1, <1>2, <1>3, <1>4 DEF Rest
  <1>9. TakesData(m)
    BY <1>1, <1>2, <1>3, <1>7, <1>8 DEF TakesData
  <1>. QED
    BY <1>1, <1>2, <1>3, <1>5, <1>6, <1>9 DEF m, d, Reading

\* They keep the labels.
LEMMA TakesFramed ==
  ASSUME RecInv, RecInv', Framed,
         \/ get_input_bytes \/ skip_input_bytes
         \/ \E units \in Nat \ {0} : xdrrec_inline_decode(units)
  PROVE  Framed'
  <1>1. PICK k \in Nat : Moves(k) /\ TakesData(k)
    BY GetInputBytesTakes, SkipInputBytesTakes, InlineDecodeTakes
  <1>2. inbuf # <<>> /\ rpc \notin {"stat", "destroyed"}
    BY GetInputBytesTakes, SkipInputBytesTakes, InlineDecodeTakes
       DEF get_input_bytes, skip_input_bytes, xdrrec_inline_decode
  <1>3. ~Over
    BY <1>2 DEF Over
  <1>4. PICK L \in [1 .. Len(Ahead) + 1 -> Label] : Labels(L)
    BY <1>3 DEF Framed
  <1>. QED
    BY <1>1, <1>4, DataTaken

-----------------------------------------------------------------------------
(* What holds if the peer is not silent in xdrrec_eof().                   *)

LEMMA InitFramed ==
  ASSUME Init
  PROVE  Framed
  <1>1. RecInv
    BY InitRecInv
  <1>2. AheadIs
    BY <1>1, AheadParts
  <1>3. Len(Ahead) = 0
    <2>1. Len(inbuf) = 0 /\ Len(wire) = 0 /\ frag_header = 0
      BY EmptySeq DEF Init
    <2>. QED
      BY <1>2, <2>1 DEF AheadIs
  <1> DEFINE l == [h |-> 1, rec |-> 1, at |-> 1, n |-> 0, last |-> TRUE]
             L == [p \in {1} |-> l]
  <1>4. Unit \in Nat \ {0} /\ in_size \in Nat /\ Whole(in_size) /\ LAST_FRAG \in Nat \ {0}
    BY Sizes, LastFragHighest
  <1>5. l \in Label
    BY <1>4 DEF Label
  <1>6. L \in [1 .. Len(Ahead) + 1 -> Label] /\ L[1] = l
    BY <1>3, <1>5
  <1>7. l.h = 1 /\ l.rec = 1 /\ l.at = 1 /\ l.n = 0 /\ l.last = TRUE
    OBVIOUS
  <1>. HIDE DEF l, L
  <1>8. Legal(l)
    BY <1>4, <1>7, WholeUnits DEF Legal
  <1>9. Whole(in_boundry - Len(inbuf) + 1 - 1)
    <2>1. in_boundry = 0 /\ Len(inbuf) = 0
      BY <1>4, EmptySeq DEF Init, Whole
    <2>. QED
      BY <2>1, WholeUnits
  <1>10. ReaderAt(l)
    <2>1. /\ header = NoHeader /\ fbtbc = 0 /\ current = 0 /\ left = 0 /\ last_frag = TRUE
          /\ rpc = "poll" /\ Len(got) = 0
      BY EmptySeq DEF Init
    <2>2. Rest = 0
      BY <2>1 DEF Rest
    <2>. QED
      BY <1>7, <2>1, <2>2 DEF ReaderAt, Reading
  <1>11. WriterAt(l)
    <2>1. recs = << <<>> >> /\ pending = <<>> /\ Len(out) = Unit /\ frag_header = 0
      BY EmptyOutType DEF Init
    <2>2. Len(recs) = 1 /\ recs[1] = <<>> /\ Len(recs[Len(recs)]) = 0 /\ Len(pending) = 0
      BY <2>1, EmptySeq
    <2>3. OpenAt = 0
      BY <1>4, <2>1, <2>2 DEF OpenAt
    <2>. QED
      BY <1>7, <2>2, <2>3 DEF WriterAt
  <1>12. Labels(L)
    <2>1. 1 .. Len(Ahead) + 1 = {1} /\ 1 .. Len(Ahead) = {} /\ Len(Ahead) + 1 = 1
      BY <1>3
    <2>. QED
      BY <1>6, <1>7, <1>8, <1>9, <1>10, <1>11, <2>1 DEF Labels
  <1>. QED
    BY <1>6, <1>12 DEF Framed

\* A step that changes nothing.
LEMMA StutterFramed ==
  ASSUME RecInv, RecInv', Framed, UNCHANGED vars
  PROVE  Framed'
  <1>1. CASE Over
    BY <1>1 DEF Over, Framed, vars, invars
  <1>2. ASSUME NEW L \in [1 .. Len(Ahead) + 1 -> Label], Labels(L)
        PROVE  Framed'
    <2>1. PICK l : l = L[1] /\ ReaderAt(l)
      BY <1>2, ReaderFirst
    <2>2. ReaderAt(l)'
      BY <2>1, SamePlace DEF vars, invars, Reading
    <2>. QED
      BY <1>2, <2>1, <2>2, StaysThere DEF vars, invars
  <1>. QED
    BY <1>1, <1>2 DEF Framed

\* Every step keeps the labels.
LEMMA NextFramed ==
  ASSUME RecInv, RecInv', Framed, [Next]_vars, "eof" \notin TimesOutIn
  PROVE  Framed'
  <1>1. ASSUME Sender
        PROVE  Framed'
    <2>1. CASE xdrrec_putlong \/ xdrrec_putint32
      BY <2>1, PutlongFramed DEF xdrrec_putint32
    <2>2. ASSUME NEW n \in 1 .. MaxUnits, xdrrec_inline_encode(n) \/ xdrrec_putbytes(n)
          PROVE  Framed'
      <3>1. n \in Nat
        BY RecAssumption
      <3>. QED
        BY <2>2, <3>1, InlineEncodeFramed, PutbytesFramed
    <2>3. CASE PutbytesRound
      BY <2>3, PutbytesRoundFramed
    <2>4. ASSUME NEW sendnow \in BOOLEAN, xdrrec_endofrecord(sendnow)
          PROVE  Framed'
      BY <2>4, EndofrecordFramed
    <2>5. CASE Close
      BY <2>5, CloseFramed
    <2>. QED
      BY <1>1, <2>1, <2>2, <2>3, <2>4, <2>5 DEF Sender
  <1>2. ASSUME Receiver
        PROVE  Framed'
    <2>1. ASSUME NEW k \in 1 .. in_size, fill_input_buf(k)
          PROVE  Framed'
      <3>1. k \in Nat /\ k > 0
        BY Sizes
      <3>. QED
        BY <2>1, <3>1, FillFramed
    <2>2. CASE ReadFails
      BY <2>2, ReadFailsFramed
    <2>3. CASE set_input_fragment
      BY <2>3, SetInputFragmentFramed
    <2>4. CASE get_input_bytes \/ skip_input_bytes
      BY <2>4, TakesFramed
    <2>5. CASE NextRound
      BY <2>5, NextRoundFramed
    <2>6. CASE xdrrec_skiprecord
      BY <2>6, SkiprecordFramed
    <2>7. CASE xdrrec_eof \/ SvcPoll \/ MessageDone \/ svctcp_stat \/ GetbytesReturn
      BY <2>7, ControlFramed
    <2>8. ASSUME NEW n \in Nat \ {0}, xdrrec_getbytes(n) \/ xdrrec_inline_decode(n)
          PROVE  Framed'
      BY <2>8, ControlFramed, TakesFramed
    <2>9. ASSUME NEW n \in 1 .. MaxUnits, xdrrec_getbytes(n) \/ xdrrec_inline_decode(n)
          PROVE  Framed'
      <3>1. n \in Nat \ {0}
        BY RecAssumption
      <3>. QED
        BY <2>8, <2>9, <3>1
    <2>10. CASE xdrrec_getlong \/ xdrrec_getint32
      BY <2>8, <2>10 DEF xdrrec_getlong, xdrrec_getint32
    <2>. QED
      BY <1>2, <2>1, <2>2, <2>3, <2>4, <2>5, <2>6, <2>7, <2>9, <2>10 DEF Receiver
  <1>. QED
    BY <1>1, <1>2, StutterFramed DEF Next

\* The bytes under way are framed in every reachable state.
LEMMA FramedHolds ==
  ASSUME "eof" \notin TimesOutIn
  PROVE  Spec => [](RecInv /\ Framed)
  <1>1. Init => RecInv /\ Framed
    BY InitRecInv, InitFramed
  <1>2. RecInv /\ Framed /\ [Next]_vars => (RecInv /\ Framed)'
    BY NextRecInv, NextFramed
  <1>. QED
    BY <1>1, <1>2, PTL DEF Spec

\* A word that the fast case of xdrrec_getlong() reads is at a multiple of its
\* size, for every size of the buffers and every division into reads.
THEOREM WordsStayAligned ==
  ASSUME "eof" \notin TimesOutIn
  PROVE  Spec => []WordsAligned
  <1>1. ASSUME RecInv, Framed, rpc = "msg", AtHand(Unit)
        PROVE  (in_boundry - Len(inbuf)) % Unit = 0
    <2>1. /\ ReaderTypes /\ InputRight /\ Unit \in Nat \ {0} /\ Len(inbuf) \in Nat
          /\ in_boundry \in Int
      BY <1>1, ReaderBefore DEF ReaderTypes
    <2>2. header = NoHeader /\ current = 0 /\ len = 0 /\ left = 0 /\ got # <<>>
      BY <1>1, <2>1 DEF ReaderTypes, InputRight
    <2>3. Rest > 0
      BY <1>1, <2>1, <2>2, RestType DEF Rest, AtHand
    <2>4. ~Over
      <3>1. inbuf # <<>>
        BY <1>1, <2>1, EmptySeq DEF AtHand
      <3>. QED
        BY <1>1, <3>1 DEF Over
    <2>5. PICK L \in [1 .. Len(Ahead) + 1 -> Label] : Labels(L)
      BY <1>1, <2>4 DEF Framed
    <2>6. PICK l \in Label : l = L[1] /\ ReaderAt(l)
      BY <1>1, <2>5, ReaderFirst
    <2>7. PICK g \in Nat : g = Len(got[Len(got)])
      BY <2>1, <2>2, LastGotType
    <2>8. l.h = 0 /\ l.at = g + 1
      BY <1>1, <2>2, <2>3, <2>6, <2>7 DEF ReaderAt, Reading
    <2>9. Whole(Origin + 1 - (g + 1))
      <3>1. 1 \in 1 .. Len(Ahead) + 1
        BY <1>1, <2>5, ReaderFirst
      <3>2. Aligned(l, Origin, 1)
        BY <2>5, <2>6, <3>1, LabelsBefore
      <3>. QED
        BY <2>8, <3>2 DEF Aligned
    <2>10. Whole(g)
      <3>1. Whole(g + len - (current - left))
        BY <1>1, <2>1, <2>7 DEF InputRight, Reading
      <3>2. g + len - (current - left) = g
        BY <2>2
      <3>. QED
        BY <3>1, <3>2
    <2>11. PICK c \in Int : c = Origin
      <3>1. in_boundry - Len(inbuf) \in Int
        BY <2>1
      <3>. QED
        BY <3>1 DEF Origin
    <2>12. Whole(c)
      <3>1. Whole(c + 1 - (g + 1)) /\ c + 1 - (g + 1) \in Int
        BY <2>9, <2>11
      <3>2. (c + 1 - (g + 1)) + g = c
        OBVIOUS
      <3>3. Whole((c + 1 - (g + 1)) + g)
        BY <2>10, <3>1, WholeSum
      <3>. QED
        BY <3>2, <3>3
    <2>. QED
      BY <2>11, <2>12 DEF Whole, Origin
  <1>2. RecInv /\ Framed => WordsAligned
    BY <1>1 DEF WordsAligned
  <1>. QED
    BY <1>2, FramedHolds, PTL

-----------------------------------------------------------------------------
(* The record stream implements the channel of records.                    *)

\* The bytes that are delivered are the next ones of the record.
LEMMA DataIs ==
  ASSUME RecInv, Framed, NEW k \in Nat, Moves(k), TakesData(k), Reading, inbuf # <<>>
  PROVE  /\ Len(got) \in DOMAIN recs
         /\ Len(got[Len(got)]) + k <= Len(recs[Len(got)])
         /\ \A i \in 1 .. k : inbuf[i] = recs[Len(got)][Len(got[Len(got)]) + i]
  <1>1. /\ header = NoHeader /\ k > 0 /\ k <= Rest /\ k <= Len(inbuf) /\ Len(inbuf) \in Nat
    BY ReaderBefore DEF TakesData, Moves
  <1>2. ~Over
    BY DEF Over, Reading
  <1>3. PICK L \in [1 .. Len(Ahead) + 1 -> Label] : Labels(L)
    BY <1>2 DEF Framed
  <1>4. PICK l \in Label : l = L[1] /\ ReaderAt(l)
    BY <1>3, ReaderFirst
  <1>5. PICK g \in Nat, r \in Nat, K \in Nat : g = Len(got[Len(got)]) /\ r = Rest /\ K = Len(got)
    <2>1. ReaderTypes /\ got # <<>>
      BY ReaderBefore DEF InputRight, Reading
    <2>. QED
      BY <2>1, LastGotType, RestType
  <1>6. l.h = 0 /\ l.rec = K /\ l.n = r /\ l.at = g + 1
    BY <1>1, <1>4, <1>5 DEF ReaderAt
  <1>7. ASSUME NEW i \in 1 .. k
        PROVE  L[i].h = 0 /\ L[i].rec = K /\ L[i].at = g + i
    <2>1. PICK A \in Nat : A = Len(Ahead)
      BY <1>3, ReaderFirst
    <2>2. L \in [1 .. A + 1 -> Label] /\ \A p \in 1 .. A : Follows(L[p], L[p + 1])
      BY <1>3, <2>1, ReaderFirst
    <2>3. k \in 0 .. A
      <3>1. Len(inbuf) <= A
        BY <1>3, <2>1, ReaderFirst
      <3>. QED
        BY <1>1, <3>1
    <2>4. L[1].h = 0 /\ L[1].n > 0 /\ k <= L[1].n
      BY <1>1, <1>4, <1>5, <1>6
    <2>5. \A j \in 0 .. k : DataBehind(L[1], L[j + 1], j)
      BY <2>2, <2>3, <2>4, DataRun
    <2>6. i - 1 \in 0 .. k /\ (i - 1) + 1 = i /\ i - 1 < r /\ (g + 1) + (i - 1) = g + i
      BY <1>1, <1>5
    <2>7. DataBehind(l, L[i], i - 1)
      BY <1>4, <2>5, <2>6
    <2>. QED
      BY <1>6, <2>6, <2>7 DEF DataBehind
  <1>8. ASSUME NEW i \in 1 .. k
        PROVE  K \in DOMAIN recs /\ g + i \in DOMAIN recs[K] /\ inbuf[i] = recs[K][g + i]
    <2>1. i \in 1 .. Len(inbuf)
      BY <1>1
    <2>2. HoldsIn(L[i], inbuf[i], recs)
      BY <1>3, <2>1, ReaderFirst
    <2>3. ~(L[i].h > 0)
      BY <1>7
    <2>. QED
      BY <1>7, <2>2, <2>3 DEF HoldsIn
  <1>9. k \in 1 .. k
    BY <1>1
  <1>10. K \in DOMAIN recs /\ g + k \in DOMAIN recs[K]
    BY <1>8, <1>9
  <1>11. g + k <= Len(recs[K])
    <2>1. recs \in Seq(Seq(Byte))
      BY SenderBefore DEF SenderTypes
    <2>2. recs[K] \in Seq(Byte)
      BY <1>10, <2>1, LenProperties, ElementOfSeq
    <2>3. DOMAIN recs[K] = 1 .. Len(recs[K])
      BY <2>2, LenProperties
    <2>. QED
      BY <1>10, <2>3
  <1>. QED
    BY <1>5, <1>8, <1>10, <1>11

\* Delivery takes the next bytes of the record.
LEMMA DeliverTakes ==
  ASSUME RecInv, Framed, NEW k \in Nat, Moves(k), TakesData(k), Reading, inbuf # <<>>,
         NEW d \in Seq(Byte), Len(d) = k, \A i \in 1 .. k : d[i] = inbuf[i], Deliver(d),
         UNCHANGED recs
  PROVE  Channel!TakeSome
  <1>1. PICK g \in Nat, K \in Nat : g = Len(got[Len(got)]) /\ K = Len(got)
    <2>1. ReaderTypes /\ got # <<>>
      BY ReaderBefore DEF InputRight, Reading
    <2>. QED
      BY <2>1, LastGotType
  <1>2. PICK R : R = recs[K]
    OBVIOUS
  <1>3. /\ K \in DOMAIN recs /\ g + k <= Len(R)
        /\ \A i \in 1 .. k : inbuf[i] = R[g + i]
    BY <1>1, <1>2, DataIs
  <1>4. R \in Seq(Byte) /\ Len(R) \in Nat
    <2>1. recs \in Seq(Seq(Byte))
      BY SenderBefore DEF SenderTypes
    <2>2. R \in Seq(Byte)
      BY <1>2, <1>3, <2>1, LenProperties, ElementOfSeq
    <2>. QED
      BY <2>2, LenProperties
  <1>5. k > 0
    BY DEF TakesData
  <1>6. SubSeq(R, g + 1, g + k) = d
    <2> DEFINE s == SubSeq(R, g + 1, g + k)
    <2>1. \A i \in g + 1 .. g + k : i \in 1 .. Len(R)
      BY <1>3, <1>4
    <2>2. \A i \in g + 1 .. g + k : R[i] \in Byte
      BY <1>4, <2>1, ElementOfSeq
    <2>3. /\ s \in Seq(Byte)
          /\ Len(s) = IF g + 1 <= g + k THEN g + k - (g + 1) + 1 ELSE 0
          /\ \A i \in 1 .. g + k - (g + 1) + 1 : s[i] = R[g + 1 + i - 1]
      BY <2>2, SubSeqProperties
    <2>. HIDE DEF s
    <2>4. Len(s) = k /\ g + k - (g + 1) + 1 = k
      BY <1>5, <2>3
    <2>5. ASSUME NEW i \in 1 .. k
          PROVE  s[i] = d[i]
      <3>1. g + 1 + i - 1 = g + i /\ i \in 1 .. g + k - (g + 1) + 1
        BY <2>4
      <3>. QED
        BY <1>3, <2>3, <3>1
    <2>6. s \in Seq(Byte) /\ Len(s) = Len(d) /\ \A i \in 1 .. Len(s) : s[i] = d[i]
      BY <2>3, <2>4, <2>5
    <2>7. s = d
      BY <2>6, SeqEqual
    <2>. QED
      BY <2>7 DEF s
  <1>7. k \in 1 .. Len(R)
    BY <1>3, <1>4, <1>5
  <1>8. got' = [got EXCEPT ![K] = @ \o SubSeq(R, g + 1, g + k)]
    BY <1>1, <1>6 DEF Deliver
  <1>9. Channel!Take(k)
    BY <1>1, <1>2, <1>3, <1>8 DEF Channel!Take
  <1>. QED
    BY <1>1, <1>2, <1>3, <1>7, <1>9 DEF Channel!TakeSome

\* What is written extends the open record.
LEMMA ExtendWrites ==
  ASSUME SenderTypes, NEW d \in Seq(Byte), Extend(d), UNCHANGED got
  PROVE  Channel!Write
  <1>1. PICK n \in Nat, r \in Seq(Byte) : n = Len(recs) /\ r = OpenRec
    BY OpenRecType
  <1>2. PICK e : e = r \o d
    OBVIOUS
  <1>3. /\ e \in Seq(Byte) /\ Len(e) = Len(r) + Len(d) /\ Len(r) \in Nat /\ Len(d) \in Nat
        /\ \A i \in 1 .. Len(r) : e[i] = r[i]
    BY <1>2, JoinOf, LenProperties
  <1>4. recs' = [recs EXCEPT ![n] = e]
    BY <1>1, <1>2 DEF Extend, OpenRec
  <1>5. recs'[n] = e
    <2>1. Len(recs') = Len(recs) /\ OpenRec' = OpenRec \o d
      BY ExtendRecord
    <2>. QED
      BY <1>1, <1>2, <2>1 DEF OpenRec
  <1>6. IsPrefix(r, e)
    <2>1. Len(r) \in 0 .. Len(r) /\ Len(r) \in 0 .. Len(e)
      BY <1>3
    <2>2. /\ SubSeq(r, 1, Len(r)) \in Seq(Byte) /\ Len(SubSeq(r, 1, Len(r))) = Len(r)
          /\ \A i \in 1 .. Len(r) : SubSeq(r, 1, Len(r))[i] = r[i]
      BY <2>1, FrontOf
    <2>3. /\ SubSeq(e, 1, Len(r)) \in Seq(Byte) /\ Len(SubSeq(e, 1, Len(r))) = Len(r)
          /\ \A i \in 1 .. Len(r) : SubSeq(e, 1, Len(r))[i] = e[i]
      BY <1>3, <2>1, FrontOf
    <2>4. SubSeq(r, 1, Len(r)) = SubSeq(e, 1, Len(r))
      BY <1>3, <2>2, <2>3, SeqEqual
    <2>. QED
      BY <1>3, <2>4 DEF IsPrefix
  <1>7. recs[n] = r
    BY <1>1 DEF OpenRec
  <1>. QED
    BY <1>1, <1>4, <1>5, <1>6, <1>7 DEF Channel!Write, Channel!IsPrefix, IsPrefix

\* Every step is a step of the channel, or changes nothing that it shows.
LEMMA ChannelStep ==
  ASSUME RecInv, Framed, [Next]_vars
  PROVE  [Channel!Next]_<<recs, got>>
  <1>1. SenderTypes
    BY SenderBefore
  <1>2. ASSUME Sender
        PROVE  [Channel!Next]_<<recs, got>>
    <2>1. ASSUME NEW n \in Nat, Extend(Fresh(n)), UNCHANGED got
          PROVE  Channel!Next
      <3>1. Fresh(n) \in Seq(Byte)
        BY <1>1, FreshUnits
      <3>. QED
        BY <1>1, <2>1, <3>1, ExtendWrites DEF Channel!Next
    <2>2. CASE xdrrec_putlong \/ xdrrec_putint32
      BY <2>1, <2>2 DEF xdrrec_putlong, xdrrec_putint32
    <2>3. ASSUME NEW n \in 1 .. MaxUnits, xdrrec_inline_encode(n) \/ xdrrec_putbytes(n)
          PROVE  Channel!Next
      <3>1. n \in Nat
        BY RecAssumption
      <3>. QED
        BY <2>1, <2>3, <3>1 DEF xdrrec_inline_encode, xdrrec_putbytes
    <2>4. CASE PutbytesRound \/ Close
      BY <2>4 DEF PutbytesRound, Close
    <2>5. ASSUME NEW sendnow \in BOOLEAN, xdrrec_endofrecord(sendnow)
          PROVE  Channel!Next
      BY <2>5 DEF xdrrec_endofrecord, Channel!Next, Channel!EndRecord
    <2>. QED
      BY <1>2, <2>2, <2>3, <2>4, <2>5 DEF Sender
  <1>3. ASSUME Receiver
        PROVE  [Channel!Next]_<<recs, got>>
    <2>1. ASSUME UNCHANGED recs, BeginMessage
          PROVE  Channel!Next
      BY <2>1 DEF BeginMessage, Channel!Next, Channel!BeginRecord
    <2>2. ASSUME UNCHANGED recs, InputFailed
          PROVE  [Channel!Next]_<<recs, got>>
      BY <2>1, <2>2 DEF InputFailed
    <2>3. ASSUME NEW k \in 1 .. in_size, fill_input_buf(k)
          PROVE  UNCHANGED <<recs, got>>
      BY <2>3 DEF fill_input_buf
    <2>4. CASE ReadFails
      BY <2>2, <2>4 DEF ReadFails
    <2>5. CASE set_input_fragment
      BY <2>2, <2>5 DEF set_input_fragment
    <2>6. CASE get_input_bytes
      <3>1. UNCHANGED recs
        BY <2>6 DEF get_input_bytes
      <3>2. Channel!TakeSome
        BY <2>6, <3>1, GetInputBytesTakes, DeliverTakes
      <3>. QED
        BY <3>2 DEF Channel!Next
    <2>7. CASE skip_input_bytes \/ NextRound \/ xdrrec_eof \/ GetbytesReturn \/ SvcPoll
               \/ MessageDone \/ svctcp_stat
      BY <2>7 DEF skip_input_bytes, NextRound, xdrrec_eof, GetbytesReturn, SvcPoll, MessageDone,
                  svctcp_stat
    <2>8. CASE xdrrec_skiprecord
      BY <2>1, <2>8 DEF xdrrec_skiprecord
    <2>9. ASSUME NEW n \in Nat \ {0}, xdrrec_getbytes(n) \/ xdrrec_inline_decode(n)
          PROVE  [Channel!Next]_<<recs, got>>
      <3>1. CASE xdrrec_getbytes(n)
        BY <3>1 DEF xdrrec_getbytes
      <3>2. CASE xdrrec_inline_decode(n)
        <4>1. UNCHANGED recs
          BY <3>2 DEF xdrrec_inline_decode
        <4>2. Channel!TakeSome
          BY <3>2, <4>1, InlineDecodeTakes, DeliverTakes
        <4>. QED
          BY <4>2 DEF Channel!Next
      <3>. QED
        BY <2>9, <3>1, <3>2
    <2>10. ASSUME NEW n \in 1 .. MaxUnits, xdrrec_getbytes(n) \/ xdrrec_inline_decode(n)
          PROVE  [Channel!Next]_<<recs, got>>
      <3>1. n \in Nat \ {0}
        BY RecAssumption
      <3>. QED
        BY <2>9, <2>10, <3>1
    <2>11. CASE xdrrec_getlong \/ xdrrec_getint32
      BY <2>9, <2>11 DEF xdrrec_getlong, xdrrec_getint32
    <2>. QED
      BY <1>3, <2>3, <2>4, <2>5, <2>6, <2>7, <2>8, <2>10, <2>11 DEF Receiver
  <1>4. CASE UNCHANGED vars
    BY <1>4 DEF vars
  <1>. QED
    BY <1>2, <1>3, <1>4 DEF Next

\* However the bytes are divided into fragments, buffers and reads, the server
\* gets of each record what was written into it, one record after the other:
\* the record stream implements RecordChannel.
THEOREM RecordsStayIntact ==
  ASSUME "eof" \notin TimesOutIn
  PROVE  Spec => RecordsIntact
  <1>1. Init => Channel!Init
    BY DEF Init, Channel!Init
  <1>2. RecInv /\ Framed /\ [Next]_vars => [Channel!Next]_<<recs, got>>
    BY ChannelStep
  <1>. QED
    BY <1>1, <1>2, FramedHolds, PTL DEF Spec, RecordsIntact, Channel!Spec

=============================================================================
