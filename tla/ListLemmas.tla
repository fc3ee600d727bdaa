----------------------------- MODULE ListLemmas -----------------------------
(***************************************************************************)
(* Facts about linked lists as sequences (the chains of the reply cache,   *)
(* the callout list and the blocks of the level-1 allocator), and about    *)
(* the loops that walk them.                                               *)
(***************************************************************************)
EXTENDS Naturals, Sequences, SequencesExt, SequenceTheorems, WellFoundedInduction, TLAPS

\* What is left of a list when the element at a place is taken out.
LEMMA RemoveAtProperties ==
  ASSUME NEW S, NEW s \in Seq(S), NEW i \in 1 .. Len(s)
  PROVE  /\ RemoveAt(s, i) \in Seq(S)
         /\ Len(RemoveAt(s, i)) = Len(s) - 1
         /\ \A j \in 1 .. Len(s) - 1 : RemoveAt(s, i)[j] = IF j < i THEN s[j] ELSE s[j + 1]
  <1> DEFINE front == SubSeq(s, 1, i - 1)
             back  == SubSeq(s, i + 1, Len(s))
  <1>1. Len(s) \in Nat
    BY LenProperties
  <1>2. /\ front \in Seq(S)
        /\ Len(front) = i - 1
        /\ \A j \in 1 .. i - 1 : front[j] = s[j]
    <2>1. \A j \in 1 .. i - 1 : s[j] \in S
      BY <1>1, ElementOfSeq
    <2>. QED
      BY <1>1, <2>1, SubSeqProperties
  <1>3. /\ back \in Seq(S)
        /\ Len(back) = Len(s) - i
        /\ \A j \in 1 .. Len(s) - i : back[j] = s[i + j]
    <2>1. \A j \in i + 1 .. Len(s) : s[j] \in S
      BY <1>1, ElementOfSeq
    <2>. QED
      BY <1>1, <2>1, SubSeqProperties
  <1>. HIDE DEF front, back
  <1>4. /\ front \o back \in Seq(S)
        /\ Len(front \o back) = Len(front) + Len(back)
        /\ \A j \in 1 .. Len(front) + Len(back) :
             (front \o back)[j] = IF j <= Len(front) THEN front[j] ELSE back[j - Len(front)]
    BY <1>2, <1>3, ConcatProperties
  <1>5. ASSUME NEW j \in 1 .. Len(s) - 1
        PROVE  (front \o back)[j] = IF j < i THEN s[j] ELSE s[j + 1]
    <2>1. CASE j < i
      BY <1>1, <1>2, <1>3, <1>4, <2>1
    <2>2. CASE ~(j < i)
      <3> DEFINE k == j - (i - 1)
      <3>1. k \in 1 .. Len(s) - i /\ i + k = j + 1 /\ ~(j <= i - 1)
        BY <1>1, <2>2
      <3>2. (front \o back)[j] = back[k]
        BY <1>1, <1>2, <1>3, <1>4, <3>1
      <3>. QED
        BY <1>3, <2>2, <3>1, <3>2
    <2>. QED
      BY <2>1, <2>2
  <1>6. RemoveAt(s, i) = front \o back
    BY DEF RemoveAt, front, back
  <1>7. Len(front) + Len(back) = Len(s) - 1
    BY <1>1, <1>2, <1>3
  <1>. QED
    BY <1>4, <1>5, <1>6, <1>7

\* An element that is put in front.
LEMMA ConsProperties ==
  ASSUME NEW S, NEW s \in Seq(S), NEW e \in S
  PROVE  /\ <<e>> \o s \in Seq(S)
         /\ ToSet(<<e>> \o s) = ToSet(s) \cup {e}
         /\ IsInjective(s) /\ e \notin ToSet(s) => IsInjective(<<e>> \o s)
  <1> DEFINE t == <<e>> \o s
  <1>1. Len(s) \in Nat /\ DOMAIN s = 1 .. Len(s)
    BY LenProperties
  <1>2. <<e>> \in Seq(S) /\ Len(<<e>>) = 1 /\ <<e>>[1] = e
    OBVIOUS
  <1>3. /\ t \in Seq(S)
        /\ Len(t) = 1 + Len(s)
        /\ t[1] = e
        /\ \A i \in 1 .. Len(s) : t[i + 1] = s[i]
    BY <1>1, <1>2, ConcatProperties
  <1>. HIDE DEF t
  <1>4. DOMAIN t = 1 .. 1 + Len(s)
    BY <1>3, LenProperties
  <1>5. \A i \in DOMAIN t : i = 1 \/ (i - 1 \in DOMAIN s /\ t[i] = s[i - 1])
    BY <1>1, <1>3, <1>4
  <1>6. 1 \in DOMAIN t /\ \A i \in DOMAIN s : i + 1 \in DOMAIN t
    BY <1>1, <1>4
  <1>7. ToSet(t) = ToSet(s) \cup {e}
    BY <1>1, <1>3, <1>5, <1>6 DEF ToSet
  <1>8. ASSUME IsInjective(s), e \notin ToSet(s)
        PROVE  IsInjective(t)
    <2>1. \A i \in DOMAIN s : s[i] # e
      BY <1>8 DEF ToSet
    <2>. QED
      BY <1>1, <1>3, <1>4, <1>5, <1>8, <2>1 DEF IsInjective
  <1>. QED
    BY <1>3, <1>7, <1>8 DEF t

\* An element that is put at the end.
LEMMA AppendSetProperties ==
  ASSUME NEW S, NEW s \in Seq(S), NEW e \in S
  PROVE  /\ ToSet(Append(s, e)) = ToSet(s) \cup {e}
         /\ IsInjective(Append(s, e)) <=> IsInjective(s) /\ e \notin ToSet(s)
  <1> DEFINE t == Append(s, e)
  <1>1. Len(s) \in Nat /\ DOMAIN s = 1 .. Len(s)
    BY LenProperties
  <1>2. /\ t \in Seq(S)
        /\ Len(t) = Len(s) + 1
        /\ \A i \in 1 .. Len(s) : t[i] = s[i]
        /\ t[Len(s) + 1] = e
    BY AppendProperties
  <1>. HIDE DEF t
  <1>3. DOMAIN t = 1 .. Len(s) + 1
    BY <1>2, LenProperties
  <1>4. \A i \in DOMAIN t : i = Len(s) + 1 \/ (i \in DOMAIN s /\ t[i] = s[i])
    BY <1>1, <1>2, <1>3
  <1>5. Len(s) + 1 \in DOMAIN t /\ \A i \in DOMAIN s : i \in DOMAIN t
    BY <1>1, <1>3
  <1>6. ToSet(t) = ToSet(s) \cup {e}
    BY <1>1, <1>2, <1>4, <1>5 DEF ToSet
  <1>7. ASSUME IsInjective(s), e \notin ToSet(s)
        PROVE  IsInjective(t)
    <2>1. \A i \in DOMAIN s : s[i] # e
      BY <1>7 DEF ToSet
    <2>2. \A i, j \in DOMAIN s : s[i] = s[j] => i = j
      BY ONLY <1>7 DEF IsInjective
    <2>3. \A i, j \in DOMAIN t : t[i] = t[j] => i = j
      BY ONLY <1>2, <1>4, <2>1, <2>2, Zenon
    <2>. QED
      BY ONLY <2>3 DEF IsInjective
  <1>8. ASSUME IsInjective(t)
        PROVE  IsInjective(s) /\ e \notin ToSet(s)
    <2>1. \A i, j \in DOMAIN t : t[i] = t[j] => i = j
      BY ONLY <1>8 DEF IsInjective
    <2>2. \A i \in DOMAIN s : i \in DOMAIN t /\ t[i] = s[i] /\ i # Len(s) + 1
      BY <1>1, <1>2, <1>3
    <2>3. \A i, j \in DOMAIN s : s[i] = s[j] => i = j
      BY ONLY <2>1, <2>2, Zenon
    <2>4. \A i \in DOMAIN s : s[i] # e
      BY ONLY <1>2, <1>5, <2>1, <2>2, Zenon
    <2>. QED
      BY ONLY <2>3, <2>4 DEF IsInjective, ToSet
  <1>. QED
    BY <1>6, <1>7, <1>8 DEF t

\* An element that is looked for and taken out of a list that has it once.
LEMMA RemoveProperties ==
  ASSUME NEW S, NEW s \in Seq(S), IsInjective(s), NEW e \in ToSet(s)
  PROVE  LET t == RemoveAt(s, CHOOSE i \in DOMAIN s : s[i] = e)
         IN  t \in Seq(S) /\ ToSet(t) = ToSet(s) \ {e} /\ IsInjective(t)
  <1> DEFINE at == CHOOSE i \in DOMAIN s : s[i] = e
             t  == RemoveAt(s, at)
  <1>1. Len(s) \in Nat /\ DOMAIN s = 1 .. Len(s)
    BY LenProperties
  <1>2. at \in 1 .. Len(s) /\ s[at] = e
    BY <1>1 DEF ToSet
  <1>. HIDE DEF at
  <1>3. /\ t \in Seq(S)
        /\ Len(t) = Len(s) - 1
        /\ \A j \in 1 .. Len(s) - 1 : t[j] = IF j < at THEN s[j] ELSE s[j + 1]
    BY <1>2, RemoveAtProperties
  <1>. HIDE DEF t
  <1>4. DOMAIN t = 1 .. Len(s) - 1
    BY <1>3, LenProperties
  <1> DEFINE from(j) == IF j < at THEN j ELSE j + 1
             to(i)   == IF i < at THEN i ELSE i - 1
  <1>5. \A j \in DOMAIN t : from(j) \in DOMAIN s /\ from(j) # at /\ t[j] = s[from(j)]
    BY <1>1, <1>2, <1>3, <1>4
  <1>6. \A i \in DOMAIN s : i # at => to(i) \in DOMAIN t /\ from(to(i)) = i
    BY <1>1, <1>2, <1>4
  <1>7. \A i, j \in DOMAIN t : from(i) = from(j) => i = j
    BY <1>2, <1>4
  <1>. HIDE DEF from, to
  <1>8. \A i \in DOMAIN s : s[i] = e <=> i = at
    BY <1>1, <1>2 DEF IsInjective
  <1>9. ToSet(t) = ToSet(s) \ {e}
    BY <1>5, <1>6, <1>8 DEF ToSet
  <1>10. IsInjective(t)
    BY <1>5, <1>7 DEF IsInjective
  <1>. QED
    BY <1>3, <1>9, <1>10 DEF t, at

\* Every set of natural numbers has a least one.
LEMMA LeastNatural ==
  ASSUME NEW T \in SUBSET Nat, T # {}
  PROVE  \E m \in T : \A k \in T : m <= k
  <1>1. PICK m \in T : \A k \in T : ~(<<k, m>> \in OpToRel(<, Nat))
    BY NatLessThanWellFounded, WFMin
  <1>2. ASSUME NEW k \in T
        PROVE  m <= k
    <2>1. OpToRel(<, Nat) = {r \in Nat \X Nat : r[1] < r[2]}
      BY DEF OpToRel
    <2>2. ~(<<k, m>> \in {r \in Nat \X Nat : r[1] < r[2]})
      BY <1>1, <2>1
    <2>3. ~(k < m)
      BY <2>2
    <2>. QED
      BY <2>3
  <1>. QED
    BY <1>2

\* The least of a set of natural numbers.
LEMMA LeastIsMin ==
  ASSUME NEW S \in SUBSET Nat, NEW m \in S, \A i \in S : m <= i
  PROVE  Min(S) = m
  <1>1. \E x \in S : \A y \in S : x <= y
    OBVIOUS
  <1>2. Min(S) \in S /\ \A y \in S : Min(S) <= y
    BY <1>1 DEF Min
  <1>3. PICK x : x = Min(S)
    OBVIOUS
  <1>4. x \in Nat /\ m \in Nat /\ x <= m /\ m <= x
    BY <1>2, <1>3
  <1>5. x = m
    BY <1>4
  <1>. QED
    BY <1>3, <1>5

\* The greatest of a set of natural numbers.
LEMMA GreatestIsMax ==
  ASSUME NEW S \in SUBSET Nat, NEW m \in S, \A i \in S : i <= m
  PROVE  Max(S) = m
  <1>1. \E x \in S : \A y \in S : x >= y
    OBVIOUS
  <1>2. Max(S) \in S /\ \A y \in S : Max(S) >= y
    BY <1>1 DEF Max
  <1>3. PICK x : x = Max(S)
    OBVIOUS
  <1>4. x \in Nat /\ m \in Nat /\ x <= m /\ m <= x
    BY <1>2, <1>3
  <1>5. x = m
    BY <1>4
  <1>. QED
    BY <1>3, <1>5

\* Induction on the steps of a loop, for the set of the steps after which
\* something holds.
LEMMA LoopInduction ==
  ASSUME NEW n \in Nat, NEW T \in SUBSET (0 .. n),
         0 \in T, \A i \in 1 .. n : i - 1 \in T => i \in T
  PROVE  T = 0 .. n
  <1>1. SUFFICES ASSUME (0 .. n) \ T # {}
                 PROVE  FALSE
    OBVIOUS
  <1>2. PICK m \in (0 .. n) \ T : \A k \in (0 .. n) \ T : m <= k
    <2>1. (0 .. n) \ T \in SUBSET Nat
      OBVIOUS
    <2>. QED
      BY <1>1, <2>1, LeastNatural
  <1>3. m \in 1 .. n /\ m - 1 \in 0 .. n /\ ~(m <= m - 1)
    BY <1>2
  <1>4. m - 1 \in T
    BY <1>2, <1>3
  <1>. QED
    BY <1>2, <1>3, <1>4

\* A loop of n steps over a variable with values in V, and the values that
\* the variable has after each of the steps.
LoopSteps(n, V) == [1 .. n -> [V -> V]]

LoopValues(n, first, step, g) == g[0] = first /\ \A i \in 1 .. n : g[i] = step[i][g[i - 1]]

\* Every loop has them.
LEMMA LoopDefined ==
  ASSUME NEW n \in Nat, NEW V, NEW first \in V, NEW step \in LoopSteps(n, V)
  PROVE  \E g \in [0 .. n -> V] : LoopValues(n, first, step, g)
  <1> DEFINE Goes(m, g) == g[0] = first /\ \A i \in 1 .. m : g[i] = step[i][g[i - 1]]
             T == {m \in 0 .. n : \E g \in [0 .. n -> V] : Goes(m, g)}
  <1>1. 0 \in T
    <2> DEFINE g == [i \in 0 .. n |-> first]
    <2>1. g \in [0 .. n -> V] /\ g[0] = first
      OBVIOUS
    <2>. HIDE DEF g
    <2>2. Goes(0, g)
      BY <2>1
    <2>. QED
      BY <2>1, <2>2
  <1>2. ASSUME NEW i \in 1 .. n, i - 1 \in T
        PROVE  i \in T
    <2>1. PICK g \in [0 .. n -> V] : Goes(i - 1, g)
      BY <1>2
    <2> DEFINE v == step[i][g[i - 1]]
               h == [g EXCEPT ![i] = v]
    <2>2. v \in V
      BY DEF LoopSteps
    <2>. HIDE DEF v
    <2>3. h \in [0 .. n -> V] /\ h[i] = v /\ \A j \in 0 .. n : j # i => h[j] = g[j]
      BY <2>2
    <2>. HIDE DEF h
    <2>4. ASSUME NEW j \in 1 .. i
          PROVE  h[j] = step[j][h[j - 1]]
      <3>1. j - 1 \in 0 .. n /\ j - 1 # i
        OBVIOUS
      <3>2. h[j - 1] = g[j - 1]
        BY <2>3, <3>1
      <3>3. CASE j = i
        BY <2>3, <3>2, <3>3 DEF v
      <3>4. CASE j # i
        <4>1. j \in 1 .. i - 1 /\ j \in 0 .. n
          BY <3>4
        <4>. QED
          BY <2>1, <2>3, <3>2, <3>4, <4>1
      <3>. QED
        BY <3>3, <3>4
    <2>5. h[0] = first
      BY <2>1, <2>3
    <2>6. Goes(i, h)
      BY <2>4, <2>5
    <2>. HIDE DEF Goes
    <2>. QED
      BY <2>3, <2>6
  <1>3. T = 0 .. n
    <2>. HIDE DEF T
    <2>1. T \in SUBSET (0 .. n)
      BY DEF T
    <2>. QED
      BY <1>1, <1>2, <2>1, LoopInduction
  <1>4. n \in T
    <2>. HIDE DEF T
    <2>. QED
      BY <1>3
  <1>5. \E g \in [0 .. n -> V] : Goes(n, g)
    BY <1>4
  <1>. QED
    BY <1>5 DEF LoopValues

=============================================================================
