--------------------------- MODULE CalloutsProofs ---------------------------
(***************************************************************************)
(* The callout list answers every call right, agrees with the portmapper   *)
(* and has every callout freed at shutdown, for any number of programs,    *)
(* versions, functions and calls of the application; and which callouts    *)
(* svc_l1_cleanup() frees a second time.                                   *)
(***************************************************************************)
EXTENDS Callouts, ListLemmas, TLAPS

Listed == ToSet(svc_head)

-----------------------------------------------------------------------------
(* svc_find()                                                              *)

\* svc_find() finds the callout of a version if and only if the list has one,
\* in a state and in the next.
LEMMA FindsOne ==
  ASSUME svc_head \in Seq(Block), KeysUnique, IsInjective(svc_head), NEW k
  PROVE  /\ SvcFind(k) # None <=> \E s \in Listed : KeyOf(s) = k
         /\ \A s \in Listed : KeyOf(s) = k => SvcFind(k) = s
  <1> DEFINE matching == {i \in DOMAIN svc_head : KeyOf(svc_head[i]) = k}
  <1>1. DOMAIN svc_head = 1 .. Len(svc_head) /\ Len(svc_head) \in Nat
    BY LenProperties
  <1>2. CASE matching = {}
    BY <1>2 DEF SvcFind, Listed, ToSet
  <1>3. ASSUME NEW i \in matching
        PROVE  SvcFind(k) = svc_head[i] /\ svc_head[i] \in Listed /\ svc_head[i] # None
    <2>1. svc_head[i] \in Listed /\ \A j \in matching : svc_head[j] \in Listed
      BY DEF Listed, ToSet
    <2>2. \A j \in matching : j = i
      BY <2>1 DEF KeysUnique, IsInjective, Listed
    <2>3. matching = {i} /\ i \in Nat
      BY <1>1, <2>2
    <2>4. Min({i}) = i
      BY <2>3, LeastIsMin
    <2>5. SvcFind(k) = svc_head[Min(matching)]
      BY <2>3 DEF SvcFind
    <2>6. svc_head[i] \in Block
      BY <1>1, ElementOfSeq
    <2>. QED
      BY <2>1, <2>3, <2>4, <2>5, <2>6, CalloutAssumption
  <1>4. \A s \in Listed : KeyOf(s) = k => \E i \in matching : svc_head[i] = s
    BY DEF Listed, ToSet
  <1>. QED
    BY <1>2, <1>3, <1>4

\* The same in the next state.
LEMMA FindsOneNext ==
  ASSUME svc_head' \in Seq(Block), KeysUnique', IsInjective(svc_head'), NEW k
  PROVE  /\ SvcFind(k)' # None <=> \E s \in Listed' : KeyOf(s)' = k
         /\ \A s \in Listed' : KeyOf(s)' = k => SvcFind(k)' = s
  <1> DEFINE matching == {i \in DOMAIN svc_head' : KeyOf(svc_head[i])' = k}
  <1>1. DOMAIN svc_head' = 1 .. Len(svc_head') /\ Len(svc_head') \in Nat
    BY LenProperties
  <1>2. CASE matching = {}
    BY <1>2 DEF SvcFind, Listed, ToSet, KeyOf
  <1>3. ASSUME NEW i \in matching
        PROVE  SvcFind(k)' = svc_head'[i] /\ svc_head'[i] \in Listed' /\ svc_head'[i] # None
    <2>1. svc_head'[i] \in Listed' /\ \A j \in matching : svc_head'[j] \in Listed'
      BY DEF Listed, ToSet
    <2>2. \A j \in matching : j = i
      BY <2>1 DEF KeysUnique, IsInjective, Listed, KeyOf
    <2>3. matching = {i} /\ i \in Nat
      BY <1>1, <2>2
    <2>4. Min({i}) = i
      BY <2>3, LeastIsMin
    <2>5. SvcFind(k)' = svc_head'[Min(matching)]
      BY <2>3 DEF SvcFind, KeyOf
    <2>6. svc_head'[i] \in Block
      BY <1>1, ElementOfSeq
    <2>. QED
      BY <2>1, <2>3, <2>4, <2>5, <2>6, CalloutAssumption
  <1>4. \A s \in Listed' : KeyOf(s)' = k => \E i \in matching : svc_head'[i] = s
    BY DEF Listed, ToSet, KeyOf
  <1>. QED
    BY <1>2, <1>3, <1>4

\* What the invariant says of a callout in the list.
LEMMA ListedCallout ==
  ASSUME CalloutInv, NEW s \in Listed
  PROVE  /\ s \in Block
         /\ callout[s] \in Callout
         /\ KeyOf(s) \in Key
         /\ SvcFind(KeyOf(s)) = s /\ s # None
         /\ running => s \in heap
  <1>1. svc_head \in Seq(Block) /\ IsInjective(svc_head) /\ KeysUnique
    BY DEF CalloutInv, CalloutTypes, CalloutsFreed
  <1>2. s \in Block
    BY <1>1, LenProperties, ElementOfSeq DEF Listed, ToSet
  <1>3. callout[s] \in Callout
    BY DEF CalloutInv, CalloutTypes, Listed
  <1>4. KeyOf(s) \in Key
    BY <1>3 DEF KeyOf, Key, Callout
  <1>5. SvcFind(KeyOf(s)) = s
    BY <1>1, FindsOne
  <1>6. running => s \in heap
    BY DEF CalloutInv, CalloutsFreed, Listed
  <1>. QED
    BY <1>2, <1>3, <1>4, <1>5, <1>6, CalloutAssumption

\* A version that is found has its callout.
LEMMA FoundCallout ==
  ASSUME CalloutInv, NEW k, SvcFind(k) # None
  PROVE  SvcFind(k) \in Listed /\ KeyOf(SvcFind(k)) = k
  <1>1. svc_head \in Seq(Block) /\ IsInjective(svc_head) /\ KeysUnique
    BY DEF CalloutInv, CalloutTypes, CalloutsFreed
  <1>. QED
    BY <1>1, FindsOne

\* svc_is_mapped() in terms of the list.
LEMMA MappedInList ==
  ASSUME CalloutInv, NEW k
  PROVE  SvcIsMapped(k) <=> \E s \in Listed : KeyOf(s) = k /\ callout[s].mapped
  <1>1. svc_head \in Seq(Block) /\ IsInjective(svc_head) /\ KeysUnique
    BY DEF CalloutInv, CalloutTypes, CalloutsFreed
  <1>. QED
    BY <1>1, FindsOne DEF SvcIsMapped

\* The same in the next state.
LEMMA MappedInListNext ==
  ASSUME svc_head' \in Seq(Block), KeysUnique', IsInjective(svc_head'), NEW k
  PROVE  SvcIsMapped(k)' <=> \E s \in Listed' : KeyOf(s)' = k /\ callout'[s].mapped
  BY FindsOneNext DEF SvcIsMapped

-----------------------------------------------------------------------------
(* svc_register()                                                          *)

\* The callout is bound if the portmapper was asked and agrees.
LEMMA PmapItFacts ==
  ASSUME CalloutTypes, NEW s \in Block, NEW c \in Callout, NEW protocol \in Protocols \cup {None},
         NEW agrees \in BOOLEAN, PmapIt(s, c, protocol, agrees)
  PROVE  LET bound == protocol # None /\ agrees
         IN  /\ callout' \in [Block -> Callout \cup {None}]
             /\ callout'[s] \in Callout
             /\ callout'[s].prog = c.prog /\ callout'[s].vers = c.vers
             /\ callout'[s].dispatch = c.dispatch
             /\ callout'[s].mapped <=> c.mapped \/ bound
             /\ \A t \in Block : t # s => callout'[t] = callout[t]
             /\ pmap' \in [Key -> SUBSET Protocols]
             /\ \A k \in Key : pmap'[k] # {} <=> pmap[k] # {} \/ (k = <<c.prog, c.vers>> /\ bound)
  <1>1. /\ callout \in [Block -> Callout \cup {None}]
        /\ pmap \in [Key -> SUBSET Protocols]
        /\ <<c.prog, c.vers>> \in Key
    BY DEF CalloutTypes, Callout, Key
  <1>2. CASE protocol # None /\ agrees
    <2> DEFINE d == [c EXCEPT !.mapped = TRUE]
    <2>1. /\ d \in Callout
          /\ d.prog = c.prog /\ d.vers = c.vers /\ d.dispatch = c.dispatch /\ d.mapped
      BY DEF Callout
    <2>2. /\ callout' = [callout EXCEPT ![s] = d]
          /\ pmap' = [pmap EXCEPT ![<<c.prog, c.vers>>] = @ \cup {protocol}]
      BY <1>2 DEF PmapIt
    <2>. HIDE DEF d
    <2>3. /\ callout' \in [Block -> Callout \cup {None}]
          /\ callout'[s] = d
          /\ \A t \in Block : t # s => callout'[t] = callout[t]
      BY <1>1, <2>1, <2>2
    <2>4. /\ pmap' \in [Key -> SUBSET Protocols]
          /\ \A k \in Key : pmap'[k] # {} <=> pmap[k] # {} \/ k = <<c.prog, c.vers>>
      BY <1>1, <1>2, <2>2
    <2>. QED
      BY <1>2, <2>1, <2>3, <2>4
  <1>3. CASE ~(protocol # None /\ agrees)
    <2>1. callout' = [callout EXCEPT ![s] = c] /\ pmap' = pmap
      BY <1>3 DEF PmapIt
    <2>2. /\ callout' \in [Block -> Callout \cup {None}]
          /\ callout'[s] = c
          /\ \A t \in Block : t # s => callout'[t] = callout[t]
      BY <1>1, <2>1
    <2>. QED
      BY <1>1, <1>3, <2>1, <2>2
  <1>. QED
    BY <1>2, <1>3

\* The memory of l1_vec is a number of entries.
LEMMA EnlargedType ==
  ASSUME l1_cap \in Nat
  PROVE  Enlarged \in Nat
  <1> DEFINE n == L1_INIT_SIZE * 16
  <1>1. L1_INIT_SIZE \in Nat
    BY CalloutAssumption
  <1>2. n \in Nat
    BY <1>1
  <1>. HIDE DEF n
  <1>3. n \div 10 \in Nat
    BY <1>2
  <1>. QED
    BY <1>1, <1>3 DEF Enlarged, n

\* svc_register() of a version without a callout keeps the invariant: the new
\* block is not in the list, nor has the list its key.
LEMMA RegisterNewKeeps ==
  ASSUME CalloutInv, NEW k \in Key, NEW f \in Functions, NEW protocol \in Protocols \cup {None},
         NEW agrees \in BOOLEAN, SvcRegisterNew(k, f, protocol, agrees)
  PROVE  CalloutInv'
  <1> DEFINE c     == [prog |-> k[1], vers |-> k[2], dispatch |-> f, mapped |-> FALSE]
             bound == protocol # None /\ agrees
  <1>1. PICK s \in Block :
          /\ SvcL1Alloc(s)
          /\ svc_head' = <<s>> \o svc_head
          /\ PmapIt(s, c, protocol, agrees)
    BY DEF SvcRegisterNew
  <1>2. /\ running /\ SvcFind(k) = None
        /\ table' = [table EXCEPT ![k] = f]
        /\ UNCHANGED <<twice, running, unregistered, left>>
    BY DEF SvcRegisterNew, unreg
  <1>3. k = <<k[1], k[2]>> /\ k[1] \in Progs /\ k[2] \in Vers
    BY DEF Key
  <1>4. /\ c \in Callout /\ c.prog = k[1] /\ c.vers = k[2]
        /\ c.dispatch = f /\ ~c.mapped
    BY <1>3 DEF Callout
  <1>. HIDE DEF c
  <1>5. s \notin heap /\ heap' = heap \cup {s} /\ l1_vec' = Append(l1_vec, s) /\ l1_cap' = Enlarged
    BY <1>1 DEF SvcL1Alloc
  <1>6. /\ CalloutTypes
        /\ svc_head \in Seq(Block) /\ IsInjective(svc_head)
        /\ heap = Listed
        /\ table \in [Key -> Functions \cup {None}]
    BY <1>2 DEF CalloutInv, CalloutTypes, CalloutsFreed, Listed
  <1>7. /\ svc_head' \in Seq(Block)
        /\ Listed' = Listed \cup {s}
        /\ IsInjective(svc_head')
    BY <1>1, <1>5, <1>6, ConsProperties DEF Listed
  <1>8. /\ callout' \in [Block -> Callout \cup {None}]
        /\ callout'[s] \in Callout
        /\ callout'[s].prog = k[1] /\ callout'[s].vers = k[2]
        /\ callout'[s].dispatch = f
        /\ callout'[s].mapped <=> bound
        /\ \A t \in Block : t # s => callout'[t] = callout[t]
        /\ pmap' \in [Key -> SUBSET Protocols]
        /\ \A j \in Key : pmap'[j] # {} <=> pmap[j] # {} \/ (j = k /\ bound)
    <2>1. /\ callout' \in [Block -> Callout \cup {None}]
          /\ callout'[s] \in Callout
          /\ callout'[s].prog = c.prog /\ callout'[s].vers = c.vers
          /\ callout'[s].dispatch = c.dispatch
          /\ callout'[s].mapped <=> c.mapped \/ bound
          /\ \A t \in Block : t # s => callout'[t] = callout[t]
          /\ pmap' \in [Key -> SUBSET Protocols]
          /\ \A j \in Key : pmap'[j] # {} <=> pmap[j] # {} \/ (j = <<c.prog, c.vers>> /\ bound)
      <3>1. CalloutTypes /\ c \in Callout /\ PmapIt(s, c, protocol, agrees)
        BY <1>1, <1>4, <1>6
      <3>. QED
        BY <3>1, PmapItFacts
    <2>. QED
      BY <1>3, <1>4, <2>1
  <1>. HIDE DEF bound
  <1>9. /\ KeyOf(s)' = k
        /\ \A t \in Listed : t \in Block /\ t # s /\ callout'[t] = callout[t] /\ KeyOf(t)' = KeyOf(t)
    <2>1. KeyOf(s)' = k
      BY <1>3, <1>8 DEF KeyOf
    <2>2. \A t \in Listed : t \in Block /\ t # s
      BY <1>5, <1>6, ListedCallout
    <2>. QED
      BY <1>8, <2>1, <2>2 DEF KeyOf
  <1>10. \A t \in Listed : KeyOf(t) # k
    BY <1>2, <1>6, FindsOne DEF CalloutInv
  <1>11. KeysUnique'
    BY <1>7, <1>9, <1>10 DEF CalloutInv, KeysUnique, Listed
  <1>12. CalloutTypes'
    <2>1. \A t \in Listed' : callout'[t] \in Callout
      BY <1>7, <1>8, <1>9, ListedCallout
    <2>2. l1_vec' \in Seq(Block) /\ l1_cap' \in Nat
      <3>1. l1_vec \in Seq(Block) /\ l1_cap \in Nat
        BY <1>6 DEF CalloutTypes
      <3>. QED
        BY <1>5, <3>1, AppendProperties, EnlargedType
    <2>3. table' \in [Key -> Functions \cup {None}]
      BY <1>2, <1>6
    <2>4. /\ heap' \subseteq Block /\ {twice', running', unregistered'} \subseteq BOOLEAN
          /\ left' \subseteq Key
      BY <1>2, <1>5, <1>6 DEF CalloutTypes
    <2>. QED
      BY <1>7, <1>8, <2>1, <2>2, <2>3, <2>4 DEF CalloutTypes, Listed
  <1>13. ListRight'
    <2>1. table'[k] = f /\ \A j \in Key : j # k => table'[j] = table[j]
      BY <1>2, <1>6
    <2>2. ASSUME NEW t \in Listed'
          PROVE  table'[KeyOf(t)'] = callout'[t].dispatch
      <3>1. CASE t = s
        BY <1>8, <1>9, <2>1, <3>1
      <3>2. CASE t # s
        <4>1. t \in Listed
          BY <1>7, <3>2
        <4>2. table[KeyOf(t)] = callout[t].dispatch /\ KeyOf(t) \in Key
          BY <4>1, ListedCallout DEF CalloutInv, ListRight, Listed
        <4>. QED
          BY <1>9, <1>10, <2>1, <4>1, <4>2
      <3>. QED
        BY <3>1, <3>2
    <2>3. ASSUME NEW j \in Key, table'[j] # None
          PROVE  \E t \in Listed' : KeyOf(t)' = j
      <3>1. CASE j = k
        BY <1>7, <1>9, <3>1
      <3>2. CASE j # k
        <4>1. \E t \in Listed : KeyOf(t) = j
          BY <2>1, <2>3, <3>2 DEF CalloutInv, ListRight, Listed
        <4>. QED
          BY <1>7, <1>9, <4>1
      <3>. QED
        BY <3>1, <3>2
    <2>. QED
      BY <2>2, <2>3 DEF ListRight, Listed
  <1>14. BindingsRight'
    <2>1. ASSUME NEW j \in Key
          PROVE  /\ SvcIsMapped(j)' => pmap'[j] # {}
                 /\ pmap'[j] # {} => SvcIsMapped(j)' \/ j \in left'
      <3>1. LET mapped == \E t \in Listed : KeyOf(t) = j /\ callout[t].mapped
            IN  (mapped => pmap[j] # {}) /\ (pmap[j] # {} => mapped \/ j \in left)
        BY MappedInList DEF CalloutInv, BindingsRight
      <3>2. SvcIsMapped(j)' <=> \E t \in Listed' : KeyOf(t)' = j /\ callout'[t].mapped
        BY <1>7, <1>11, MappedInListNext
      <3>. QED
        BY <1>2, <1>7, <1>8, <1>9, <3>1, <3>2
    <2>. QED
      BY <2>1 DEF BindingsRight
  <1>15. CalloutsFreed'
    BY <1>2, <1>5, <1>6, <1>7 DEF CalloutInv, CalloutsFreed, Listed
  <1>16. L1KnowsHeap'
    <2>1. l1_vec \in Seq(Block)
      BY <1>6 DEF CalloutTypes
    <2>2. heap \subseteq ToSet(l1_vec) /\ (unregistered <=> L1Stale)
      BY <1>2 DEF CalloutInv, L1KnowsHeap
    <2>3. /\ ToSet(l1_vec') = ToSet(l1_vec) \cup {s}
          /\ IsInjective(l1_vec') <=> IsInjective(l1_vec) /\ s \notin ToSet(l1_vec)
      BY <1>5, <2>1, AppendSetProperties
    <2>4. L1Stale' <=> L1Stale
      <3>1. L1Stale' <=> \/ ~(ToSet(l1_vec) \cup {s} \subseteq heap \cup {s})
                         \/ ~IsInjective(l1_vec) \/ s \in ToSet(l1_vec)
        BY <1>5, <2>3 DEF L1Stale
      <3>. QED
        BY <1>5, <3>1 DEF L1Stale
    <2>5. heap' \subseteq ToSet(l1_vec')
      BY <1>5, <2>2, <2>3
    <2>. QED
      BY <1>2, <2>2, <2>4, <2>5 DEF L1KnowsHeap
  <1>. QED
    BY <1>11, <1>12, <1>13, <1>14, <1>15, <1>16 DEF CalloutInv

\* svc_register() of a version that has a callout keeps the invariant.
LEMMA RegisterAgainKeeps ==
  ASSUME CalloutInv, NEW k \in Key, NEW f \in Functions, NEW protocol \in Protocols \cup {None},
         NEW agrees \in BOOLEAN, SvcRegisterAgain(k, f, protocol, agrees)
  PROVE  CalloutInv'
  <1>1. PICK s : s = SvcFind(k)
    OBVIOUS
  <1> DEFINE c     == callout[s]
             bound == protocol # None /\ agrees
  <1>2. /\ s # None
        /\ PmapIt(s, c, protocol, agrees)
        /\ UNCHANGED <<svc_head, heap, l1_vec, l1_cap, twice, running, table>>
        /\ UNCHANGED <<unregistered, left>>
    BY <1>1 DEF SvcRegisterAgain, l1vars, unreg
  <1>3. s \in Listed /\ KeyOf(s) = k /\ s \in Block /\ c \in Callout
    BY <1>1, <1>2, FoundCallout, ListedCallout
  <1>4. CalloutTypes /\ svc_head \in Seq(Block) /\ IsInjective(svc_head)
    BY DEF CalloutInv, CalloutTypes, CalloutsFreed
  <1>5. k = <<c.prog, c.vers>>
    BY <1>3 DEF KeyOf
  <1>6. /\ callout' \in [Block -> Callout \cup {None}]
        /\ callout'[s] \in Callout
        /\ callout'[s].prog = c.prog /\ callout'[s].vers = c.vers
        /\ callout'[s].dispatch = c.dispatch
        /\ callout'[s].mapped <=> c.mapped \/ bound
        /\ \A t \in Block : t # s => callout'[t] = callout[t]
        /\ pmap' \in [Key -> SUBSET Protocols]
        /\ \A j \in Key : pmap'[j] # {} <=> pmap[j] # {} \/ (j = k /\ bound)
    <2>. HIDE DEF c
    <2>1. CalloutTypes /\ c \in Callout /\ PmapIt(s, c, protocol, agrees) /\ s \in Block
      BY <1>2, <1>3, <1>4
    <2>2. /\ callout' \in [Block -> Callout \cup {None}]
          /\ callout'[s] \in Callout
          /\ callout'[s].prog = c.prog /\ callout'[s].vers = c.vers
          /\ callout'[s].dispatch = c.dispatch
          /\ callout'[s].mapped <=> c.mapped \/ bound
          /\ \A t \in Block : t # s => callout'[t] = callout[t]
          /\ pmap' \in [Key -> SUBSET Protocols]
          /\ \A j \in Key : pmap'[j] # {} <=> pmap[j] # {} \/ (j = <<c.prog, c.vers>> /\ bound)
      BY <2>1, PmapItFacts
    <2>. QED
      BY <1>5, <2>2
  <1>. HIDE DEF bound
  <1>7. Listed' = Listed /\ svc_head' = svc_head
    BY <1>2 DEF Listed
  <1>8. \A t \in Listed : /\ callout'[t] \in Callout
                          /\ KeyOf(t)' = KeyOf(t)
                          /\ callout'[t].dispatch = callout[t].dispatch
                          /\ callout'[t].mapped <=> callout[t].mapped \/ (KeyOf(t) = k /\ bound)
    <2>1. SUFFICES ASSUME NEW t \in Listed
                   PROVE  /\ callout'[t] \in Callout
                          /\ KeyOf(t)' = KeyOf(t)
                          /\ callout'[t].dispatch = callout[t].dispatch
                          /\ callout'[t].mapped <=> callout[t].mapped \/ (KeyOf(t) = k /\ bound)
      OBVIOUS
    <2>2. CASE t = s
      BY <1>3, <1>6, <2>2 DEF KeyOf
    <2>3. CASE t # s
      <3>1. t \in Block /\ callout[t] \in Callout
        BY ListedCallout
      <3>2. KeyOf(t) # k
        BY <1>3, <2>3 DEF CalloutInv, KeysUnique, Listed
      <3>. QED
        BY <1>6, <2>3, <3>1, <3>2 DEF KeyOf
    <2>. QED
      BY <2>2, <2>3
  <1>9. \A t \in Listed : KeyOf(t)' = KeyOf(t) /\ callout'[t].dispatch = callout[t].dispatch
    BY <1>8
  <1>10. \A t \in Listed' : callout'[t] \in Callout
    BY <1>7, <1>8
  <1>11. KeysUnique'
    BY <1>7, <1>9 DEF CalloutInv, KeysUnique, Listed
  <1>12. CalloutTypes'
    <2>1. /\ heap' \subseteq Block /\ {twice', running', unregistered'} \subseteq BOOLEAN
          /\ left' \subseteq Key /\ l1_vec' \in Seq(Block) /\ l1_cap' \in Nat
          /\ table' \in [Key -> Functions \cup {None}]
      BY <1>2, <1>4 DEF CalloutTypes
    <2>2. svc_head' \in Seq(Block) /\ \A t \in Listed' : callout'[t] \in Callout
      BY <1>4, <1>7, <1>10
    <2>. QED
      BY <1>6, <2>1, <2>2 DEF CalloutTypes, Listed
  <1>13. ListRight'
    <2>1. table' = table
      BY <1>2
    <2>2. \A t \in Listed' : table'[KeyOf(t)'] = callout'[t].dispatch
      BY <1>7, <1>9, <2>1 DEF CalloutInv, ListRight, Listed
    <2>3. ASSUME NEW j \in Key, table'[j] # None
          PROVE  \E t \in Listed' : KeyOf(t)' = j
      <3>1. \E t \in Listed : KeyOf(t) = j
        BY <2>1, <2>3 DEF CalloutInv, ListRight, Listed
      <3>. QED
        BY <1>7, <1>9, <3>1
    <2>. QED
      BY <2>2, <2>3 DEF ListRight, Listed
  <1>14. BindingsRight'
    <2>1. ASSUME NEW j \in Key
          PROVE  /\ SvcIsMapped(j)' => pmap'[j] # {}
                 /\ pmap'[j] # {} => SvcIsMapped(j)' \/ j \in left'
      <3>1. LET mapped == \E t \in Listed : KeyOf(t) = j /\ callout[t].mapped
            IN  (mapped => pmap[j] # {}) /\ (pmap[j] # {} => mapped \/ j \in left)
        BY MappedInList DEF CalloutInv, BindingsRight
      <3>2. SvcIsMapped(j)' <=> \E t \in Listed' : KeyOf(t)' = j /\ callout'[t].mapped
        BY <1>4, <1>7, <1>11, MappedInListNext
      <3>3. (\E t \in Listed' : KeyOf(t)' = j /\ callout'[t].mapped) <=>
              \/ \E t \in Listed : KeyOf(t) = j /\ callout[t].mapped
              \/ j = k /\ bound
        <4>1. s \in Listed' /\ KeyOf(s)' = k
          BY <1>3, <1>7, <1>9
        <4>2. \A t \in Listed : callout'[t].mapped <=> callout[t].mapped \/ (KeyOf(t) = k /\ bound)
          BY <1>8
        <4>3. ASSUME NEW t \in Listed', KeyOf(t)' = j, callout'[t].mapped
              PROVE  \/ \E u \in Listed : KeyOf(u) = j /\ callout[u].mapped
                     \/ j = k /\ bound
          BY <1>7, <1>9, <4>2, <4>3
        <4>4. ASSUME NEW t \in Listed, KeyOf(t) = j, callout[t].mapped
              PROVE  \E u \in Listed' : KeyOf(u)' = j /\ callout'[u].mapped
          BY <1>7, <1>9, <4>2, <4>4
        <4>5. ASSUME j = k, bound
              PROVE  \E u \in Listed' : KeyOf(u)' = j /\ callout'[u].mapped
          BY <1>3, <4>1, <4>2, <4>5
        <4>. QED
          BY <4>3, <4>4, <4>5
      <3>. QED
        BY <1>2, <1>6, <3>1, <3>2, <3>3
    <2>. QED
      BY <2>1 DEF BindingsRight
  <1>15. CalloutsFreed' /\ L1KnowsHeap'
    BY <1>2 DEF CalloutInv, CalloutsFreed, L1KnowsHeap, L1Stale
  <1>. QED
    BY <1>11, <1>12, <1>13, <1>14, <1>15 DEF CalloutInv

-----------------------------------------------------------------------------
(* svc_unregister(), svc_shutdown()                                        *)

\* svc_unregister() keeps the invariant: svc_is_mapped() finds no callout any
\* more, since the list had one for the version, and the bindings are removed
\* if the portmapper agrees.  l1_vec still has the callout that was freed.
LEMMA UnregisterKeeps ==
  ASSUME CalloutInv, NEW k \in Key, NEW agrees \in BOOLEAN, SvcUnregister(k, agrees)
  PROVE  CalloutInv'
  <1> DEFINE s == SvcFind(k)
  <1>1. /\ running /\ s # None
        /\ UNCHANGED <<l1_vec, l1_cap, running>>
        /\ unregistered' = TRUE
        /\ left' = IF agrees THEN left \ {k} ELSE left \cup {k}
        /\ svc_head' = Unlinked(s)
        /\ callout' = [callout EXCEPT ![s] = None]
        /\ heap' = heap \ {s}
        /\ twice' = (twice \/ s \notin heap)
        /\ pmap' = PmapUnset(k, SvcIsMapped(k)', agrees)
        /\ table' = [table EXCEPT ![k] = None]
    BY DEF SvcUnregister, l1vars
  <1>2. s \in Listed /\ KeyOf(s) = k /\ s \in Block /\ s \in heap
    BY <1>1, FoundCallout, ListedCallout
  <1>3. CalloutTypes /\ svc_head \in Seq(Block) /\ IsInjective(svc_head)
    BY DEF CalloutInv, CalloutTypes, CalloutsFreed
  <1>. HIDE DEF s
  <1>4. /\ svc_head' \in Seq(Block)
        /\ Listed' = Listed \ {s}
        /\ IsInjective(svc_head')
    BY <1>1, <1>2, <1>3, RemoveProperties DEF Listed, Unlinked
  <1>5. \A t \in Listed' : /\ t \in Listed /\ t # s
                           /\ callout'[t] = callout[t]
                           /\ KeyOf(t)' = KeyOf(t)
    <2>1. ASSUME NEW t \in Listed'
          PROVE  t \in Listed /\ t # s /\ callout'[t] = callout[t]
      <3>1. t \in Listed /\ t # s
        BY <1>4
      <3>2. t \in Block
        BY <3>1, ListedCallout
      <3>. QED
        BY <1>1, <1>3, <3>1, <3>2 DEF CalloutTypes
    <2>. QED
      BY <2>1 DEF KeyOf
  <1>6. \A t \in Listed' : KeyOf(t) # k
    BY <1>2, <1>5 DEF CalloutInv, KeysUnique, Listed
  <1>7. KeysUnique'
    BY <1>5 DEF CalloutInv, KeysUnique, Listed
  <1>8. ~SvcIsMapped(k)'
    BY <1>4, <1>5, <1>6, <1>7, MappedInListNext
  <1>9. pmap' = IF agrees THEN [pmap EXCEPT ![k] = {}] ELSE pmap
    BY <1>1, <1>8 DEF PmapUnset
  <1>10. CalloutTypes'
    <2>1. \A t \in Listed' : callout'[t] \in Callout
      BY <1>5, ListedCallout
    <2>2. callout' \in [Block -> Callout \cup {None}]
      BY <1>1, <1>3 DEF CalloutTypes
    <2>3. pmap' \in [Key -> SUBSET Protocols] /\ table' \in [Key -> Functions \cup {None}]
      BY <1>1, <1>3, <1>9 DEF CalloutTypes
    <2>4. /\ heap' \subseteq Block /\ {twice', running', unregistered'} \subseteq BOOLEAN
          /\ left' \subseteq Key /\ l1_vec' \in Seq(Block) /\ l1_cap' \in Nat
      BY <1>1, <1>3 DEF CalloutTypes
    <2>. QED
      BY <1>4, <2>1, <2>2, <2>3, <2>4 DEF CalloutTypes, Listed
  <1>11. ListRight'
    <2>1. table'[k] = None /\ \A j \in Key : j # k => table'[j] = table[j]
      BY <1>1, <1>3 DEF CalloutTypes
    <2>2. ASSUME NEW t \in Listed'
          PROVE  table'[KeyOf(t)'] = callout'[t].dispatch
      <3>1. table[KeyOf(t)] = callout[t].dispatch /\ KeyOf(t) \in Key
        BY <1>5, ListedCallout DEF CalloutInv, ListRight, Listed
      <3>. QED
        BY <1>5, <1>6, <2>1, <3>1
    <2>3. ASSUME NEW j \in Key, table'[j] # None
          PROVE  \E t \in Listed' : KeyOf(t)' = j
      <3>1. j # k /\ table[j] # None
        BY <2>1, <2>3
      <3>2. PICK t \in Listed : KeyOf(t) = j
        BY <3>1 DEF CalloutInv, ListRight, Listed
      <3>3. t \in Listed'
        BY <1>2, <1>4, <3>1, <3>2
      <3>. QED
        BY <1>5, <3>2, <3>3
    <2>. QED
      BY <2>2, <2>3 DEF ListRight, Listed
  <1>12. BindingsRight'
    <2>1. ASSUME NEW j \in Key
          PROVE  /\ SvcIsMapped(j)' => pmap'[j] # {}
                 /\ pmap'[j] # {} => SvcIsMapped(j)' \/ j \in left'
      <3>1. LET mapped == \E t \in Listed : KeyOf(t) = j /\ callout[t].mapped
            IN  (mapped => pmap[j] # {}) /\ (pmap[j] # {} => mapped \/ j \in left)
        BY MappedInList DEF CalloutInv, BindingsRight
      <3>2. SvcIsMapped(j)' <=> \E t \in Listed' : KeyOf(t)' = j /\ callout'[t].mapped
        BY <1>4, <1>7, MappedInListNext
      <3>3. /\ pmap'[j] = IF j = k /\ agrees THEN {} ELSE pmap[j]
            /\ j \in left' <=> IF j = k THEN ~agrees ELSE j \in left
        BY <1>1, <1>3, <1>9 DEF CalloutTypes
      <3>4. CASE j = k
        BY <1>8, <3>3, <3>4
      <3>5. CASE j # k
        BY <1>2, <1>4, <1>5, <3>1, <3>2, <3>3, <3>5
      <3>. QED
        BY <3>4, <3>5
    <2>. QED
      BY <2>1 DEF BindingsRight
  <1>13. CalloutsFreed'
    BY <1>1, <1>2, <1>4 DEF CalloutInv, CalloutsFreed, Listed
  <1>14. L1KnowsHeap'
    <2>1. heap \subseteq ToSet(l1_vec)
      BY <1>1 DEF CalloutInv, L1KnowsHeap
    <2>2. s \in ToSet(l1_vec') /\ s \notin heap'
      BY <1>1, <1>2, <2>1
    <2>3. L1Stale'
      BY <2>2 DEF L1Stale
    <2>4. heap' \subseteq ToSet(l1_vec')
      BY <1>1, <2>1
    <2>. QED
      BY <1>1, <2>3, <2>4 DEF L1KnowsHeap
  <1>. QED
    BY <1>7, <1>10, <1>11, <1>12, <1>13, <1>14 DEF CalloutInv

\* svc_shutdown() keeps the invariant: svc_l1_cleanup() frees all that is
\* allocated, and what is stale in l1_vec a second time.
LEMMA CleanupKeeps ==
  ASSUME CalloutInv, SvcL1Cleanup
  PROVE  CalloutInv'
  <1>1. /\ running /\ running' = FALSE
        /\ twice' = (twice \/ L1Stale)
        /\ heap' = heap \ ToSet(l1_vec)
        /\ l1_cap' = 0
        /\ UNCHANGED <<svc_head, callout, pmap, l1_vec, table, unregistered, left>>
    BY DEF SvcL1Cleanup, unreg
  <1>2. /\ ~twice /\ IsInjective(svc_head)
        /\ heap \subseteq ToSet(l1_vec) /\ (unregistered <=> L1Stale)
    BY <1>1 DEF CalloutInv, CalloutsFreed, L1KnowsHeap
  <1>3. (twice' <=> unregistered') /\ twice' \in BOOLEAN /\ heap' = {}
    BY <1>1, <1>2
  <1>4. CalloutTypes'
    BY <1>1, <1>3 DEF CalloutInv, CalloutTypes
  <1>5. KeysUnique' /\ ListRight'
    BY <1>1 DEF CalloutInv, KeysUnique, ListRight, KeyOf
  <1>6. BindingsRight'
    BY <1>1 DEF CalloutInv, BindingsRight, SvcIsMapped, SvcFind, KeyOf
  <1>7. CalloutsFreed' /\ L1KnowsHeap'
    BY <1>1, <1>2, <1>3 DEF CalloutsFreed, L1KnowsHeap
  <1>. QED
    BY <1>4, <1>5, <1>6, <1>7 DEF CalloutInv

-----------------------------------------------------------------------------
(* request_match_prog_version()                                            *)

\* The loop over the list finds the lowest version of a program.
LEMMA LowVersion ==
  ASSUME CalloutInv, NEW prog
  PROVE  /\ low_vers(prog) \in Nat
         /\ \A s \in Listed : callout[s].prog = prog => low_vers(prog) <= callout[s].vers
         /\ (\E s \in Listed : callout[s].prog = prog) =>
              \E s \in Listed : callout[s].prog = prog /\ callout[s].vers = low_vers(prog)
  <1> DEFINE n       == Len(svc_head)
             is(i)   == callout[svc_head[i]].prog = prog
             vers(i) == callout[svc_head[i]].vers
             V       == 0 .. MaxVers
             Loop(g) == [i \in 0 .. n |->
                           IF i = 0 THEN MaxVers
                           ELSE IF callout[svc_head[i]].prog = prog /\ callout[svc_head[i]].vers < g[i - 1]
                                THEN callout[svc_head[i]].vers ELSE g[i - 1]]
             low     == CHOOSE g : g = Loop(g)
  <1>1. n \in Nat /\ DOMAIN svc_head = 1 .. n
    BY LenProperties DEF CalloutInv, CalloutTypes
  <1>2. MaxVers \in Nat
    BY CalloutAssumption
  <1>3. \A i \in 1 .. n : svc_head[i] \in Listed /\ vers(i) \in V
    <2>1. \A i \in 1 .. n : svc_head[i] \in Listed
      BY <1>1 DEF Listed, ToSet
    <2>2. \A s \in Listed : callout[s] \in Callout
      BY ListedCallout
    <2>3. \A c \in Callout : c.vers \in V
      BY CalloutAssumption DEF Callout
    <2>. QED
      BY <2>1, <2>2, <2>3
  <1>4. \E g : g = Loop(g)
    <2> DEFINE step == [i \in 1 .. n |-> [v \in V |-> IF is(i) /\ vers(i) < v THEN vers(i) ELSE v]]
    <2>1. MaxVers \in V
      BY <1>2
    <2>. HIDE DEF n, V, is, vers
    <2>2. step \in LoopSteps(n, V)
      BY <1>3 DEF LoopSteps
    <2>3. \A i \in 1 .. n, v \in V : step[i][v] = IF is(i) /\ vers(i) < v THEN vers(i) ELSE v
      OBVIOUS
    <2>. HIDE DEF step, Loop, low
    <2>4. PICK g \in [0 .. n -> V] : LoopValues(n, MaxVers, step, g)
      BY <1>1, <2>1, <2>2, LoopDefined
    <2>5. \A i \in 1 .. n : g[i] = IF is(i) /\ vers(i) < g[i - 1] THEN vers(i) ELSE g[i - 1]
      <3>1. \A i \in 1 .. n : g[i - 1] \in V
        BY <1>1
      <3>. QED
        BY <2>3, <2>4, <3>1 DEF LoopValues
    <2>6. g = Loop(g)
      <3>1. g[0] = MaxVers
        BY ONLY <2>4 DEF LoopValues
      <3>2. g = [i \in 0 .. n |-> IF i = 0 THEN MaxVers
                                  ELSE IF is(i) /\ vers(i) < g[i - 1] THEN vers(i) ELSE g[i - 1]]
        BY ONLY <1>1, <2>4, <2>5, <3>1, g \in [0 .. n -> V]
      <3>. QED
        BY <3>2 DEF is, vers, Loop
    <2>. QED
      BY <2>6
  <1>5. low = Loop(low)
    BY <1>4
  <1>6. low_vers(prog) = low[n]
    BY DEF low_vers
  <1>. HIDE DEF low
  <1>7. /\ low[0] = MaxVers
        /\ \A i \in 1 .. n : low[i] = IF is(i) /\ vers(i) < low[i - 1] THEN vers(i) ELSE low[i - 1]
    <2>1. \A i \in 0 .. n : low[i] = Loop(low)[i]
      BY <1>5
    <2>. QED
      BY <1>1, <2>1
  <1>. HIDE DEF n, is, vers
  <1> DEFINE T == {i \in 0 .. n : /\ low[i] \in V
                                  /\ \A j \in 1 .. i : is(j) => low[i] <= vers(j)
                                  /\ low[i] = MaxVers \/ \E j \in 1 .. i : is(j) /\ vers(j) = low[i]}
  <1>8. 0 \in T
    BY <1>1, <1>7, <1>2
  <1>9. ASSUME NEW i \in 1 .. n, i - 1 \in T
        PROVE  i \in T
    <2>1. /\ low[i - 1] \in V
          /\ \A j \in 1 .. i - 1 : is(j) => low[i - 1] <= vers(j)
          /\ low[i - 1] = MaxVers \/ \E j \in 1 .. i - 1 : is(j) /\ vers(j) = low[i - 1]
      BY <1>9
    <2>2. \A j \in 1 .. i : j \in 1 .. i - 1 \/ j = i
      OBVIOUS
    <2>3. CASE is(i) /\ vers(i) < low[i - 1]
      <3>1. low[i] = vers(i) /\ vers(i) \in V
        BY <1>3, <1>7, <2>3
      <3>2. ASSUME NEW j \in 1 .. i, is(j)
            PROVE  low[i] <= vers(j)
        <4>1. vers(j) \in V /\ (j # i => low[i - 1] <= vers(j))
          BY <1>1, <1>3, <2>1, <2>2, <3>2
        <4>. QED
          BY <2>1, <2>3, <3>1, <4>1, <1>2
      <3>. QED
        BY <2>3, <3>1, <3>2
    <2>4. CASE ~(is(i) /\ vers(i) < low[i - 1])
      <3>1. low[i] = low[i - 1]
        BY <1>7, <2>4
      <3>2. ASSUME NEW j \in 1 .. i, is(j)
            PROVE  low[i] <= vers(j)
        <4>1. vers(j) \in V /\ (j # i => low[i - 1] <= vers(j))
          BY <1>1, <1>3, <2>1, <2>2, <3>2
        <4>. QED
          BY <2>1, <2>4, <3>1, <3>2, <4>1, <1>2
      <3>. QED
        BY <2>1, <3>1, <3>2
    <2>. QED
      BY <2>3, <2>4
  <1>10. n \in T
    <2>1. T \in SUBSET (0 .. n)
      OBVIOUS
    <2>. HIDE DEF T
    <2>2. T = 0 .. n
      BY <1>1, <1>8, <1>9, <2>1, LoopInduction
    <2>. QED
      BY <1>1, <2>2
  <1>11. /\ low[n] \in V
         /\ \A j \in 1 .. n : is(j) => low[n] <= vers(j)
         /\ low[n] = MaxVers \/ \E j \in 1 .. n : is(j) /\ vers(j) = low[n]
    BY <1>10
  <1>. HIDE DEF T
  <1>12. \A s \in Listed : \E j \in 1 .. n : svc_head[j] = s
    BY <1>1 DEF Listed, ToSet
  <1>13. ASSUME NEW s \in Listed, callout[s].prog = prog
         PROVE  low[n] <= callout[s].vers /\ callout[s].vers \in V
    BY <1>3, <1>11, <1>12, <1>13 DEF is, vers
  <1>14. ASSUME NEW s \in Listed, callout[s].prog = prog
         PROVE  \E t \in Listed : callout[t].prog = prog /\ callout[t].vers = low[n]
    <2>1. CASE low[n] = MaxVers
      BY <1>13, <1>14, <2>1, <1>2
    <2>2. CASE low[n] # MaxVers
      BY <1>3, <1>11, <2>2 DEF is, vers
    <2>. QED
      BY <2>1, <2>2
  <1>. QED
    BY <1>6, <1>11, <1>13, <1>14, <1>2

\* The loop over the list finds the highest version of a program.
LEMMA HighVersion ==
  ASSUME CalloutInv, NEW prog
  PROVE  /\ high_vers(prog) \in Nat
         /\ \A s \in Listed : callout[s].prog = prog => callout[s].vers <= high_vers(prog)
         /\ (\E s \in Listed : callout[s].prog = prog) =>
              \E s \in Listed : callout[s].prog = prog /\ callout[s].vers = high_vers(prog)
  <1> DEFINE n       == Len(svc_head)
             is(i)   == callout[svc_head[i]].prog = prog
             vers(i) == callout[svc_head[i]].vers
             V       == 0 .. MaxVers
             Loop(g) == [i \in 0 .. n |->
                           IF i = 0 THEN 0
                           ELSE IF callout[svc_head[i]].prog = prog /\ callout[svc_head[i]].vers > g[i - 1]
                                THEN callout[svc_head[i]].vers ELSE g[i - 1]]
             high    == CHOOSE g : g = Loop(g)
  <1>1. n \in Nat /\ DOMAIN svc_head = 1 .. n
    BY LenProperties DEF CalloutInv, CalloutTypes
  <1>2. MaxVers \in Nat
    BY CalloutAssumption
  <1>3. \A i \in 1 .. n : svc_head[i] \in Listed /\ vers(i) \in V
    <2>1. \A i \in 1 .. n : svc_head[i] \in Listed
      BY <1>1 DEF Listed, ToSet
    <2>2. \A s \in Listed : callout[s] \in Callout
      BY ListedCallout
    <2>3. \A c \in Callout : c.vers \in V
      BY CalloutAssumption DEF Callout
    <2>. QED
      BY <2>1, <2>2, <2>3
  <1>4. \E g : g = Loop(g)
    <2> DEFINE step == [i \in 1 .. n |-> [v \in V |-> IF is(i) /\ vers(i) > v THEN vers(i) ELSE v]]
    <2>1. 0 \in V
      BY <1>2
    <2>. HIDE DEF n, V, is, vers
    <2>2. step \in LoopSteps(n, V)
      BY <1>3 DEF LoopSteps
    <2>3. \A i \in 1 .. n, v \in V : step[i][v] = IF is(i) /\ vers(i) > v THEN vers(i) ELSE v
      OBVIOUS
    <2>. HIDE DEF step, Loop, high
    <2>4. PICK g \in [0 .. n -> V] : LoopValues(n, 0, step, g)
      BY <1>1, <2>1, <2>2, LoopDefined
    <2>5. \A i \in 1 .. n : g[i] = IF is(i) /\ vers(i) > g[i - 1] THEN vers(i) ELSE g[i - 1]
      <3>1. \A i \in 1 .. n : g[i - 1] \in V
        BY <1>1
      <3>. QED
        BY <2>3, <2>4, <3>1 DEF LoopValues
    <2>6. g = Loop(g)
      <3>1. g[0] = 0
        BY ONLY <2>4 DEF LoopValues
      <3>2. g = [i \in 0 .. n |-> IF i = 0 THEN 0
                                  ELSE IF is(i) /\ vers(i) > g[i - 1] THEN vers(i) ELSE g[i - 1]]
        BY ONLY <1>1, <2>4, <2>5, <3>1, g \in [0 .. n -> V]
      <3>. QED
        BY <3>2 DEF is, vers, Loop
    <2>. QED
      BY <2>6
  <1>5. high = Loop(high)
    BY <1>4
  <1>6. high_vers(prog) = high[n]
    BY DEF high_vers
  <1>. HIDE DEF high
  <1>7. /\ high[0] = 0
        /\ \A i \in 1 .. n : high[i] = IF is(i) /\ vers(i) > high[i - 1] THEN vers(i) ELSE high[i - 1]
    <2>1. \A i \in 0 .. n : high[i] = Loop(high)[i]
      BY <1>5
    <2>. QED
      BY <1>1, <2>1
  <1>. HIDE DEF n, is, vers
  <1> DEFINE T == {i \in 0 .. n : /\ high[i] \in V
                                  /\ \A j \in 1 .. i : is(j) => vers(j) <= high[i]
                                  /\ high[i] = 0 \/ \E j \in 1 .. i : is(j) /\ vers(j) = high[i]}
  <1>8. 0 \in T
    BY <1>1, <1>7, <1>2
  <1>9. ASSUME NEW i \in 1 .. n, i - 1 \in T
        PROVE  i \in T
    <2>1. /\ high[i - 1] \in V
          /\ \A j \in 1 .. i - 1 : is(j) => vers(j) <= high[i - 1]
          /\ high[i - 1] = 0 \/ \E j \in 1 .. i - 1 : is(j) /\ vers(j) = high[i - 1]
      BY <1>9
    <2>2. \A j \in 1 .. i : j \in 1 .. i - 1 \/ j = i
      OBVIOUS
    <2>3. CASE is(i) /\ vers(i) > high[i - 1]
      <3>1. high[i] = vers(i) /\ vers(i) \in V
        BY <1>3, <1>7, <2>3
      <3>2. ASSUME NEW j \in 1 .. i, is(j)
            PROVE  vers(j) <= high[i]
        <4>1. vers(j) \in V /\ (j # i => vers(j) <= high[i - 1])
          BY <1>1, <1>3, <2>1, <2>2, <3>2
        <4>. QED
          BY <2>1, <2>3, <3>1, <4>1, <1>2
      <3>. QED
        BY <2>3, <3>1, <3>2
    <2>4. CASE ~(is(i) /\ vers(i) > high[i - 1])
      <3>1. high[i] = high[i - 1]
        BY <1>7, <2>4
      <3>2. ASSUME NEW j \in 1 .. i, is(j)
            PROVE  vers(j) <= high[i]
        <4>1. vers(j) \in V /\ (j # i => vers(j) <= high[i - 1])
          BY <1>1, <1>3, <2>1, <2>2, <3>2
        <4>. QED
          BY <2>1, <2>4, <3>1, <3>2, <4>1, <1>2
      <3>. QED
        BY <2>1, <3>1, <3>2
    <2>. QED
      BY <2>3, <2>4
  <1>10. n \in T
    <2>1. T \in SUBSET (0 .. n)
      OBVIOUS
    <2>. HIDE DEF T
    <2>2. T = 0 .. n
      BY <1>1, <1>8, <1>9, <2>1, LoopInduction
    <2>. QED
      BY <1>1, <2>2
  <1>11. /\ high[n] \in V
         /\ \A j \in 1 .. n : is(j) => vers(j) <= high[n]
         /\ high[n] = 0 \/ \E j \in 1 .. n : is(j) /\ vers(j) = high[n]
    BY <1>10
  <1>. HIDE DEF T
  <1>12. \A s \in Listed : \E j \in 1 .. n : svc_head[j] = s
    BY <1>1 DEF Listed, ToSet
  <1>13. ASSUME NEW s \in Listed, callout[s].prog = prog
         PROVE  callout[s].vers <= high[n] /\ callout[s].vers \in V
    BY <1>3, <1>11, <1>12, <1>13 DEF is, vers
  <1>14. ASSUME NEW s \in Listed, callout[s].prog = prog
         PROVE  \E t \in Listed : callout[t].prog = prog /\ callout[t].vers = high[n]
    <2>1. CASE high[n] = 0
      BY <1>13, <1>14, <2>1, <1>2
    <2>2. CASE high[n] # 0
      BY <1>3, <1>11, <2>2 DEF is, vers
    <2>. QED
      BY <2>1, <2>2
  <1>. QED
    BY <1>6, <1>11, <1>13, <1>14, <1>2

\* The versions of a program that were registered are those in the list.
LEMMA VersionsListed ==
  ASSUME CalloutInv, NEW prog \in Progs
  PROVE  /\ \A v \in Versions(prog) : \E s \in Listed : callout[s].prog = prog /\ callout[s].vers = v
         /\ \A s \in Listed : callout[s].prog = prog => callout[s].vers \in Versions(prog)
  <1>1. ASSUME NEW v \in Versions(prog)
        PROVE  \E s \in Listed : callout[s].prog = prog /\ callout[s].vers = v
    <2>1. v \in Vers /\ <<prog, v>> \in Key /\ table[<<prog, v>>] # None
      BY DEF Versions, Key
    <2>2. PICK s \in Listed : KeyOf(s) = <<prog, v>>
      BY <2>1 DEF CalloutInv, ListRight, Listed
    <2>. QED
      BY <2>2 DEF KeyOf
  <1>2. ASSUME NEW s \in Listed, callout[s].prog = prog
        PROVE  callout[s].vers \in Versions(prog)
    <2>1. callout[s] \in Callout
      BY ListedCallout
    <2>2. callout[s].vers \in Vers /\ callout[s].dispatch \in Functions
      BY <2>1 DEF Callout
    <2>3. table[<<prog, callout[s].vers>>] = callout[s].dispatch
      BY <1>2 DEF CalloutInv, ListRight, Listed, KeyOf
    <2>. QED
      BY <2>2, <2>3, CalloutAssumption DEF Versions
  <1>. QED
    BY <1>1, <1>2

\* The bounds of an error reply are the lowest and the highest version.
LEMMA VersionBounds ==
  ASSUME CalloutInv, NEW prog \in Progs
  PROVE  /\ prog_found(prog) <=> Versions(prog) # {}
         /\ Versions(prog) # {} => /\ low_vers(prog) = Min(Versions(prog))
                                   /\ high_vers(prog) = Max(Versions(prog))
  <1>1. prog_found(prog) <=> \E s \in Listed : callout[s].prog = prog
    BY DEF prog_found, Listed, ToSet
  <1>2. prog_found(prog) <=> Versions(prog) # {}
    BY <1>1, VersionsListed
  <1>3. ASSUME Versions(prog) # {}
        PROVE  /\ low_vers(prog) = Min(Versions(prog))
               /\ high_vers(prog) = Max(Versions(prog))
    <2>1. PICK S : S = Versions(prog)
      OBVIOUS
    <2>2. MaxVers \in Nat /\ S \in SUBSET Nat
      <3>1. S \in SUBSET (0 .. MaxVers)
        BY <2>1, CalloutAssumption DEF Versions
      <3>2. MaxVers \in Nat
        BY CalloutAssumption
      <3>. QED
        BY <3>1, <3>2
    <2>3. PICK low : low = low_vers(prog)
      OBVIOUS
    <2>4. PICK high : high = high_vers(prog)
      OBVIOUS
    <2>5. low \in S /\ \A v \in S : low <= v
      BY <1>1, <1>2, <1>3, <2>1, <2>3, LowVersion, VersionsListed
    <2>6. high \in S /\ \A v \in S : v <= high
      BY <1>1, <1>2, <1>3, <2>1, <2>4, HighVersion, VersionsListed
    <2>7. Min(S) = low
      BY <2>2, <2>5, LeastIsMin
    <2>8. Max(S) = high
      BY <2>2, <2>6, GreatestIsMax
    <2>. QED
      BY <2>1, <2>3, <2>4, <2>7, <2>8
  <1>. QED
    BY <1>2, <1>3

\* A call is answered by the function registered, or with the right error.
LEMMA AnswersFollow ==
  ASSUME CalloutInv
  PROVE  AnswersRight
  <1>1. SUFFICES ASSUME NEW k \in Key, NEW auth \in {"AUTH_OK", "AUTH_BADCRED"}, NEW answer \in Answers,
                        auth = "AUTH_OK"
                 PROVE  RequestMatchProgVersion(k, answer) =
                          IF table[k] # None THEN By(table[k], answer)
                          ELSE IF Versions(k[1]) = {} THEN By(None, svcerr_noprog)
                          ELSE By(None, svcerr_progvers(Min(Versions(k[1])), Max(Versions(k[1]))))
    BY DEF AnswersRight, RequestLookup
  <1>2. k[1] \in Progs
    BY DEF Key
  <1>3. CASE SvcFind(k) # None
    <2>1. SvcFind(k) \in Listed /\ KeyOf(SvcFind(k)) = k
      BY <1>3, FoundCallout
    <2>2. callout[SvcFind(k)].dispatch \in Functions
      BY <2>1, ListedCallout DEF Callout
    <2>3. table[k] = callout[SvcFind(k)].dispatch
      BY <2>1 DEF CalloutInv, ListRight, Listed
    <2>. QED
      BY <1>3, <2>2, <2>3, CalloutAssumption DEF RequestMatchProgVersion
  <1>4. CASE SvcFind(k) = None
    <2>1. table[k] = None
      <3>1. SUFFICES ASSUME table[k] # None
                     PROVE  FALSE
        OBVIOUS
      <3>2. PICK s \in Listed : KeyOf(s) = k
        BY <3>1 DEF CalloutInv, ListRight, Listed
      <3>. QED
        BY <1>4, <3>2, ListedCallout
    <2>. QED
      BY <1>2, <1>4, <2>1, VersionBounds DEF RequestMatchProgVersion
  <1>. QED
    BY <1>3, <1>4

-----------------------------------------------------------------------------
(* The theorems                                                            *)

\* The invariant holds of the empty list.
LEMMA InitCallouts ==
  ASSUME Init
  PROVE  CalloutInv
  <1>1. ToSet(<<>>) = {} /\ IsInjective(<<>>) /\ <<>> \in Seq(Block)
    BY DEF ToSet, IsInjective
  <1>2. CalloutTypes
    BY <1>1 DEF Init, CalloutTypes
  <1>3. KeysUnique /\ ListRight
    BY <1>1 DEF Init, KeysUnique, ListRight
  <1>4. BindingsRight
    <2>1. \A k \in Key : SvcFind(k) = None /\ pmap[k] = {}
      BY DEF Init, SvcFind
    <2>. QED
      BY <2>1 DEF BindingsRight, SvcIsMapped
  <1>5. CalloutsFreed /\ L1KnowsHeap
    BY <1>1 DEF Init, CalloutsFreed, L1KnowsHeap, L1Stale
  <1>. QED
    BY <1>2, <1>3, <1>4, <1>5 DEF CalloutInv

\* Every call of the application keeps the invariant.
LEMMA CalloutsKept ==
  ASSUME CalloutInv, [Next]_vars
  PROVE  CalloutInv'
  <1>1. ASSUME NEW k \in Key, NEW f \in Functions, NEW protocol \in Protocols \cup {None},
               NEW agrees \in BOOLEAN, SvcRegisterNew(k, f, protocol, agrees)
        PROVE  CalloutInv'
    BY <1>1, RegisterNewKeeps
  <1>2. ASSUME NEW k \in Key, NEW f \in Functions, NEW protocol \in Protocols \cup {None},
               NEW agrees \in BOOLEAN, SvcRegisterAgain(k, f, protocol, agrees)
        PROVE  CalloutInv'
    BY <1>2, RegisterAgainKeeps
  <1>3. ASSUME NEW k \in Key, NEW agrees \in BOOLEAN, SvcUnregister(k, agrees)
        PROVE  CalloutInv'
    BY <1>3, UnregisterKeeps
  <1>4. CASE SvcL1Cleanup
    BY <1>4, CleanupKeeps
  <1>5. CASE UNCHANGED vars
    <2>1. CalloutTypes' /\ KeysUnique' /\ ListRight'
      BY <1>5 DEF CalloutInv, CalloutTypes, KeysUnique, ListRight, KeyOf, vars, l1vars, unreg
    <2>2. BindingsRight'
      BY <1>5 DEF CalloutInv, BindingsRight, SvcIsMapped, SvcFind, KeyOf, vars, unreg
    <2>3. CalloutsFreed' /\ L1KnowsHeap'
      BY <1>5 DEF CalloutInv, CalloutsFreed, L1KnowsHeap, L1Stale, vars, l1vars, unreg
    <2>. QED
      BY <2>1, <2>2, <2>3 DEF CalloutInv
  <1>. QED
    BY <1>1, <1>2, <1>3, <1>4, <1>5 DEF Next

(***************************************************************************)
(* The list, what was registered, the bindings at the portmapper and the   *)
(* blocks of the level-1 allocator agree after every svc_register(),       *)
(* svc_unregister() and svc_shutdown().                                    *)
(***************************************************************************)
THEOREM CalloutsCorrect == Spec => []CalloutInv
  BY InitCallouts, CalloutsKept, PTL DEF Spec

(***************************************************************************)
(* request_lookup() answers every call with the function registered for    *)
(* its version, or with the error that is true of what is registered.      *)
(***************************************************************************)
THEOREM AnswersAreRight == Spec => []AnswersRight
  BY CalloutsCorrect, AnswersFollow, PTL

(***************************************************************************)
(* The portmapper has a binding for every version that the list has and    *)
(* marks as mapped: svc_unregister() leaves no other one behind, unless the*)
(* portmapper has refused to remove it.                                    *)
(***************************************************************************)
THEOREM BindingsAreRight == Spec => []BindingsRight
  <1>1. CalloutInv => BindingsRight
    BY DEF CalloutInv
  <1>. QED
    BY <1>1, CalloutsCorrect, PTL

(***************************************************************************)
(* The callouts allocated are those of the list; at shutdown all are freed,*)
(* and one is freed a second time exactly if svc_unregister() has been used*)
(* before.                                                                 *)
(***************************************************************************)
THEOREM CalloutsAreFreed == Spec => []CalloutsFreed
  <1>1. CalloutInv => CalloutsFreed
    BY DEF CalloutInv
  <1>. QED
    BY <1>1, CalloutsCorrect, PTL

-----------------------------------------------------------------------------
(* The memory of l1_vec                                                    *)

\* As many callouts as l1_vec has memory for when it has been enlarged, which
\* happens to one size only: 102 with the L1_INIT_SIZE of the code, 64.
FewCallouts == MaxAlloc <= (L1_INIT_SIZE * 16) \div 10

\* Every call of the application leaves l1_vec as large as it says.
LEMMA L1SizeKept ==
  ASSUME FewCallouts, CalloutInv, L1Enlarged, [Next]_vars
  PROVE  L1Enlarged'
  <1>1. L1_INIT_SIZE \in Nat /\ L1_INIT_SIZE >= 1 /\ MaxAlloc \in Nat
    <2>1. L1_INIT_SIZE \in Nat \ {0} /\ MaxAlloc \in Nat
      BY CalloutAssumption
    <2>. QED
      BY <2>1
  <1>2. l1_vec \in Seq(Block) /\ Len(l1_vec) \in Nat
    BY LenProperties DEF CalloutInv, CalloutTypes
  <1>3. ASSUME NEW p, SvcL1Alloc(p), running
        PROVE  L1Enlarged'
    <2>1. /\ l1_cap' = Enlarged /\ l1_vec' = Append(l1_vec, p)
          /\ p \in Block /\ Len(l1_vec) < MaxAlloc
      BY <1>3 DEF SvcL1Alloc
    <2>2. Len(l1_vec') = Len(l1_vec) + 1
      BY <1>2, <2>1, AppendProperties
    <2> DEFINE large == (L1_INIT_SIZE * 16) \div 10
    <2>3. large \in Nat /\ MaxAlloc <= large
      <3>1. L1_INIT_SIZE * 16 \in Nat
        BY <1>1
      <3>. QED
        BY <3>1 DEF FewCallouts
    <2>4. \/ l1_cap = 0 /\ l1_vec = <<>>
          \/ l1_cap = L1_INIT_SIZE /\ Len(l1_vec) <= L1_INIT_SIZE
          \/ l1_cap = large /\ L1_INIT_SIZE < Len(l1_vec) /\ Len(l1_vec) <= l1_cap
      BY <1>3 DEF L1Enlarged
    <2>5. /\ l1_cap = 0 => l1_cap' = L1_INIT_SIZE
          /\ l1_cap # 0 /\ Len(l1_vec) >= L1_INIT_SIZE => l1_cap' = large
          /\ l1_cap # 0 /\ ~(Len(l1_vec) >= L1_INIT_SIZE) => l1_cap' = l1_cap
      BY <2>1 DEF Enlarged
    <2>6. l1_vec = <<>> => Len(l1_vec) = 0
      OBVIOUS
    <2>. HIDE DEF large
    <2>7. \/ l1_cap' = L1_INIT_SIZE /\ Len(l1_vec') <= L1_INIT_SIZE
          \/ l1_cap' = large /\ L1_INIT_SIZE < Len(l1_vec') /\ Len(l1_vec') <= l1_cap'
      BY <1>1, <1>2, <2>1, <2>2, <2>3, <2>4, <2>5, <2>6
    <2>. QED
      BY <2>7 DEF L1Enlarged, large
  <1>4. ASSUME NEW k \in Key, NEW f \in Functions, NEW protocol \in Protocols \cup {None},
               NEW agrees \in BOOLEAN, SvcRegisterNew(k, f, protocol, agrees)
        PROVE  L1Enlarged'
    BY <1>3, <1>4 DEF SvcRegisterNew
  <1>5. ASSUME UNCHANGED <<l1_vec, l1_cap, running>>
        PROVE  L1Enlarged'
    BY <1>5 DEF L1Enlarged
  <1>6. ASSUME NEW k \in Key, NEW f \in Functions, NEW protocol \in Protocols \cup {None},
               NEW agrees \in BOOLEAN, SvcRegisterAgain(k, f, protocol, agrees)
        PROVE  L1Enlarged'
    BY <1>5, <1>6 DEF SvcRegisterAgain, l1vars
  <1>7. ASSUME NEW k \in Key, NEW agrees \in BOOLEAN, SvcUnregister(k, agrees)
        PROVE  L1Enlarged'
    BY <1>5, <1>7 DEF SvcUnregister, l1vars
  <1>8. CASE SvcL1Cleanup
    BY <1>8 DEF SvcL1Cleanup, L1Enlarged
  <1>9. CASE UNCHANGED vars
    BY <1>5, <1>9 DEF vars, l1vars
  <1>. QED
    BY <1>4, <1>6, <1>7, <1>8, <1>9 DEF Next

\* The invariant leaves room for every block in l1_vec.
LEMMA L1HasRoom ==
  ASSUME CalloutInv, L1Enlarged
  PROVE  CalloutTypeOK
  <1>1. L1_INIT_SIZE \in Nat
    BY CalloutAssumption
  <1>2. Len(l1_vec) \in Nat
    BY LenProperties DEF CalloutInv, CalloutTypes
  <1>3. l1_vec = <<>> => Len(l1_vec) = 0
    OBVIOUS
  <1>4. running => Len(l1_vec) <= l1_cap
    BY <1>1, <1>2, <1>3 DEF L1Enlarged
  <1>. QED
    BY <1>4 DEF CalloutTypeOK, L1Within, CalloutInv

(***************************************************************************)
(* svc_l1_alloc() writes within the memory of l1_vec, if no more callouts  *)
(* are ever allocated than FewCallouts allows.                             *)
(***************************************************************************)
THEOREM CalloutTypesCorrect ==
  ASSUME FewCallouts
  PROVE  Spec => []CalloutTypeOK
  <1>1. Init => L1Enlarged
    BY DEF Init, L1Enlarged
  <1>2. CalloutInv /\ L1Enlarged /\ [Next]_vars => L1Enlarged'
    BY L1SizeKept
  <1>3. CalloutInv /\ L1Enlarged => CalloutTypeOK
    BY L1HasRoom
  <1>. QED
    BY <1>1, <1>2, <1>3, CalloutsCorrect, PTL DEF Spec

=============================================================================
