---------------------------- MODULE XportsProofs ----------------------------
(***************************************************************************)
(* The registry of transports keeps its invariant for any size of the      *)
(* tables and any number of addresses and sockets, until an id above       *)
(* WordBytes has been given to a transport: up to there the bit vectors    *)
(* are exact.                                                              *)
(***************************************************************************)
EXTENDS Xports, TLAPS, FiniteSetTheorems, WellFoundedInduction

\* Only the main thread creates transports.  A transport that another thread
\* registers between the last two steps of a collection may get the id that
\* was just released, and ReapFinish then removes it from xports.
Scope == Creators = {}

\* No id that the bit vectors confuse with another was used so far; the run
\* xports_alias shows what happens otherwise.
SmallIds == xports_maxid <= WordBytes

-----------------------------------------------------------------------------
(* The bit vectors, for small indices.                                     *)

\* Index 0 is alone in word 0; 1 .. WordBytes are in word 1.
LEMMA SmallWords ==
  ASSUME NEW i \in 0 .. WordBytes
  PROVE  Wpos(i) = IF i = 0 THEN 0 ELSE 1
  <1>1. WordBits \in Nat /\ WordBits > 0 /\ i \in Nat /\ i <= WordBits
    BY WordBytesAssumption DEF WordBits
  <1>2. (i + WordBits - 1) \div WordBits = IF i = 0 THEN 0 ELSE 1
    BY <1>1
  <1>. QED
    BY <1>2 DEF Wpos

\* Within a word only WordBytes itself wraps around to bit 0.
LEMMA SmallBits ==
  ASSUME NEW i \in 0 .. WordBytes
  PROVE  Bpos(i) = IF i = WordBytes THEN 0 ELSE i
  <1>1. i \in Nat /\ WordBytes \in Nat /\ WordBytes > 0 /\ i <= WordBytes
    BY WordBytesAssumption
  <1>2. i % WordBytes = IF i = WordBytes THEN 0 ELSE i
    BY <1>1
  <1>. QED
    BY <1>2 DEF Bpos

\* Two indices up to WordBytes never share a cell.
LEMMA SmallCells ==
  ASSUME NEW i \in 0 .. WordBytes, NEW j \in 0 .. WordBytes, Cell(i) = Cell(j)
  PROVE  i = j
  <1>1. Wpos(i) = Wpos(j) /\ Bpos(i) = Bpos(j)
    BY DEF Cell
  <1>2. i = 0 <=> j = 0
    BY <1>1, SmallWords
  <1>3. WordBytes \in Nat /\ WordBytes > 0
    BY WordBytesAssumption
  <1>. QED
    BY <1>1, <1>2, <1>3, SmallBits

\* bitvec_set_bit() changes the answer for its own index only.
LEMMA GetAfterSet ==
  ASSUME NEW bv, NEW i \in 0 .. WordBytes, NEW j \in 0 .. WordBytes
  PROVE  BitvecGetBit(BitvecSetBit(bv, i), j) <=> (j = i \/ BitvecGetBit(bv, j))
  BY SmallCells DEF BitvecGetBit, BitvecSetBit

\* bitvec_clr_bit() changes the answer for its own index only.
LEMMA GetAfterClr ==
  ASSUME NEW bv, NEW i \in 0 .. WordBytes, NEW j \in 0 .. WordBytes
  PROVE  BitvecGetBit(BitvecClrBit(bv, i), j) <=> (j # i /\ BitvecGetBit(bv, j))
  BY SmallCells DEF BitvecGetBit, BitvecClrBit

\* An index that was never set, nor any that shares its cell, is clear.
LEMMA ClearBeyond ==
  ASSUME NEW S, S \subseteq 0 .. WordBytes, NEW bv, bv \subseteq {Cell(id) : id \in S},
         NEW i \in 0 .. WordBytes, i \notin S
  PROVE  ~BitvecGetBit(bv, i)
  BY SmallCells DEF BitvecGetBit

\* The cells of a vector stay cells of the indices that are used.
LEMMA VecTypes ==
  ASSUME NEW S, NEW bv, bv \subseteq {Cell(id) : id \in S}, NEW i \in S
  PROVE  /\ BitvecSetBit(bv, i) \subseteq {Cell(id) : id \in S}
         /\ BitvecClrBit(bv, i) \subseteq {Cell(id) : id \in S}
  BY DEF BitvecSetBit, BitvecClrBit

\* The ids in use are few enough for the lemmas above.
LEMMA UsedIdRange ==
  ASSUME xports_maxid \in Id \cup {-1}
  PROVE  /\ UsedId \subseteq Id
         /\ SmallIds => UsedId \subseteq 0 .. WordBytes
  BY NBitsAssumption, WordBytesAssumption DEF UsedId, Id, SmallIds

-----------------------------------------------------------------------------
(* The allocator of ids.                                                   *)

\* A nonempty set of natural numbers has a least element.
LEMMA NatHasLeast ==
  ASSUME NEW T, T \subseteq Nat, T # {}
  PROVE  \E m \in T : \A n \in T : m <= n
  <1>1. \E m \in T : \A n \in T : ~(<<n, m>> \in OpToRel(<, Nat))
    BY NatLessThanWellFounded, WFMin, Zenon
  <1>2. PICK m \in T : \A n \in T : ~(<<n, m>> \in OpToRel(<, Nat))
    BY <1>1, Zenon
  <1>3. ASSUME NEW n \in T PROVE m <= n
    <2>1. ~(<<n, m>> \in OpToRel(<, Nat))
      BY <1>2, Zenon
    <2>2. ~(n < m)
      BY <2>1 DEF OpToRel
    <2>. QED
      BY <2>2
  <1>. QED
    BY <1>3

\* xprt_id_alloc() returns the lowest free id up to the one after the largest.
LEMMA AllocLowest ==
  ASSUME xports_maxid \in Id \cup {-1}
  PROVE  /\ XprtIdAlloc \in 0 .. xports_maxid + 1
         /\ XprtIdAlloc <= xports_maxid => ~BitvecGetBit(xports_idset, XprtIdAlloc)
         /\ \A i \in 0 .. XprtIdAlloc - 1 : BitvecGetBit(xports_idset, i)
  <1> DEFINE Free == {id \in 0 .. xports_maxid + 1 :
                        id <= xports_maxid => ~BitvecGetBit(xports_idset, id)}
  <1>1. xports_maxid + 1 \in Nat /\ xports_maxid \in Int
    BY NBitsAssumption DEF Id
  <1>2. Free \subseteq Nat /\ xports_maxid + 1 \in Free
    BY <1>1
  <1>3. PICK m \in Free : \A n \in Free : m <= n
    BY <1>2, NatHasLeast
  <1>4. ASSUME NEW i \in 0 .. m - 1 PROVE BitvecGetBit(xports_idset, i)
    <2>1. i \in 0 .. xports_maxid + 1 /\ ~(m <= i)
      BY <1>1, <1>3
    <2>2. i \notin Free
      BY <1>3, <2>1
    <2>. QED
      BY <2>1, <2>2
  <1>. QED
    BY <1>3, <1>4 DEF XprtIdAlloc

\* The id that is allocated was not in use; and when there is none, all are.
LEMMA AllocFresh ==
  ASSUME TypeOK, IdsExact
  PROVE  /\ XprtIdAlloc \in Nat
         /\ XprtIdAlloc <= xports_maxid + 1
         /\ XprtIdAlloc < NBits => XprtIdAlloc \in Id /\ xports[XprtIdAlloc] = BAD
         /\ XprtIdAlloc >= NBits => \A id \in Id : xports[id] \in live
  <1> DEFINE new == XprtIdAlloc
  <1>1. /\ new \in 0 .. xports_maxid + 1
        /\ new <= xports_maxid => ~BitvecGetBit(xports_idset, new)
        /\ \A i \in 0 .. new - 1 : BitvecGetBit(xports_idset, i)
    BY AllocLowest DEF TypeOK
  <1>2. xports_maxid \in Int /\ xports_maxid < NBits /\ new \in Nat /\ new <= xports_maxid + 1
    BY <1>1, NBitsAssumption DEF TypeOK, Id
  <1>. HIDE DEF new
  <1>3. ASSUME new < NBits
        PROVE  new \in Id /\ xports[new] = BAD
    <2>1. new \in Id
      BY <1>2, <1>3, NBitsAssumption DEF Id
    <2>2. CASE new <= xports_maxid
      <3>1. new \in UsedId
        BY <1>2, <2>2 DEF UsedId
      <3>. QED
        BY <1>1, <2>1, <2>2, <3>1 DEF IdsExact
    <2>3. CASE ~(new <= xports_maxid)
      <3>1. new \notin UsedId
        BY <1>2, <2>3 DEF UsedId
      <3>. QED
        BY <2>1, <3>1 DEF IdsExact
    <2>. QED
      BY <2>2, <2>3, <2>1
  <1>4. ASSUME new >= NBits, NEW id \in Id
        PROVE  xports[id] \in live
    <2>1. id \in 0 .. new - 1 /\ id \in UsedId
      BY <1>2, <1>4, NBitsAssumption DEF Id, UsedId
    <2>. QED
      BY <1>1, <2>1 DEF IdsExact
  <1>. QED
    BY <1>2, <1>3, <1>4 DEF new

-----------------------------------------------------------------------------
(* Frame lemmas: what each part of the invariant depends on.               *)

LEMMA FrameLive ==
  ASSUME LiveXprtFound, UNCHANGED <<xports, live, mtxp_id>>
  PROVE  LiveXprtFound'
  BY DEF LiveXprtFound, Registered

LEMMA FrameClones ==
  ASSUME ClonesCounted,
         UNCHANGED <<xports, live, mtxp_id, mtxp_parent, kind, xp_sock, mtxp_refcnt>>
  PROVE  ClonesCounted'
  <1>1. \A x \in Xprt : Clones(x)' = Clones(x)
    BY DEF Clones, Registered
  <1>. QED
    BY <1>1 DEF ClonesCounted, Registered, IsClone

LEMMA FrameSockets ==
  ASSUME SocketsWatched,
         UNCHANGED <<live, mtxp_id, mtxp_parent, sock_xports, xp_sock, xports_pollfd>>
  PROVE  SocketsWatched'
  BY DEF SocketsWatched, Registered, IsClone, PollSlots

LEMMA FrameMarks ==
  ASSUME MarksCounted, UNCHANGED <<xprtgc_idset, xprtgc_mark_count, xports_maxid, mtxp_id, retired>>
  PROVE  MarksCounted'
  BY DEF MarksCounted, UsedId

LEMMA FrameOnlyRetired ==
  ASSUME CollectsOnlyRetired, UNCHANGED <<pc, arg, retired>>
  PROVE  CollectsOnlyRetired'
  BY DEF CollectsOnlyRetired

LEMMA FrameDies ==
  ASSUME DiesOnlyWhenFull, UNCHANGED <<died, xports, live>>
  PROVE  DiesOnlyWhenFull'
  BY DEF DiesOnlyWhenFull

LEMMA FrameIds ==
  ASSUME IdsExact, UNCHANGED <<xports_idset, xports, xports_maxid, live, mtxp_id>>
  PROVE  IdsExact'
  BY DEF IdsExact, UsedId

LEMMA FrameShape ==
  ASSUME XprtShape, UNCHANGED <<live, xp_sock, mtxp_id, mtxp_parent>>
  PROVE  XprtShape'
  BY DEF XprtShape, IsClone

LEMMA FrameHeld ==
  ASSUME SocketsHeld, UNCHANGED <<sock_xports, mtxp_parent, fds, pc, arg>>
  PROVE  SocketsHeld'
  BY DEF SocketsHeld, IsClone

LEMMA FrameCreation ==
  ASSUME CreationPrivate,
         UNCHANGED <<pc, arg, live, mtxp_id, mtxp_refcnt, sock_xports, xp_sock, fds>>
  PROVE  CreationPrivate'
  BY DEF CreationPrivate

LEMMA FrameMarksExact ==
  ASSUME MarksExact,
         UNCHANGED <<retired, live, mtxp_id, mtxp_parent, kind, xprtgc_idset, xports,
                     xports_maxid, pc, gcid>>
  PROVE  MarksExact'
  BY DEF MarksExact, Registered, IsClone, UsedId

LEMMA FrameCollector ==
  ASSUME CollectorAt,
         UNCHANGED <<pc, arg, gcid, mtxp_id, mtxp_parent, xports, xports_maxid, xprtgc_idset>>
  PROVE  CollectorAt'
  BY DEF CollectorAt, IsClone, UsedId

\* The id of a registered transport is one that is used, and the one xports
\* has the transport under.
LEMMA RegisteredUsed ==
  ASSUME RegistryInv, NEW x \in Xprt, Registered(x)
  PROVE  mtxp_id[x] \in Id /\ mtxp_id[x] \in UsedId /\ xports[mtxp_id[x]] = x
  <1>1. mtxp_id[x] \in Id /\ xports[mtxp_id[x]] = x
    BY DEF RegistryInv, TypeOK, Registered, LiveXprtFound, XPRT_ID_INVALID
  <1>. QED
    BY <1>1, XprtAssumption DEF RegistryInv, IdsExact

-----------------------------------------------------------------------------
(* Every step keeps the invariant; one lemma for each action.              *)

\* svc_die() changes nothing but the fate of the process.
LEMMA DieKeeps ==
  ASSUME RegistryInv, NEW why, SvcDie(why),
         why = "out of ids", \A id \in Id : xports[id] \in live
  PROVE  RegistryInv'
  <1>1. UNCHANGED <<xports, sock_xports, xports_idset, xports_maxid, xports_pollfd,
                    xprtgc_idset, xprtgc_mark_count, live, kind, xp_sock, mtxp_id,
                    mtxp_parent, mtxp_refcnt, mtxp_progress, fds, pc, arg, gcid, retired>>
    BY DEF SvcDie, registry, gcvars, memory, threads
  <1>2. died' = "out of ids"
    BY DEF SvcDie
  <1>3. TypeOK'
    BY <1>1, <1>2 DEF RegistryInv, TypeOK, Fates, UsedId
  <1>4. DiesOnlyWhenFull'
    BY <1>1, <1>2 DEF DiesOnlyWhenFull
  <1>. QED
    BY <1>1, <1>3, <1>4, FrameLive, FrameClones, FrameSockets, FrameMarks, FrameOnlyRetired,
          FrameIds, FrameShape, FrameHeld, FrameCreation, FrameMarksExact, FrameCollector
          DEF RegistryInv

LEMMA ProgressKeeps ==
  ASSUME RegistryInv, NEW x \in Xprt, NEW bits \in SUBSET ProgressBits,
         XprtProgress(x, bits)
  PROVE  RegistryInv'
  <1>1. UNCHANGED <<xports, sock_xports, xports_idset, xports_maxid, xports_pollfd,
                    xprtgc_idset, xprtgc_mark_count, live, kind, xp_sock, mtxp_id,
                    mtxp_parent, mtxp_refcnt, fds, pc, arg, gcid, died, retired>>
    BY DEF XprtProgress, registry, gcvars, threads
  <1>2. TypeOK'
    BY <1>1 DEF RegistryInv, TypeOK, UsedId, XprtProgress
  <1>. QED
    BY <1>1, <1>2, FrameDies, FrameLive, FrameClones, FrameSockets, FrameMarks, FrameOnlyRetired,
          FrameIds, FrameShape, FrameHeld, FrameCreation, FrameMarksExact, FrameCollector
          DEF RegistryInv

LEMMA ReapAllKeeps ==
  ASSUME RegistryInv, died = "no", XprtGcReapAll
  PROVE  RegistryInv'
  <1>1. UNCHANGED <<xports, sock_xports, xports_idset, xports_maxid, xports_pollfd,
                    xprtgc_idset, xprtgc_mark_count, live, kind, xp_sock, mtxp_id,
                    mtxp_parent, mtxp_refcnt, mtxp_progress, fds, arg, died, retired>>
    BY DEF XprtGcReapAll, registry, gcvars, memory
  <1>2. pc[Main] = "idle" /\ pc'[Main] = "scan"
    BY DEF XprtGcReapAll, RegistryInv, TypeOK, Threads
  <1>3. TypeOK'
    <2>1. gcid' \in 0 .. NBits
      BY NBitsAssumption DEF XprtGcReapAll
    <2>. QED
      BY <1>1, <2>1 DEF RegistryInv, TypeOK, UsedId, XprtGcReapAll
  <1>4. CollectsOnlyRetired' /\ CreationPrivate' /\ CollectorAt'
    BY <1>2 DEF CollectsOnlyRetired, CreationPrivate, CollectorAt
  <1>5. MarksExact'
    BY <1>1, <1>2 DEF RegistryInv, MarksExact, Registered, IsClone, UsedId
  <1>6. SocketsHeld'
    BY <1>1, <1>2 DEF RegistryInv, SocketsHeld, IsClone
  <1>. QED
    BY <1>1, <1>3, <1>4, <1>5, <1>6, FrameLive, FrameClones, FrameSockets, FrameMarks, FrameDies,
       FrameIds, FrameShape DEF RegistryInv

LEMMA ReapAllReturnKeeps ==
  ASSUME RegistryInv, died = "no", ReapAllReturn
  PROVE  RegistryInv'
  <1>1. UNCHANGED <<xports, sock_xports, xports_idset, xports_maxid, xports_pollfd,
                    xprtgc_idset, xprtgc_mark_count, live, kind, xp_sock, mtxp_id,
                    mtxp_parent, mtxp_refcnt, mtxp_progress, fds, arg, died, retired>>
    BY DEF ReapAllReturn, registry, gcvars, memory
  <1>2. pc[Main] = "scan" /\ pc'[Main] = "idle"
    BY DEF ReapAllReturn, RegistryInv, TypeOK, Threads
  <1>3. TypeOK'
    <2>1. gcid' \in 0 .. NBits
      BY NBitsAssumption DEF ReapAllReturn
    <2>. QED
      BY <1>1, <2>1 DEF RegistryInv, TypeOK, UsedId, ReapAllReturn
  <1>4. CollectsOnlyRetired' /\ CreationPrivate' /\ CollectorAt'
    BY <1>2 DEF CollectsOnlyRetired, CreationPrivate, CollectorAt
  <1>5. MarksExact'
    BY <1>1, <1>2 DEF RegistryInv, MarksExact, Registered, IsClone, UsedId
  <1>6. SocketsHeld'
    BY <1>1, <1>2 DEF RegistryInv, SocketsHeld, IsClone
  <1>. QED
    BY <1>1, <1>3, <1>4, <1>5, <1>6, FrameLive, FrameClones, FrameSockets, FrameMarks, FrameDies,
       FrameIds, FrameShape DEF RegistryInv

LEMMA ReapAllSkipKeeps ==
  ASSUME RegistryInv, died = "no", ReapAllSkip
  PROVE  RegistryInv'
  <1>1. UNCHANGED <<xports, sock_xports, xports_idset, xports_maxid, xports_pollfd,
                    xprtgc_idset, xprtgc_mark_count, live, kind, xp_sock, mtxp_id,
                    mtxp_parent, mtxp_refcnt, mtxp_progress, fds, pc, arg, died, retired>>
    BY DEF ReapAllSkip, registry, gcvars, memory
  <1>2. pc[Main] = "scan" /\ gcid' = gcid + 1 /\ ~(gcid > xports_maxid)
    BY DEF ReapAllSkip, ReapAllDone
  <1>3. gcid' \in 0 .. NBits
    BY <1>2, NBitsAssumption DEF RegistryInv, TypeOK, Id
  <1>4. TypeOK'
    BY <1>1, <1>3 DEF RegistryInv, TypeOK, UsedId
  <1>5. MarksExact' /\ CollectorAt'
    BY <1>1, <1>2 DEF RegistryInv, MarksExact, CollectorAt, Registered, IsClone, UsedId
  <1>. QED
    BY <1>1, <1>4, <1>5, FrameLive, FrameClones, FrameSockets, FrameMarks, FrameOnlyRetired,
       FrameDies, FrameIds, FrameShape, FrameHeld, FrameCreation DEF RegistryInv

\* The id the scan has come to, when it is marked, is that of a retired
\* transport, a clone or a connection without clones, so it is destroyed.
LEMMA ReapOneKeeps ==
  ASSUME RegistryInv, died = "no", XprtGcReapOne
  PROVE  RegistryInv'
  <1> DEFINE x == xports[gcid]
  <1>1. pc[Main] = "scan" /\ gcid \in Id /\ gcid \in UsedId /\ x # BAD /\ BitvecGetBit(xprtgc_idset, gcid)
    BY NBitsAssumption DEF XprtGcReapOne, ReapAllDone, Reapable, RegistryInv, TypeOK, Id, UsedId
  <1>2. x \in retired /\ x \in Xprt
    BY <1>1 DEF RegistryInv, MarksExact, TypeOK
  <1>3. Registered(x) /\ mtxp_id[x] = gcid /\ (IsClone(x) \/ kind[x] = "connection")
    BY <1>1, <1>2 DEF RegistryInv, MarksExact, IdsExact
  <1>4. ~IsClone(x) => mtxp_refcnt[x] = 0
    <2>1. SUFFICES ASSUME ~IsClone(x)
                   PROVE  mtxp_refcnt[x] = 0
      OBVIOUS
    <2>2. kind[x] = "connection"
      BY <1>3, <2>1
    <2>3. Clones(x) = {}
      <3>1. SUFFICES ASSUME NEW c \in Clones(x)
                     PROVE  FALSE
        OBVIOUS
      <3>2. c \in Xprt /\ Registered(c) /\ mtxp_parent[c] = gcid
        BY <1>3 DEF Clones
      <3>3. IsClone(c)
        BY <1>1, <3>2, NBitsAssumption DEF IsClone, NO_PARENT, Id
      <3>4. kind[xports[mtxp_parent[c]]] = "udp"
        BY <3>2, <3>3 DEF RegistryInv, ClonesCounted
      <3>. QED
        BY <2>2, <3>2, <3>4
    <2>4. mtxp_refcnt[x] = Cardinality(Clones(x))
      BY <1>2, <1>3, <2>1 DEF RegistryInv, ClonesCounted
    <2>. QED
      BY <2>3, <2>4, FS_EmptySet
  <1>5. /\ pc' = [pc EXCEPT ![Main] = IF IsClone(x) THEN "unregister" ELSE "close"]
        /\ arg' = [arg EXCEPT ![Main] = x]
        /\ UNCHANGED <<xprtgc_idset, xprtgc_mark_count, gcid>>
    BY <1>4 DEF XprtGcReapOne, gcvars
  <1>6. UNCHANGED <<xports, sock_xports, xports_idset, xports_maxid, xports_pollfd,
                    live, kind, xp_sock, mtxp_id, mtxp_parent, mtxp_refcnt, mtxp_progress,
                    fds, died, retired>>
    BY DEF XprtGcReapOne, registry, memory
  <1>7. pc'[Main] \in {"close", "unregister"} /\ arg'[Main] = x
    BY <1>5 DEF RegistryInv, TypeOK, Threads
  <1>8. TypeOK'
    BY <1>2, <1>5, <1>6 DEF RegistryInv, TypeOK, UsedId, ReapSteps
  <1>9. CollectsOnlyRetired' /\ CreationPrivate'
    BY <1>2, <1>6, <1>7 DEF CollectsOnlyRetired, CreationPrivate
  <1>10. SocketsHeld'
    BY <1>1, <1>6 DEF RegistryInv, SocketsHeld, IsClone
  <1>11. MarksExact'
    BY <1>1, <1>5, <1>6, <1>7 DEF RegistryInv, MarksExact, Registered, IsClone, UsedId
  <1>12. CollectorAt'
    <2>1. pc'[Main] = "close" => ~IsClone(x)
      BY <1>5 DEF RegistryInv, TypeOK, Threads
    <2>. QED
      BY <1>3, <1>5, <1>6, <1>7, <2>1 DEF CollectorAt, IsClone
  <1>. QED
    BY <1>5, <1>6, <1>8, <1>9, <1>10, <1>11, <1>12, FrameLive, FrameClones, FrameSockets,
       FrameMarks, FrameDies, FrameIds, FrameShape DEF RegistryInv

LEMMA CloseKeeps ==
  ASSUME RegistryInv, died = "no", DestroyClose
  PROVE  RegistryInv'
  <1>1. UNCHANGED <<xports, sock_xports, xports_idset, xports_maxid, xports_pollfd,
                    xprtgc_idset, xprtgc_mark_count, live, kind, xp_sock, mtxp_id,
                    mtxp_parent, mtxp_refcnt, mtxp_progress, arg, gcid, died, retired>>
    BY DEF DestroyClose, registry, gcvars, memory
  <1>2. pc[Main] = "close" /\ pc'[Main] = "unregister" /\ fds' = fds \ {xp_sock[arg[Main]]}
    BY DEF DestroyClose, RegistryInv, TypeOK, Threads
  <1>3. TypeOK'
    BY <1>1, <1>2 DEF RegistryInv, TypeOK, UsedId, DestroyClose, ReapSteps
  <1>4. CollectsOnlyRetired' /\ CreationPrivate' /\ CollectorAt'
    BY <1>1, <1>2 DEF RegistryInv, CollectsOnlyRetired, CreationPrivate, CollectorAt, IsClone
  <1>5. MarksExact'
    BY <1>1, <1>2 DEF RegistryInv, MarksExact, Registered, IsClone, UsedId
  <1>6. SocketsHeld'
    <2>1. SUFFICES ASSUME NEW s \in Sock, sock_xports[s] # BAD
                   PROVE  ~IsClone(sock_xports[s]) /\ (s \in fds' \/ arg[Main] = sock_xports[s])
      BY <1>1, <1>2 DEF SocketsHeld, IsClone
    <2>2. ~IsClone(sock_xports[s]) /\ s \in fds
      BY <1>2, <2>1 DEF RegistryInv, SocketsHeld
    <2>3. CASE s = xp_sock[arg[Main]]
      <3>1. arg[Main] \in Xprt /\ Registered(arg[Main]) /\ ~IsClone(arg[Main])
        BY <1>2 DEF RegistryInv, CollectsOnlyRetired, MarksExact, CollectorAt, TypeOK
      <3>2. sock_xports[s] = arg[Main]
        BY <2>3, <3>1 DEF RegistryInv, SocketsWatched
      <3>. QED
        BY <2>2, <3>2
    <2>4. CASE s # xp_sock[arg[Main]]
      BY <1>2, <2>2, <2>4
    <2>. QED
      BY <2>3, <2>4
  <1>. QED
    BY <1>1, <1>3, <1>4, <1>5, <1>6, FrameLive, FrameClones, FrameSockets, FrameMarks, FrameDies,
       FrameIds, FrameShape DEF RegistryInv

\* The set of marked ids, whose size xprtgc_mark_count must be.
Marked == {id \in UsedId : BitvecGetBit(xprtgc_idset, id)}

LEMMA MarkedFinite ==
  ASSUME TypeOK
  PROVE  IsFiniteSet(Marked)
  <1>1. IsFiniteSet(UsedId)
    BY FS_Interval, NBitsAssumption DEF TypeOK, UsedId, Id
  <1>. QED
    BY <1>1, FS_Subset DEF Marked

LEMMA MarkKeeps ==
  ASSUME SmallIds, RegistryInv, died = "no", NEW x \in Xprt, XprtGcMark(x)
  PROVE  RegistryInv'
  <1> DEFINE id == mtxp_id[x]
  <1>1. /\ UNCHANGED <<xports, sock_xports, xports_idset, xports_maxid, xports_pollfd,
                       live, kind, xp_sock, mtxp_id, mtxp_parent, mtxp_refcnt, mtxp_progress,
                       fds, pc, arg, gcid, died>>
        /\ retired' = retired \cup {x}
        /\ pc[Main] \notin ReapSteps
        /\ Registered(x)
        /\ IsClone(x) \/ kind[x] = "connection"
    BY DEF XprtGcMark, registry, memory, threads
  <1>2. id \in Id /\ id \in UsedId /\ xports[id] = x /\ UsedId' = UsedId
    BY <1>1, RegisteredUsed DEF UsedId
  <1>3. /\ xprtgc_idset' \subseteq {Cell(i) : i \in UsedId}
        /\ \A i \in UsedId : BitvecGetBit(xprtgc_idset', i) <=> (i = id \/ BitvecGetBit(xprtgc_idset, i))
        /\ xprtgc_mark_count' \in Nat
        /\ xprtgc_mark_count' = Cardinality(Marked')
    <2>1. CASE BitvecGetBit(xprtgc_idset, id)
      <3>1. UNCHANGED <<xprtgc_idset, xprtgc_mark_count>>
        BY <2>1 DEF XprtGcMark, gcvars
      <3>. QED
        BY <1>2, <2>1, <3>1 DEF RegistryInv, TypeOK, MarksCounted, Marked
    <2>2. CASE ~BitvecGetBit(xprtgc_idset, id)
      <3>1. /\ xprtgc_idset' = BitvecSetBit(xprtgc_idset, id)
            /\ xprtgc_mark_count' = xprtgc_mark_count + 1
        BY <2>2 DEF XprtGcMark
      <3>2. xprtgc_idset' \subseteq {Cell(i) : i \in UsedId}
        BY <1>2, <3>1, VecTypes DEF RegistryInv, TypeOK
      <3>3. \A i \in UsedId : BitvecGetBit(xprtgc_idset', i) <=> (i = id \/ BitvecGetBit(xprtgc_idset, i))
        BY <1>2, <3>1, UsedIdRange, GetAfterSet DEF RegistryInv, TypeOK
      <3>4. Marked' = Marked \cup {id} /\ id \notin Marked
        BY <1>2, <2>2, <3>3 DEF Marked
      <3>5. Cardinality(Marked') = Cardinality(Marked) + 1
        BY <3>4, MarkedFinite, FS_AddElement DEF RegistryInv
      <3>. QED
        BY <3>1, <3>2, <3>3, <3>5 DEF RegistryInv, TypeOK, MarksCounted, Marked
    <2>. QED
      BY <2>1, <2>2
  <1>4. TypeOK'
    BY <1>1, <1>2, <1>3 DEF RegistryInv, TypeOK
  <1>5. MarksCounted'
    <2>1. \A y \in retired' : BitvecGetBit(xprtgc_idset', mtxp_id'[y])
      <3>1. ASSUME NEW y \in retired
            PROVE  mtxp_id[y] \in UsedId /\ BitvecGetBit(xprtgc_idset, mtxp_id[y])
        BY RegisteredUsed DEF RegistryInv, TypeOK, MarksCounted, MarksExact
      <3>. QED
        BY <1>1, <1>2, <1>3, <3>1
    <2>. QED
      BY <1>3, <2>1 DEF MarksCounted, Marked
  <1>6. CollectsOnlyRetired' /\ CollectorAt'
    BY <1>1 DEF CollectsOnlyRetired, CollectorAt, ReapSteps
  <1>7. MarksExact'
    BY <1>1, <1>2, <1>3 DEF RegistryInv, MarksExact, Registered, IsClone
  <1>. QED
    BY <1>1, <1>4, <1>5, <1>6, <1>7, FrameLive, FrameClones, FrameSockets, FrameDies, FrameIds,
       FrameShape, FrameHeld, FrameCreation DEF RegistryInv

\* After the last step of the reaping of an id its mark is gone; nobody has
\* registered a transport under it since it was unregistered.
LEMMA FinishKeeps ==
  ASSUME SmallIds, RegistryInv, died = "no", ReapFinish
  PROVE  RegistryInv'
  <1>1. /\ UNCHANGED <<sock_xports, xports_idset, xports_maxid, xports_pollfd,
                       live, kind, xp_sock, mtxp_id, mtxp_parent, mtxp_refcnt, mtxp_progress,
                       fds, arg, died, retired>>
        /\ xprtgc_idset' = BitvecClrBit(xprtgc_idset, gcid)
        /\ xprtgc_mark_count' = xprtgc_mark_count - 1
        /\ gcid' = gcid + 1
    BY DEF ReapFinish, memory, Unmark
  <1>2. pc[Main] = "finish" /\ pc'[Main] = "scan"
    BY DEF ReapFinish, RegistryInv, TypeOK, Threads
  <1>3. gcid \in Id /\ gcid \in UsedId /\ xports[gcid] = BAD /\ BitvecGetBit(xprtgc_idset, gcid)
    BY <1>2, UsedIdRange DEF RegistryInv, TypeOK, CollectorAt
  <1>4. xports' = xports
    BY <1>3 DEF ReapFinish, RegistryInv, TypeOK
  <1>5. /\ UsedId' = UsedId
        /\ xprtgc_idset' \subseteq {Cell(i) : i \in UsedId}
        /\ \A i \in UsedId : BitvecGetBit(xprtgc_idset', i) <=> (i # gcid /\ BitvecGetBit(xprtgc_idset, i))
    <2>1. UsedId' = UsedId
      BY <1>1 DEF UsedId
    <2>2. xprtgc_idset' \subseteq {Cell(i) : i \in UsedId}
      BY <1>1, <1>3, VecTypes DEF RegistryInv, TypeOK
    <2>3. UsedId \subseteq 0 .. WordBytes
      BY UsedIdRange DEF RegistryInv, TypeOK
    <2>. QED
      BY <1>1, <1>3, <2>1, <2>2, <2>3, GetAfterClr
  <1>6. Marked' = Marked \ {gcid} /\ gcid \in Marked
    BY <1>3, <1>5 DEF Marked
  <1>7. Cardinality(Marked') = Cardinality(Marked) - 1 /\ Cardinality(Marked') \in Nat
    BY <1>6, MarkedFinite, FS_RemoveElement, FS_CardinalityType DEF RegistryInv
  <1>8. xprtgc_mark_count' = Cardinality(Marked') /\ xprtgc_mark_count' \in Nat
    BY <1>1, <1>7 DEF RegistryInv, MarksCounted, Marked
  <1>9. TypeOK'
    <2>1. gcid' \in 0 .. NBits
      BY <1>1, <1>3, NBitsAssumption DEF Id
    <2>. QED
      BY <1>1, <1>4, <1>5, <1>8, <2>1 DEF RegistryInv, TypeOK, ReapFinish
  <1>10. MarksCounted'
    <2>1. ASSUME NEW y \in retired
          PROVE  mtxp_id[y] \in UsedId /\ mtxp_id[y] # gcid
      BY <1>3, XprtAssumption, RegisteredUsed DEF RegistryInv, TypeOK, MarksExact
    <2>. QED
      BY <1>1, <1>5, <1>8, <2>1 DEF RegistryInv, MarksCounted, Marked
  <1>11. CollectsOnlyRetired' /\ CreationPrivate' /\ CollectorAt'
    BY <1>2 DEF CollectsOnlyRetired, CreationPrivate, CollectorAt
  <1>12. SocketsHeld'
    BY <1>1, <1>2 DEF RegistryInv, SocketsHeld, IsClone
  <1>13. MarksExact'
    BY <1>1, <1>4, <1>5 DEF RegistryInv, MarksExact, Registered, IsClone
  <1>. QED
    BY <1>1, <1>4, <1>9, <1>10, <1>11, <1>12, <1>13, FrameLive, FrameClones, FrameSockets,
       FrameDies, FrameIds, FrameShape DEF RegistryInv

\* The sets of clones whose sizes the reference counts must be.
LEMMA ClonesFinite == \A p : IsFiniteSet(Clones(p))
  BY XprtAssumption, FS_Subset DEF Clones

\* The transport that is destroyed is found, so is its parent, and it is the
\* parent of no other.
LEMMA UnregisterKeeps ==
  ASSUME SmallIds, RegistryInv, died = "no", DestroyUnregister
  PROVE  RegistryInv'
  <1> DEFINE x == arg[Main]
             id == mtxp_id[x]
             p == xports[mtxp_parent[x]]
  <1>1. pc[Main] = "unregister" /\ x \in retired /\ x \in Xprt /\ Registered(x) /\ id = gcid
    BY DEF DestroyUnregister, RegistryInv, CollectsOnlyRetired, MarksExact, CollectorAt, TypeOK
  <1>2. id \in Id /\ id \in UsedId /\ xports[id] = x
    BY <1>1, RegisteredUsed
  <1>3. ASSUME NEW c \in Xprt, Registered(c), IsClone(c)
        PROVE  /\ mtxp_parent[c] \in Id
               /\ xports[mtxp_parent[c]] \in Xprt
               /\ Registered(xports[mtxp_parent[c]])
               /\ mtxp_id[xports[mtxp_parent[c]]] = mtxp_parent[c]
               /\ ~IsClone(xports[mtxp_parent[c]])
               /\ kind[xports[mtxp_parent[c]]] = "udp"
    <2>1. mtxp_parent[c] \in Id
      BY <1>3 DEF RegistryInv, TypeOK, IsClone
    <2>2. xports[mtxp_parent[c]] # BAD
      BY <1>3 DEF RegistryInv, ClonesCounted
    <2>3. /\ xports[mtxp_parent[c]] \in live
          /\ mtxp_id[xports[mtxp_parent[c]]] = mtxp_parent[c]
      BY <2>1, <2>2 DEF RegistryInv, IdsExact
    <2>4. mtxp_parent[c] # XPRT_ID_INVALID
      BY <2>1, NBitsAssumption DEF Id, XPRT_ID_INVALID
    <2>. QED
      BY <1>3, <2>1, <2>2, <2>3, <2>4 DEF RegistryInv, TypeOK, ClonesCounted, Registered
  <1>4. \A c \in Xprt : Registered(c) /\ IsClone(c) => mtxp_parent[c] # id
    BY <1>1, <1>2, <1>3 DEF RegistryInv, MarksExact
  <1>5. IsClone(x) => p # BAD
    BY <1>1 DEF RegistryInv, ClonesCounted
  <1>6. /\ IF IsClone(x)
           THEN /\ mtxp_refcnt' = [mtxp_refcnt EXCEPT ![p] = @ - 1]
                /\ UNCHANGED <<sock_xports, xports_pollfd>>
           ELSE /\ sock_xports' = [sock_xports EXCEPT ![xp_sock[x]] = BAD]
                /\ xports_pollfd' = PollfdRemove(xp_sock[x])
                /\ UNCHANGED mtxp_refcnt
        /\ xports' = [xports EXCEPT ![id] = BAD]
        /\ xports_idset' = BitvecClrBit(xports_idset, id)
        /\ live' = live \ {x}
        /\ retired' = retired \ {x}
        /\ pc' = [pc EXCEPT ![Main] = "finish"]
        /\ UNCHANGED <<xports_maxid, xprtgc_idset, xprtgc_mark_count, kind, xp_sock, mtxp_id,
                       mtxp_parent, mtxp_progress, fds, arg, gcid, died>>
    BY <1>2, <1>5 DEF DestroyUnregister, UnregisterId, DropClone, gcvars
  <1>7. pc'[Main] = "finish"
    BY <1>6 DEF RegistryInv, TypeOK, Threads
  <1>8. \A i \in Id : xports'[i] = IF i = id THEN BAD ELSE xports[i]
    BY <1>6 DEF RegistryInv, TypeOK
  <1>9. \A y \in Xprt : Registered(y)' <=> (Registered(y) /\ y # x)
    BY <1>6 DEF Registered
  <1>10. \A y \in Xprt : Registered(y) =>
           mtxp_id[y] \in Id /\ xports[mtxp_id[y]] = y /\ (y # x => mtxp_id[y] # id)
    BY <1>2 DEF RegistryInv, TypeOK, Registered, LiveXprtFound, XPRT_ID_INVALID
  <1>11. LiveXprtFound'
    BY <1>6, <1>8, <1>9, <1>10 DEF LiveXprtFound
  <1>12. \A y \in Xprt : Clones(y)' = Clones(y) \ {x}
    BY <1>6, <1>9 DEF Clones
  <1>13. ASSUME NEW y \in Xprt, Registered(y), ~IsClone(y), x \in Clones(y)
         PROVE  IsClone(x) /\ y = p
    <2>1. mtxp_parent[x] = mtxp_id[y]
      BY <1>13 DEF Clones
    <2>. QED
      BY <1>10, <1>13, <2>1, NBitsAssumption DEF IsClone, NO_PARENT, Id
  <1>14. IsClone(x) => /\ p \in Xprt /\ p # x /\ Registered(p) /\ ~IsClone(p)
                       /\ x \in Clones(p)
    BY <1>1, <1>3 DEF Clones
  <1>15. ASSUME NEW y \in Xprt, Registered(y), ~IsClone(y), y # x
         PROVE  mtxp_refcnt'[y] = Cardinality(Clones(y)') /\ mtxp_refcnt'[y] \in Nat
    <2>1. mtxp_refcnt[y] = Cardinality(Clones(y)) /\ Cardinality(Clones(y)) \in Nat
      BY <1>15, ClonesFinite, FS_CardinalityType DEF RegistryInv, ClonesCounted
    <2>2. CASE x \in Clones(y)
      <3>1. IsClone(x) /\ y = p
        BY <1>13, <1>15, <2>2
      <3>2. mtxp_refcnt'[y] = mtxp_refcnt[y] - 1
        BY <1>6, <1>14, <3>1 DEF RegistryInv, TypeOK
      <3>3. Cardinality(Clones(y) \ {x}) = Cardinality(Clones(y)) - 1
        BY <2>2, ClonesFinite, FS_RemoveElement
      <3>4. Cardinality(Clones(y) \ {x}) \in Nat
        BY ClonesFinite, FS_RemoveElement, FS_CardinalityType
      <3>. QED
        BY <1>12, <2>1, <3>2, <3>3, <3>4
    <2>3. CASE x \notin Clones(y)
      <3>1. Clones(y)' = Clones(y)
        BY <1>12, <2>3
      <3>2. mtxp_refcnt'[y] = mtxp_refcnt[y]
        BY <1>6, <1>14, <2>3 DEF RegistryInv, TypeOK
      <3>. QED
        BY <2>1, <3>1, <3>2
    <2>. QED
      BY <2>2, <2>3
  <1>16. ClonesCounted'
    <2>1. SUFFICES ASSUME NEW y \in Xprt, Registered(y), y # x
                   PROVE  IF IsClone(y)
                          THEN LET q == xports'[mtxp_parent[y]]
                               IN  /\ q # BAD
                                   /\ kind[q] = "udp"
                                   /\ ~IsClone(q)
                                   /\ xp_sock[q] = xp_sock[y]
                          ELSE mtxp_refcnt'[y] = Cardinality(Clones(y)')
      BY <1>6, <1>9 DEF ClonesCounted, IsClone
    <2>2. CASE IsClone(y)
      <3>1. xports'[mtxp_parent[y]] = xports[mtxp_parent[y]]
        BY <1>3, <1>4, <1>8, <2>1, <2>2
      <3>. QED
        BY <2>1, <2>2, <3>1 DEF RegistryInv, ClonesCounted
    <2>3. CASE ~IsClone(y)
      BY <1>15, <2>1, <2>3
    <2>. QED
      BY <2>2, <2>3
  <1>17. SocketsWatched'
    <2>1. CASE IsClone(x)
      <3>1. \A s \in Sock : sock_xports[s] # x
        BY <1>1, <2>1, XprtAssumption DEF RegistryInv, SocketsHeld
      <3>2. UNCHANGED <<sock_xports, xports_pollfd>>
        BY <1>6, <2>1
      <3>3. \A s \in Sock : sock_xports[s] \in Xprt \cup {BAD}
        BY DEF RegistryInv, TypeOK
      <3>. QED
        BY <1>6, <1>9, <3>1, <3>2, <3>3 DEF RegistryInv, SocketsWatched, IsClone, PollSlots
    <2>2. CASE ~IsClone(x)
      <3>1. sock_xports[xp_sock[x]] = x /\ xp_sock[x] \in Sock
        BY <1>1, <2>2 DEF RegistryInv, SocketsWatched, XprtShape, Registered
      <3>2. \A s \in Sock : sock_xports'[s] = IF s = xp_sock[x] THEN BAD ELSE sock_xports[s]
        BY <1>6, <2>2 DEF RegistryInv, TypeOK
      <3>3. \A s \in Sock : PollSlots(s)' = IF s = xp_sock[x] THEN {} ELSE PollSlots(s)
        BY <1>6, <2>2, SockAssumption DEF PollSlots, PollfdRemove
      <3>4. DOMAIN xports_pollfd' = DOMAIN xports_pollfd
        BY <1>6, <2>2 DEF PollfdRemove
      <3>5. ASSUME NEW y \in Xprt, Registered(y), ~IsClone(y), y # x
            PROVE  sock_xports'[xp_sock[y]] = y
        <4>1. sock_xports[xp_sock[y]] = y /\ xp_sock[y] \in Sock
          BY <3>5 DEF RegistryInv, SocketsWatched, XprtShape, Registered
        <4>. QED
          BY <3>1, <3>2, <3>5, <4>1
      <3>6. ASSUME NEW s \in Sock
            PROVE  IF sock_xports'[s] = BAD
                   THEN PollSlots(s)' = {}
                   ELSE /\ Registered(sock_xports[s])'
                        /\ xp_sock[sock_xports'[s]] = s
                        /\ \E i \in DOMAIN xports_pollfd' : PollSlots(s)' = {i}
        <4>1. CASE s = xp_sock[x]
          BY <3>2, <3>3, <4>1
        <4>2. CASE s # xp_sock[x]
          <5>1. sock_xports'[s] = sock_xports[s] /\ PollSlots(s)' = PollSlots(s)
            BY <3>2, <3>3, <4>2
          <5>2. sock_xports[s] \in Xprt \cup {BAD}
            BY DEF RegistryInv, TypeOK
          <5>3. CASE sock_xports[s] = BAD
            BY <5>1, <5>3 DEF RegistryInv, SocketsWatched
          <5>4. CASE sock_xports[s] # BAD
            <6>1. /\ Registered(sock_xports[s])
                  /\ xp_sock[sock_xports[s]] = s
                  /\ \E i \in DOMAIN xports_pollfd : PollSlots(s) = {i}
              BY <5>4 DEF RegistryInv, SocketsWatched
            <6>2. Registered(sock_xports[s])'
              BY <1>6, <4>2, <5>1, <6>1 DEF Registered
            <6>. QED
              BY <3>4, <5>1, <5>4, <6>1, <6>2
          <5>. QED
            BY <5>3, <5>4
        <4>. QED
          BY <4>1, <4>2
      <3>. QED
        BY <1>6, <1>9, <3>5, <3>6 DEF SocketsWatched, IsClone
    <2>. QED
      BY <2>1, <2>2
  <1>18. MarksCounted'
    BY <1>6 DEF RegistryInv, MarksCounted, UsedId
  <1>19. CollectsOnlyRetired' /\ CreationPrivate'
    BY <1>7 DEF CollectsOnlyRetired, CreationPrivate
  <1>20. DiesOnlyWhenFull'
    BY <1>6 DEF DiesOnlyWhenFull
  <1>21. IdsExact'
    <2>1. ASSUME NEW i \in UsedId
          PROVE  BitvecGetBit(xports_idset', i) <=> (i # id /\ BitvecGetBit(xports_idset, i))
      <3>1. UsedId \subseteq 0 .. WordBytes
        BY UsedIdRange DEF RegistryInv, TypeOK
      <3>. QED
        BY <1>2, <1>6, <3>1, GetAfterClr
    <2>2. ASSUME NEW i \in Id, i # id, xports[i] # BAD
          PROVE  i \in UsedId /\ xports[i] \in live' /\ mtxp_id[xports[i]] = i
      BY <1>6, <2>2 DEF RegistryInv, IdsExact
    <2>3. \A i \in UsedId : BitvecGetBit(xports_idset, i) <=> xports[i] # BAD
      BY UsedIdRange DEF RegistryInv, TypeOK, IdsExact
    <2>4. UsedId' = UsedId
      BY <1>6 DEF UsedId
    <2>. QED
      BY <1>6, <1>8, <2>1, <2>2, <2>3, <2>4 DEF IdsExact
  <1>22. XprtShape'
    BY <1>6 DEF RegistryInv, XprtShape, IsClone
  <1>23. SocketsHeld'
    <2>1. SUFFICES ASSUME NEW s \in Sock, sock_xports'[s] # BAD
                   PROVE  ~IsClone(sock_xports'[s]) /\ s \in fds
      BY <1>6 DEF SocketsHeld, IsClone
    <2>2. sock_xports'[s] = sock_xports[s] /\ sock_xports[s] # x
      <3>1. CASE IsClone(x)
        BY <1>6, <2>1, <3>1 DEF RegistryInv, SocketsHeld
      <3>2. CASE ~IsClone(x)
        <4>1. s # xp_sock[x] /\ sock_xports'[s] = sock_xports[s]
          BY <1>6, <2>1, <3>2 DEF RegistryInv, TypeOK
        <4>. QED
          BY <2>1, <4>1 DEF RegistryInv, SocketsWatched
      <3>. QED
        BY <3>1, <3>2
    <2>. QED
      BY <2>1, <2>2 DEF RegistryInv, SocketsHeld
  <1>24. MarksExact'
    <2>1. ASSUME NEW y \in retired'
          PROVE  Registered(y)' /\ (IsClone(y)' \/ kind'[y] = "connection")
      BY <1>6, <2>1 DEF RegistryInv, MarksExact, Registered, IsClone
    <2>2. ASSUME NEW i \in UsedId, BitvecGetBit(xprtgc_idset, i)
          PROVE  xports'[i] \in retired' \/ gcid' = i
      <3>0. i \in Id
        BY UsedIdRange DEF RegistryInv, TypeOK
      <3>1. CASE i = id
        BY <1>1, <1>6, <3>1
      <3>2. CASE i # id
        <4>1. xports[i] \in retired
          BY <1>1, <2>2 DEF RegistryInv, MarksExact
        <4>2. xports[i] # x
          BY <1>1, <3>0, <3>2, <4>1, XprtAssumption DEF RegistryInv, IdsExact
        <4>. QED
          BY <1>6, <1>8, <3>0, <3>2, <4>1, <4>2
      <3>. QED
        BY <3>1, <3>2
    <2>. QED
      BY <1>6, <1>7, <2>1, <2>2 DEF MarksExact, UsedId
  <1>25. CollectorAt'
    <2>1. BitvecGetBit(xprtgc_idset, id)
      BY <1>1 DEF RegistryInv, MarksCounted
    <2>. QED
      BY <1>1, <1>2, <1>6, <1>7, <1>8, <2>1 DEF CollectorAt, UsedId
  <1>26. TypeOK'
    <2>1. xports' \in [Id -> Xprt \cup {BAD}] /\ sock_xports' \in [Sock -> Xprt \cup {BAD}]
      BY <1>6 DEF RegistryInv, TypeOK
    <2>2. xports_idset' \subseteq {Cell(i) : i \in UsedId}
      BY <1>2, <1>6, VecTypes DEF RegistryInv, TypeOK
    <2>3. mtxp_refcnt' \in [Xprt -> Nat]
      <3>1. CASE IsClone(x)
        BY <1>6, <1>14, <1>15, <3>1 DEF RegistryInv, TypeOK
      <3>2. CASE ~IsClone(x)
        BY <1>6, <3>2 DEF RegistryInv, TypeOK
      <3>. QED
        BY <3>1, <3>2
    <2>4. xports_pollfd' \in Seq(Sock \cup {NoFd})
      <3>1. CASE IsClone(x)
        BY <1>6, <3>1 DEF RegistryInv, TypeOK
      <3>2. CASE ~IsClone(x)
        <4>1. xports_pollfd \in Seq(Sock \cup {NoFd})
          BY DEF RegistryInv, TypeOK
        <4>. QED
          BY <1>6, <3>2, <4>1 DEF PollfdRemove
      <3>. QED
        BY <3>1, <3>2
    <2>5. pc' \in [Threads -> {"idle", "register", "scan"} \cup ReapSteps]
      BY <1>6 DEF RegistryInv, TypeOK, ReapSteps
    <2>. QED
      BY <1>6, <2>1, <2>2, <2>3, <2>4, <2>5 DEF RegistryInv, TypeOK, UsedId
  <1>. QED
    BY <1>11, <1>16, <1>17, <1>18, <1>19, <1>20, <1>21, <1>22, <1>23, <1>24, <1>25, <1>26
       DEF RegistryInv

\* Whatever leads to a transport leads to one that is allocated, so a block
\* of memory that is free can be filled in.
LEMMA OnlyLiveIsReached ==
  ASSUME RegistryInv, NEW x \in Xprt, x \notin live
  PROVE  /\ \A id \in Id : xports[id] # x
         /\ \A s \in Sock : sock_xports[s] # x
         /\ x \notin retired
  <1>1. BAD # x
    BY XprtAssumption
  <1>. QED
    BY <1>1 DEF RegistryInv, IdsExact, SocketsWatched, MarksExact, Registered

LEMMA ConstructKeeps ==
  ASSUME Scope, RegistryInv, died = "no",
         NEW t \in Threads, NEW x \in Xprt, NEW s \in Sock, NEW k \in Kinds,
         Construct(t, x, s, k)
  PROVE  RegistryInv'
  <1>1. t = Main
    BY DEF Scope, Threads
  <1>2. /\ pc[Main] = "idle" /\ x \notin live /\ s \notin fds
        /\ fds' = fds \cup {s}
        /\ live' = live \cup {x}
        /\ kind' = [kind EXCEPT ![x] = k]
        /\ xp_sock' = [xp_sock EXCEPT ![x] = s]
        /\ mtxp_id' = [mtxp_id EXCEPT ![x] = XPRT_ID_INVALID]
        /\ mtxp_parent' = [mtxp_parent EXCEPT ![x] = NO_PARENT]
        /\ mtxp_refcnt' = [mtxp_refcnt EXCEPT ![x] = 0]
        /\ mtxp_progress' = [mtxp_progress EXCEPT ![x] = {}]
        /\ pc' = [pc EXCEPT ![Main] = "register"]
        /\ arg' = [arg EXCEPT ![Main] = x]
        /\ UNCHANGED <<xports, sock_xports, xports_idset, xports_maxid, xports_pollfd,
                       xprtgc_idset, xprtgc_mark_count, gcid, died, retired>>
    BY <1>1 DEF Construct, registry, gcvars
  <1>3. pc'[Main] = "register" /\ arg'[Main] = x
    BY <1>2 DEF RegistryInv, TypeOK, Threads
  <1>4. /\ \A id \in Id : xports[id] # x
        /\ \A r \in Sock : sock_xports[r] # x
        /\ x \notin retired
    BY <1>2, OnlyLiveIsReached
  <1>5. \A y \in Xprt : y # x => /\ kind'[y] = kind[y]
                                 /\ xp_sock'[y] = xp_sock[y]
                                 /\ mtxp_id'[y] = mtxp_id[y]
                                 /\ mtxp_parent'[y] = mtxp_parent[y]
                                 /\ mtxp_refcnt'[y] = mtxp_refcnt[y]
    BY <1>2 DEF RegistryInv, TypeOK
  <1>6. /\ mtxp_id'[x] = XPRT_ID_INVALID /\ mtxp_parent'[x] = NO_PARENT
        /\ xp_sock'[x] = s /\ mtxp_refcnt'[x] = 0
    BY <1>2 DEF RegistryInv, TypeOK
  <1>7. \A y \in Xprt : Registered(y)' <=> (Registered(y) /\ y # x)
    BY <1>2, <1>5, <1>6 DEF Registered
  <1>8. sock_xports[s] = BAD
    BY <1>2 DEF RegistryInv, SocketsHeld
  <1>9. TypeOK'
    <2>1. XPRT_ID_INVALID \in Id \cup {XPRT_ID_INVALID} /\ NO_PARENT \in Id \cup {NO_PARENT}
      OBVIOUS
    <2>. QED
      BY <1>2, <2>1 DEF RegistryInv, TypeOK, UsedId
  <1>10. LiveXprtFound'
    BY <1>2, <1>5, <1>7 DEF RegistryInv, LiveXprtFound
  <1>11. \A y \in Xprt : y # x => Clones(y)' = Clones(y)
    <2>1. SUFFICES ASSUME NEW y \in Xprt, y # x, NEW c \in Xprt
                   PROVE  (Registered(c)' /\ mtxp_parent'[c] = mtxp_id'[y])
                            <=> (Registered(c) /\ mtxp_parent[c] = mtxp_id[y])
      BY DEF Clones
    <2>2. Registered(c) => c # x
      BY <1>2 DEF Registered
    <2>. QED
      BY <1>5, <1>7, <2>1, <2>2
  <1>12. ClonesCounted'
    <2>1. SUFFICES ASSUME NEW y \in Xprt, Registered(y), y # x
                   PROVE  IF IsClone(y)
                          THEN LET q == xports[mtxp_parent[y]]
                               IN  /\ q # BAD
                                   /\ kind'[q] = "udp"
                                   /\ ~(mtxp_parent'[q] # NO_PARENT)
                                   /\ xp_sock'[q] = xp_sock[y]
                          ELSE mtxp_refcnt[y] = Cardinality(Clones(y)')
      BY <1>2, <1>5, <1>7 DEF ClonesCounted, IsClone
    <2>2. CASE IsClone(y)
      <3>1. mtxp_parent[y] \in Id
        BY <2>2 DEF RegistryInv, TypeOK, IsClone
      <3>2. xports[mtxp_parent[y]] # BAD
        BY <2>1, <2>2 DEF RegistryInv, ClonesCounted
      <3>3. xports[mtxp_parent[y]] \in Xprt /\ xports[mtxp_parent[y]] # x
        BY <1>4, <3>1, <3>2 DEF RegistryInv, TypeOK
      <3>. QED
        BY <1>5, <2>1, <2>2, <3>3 DEF RegistryInv, ClonesCounted, IsClone
    <2>3. CASE ~IsClone(y)
      BY <1>11, <2>1, <2>3 DEF RegistryInv, ClonesCounted
    <2>. QED
      BY <2>2, <2>3
  <1>13. SocketsWatched'
    <2>1. \A y \in Xprt : Registered(y)' /\ ~IsClone(y)' => sock_xports'[xp_sock'[y]] = y
      BY <1>2, <1>5, <1>7 DEF RegistryInv, SocketsWatched, IsClone
    <2>2. ASSUME NEW r \in Sock, sock_xports[r] # BAD
          PROVE  Registered(sock_xports[r])' /\ xp_sock'[sock_xports[r]] = r
      <3>1. sock_xports[r] \in Xprt /\ Registered(sock_xports[r]) /\ xp_sock[sock_xports[r]] = r
        BY <2>2 DEF RegistryInv, TypeOK, SocketsWatched
      <3>2. sock_xports[r] # x
        BY <1>4
      <3>. QED
        BY <1>2, <1>5, <3>1, <3>2 DEF Registered
    <2>. QED
      BY <1>2, <2>1, <2>2 DEF RegistryInv, SocketsWatched, PollSlots
  <1>14. MarksCounted'
    <2>1. \A y \in retired : mtxp_id'[y] = mtxp_id[y]
      BY <1>4, <1>5 DEF RegistryInv, TypeOK
    <2>. QED
      BY <1>2, <2>1 DEF RegistryInv, MarksCounted, UsedId
  <1>15. CollectsOnlyRetired' /\ CollectorAt'
    BY <1>3 DEF CollectsOnlyRetired, CollectorAt
  <1>16. DiesOnlyWhenFull'
    BY <1>2 DEF DiesOnlyWhenFull
  <1>17. IdsExact'
    <2>1. ASSUME NEW i \in Id, xports[i] # BAD
          PROVE  mtxp_id'[xports[i]] = mtxp_id[xports[i]]
      BY <1>4, <1>5, <2>1 DEF RegistryInv, TypeOK
    <2>. QED
      BY <1>2, <2>1 DEF RegistryInv, IdsExact, UsedId
  <1>18. XprtShape'
    <2>1. ASSUME NEW y \in live', y # x
          PROVE  xp_sock'[y] \in Sock /\ (mtxp_id'[y] = XPRT_ID_INVALID => ~IsClone(y)')
      <3>1. y \in live /\ y \in Xprt
        BY <1>2, <2>1 DEF RegistryInv, TypeOK
      <3>. QED
        BY <1>5, <2>1, <3>1 DEF RegistryInv, XprtShape, IsClone
    <2>. QED
      BY <1>6, <2>1 DEF XprtShape, IsClone
  <1>19. SocketsHeld'
    <2>1. ASSUME NEW r \in Sock, sock_xports[r] # BAD
          PROVE  mtxp_parent'[sock_xports[r]] = NO_PARENT /\ r \in fds'
      <3>1. sock_xports[r] \in Xprt /\ sock_xports[r] # x
        BY <1>4, <2>1 DEF RegistryInv, TypeOK
      <3>. QED
        BY <1>2, <1>5, <2>1, <3>1 DEF RegistryInv, SocketsHeld, IsClone
    <2>. QED
      BY <1>2, <2>1 DEF SocketsHeld, IsClone
  <1>20. CreationPrivate'
    BY <1>2, <1>3, <1>6, <1>8 DEF CreationPrivate
  <1>21. MarksExact'
    <2>1. ASSUME NEW y \in retired
          PROVE  Registered(y)' /\ (IsClone(y)' \/ kind'[y] = "connection")
      <3>1. y \in Xprt /\ y # x /\ Registered(y) /\ (IsClone(y) \/ kind[y] = "connection")
        BY <1>4, <2>1 DEF RegistryInv, TypeOK, MarksExact
      <3>. QED
        BY <1>5, <1>7, <3>1 DEF IsClone
    <2>. QED
      BY <1>2, <2>1 DEF RegistryInv, MarksExact, UsedId
  <1>. QED
    BY <1>9, <1>10, <1>12, <1>13, <1>14, <1>15, <1>16, <1>17, <1>18, <1>19, <1>20, <1>21
       DEF RegistryInv

\* init_pollfd() gives a socket its one slot and leaves the others theirs.
LEMMA InitPollfdWatches ==
  ASSUME xports_pollfd \in Seq(Sock \cup {NoFd}), NEW s \in Sock, PollSlots(s) = {},
         xports_pollfd' = InitPollfd(s)
  PROVE  /\ xports_pollfd' \in Seq(Sock \cup {NoFd})
         /\ DOMAIN xports_pollfd \subseteq DOMAIN xports_pollfd'
         /\ \E j \in DOMAIN xports_pollfd' : PollSlots(s)' = {j}
         /\ \A r \in Sock : r # s => PollSlots(r)' = PollSlots(r)
  <1> DEFINE unused == {i \in DOMAIN xports_pollfd : xports_pollfd[i] = NoFd}
  <1>1. DOMAIN xports_pollfd = 1 .. Len(xports_pollfd) /\ Len(xports_pollfd) \in Nat
    OBVIOUS
  <1>2. CASE unused = {}
    <2>1. xports_pollfd' = Append(xports_pollfd, s)
      BY <1>2 DEF InitPollfd
    <2>2. /\ xports_pollfd' \in Seq(Sock \cup {NoFd})
          /\ Len(xports_pollfd') = Len(xports_pollfd) + 1
          /\ DOMAIN xports_pollfd' = 1 .. Len(xports_pollfd) + 1
          /\ \A i \in 1 .. Len(xports_pollfd) : xports_pollfd'[i] = xports_pollfd[i]
          /\ xports_pollfd'[Len(xports_pollfd) + 1] = s
      BY <2>1
    <2>3. PollSlots(s)' = {Len(xports_pollfd) + 1}
      BY <1>1, <2>2 DEF PollSlots
    <2>4. \A r \in Sock : r # s => PollSlots(r)' = PollSlots(r)
      BY <1>1, <2>2 DEF PollSlots
    <2>. QED
      BY <1>1, <2>2, <2>3, <2>4
  <1>3. CASE unused # {}
    <2>0. unused \subseteq Nat
      BY <1>1
    <2>1. PICK m \in unused : \A j \in unused : m <= j
      <3>. HIDE DEF unused
      <3>. QED
        BY <1>3, <2>0, NatHasLeast
    <2>2. PICK k \in unused : xports_pollfd' = [xports_pollfd EXCEPT ![k] = s]
      <3> DEFINE k == CHOOSE i \in unused : \A j \in unused : i <= j
      <3>1. k \in unused
        BY <2>1
      <3>. QED
        BY <1>3, <3>1 DEF InitPollfd
    <2>3. /\ xports_pollfd' \in Seq(Sock \cup {NoFd})
          /\ DOMAIN xports_pollfd' = DOMAIN xports_pollfd
          /\ \A i \in DOMAIN xports_pollfd :
               xports_pollfd'[i] = IF i = k THEN s ELSE xports_pollfd[i]
      BY <2>2
    <2>4. PollSlots(s)' = {k}
      BY <2>2, <2>3 DEF PollSlots
    <2>5. \A r \in Sock : r # s => PollSlots(r)' = PollSlots(r)
      BY <2>2, <2>3, SockAssumption DEF PollSlots
    <2>. QED
      BY <2>2, <2>3, <2>4, <2>5
  <1>. QED
    BY <1>2, <1>3

\* Registering under an id that xprt_id_alloc() returned adds that id to those
\* used, if it is not among them, and then it is not marked.
LEMMA UsedIdGrows ==
  ASSUME SmallIds', xports_maxid \in Id \cup {-1}, NEW id \in Id, id <= xports_maxid + 1,
         xports_maxid' = IF id > xports_maxid THEN id ELSE xports_maxid,
         xprtgc_idset \subseteq {Cell(i) : i \in UsedId}
  PROVE  /\ xports_maxid' \in Id \cup {-1}
         /\ UsedId' = UsedId \cup {id}
         /\ UsedId' \subseteq Id
         /\ UsedId' \subseteq 0 .. WordBytes
         /\ \A i \in UsedId' : BitvecGetBit(xprtgc_idset, i) => i \in UsedId
  <1>1. xports_maxid' \in Id \cup {-1} /\ UsedId' = UsedId \cup {id}
    BY NBitsAssumption DEF UsedId, Id
  <1>2. UsedId' \subseteq Id /\ UsedId' \subseteq 0 .. WordBytes
    BY <1>1, NBitsAssumption, WordBytesAssumption DEF UsedId, Id, SmallIds
  <1>3. UsedId \subseteq 0 .. WordBytes
    BY <1>1, <1>2
  <1>. QED
    BY <1>1, <1>2, <1>3, ClearBeyond

\* The new transport gets an id nobody has and the socket that is its own.
LEMMA RegisterKeeps ==
  ASSUME Scope, SmallIds', RegistryInv, died = "no", NEW t \in Threads, XprtRegister(t)
  PROVE  RegistryInv'
  <1> DEFINE x == arg[Main]
             s == xp_sock[x]
             id == XprtIdAlloc
  <1>1. t = Main
    BY DEF Scope, Threads
  <1>2. /\ pc[Main] = "register" /\ x \in live /\ x \in Xprt
        /\ mtxp_id[x] = XPRT_ID_INVALID /\ mtxp_refcnt[x] = 0
        /\ sock_xports[s] = BAD /\ s \in fds /\ s \in Sock /\ mtxp_parent[x] = NO_PARENT
    BY <1>1 DEF XprtRegister, RegistryInv, CreationPrivate, XprtShape, TypeOK, IsClone
  <1>3. /\ id \in Nat
        /\ id <= xports_maxid + 1
        /\ id < NBits => id \in Id /\ xports[id] = BAD
        /\ id >= NBits => \A i \in Id : xports[i] \in live
    BY AllocFresh DEF RegistryInv
  <1>. HIDE DEF id
  <1>4. CASE id >= NBits
    <2>1. SvcDie("out of ids")
      BY <1>1, <1>4 DEF XprtRegister, OutOfIds, id
    <2>. QED
      BY <1>3, <1>4, <2>1, DieKeeps
  <1>5. CASE ~(id >= NBits)
    <2>1. id \in Id /\ xports[id] = BAD
      BY <1>3, <1>5, NBitsAssumption
    <2>2. /\ xports_maxid' = IF id > xports_maxid THEN id ELSE xports_maxid
          /\ xports_idset' = BitvecSetBit(xports_idset, id)
          /\ xports' = [xports EXCEPT ![id] = x]
          /\ sock_xports' = [sock_xports EXCEPT ![s] = x]
          /\ xports_pollfd' = InitPollfd(s)
          /\ mtxp_id' = [mtxp_id EXCEPT ![x] = id]
          /\ pc' = [pc EXCEPT ![Main] = "idle"]
          /\ UNCHANGED <<xprtgc_idset, xprtgc_mark_count, live, kind, xp_sock, mtxp_parent,
                         mtxp_refcnt, mtxp_progress, fds, arg, gcid, died, retired>>
      BY <1>1, <1>2, <1>5 DEF XprtRegister, OutOfIds, SocketXprtIsAvailable, Enter, gcvars,
                                 id
    <2>3. pc'[Main] = "idle"
      BY <2>2 DEF RegistryInv, TypeOK, Threads
    <2>4. /\ \A i \in Id : xports'[i] = IF i = id THEN x ELSE xports[i]
          /\ \A r \in Sock : sock_xports'[r] = IF r = s THEN x ELSE sock_xports[r]
          /\ \A y \in Xprt : mtxp_id'[y] = IF y = x THEN id ELSE mtxp_id[y]
      BY <2>2 DEF RegistryInv, TypeOK
    <2>5. ~Registered(x) /\ x \notin retired /\ id # XPRT_ID_INVALID /\ id # NO_PARENT
      BY <1>2, <1>3 DEF RegistryInv, MarksExact, Registered, XPRT_ID_INVALID, NO_PARENT
    <2>6. \A y \in Xprt : Registered(y)' <=> (Registered(y) \/ y = x)
      BY <1>2, <2>2, <2>4, <2>5 DEF Registered
    <2>7. ASSUME NEW y \in Xprt, Registered(y)
          PROVE  y # x /\ mtxp_id[y] \in Id /\ mtxp_id[y] # id /\ xports[mtxp_id[y]] = y
      BY <2>1, <2>5, <2>7, XprtAssumption
         DEF RegistryInv, TypeOK, Registered, LiveXprtFound, XPRT_ID_INVALID
    <2>8. /\ xports_maxid' \in Id \cup {-1}
          /\ UsedId' = UsedId \cup {id}
          /\ UsedId' \subseteq Id
          /\ UsedId' \subseteq 0 .. WordBytes
          /\ \A i \in UsedId' : BitvecGetBit(xprtgc_idset, i) => i \in UsedId
      BY <1>3, <2>1, <2>2, UsedIdGrows DEF RegistryInv, TypeOK
    <2>9. /\ xports_pollfd' \in Seq(Sock \cup {NoFd})
          /\ DOMAIN xports_pollfd \subseteq DOMAIN xports_pollfd'
          /\ \E j \in DOMAIN xports_pollfd' : PollSlots(s)' = {j}
          /\ \A r \in Sock : r # s => PollSlots(r)' = PollSlots(r)
      <3>1. PollSlots(s) = {}
        BY <1>2 DEF RegistryInv, SocketsWatched
      <3>2. xports_pollfd \in Seq(Sock \cup {NoFd})
        BY DEF RegistryInv, TypeOK
      <3>. QED
        BY <1>2, <2>2, <3>1, <3>2, InitPollfdWatches
    <2>10. TypeOK'
      <3>1. /\ xports_idset' \subseteq {Cell(i) : i \in UsedId'}
            /\ xprtgc_idset' \subseteq {Cell(i) : i \in UsedId'}
        BY <2>2, <2>8 DEF RegistryInv, TypeOK, BitvecSetBit
      <3>2. /\ xports' \in [Id -> Xprt \cup {BAD}]
            /\ sock_xports' \in [Sock -> Xprt \cup {BAD}]
            /\ mtxp_id' \in [Xprt -> Id \cup {XPRT_ID_INVALID}]
        BY <1>2, <2>1, <2>2 DEF RegistryInv, TypeOK
      <3>3. pc' \in [Threads -> {"idle", "register", "scan"} \cup ReapSteps]
        BY <2>2 DEF RegistryInv, TypeOK
      <3>. QED
        BY <2>2, <2>8, <2>9, <3>1, <3>2, <3>3 DEF RegistryInv, TypeOK
    <2>11. LiveXprtFound'
      BY <2>1, <2>4, <2>6, <2>7 DEF LiveXprtFound
    <2>12. \A y \in Xprt : Registered(y) => Clones(y)' = Clones(y)
      <3>1. SUFFICES ASSUME NEW y \in Xprt, Registered(y), NEW c \in Xprt
                     PROVE  (Registered(c)' /\ mtxp_parent'[c] = mtxp_id'[y])
                              <=> (Registered(c) /\ mtxp_parent[c] = mtxp_id[y])
        BY DEF Clones
      <3>2. mtxp_id'[y] = mtxp_id[y] /\ mtxp_id[y] # NO_PARENT
        BY <2>4, <2>7, <3>1, NBitsAssumption DEF Id, NO_PARENT
      <3>. QED
        BY <1>2, <2>2, <2>6, <3>2
    <2>13. Clones(x)' = {}
      <3>1. SUFFICES ASSUME NEW c \in Xprt, Registered(c) \/ c = x, mtxp_parent[c] = id
                     PROVE  FALSE
        BY <1>2, <2>2, <2>4, <2>6 DEF Clones
      <3>2. c # x /\ Registered(c) /\ IsClone(c)
        BY <1>2, <2>5, <3>1 DEF IsClone
      <3>3. xports[mtxp_parent[c]] # BAD
        BY <3>2 DEF RegistryInv, ClonesCounted
      <3>. QED
        BY <2>1, <3>1, <3>3
    <2>14. ClonesCounted'
      <3>1. ASSUME NEW y \in Xprt, Registered(y), IsClone(y)
            PROVE  xports'[mtxp_parent[y]] = xports[mtxp_parent[y]]
        <4>1. mtxp_parent[y] \in Id /\ xports[mtxp_parent[y]] # BAD
          BY <3>1 DEF RegistryInv, TypeOK, ClonesCounted, IsClone
        <4>. QED
          BY <2>1, <2>4, <4>1
      <3>2. mtxp_refcnt[x] = Cardinality(Clones(x)')
        BY <1>2, <2>13, FS_EmptySet
      <3>3. SUFFICES ASSUME NEW y \in Xprt, Registered(y)
                     PROVE  IF IsClone(y)
                            THEN LET q == xports'[mtxp_parent[y]]
                                 IN  /\ q # BAD
                                     /\ kind[q] = "udp"
                                     /\ ~IsClone(q)
                                     /\ xp_sock[q] = xp_sock[y]
                            ELSE mtxp_refcnt[y] = Cardinality(Clones(y)')
        BY <1>2, <2>2, <2>6, <3>2 DEF ClonesCounted, IsClone
      <3>. QED
        BY <2>12, <3>1, <3>3 DEF RegistryInv, ClonesCounted
    <2>15. SocketsWatched'
      <3>1. ASSUME NEW y \in Xprt, Registered(y), ~IsClone(y)
            PROVE  sock_xports'[xp_sock[y]] = y
        <4>1. sock_xports[xp_sock[y]] = y /\ xp_sock[y] \in Sock
          BY <3>1 DEF RegistryInv, SocketsWatched, XprtShape, Registered
        <4>. QED
          BY <1>2, <2>4, <4>1, XprtAssumption
      <3>2. sock_xports'[xp_sock[x]] = x
        BY <1>2, <2>4
      <3>3. ASSUME NEW r \in Sock, r # s
            PROVE  IF sock_xports[r] = BAD
                   THEN PollSlots(r)' = {}
                   ELSE /\ Registered(sock_xports[r])'
                        /\ xp_sock[sock_xports[r]] = r
                        /\ \E i \in DOMAIN xports_pollfd' : PollSlots(r)' = {i}
        <4>1. PollSlots(r)' = PollSlots(r)
          BY <2>9, <3>3
        <4>2. CASE sock_xports[r] = BAD
          BY <4>1, <4>2 DEF RegistryInv, SocketsWatched
        <4>3. CASE sock_xports[r] # BAD
          <5>1. /\ Registered(sock_xports[r]) /\ sock_xports[r] \in Xprt
                /\ xp_sock[sock_xports[r]] = r
                /\ \E i \in DOMAIN xports_pollfd : PollSlots(r) = {i}
            BY <4>3 DEF RegistryInv, TypeOK, SocketsWatched
          <5>2. Registered(sock_xports[r])'
            BY <2>2, <2>4, <2>5, <3>3, <5>1 DEF Registered
          <5>. QED
            BY <2>9, <4>1, <4>3, <5>1, <5>2
        <4>. QED
          BY <4>2, <4>3
      <3>4. ASSUME NEW r \in Sock
            PROVE  IF sock_xports'[r] = BAD
                   THEN PollSlots(r)' = {}
                   ELSE /\ Registered(sock_xports[r])'
                        /\ xp_sock[sock_xports'[r]] = r
                        /\ \E i \in DOMAIN xports_pollfd' : PollSlots(r)' = {i}
        <4>1. CASE r = s
          <5>1. sock_xports'[r] = x /\ x # BAD
            BY <1>2, <2>4, <4>1, XprtAssumption
          <5>2. Registered(sock_xports[r])'
            BY <1>2, <2>2, <2>4, <2>5, <5>1 DEF Registered
          <5>. QED
            BY <2>2, <2>9, <4>1, <5>1, <5>2
        <4>2. CASE r # s
          <5>1. sock_xports'[r] = sock_xports[r]
            BY <2>4, <4>2
          <5>. QED
            BY <3>3, <4>2, <5>1
        <4>. QED
          BY <4>1, <4>2
      <3>. QED
        BY <2>2, <2>6, <3>1, <3>2, <3>4 DEF SocketsWatched, IsClone
    <2>16. MarksCounted'
      <3>2. {i \in UsedId' : BitvecGetBit(xprtgc_idset, i)}
              = {i \in UsedId : BitvecGetBit(xprtgc_idset, i)}
        BY <2>8
      <3>1. \A y \in retired : mtxp_id'[y] = mtxp_id[y]
        BY <2>4, <2>5 DEF RegistryInv, TypeOK
      <3>. QED
        BY <2>2, <2>8, <3>1, <3>2 DEF RegistryInv, MarksCounted
    <2>17. CollectsOnlyRetired' /\ CollectorAt' /\ CreationPrivate'
      BY <2>3 DEF CollectsOnlyRetired, CollectorAt, CreationPrivate
    <2>18. DiesOnlyWhenFull'
      BY <2>2 DEF DiesOnlyWhenFull
    <2>19. IdsExact'
      <3>1. SUFFICES ASSUME NEW i \in Id
                     PROVE  /\ i \in UsedId' =>
                                 (BitvecGetBit(xports_idset', i) <=> xports'[i] # BAD)
                            /\ xports'[i] # BAD => /\ i \in UsedId'
                                                   /\ xports'[i] \in live
                                                   /\ mtxp_id'[xports'[i]] = i
        BY <2>2 DEF IdsExact
      <3>2. i \in UsedId' =>
              (BitvecGetBit(xports_idset', i) <=> (i = id \/ BitvecGetBit(xports_idset, i)))
        BY <2>2, <2>8, GetAfterSet
      <3>3. CASE i = id
        BY <2>1, <1>2, <2>4, <2>8, <3>2, <3>3, XprtAssumption
      <3>4. CASE i # id
        <4>1. xports'[i] = xports[i] /\ (i \in UsedId' <=> i \in UsedId)
          BY <2>4, <2>8, <3>4
        <4>2. xports[i] # BAD => xports[i] \in live /\ mtxp_id[xports[i]] = i /\ i \in UsedId
          BY DEF RegistryInv, IdsExact
        <4>3. xports[i] # BAD => xports[i] \in Xprt /\ xports[i] # x
          BY <1>2, <4>2, NBitsAssumption DEF RegistryInv, TypeOK, Id, XPRT_ID_INVALID
        <4>4. i \in UsedId => (BitvecGetBit(xports_idset, i) <=> xports[i] # BAD)
          BY DEF RegistryInv, IdsExact
        <4>. QED
          BY <2>4, <3>2, <3>4, <4>1, <4>2, <4>3, <4>4
      <3>. QED
        BY <3>3, <3>4
    <2>20. XprtShape'
      <3>1. ASSUME NEW y \in live, mtxp_id'[y] = XPRT_ID_INVALID
            PROVE  mtxp_id[y] = XPRT_ID_INVALID
        BY <2>4, <2>5, <3>1 DEF RegistryInv, TypeOK
      <3>. QED
        BY <2>2, <3>1 DEF RegistryInv, XprtShape, IsClone
    <2>21. SocketsHeld'
      BY <1>2, <2>2, <2>4 DEF RegistryInv, SocketsHeld, IsClone
    <2>22. MarksExact'
      <3>1. ASSUME NEW y \in retired
            PROVE  Registered(y)' /\ (IsClone(y)' \/ kind'[y] = "connection")
        BY <2>2, <2>6, <3>1 DEF RegistryInv, TypeOK, MarksExact, IsClone
      <3>2. ASSUME NEW i \in UsedId', BitvecGetBit(xprtgc_idset, i)
            PROVE  xports'[i] \in retired
        <4>1. xports[i] \in retired /\ i \in Id
          BY <1>2, <2>8, <3>2 DEF RegistryInv, MarksExact
        <4>. QED
          BY <2>1, <2>4, <4>1, XprtAssumption DEF RegistryInv, TypeOK
      <3>. QED
        BY <2>2, <3>1, <3>2 DEF MarksExact
    <2>. QED
      BY <2>10, <2>11, <2>14, <2>15, <2>16, <2>17, <2>18, <2>19, <2>20, <2>21, <2>22
         DEF RegistryInv
  <1>. QED
    BY <1>4, <1>5

\* The clone gets an id nobody has, and its parent, found under the id of the
\* parent, counts one clone more.
LEMMA CloneKeeps ==
  ASSUME SmallIds', RegistryInv, died = "no", NEW p \in Xprt, NEW x \in Xprt,
         SvcudpXprtClone(p, x)
  PROVE  RegistryInv'
  <1> DEFINE id == XprtIdAlloc
  <1>1. pc[Main] = "idle" /\ Registered(p) /\ kind[p] = "udp" /\ ~IsClone(p)
    BY DEF SvcudpXprtClone
  <1>2. mtxp_id[p] \in Id /\ xports[mtxp_id[p]] = p
    BY <1>1 DEF RegistryInv, TypeOK, Registered, LiveXprtFound, XPRT_ID_INVALID
  <1>3. /\ id \in Nat
        /\ id <= xports_maxid + 1
        /\ id < NBits => id \in Id /\ xports[id] = BAD
        /\ id >= NBits => \A i \in Id : xports[i] \in live
    BY AllocFresh DEF RegistryInv
  <1>. HIDE DEF id
  <1>4. CASE id >= NBits
    <2>1. SvcDie("out of ids")
      BY <1>4 DEF SvcudpXprtClone, OutOfIds, id
    <2>. QED
      BY <1>3, <1>4, <2>1, DieKeeps
  <1>5. CASE ~(id >= NBits)
    <2>1. id \in Id /\ xports[id] = BAD
      BY <1>3, <1>5, NBitsAssumption
    <2>2. [xports EXCEPT ![id] = x][mtxp_id[p]] = p /\ p # BAD
      BY <1>2, <2>1, XprtAssumption DEF RegistryInv, TypeOK
    <2>3. /\ xports_maxid' = IF id > xports_maxid THEN id ELSE xports_maxid
          /\ xports_idset' = BitvecSetBit(xports_idset, id)
          /\ x \notin live
          /\ p # x
          /\ xports' = [xports EXCEPT ![id] = x]
          /\ live' = live \cup {x}
          /\ kind' = [kind EXCEPT ![x] = kind[p]]
          /\ xp_sock' = [xp_sock EXCEPT ![x] = xp_sock[p]]
          /\ mtxp_id' = [mtxp_id EXCEPT ![x] = id]
          /\ mtxp_parent' = [mtxp_parent EXCEPT ![x] = mtxp_id[p]]
          /\ mtxp_refcnt' = [mtxp_refcnt EXCEPT ![x] = 0, ![p] = @ + 1]
          /\ mtxp_progress' = [mtxp_progress EXCEPT ![x] = {}]
          /\ UNCHANGED <<sock_xports, xports_pollfd, xprtgc_idset, xprtgc_mark_count, fds,
                         pc, arg, gcid, died, retired>>
      BY <1>1, <1>5, <2>2 DEF SvcudpXprtClone, OutOfIds, Enter, gcvars, threads, id,
                                 Registered
    <2>4. /\ \A i \in Id : xports[i] # x
          /\ \A r \in Sock : sock_xports[r] # x
          /\ x \notin retired
      BY <2>3, OnlyLiveIsReached
    <2>5. \A i \in Id : xports'[i] = IF i = id THEN x ELSE xports[i]
      BY <2>3 DEF RegistryInv, TypeOK
    <2>6. \A y \in Xprt : y # x => /\ kind'[y] = kind[y]
                                   /\ xp_sock'[y] = xp_sock[y]
                                   /\ mtxp_id'[y] = mtxp_id[y]
                                   /\ mtxp_parent'[y] = mtxp_parent[y]
                                   /\ y # p => mtxp_refcnt'[y] = mtxp_refcnt[y]
      BY <2>3 DEF RegistryInv, TypeOK
    <2>7. /\ kind'[x] = "udp" /\ xp_sock'[x] = xp_sock[p] /\ mtxp_id'[x] = id
          /\ mtxp_parent'[x] = mtxp_id[p] /\ mtxp_refcnt'[p] = mtxp_refcnt[p] + 1
      BY <1>1, <2>3 DEF RegistryInv, TypeOK
    <2>8. id # XPRT_ID_INVALID /\ mtxp_id[p] # NO_PARENT
      BY <1>2, <1>3, NBitsAssumption DEF XPRT_ID_INVALID, NO_PARENT, Id
    <2>9. \A y \in Xprt : Registered(y)' <=> (Registered(y) \/ y = x)
      BY <2>3, <2>6, <2>7, <2>8 DEF Registered
    <2>10. ASSUME NEW y \in Xprt, Registered(y)
           PROVE  y # x /\ mtxp_id[y] \in Id /\ mtxp_id[y] # id /\ xports[mtxp_id[y]] = y
      BY <2>1, <2>3, <2>10, XprtAssumption
         DEF RegistryInv, TypeOK, Registered, LiveXprtFound, XPRT_ID_INVALID
    <2>11. /\ xports_maxid' \in Id \cup {-1}
          /\ UsedId' = UsedId \cup {id}
          /\ UsedId' \subseteq Id
          /\ UsedId' \subseteq 0 .. WordBytes
          /\ \A i \in UsedId' : BitvecGetBit(xprtgc_idset, i) => i \in UsedId
      BY <1>3, <2>1, <2>3, UsedIdGrows DEF RegistryInv, TypeOK
    <2>12. TypeOK'
      <3>1. /\ xports_idset' \subseteq {Cell(i) : i \in UsedId'}
            /\ xprtgc_idset' \subseteq {Cell(i) : i \in UsedId'}
        BY <2>3, <2>11 DEF RegistryInv, TypeOK, BitvecSetBit
      <3>2. /\ xports' \in [Id -> Xprt \cup {BAD}]
            /\ live' \subseteq Xprt
            /\ kind' \in [Xprt -> Kinds]
            /\ xp_sock' \in [Xprt -> Sock \cup {NoFd}]
            /\ mtxp_id' \in [Xprt -> Id \cup {XPRT_ID_INVALID}]
            /\ mtxp_parent' \in [Xprt -> Id \cup {NO_PARENT}]
            /\ mtxp_progress' \in [Xprt -> SUBSET ProgressBits]
        BY <1>2, <2>1, <2>3 DEF RegistryInv, TypeOK
      <3>3. mtxp_refcnt' \in [Xprt -> Nat]
        <4>1. \A y \in Xprt : mtxp_refcnt[y] \in Nat
          BY DEF RegistryInv, TypeOK
        <4>2. mtxp_refcnt' = [y \in Xprt |-> mtxp_refcnt'[y]]
          BY <2>3 DEF RegistryInv, TypeOK
        <4>3. mtxp_refcnt'[x] = 0
          BY <1>1, <2>3 DEF RegistryInv, TypeOK
        <4>4. \A y \in Xprt : mtxp_refcnt'[y] \in Nat
          BY <2>6, <2>7, <4>1, <4>3
        <4>. QED
          BY <4>2, <4>4
      <3>. QED
        BY <2>3, <2>11, <3>1, <3>2, <3>3 DEF RegistryInv, TypeOK
    <2>13. LiveXprtFound'
      BY <2>1, <2>5, <2>6, <2>7, <2>9, <2>10 DEF LiveXprtFound
    <2>14. ASSUME NEW y \in Xprt, Registered(y)
           PROVE  Clones(y)' = IF y = p THEN Clones(p) \cup {x} ELSE Clones(y)
      <3>1. mtxp_id'[y] = mtxp_id[y] /\ (y # p => mtxp_id[y] # mtxp_id[p])
        BY <1>2, <2>6, <2>10, <2>14
      <3>2. ASSUME NEW c \in Xprt, c # x
            PROVE  c \in Clones(y)' <=> c \in Clones(y)
        BY <2>6, <2>9, <3>1, <3>2 DEF Clones
      <3>3. x \in Clones(y)' <=> y = p
        BY <2>7, <2>9, <3>1 DEF Clones
      <3>4. x \notin Clones(y)
        BY <2>3 DEF Clones, Registered
      <3>5. Clones(y) \subseteq Xprt /\ Clones(y)' \subseteq Xprt
        BY DEF Clones
      <3>. QED
        BY <3>2, <3>3, <3>4, <3>5
    <2>15. ClonesCounted'
      <3>1. ASSUME NEW y \in Xprt, Registered(y), IsClone(y)
            PROVE  LET q == xports'[mtxp_parent'[y]]
                   IN  /\ q # BAD
                       /\ kind'[q] = "udp"
                       /\ mtxp_parent'[q] = NO_PARENT
                       /\ xp_sock'[q] = xp_sock'[y]
        <4> DEFINE q == xports[mtxp_parent[y]]
        <4>1. mtxp_parent[y] \in Id /\ q # BAD /\ kind[q] = "udp" /\ ~IsClone(q)
              /\ xp_sock[q] = xp_sock[y]
          BY <3>1 DEF RegistryInv, TypeOK, ClonesCounted, IsClone
        <4>2. q \in Xprt /\ q # x
          BY <2>4, <4>1 DEF RegistryInv, TypeOK
        <4>3. xports'[mtxp_parent'[y]] = q
          BY <2>1, <2>5, <2>6, <2>10, <3>1, <4>1
        <4>4. mtxp_parent'[q] = mtxp_parent[q] /\ kind'[q] = "udp" /\ xp_sock'[q] = xp_sock'[y]
          BY <2>6, <2>10, <3>1, <4>1, <4>2
        <4>. QED
          BY <4>1, <4>3, <4>4 DEF IsClone
      <3>2. ASSUME NEW y \in Xprt, Registered(y), ~IsClone(y)
            PROVE  mtxp_refcnt'[y] = Cardinality(Clones(y)')
        <4>1. mtxp_refcnt[y] = Cardinality(Clones(y))
          BY <3>2 DEF RegistryInv, ClonesCounted
        <4>2. CASE y = p
          <5>1. Clones(y)' = Clones(y) \cup {x}
            BY <2>14, <3>2, <4>2
          <5>2. x \notin Clones(y)
            BY <2>3 DEF Clones, Registered
          <5>3. Cardinality(Clones(y) \cup {x}) = Cardinality(Clones(y)) + 1
            BY <5>2, ClonesFinite, FS_AddElement
          <5>. QED
            BY <2>7, <4>1, <4>2, <5>1, <5>3
        <4>3. CASE y # p
          <5>1. Clones(y)' = Clones(y)
            BY <2>14, <3>2, <4>3
          <5>2. mtxp_refcnt'[y] = mtxp_refcnt[y]
            BY <2>6, <2>10, <3>2, <4>3
          <5>. QED
            BY <4>1, <5>1, <5>2
        <4>. QED
          BY <4>2, <4>3
      <3>3. LET q == xports'[mtxp_parent'[x]]
            IN  /\ q # BAD
                /\ kind'[q] = "udp"
                /\ mtxp_parent'[q] = NO_PARENT
                /\ xp_sock'[q] = xp_sock'[x]
        <4>1. xports'[mtxp_parent'[x]] = p
          BY <1>1, <1>2, <2>5, <2>7, <2>10
        <4>. QED
          BY <1>1, <2>2, <2>3, <2>6, <2>7, <4>1 DEF IsClone
      <3>4. IsClone(x)'
        BY <2>7, <2>8 DEF IsClone
      <3>5. \A y \in Xprt : Registered(y) => (IsClone(y)' <=> IsClone(y))
        BY <2>6, <2>10 DEF IsClone
      <3>6. SUFFICES ASSUME NEW y \in Xprt, Registered(y)'
                     PROVE  IF IsClone(y)'
                            THEN LET q == xports'[mtxp_parent'[y]]
                                 IN  /\ q # BAD
                                     /\ kind'[q] = "udp"
                                     /\ mtxp_parent'[q] = NO_PARENT
                                     /\ xp_sock'[q] = xp_sock'[y]
                            ELSE mtxp_refcnt'[y] = Cardinality(Clones(y)')
        BY DEF ClonesCounted, IsClone
      <3>7. CASE y = x
        BY <3>3, <3>4, <3>7
      <3>8. CASE y # x
        BY <2>9, <3>1, <3>2, <3>5, <3>6, <3>8
      <3>. QED
        BY <3>7, <3>8
    <2>16. SocketsWatched'
      <3>1. \A y \in Xprt : Registered(y)' /\ ~IsClone(y)' => sock_xports[xp_sock'[y]] = y
        <4>1. IsClone(x)'
          BY <2>7, <2>8 DEF IsClone
        <4>. QED
          BY <2>6, <2>9, <4>1 DEF RegistryInv, SocketsWatched, IsClone
      <3>2. ASSUME NEW r \in Sock, sock_xports[r] # BAD
            PROVE  Registered(sock_xports[r])' /\ xp_sock'[sock_xports[r]] = r
        <4>1. sock_xports[r] \in Xprt /\ Registered(sock_xports[r]) /\ xp_sock[sock_xports[r]] = r
          BY <3>2 DEF RegistryInv, TypeOK, SocketsWatched
        <4>2. sock_xports[r] # x
          BY <2>4
        <4>. QED
          BY <2>3, <2>6, <4>1, <4>2 DEF Registered
      <3>. QED
        BY <2>3, <3>1, <3>2 DEF RegistryInv, SocketsWatched, PollSlots
    <2>17. MarksCounted'
      <3>2. {i \in UsedId' : BitvecGetBit(xprtgc_idset, i)}
              = {i \in UsedId : BitvecGetBit(xprtgc_idset, i)}
        BY <2>11
      <3>1. \A y \in retired : mtxp_id'[y] = mtxp_id[y]
        BY <2>4, <2>6 DEF RegistryInv, TypeOK
      <3>. QED
        BY <2>3, <2>11, <3>1, <3>2 DEF RegistryInv, MarksCounted
    <2>18. CollectsOnlyRetired' /\ CollectorAt' /\ CreationPrivate'
      BY <1>1, <2>3 DEF CollectsOnlyRetired, CollectorAt, CreationPrivate
    <2>19. DiesOnlyWhenFull'
      BY <2>3 DEF DiesOnlyWhenFull
    <2>20. IdsExact'
      <3>1. SUFFICES ASSUME NEW i \in Id
                     PROVE  /\ i \in UsedId' =>
                                 (BitvecGetBit(xports_idset', i) <=> xports'[i] # BAD)
                            /\ xports'[i] # BAD => /\ i \in UsedId'
                                                   /\ xports'[i] \in live'
                                                   /\ mtxp_id'[xports'[i]] = i
        BY DEF IdsExact
      <3>2. i \in UsedId' =>
              (BitvecGetBit(xports_idset', i) <=> (i = id \/ BitvecGetBit(xports_idset, i)))
        BY <2>3, <2>11, GetAfterSet
      <3>3. CASE i = id
        BY <2>1, <2>3, <2>5, <2>7, <2>11, <3>2, <3>3, XprtAssumption
      <3>4. CASE i # id
        <4>1. xports'[i] = xports[i] /\ (i \in UsedId' <=> i \in UsedId)
          BY <2>5, <2>11, <3>4
        <4>2. xports[i] # BAD => xports[i] \in live /\ mtxp_id[xports[i]] = i /\ i \in UsedId
          BY DEF RegistryInv, IdsExact
        <4>3. xports[i] # BAD => xports[i] \in Xprt /\ xports[i] # x
          BY <2>4 DEF RegistryInv, TypeOK
        <4>4. i \in UsedId => (BitvecGetBit(xports_idset, i) <=> xports[i] # BAD)
          BY DEF RegistryInv, IdsExact
        <4>. QED
          BY <2>3, <2>6, <3>2, <3>4, <4>1, <4>2, <4>3, <4>4
      <3>. QED
        BY <3>3, <3>4
    <2>21. XprtShape'
      <3>1. xp_sock[p] \in Sock
        BY <1>1 DEF RegistryInv, XprtShape, Registered
      <3>2. ASSUME NEW y \in live', y # x
            PROVE  xp_sock'[y] \in Sock /\ (mtxp_id'[y] = XPRT_ID_INVALID => ~IsClone(y)')
        <4>1. y \in live /\ y \in Xprt
          BY <2>3, <3>2 DEF RegistryInv, TypeOK
        <4>. QED
          BY <2>6, <3>2, <4>1 DEF RegistryInv, XprtShape, IsClone
      <3>. QED
        BY <2>7, <2>8, <3>1, <3>2 DEF XprtShape, IsClone
    <2>22. SocketsHeld'
      <3>1. ASSUME NEW r \in Sock, sock_xports[r] # BAD
            PROVE  mtxp_parent'[sock_xports[r]] = mtxp_parent[sock_xports[r]]
        BY <2>4, <2>6, <3>1 DEF RegistryInv, TypeOK
      <3>. QED
        BY <2>3, <3>1 DEF RegistryInv, SocketsHeld, IsClone
    <2>23. MarksExact'
      <3>1. ASSUME NEW y \in retired
            PROVE  Registered(y)' /\ (IsClone(y)' \/ kind'[y] = "connection")
        <4>1. y \in Xprt /\ y # x /\ Registered(y) /\ (IsClone(y) \/ kind[y] = "connection")
          BY <2>4, <3>1 DEF RegistryInv, TypeOK, MarksExact
        <4>. QED
          BY <2>6, <2>9, <4>1 DEF IsClone
      <3>2. ASSUME NEW i \in UsedId', BitvecGetBit(xprtgc_idset, i)
            PROVE  xports'[i] \in retired
        <4>1. xports[i] \in retired /\ i \in Id
          BY <1>1, <2>11, <3>2 DEF RegistryInv, MarksExact
        <4>. QED
          BY <2>1, <2>5, <4>1, XprtAssumption DEF RegistryInv, TypeOK
      <3>. QED
        BY <2>3, <3>1, <3>2 DEF MarksExact
    <2>. QED
      BY <2>12, <2>13, <2>15, <2>16, <2>17, <2>18, <2>19, <2>20, <2>21, <2>22, <2>23
         DEF RegistryInv
  <1>. QED
    BY <1>4, <1>5

-----------------------------------------------------------------------------
(* The theorems.                                                           *)

\* svc_run() starts with an empty registry.
LEMMA InitEstablishes ==
  ASSUME Init
  PROVE  RegistryInv
  <1>1. TypeOK
    <2>1. xprtgc_mark_count \in Nat /\ gcid \in 0 .. NBits /\ xports_maxid \in Id \cup {-1}
      BY NBitsAssumption DEF Init
    <2>2. xports_pollfd \in Seq(Sock \cup {NoFd})
      BY DEF Init
    <2>3. xports_idset \subseteq {Cell(i) : i \in UsedId} /\ xprtgc_idset \subseteq {Cell(i) : i \in UsedId}
      BY DEF Init, EmptyVec
    <2>. QED
      BY <2>1, <2>2, <2>3 DEF Init, TypeOK, Kinds, Fates
  <1>2. LiveXprtFound /\ ClonesCounted /\ IdsExact /\ XprtShape
    BY DEF Init, LiveXprtFound, ClonesCounted, Registered, IdsExact, XprtShape, BitvecGetBit,
           EmptyVec
  <1>3. SocketsWatched
    BY DEF Init, SocketsWatched, Registered, PollSlots
  <1>4. MarksCounted
    <2>1. {i \in UsedId : BitvecGetBit(xprtgc_idset, i)} = {}
      BY DEF Init, EmptyVec, BitvecGetBit
    <2>. QED
      BY <2>1, FS_EmptySet DEF Init, MarksCounted
  <1>5. pc[Main] = "idle"
    BY DEF Init, Threads
  <1>6. CollectsOnlyRetired /\ CreationPrivate /\ CollectorAt
    BY <1>5 DEF CollectsOnlyRetired, CreationPrivate, CollectorAt
  <1>7. SocketsHeld /\ MarksExact /\ DiesOnlyWhenFull
    BY DEF Init, SocketsHeld, MarksExact, DiesOnlyWhenFull, BitvecGetBit, EmptyVec
  <1>. QED
    BY <1>1, <1>2, <1>3, <1>4, <1>6, <1>7 DEF RegistryInv

LEMMA NextKeeps ==
  ASSUME Scope, SmallIds, SmallIds', RegistryInv, [Next]_vars
  PROVE  RegistryInv'
  <1>1. CASE UNCHANGED vars
    <2>1. UNCHANGED <<xports, sock_xports, xports_idset, xports_maxid, xports_pollfd,
                      xprtgc_idset, xprtgc_mark_count, live, kind, xp_sock, mtxp_id,
                      mtxp_parent, mtxp_refcnt, mtxp_progress, fds, pc, arg, gcid, died, retired>>
      BY <1>1 DEF vars, registry, gcvars, memory, threads
    <2>2. TypeOK'
      BY <2>1 DEF RegistryInv, TypeOK, UsedId
    <2>. QED
      BY <2>1, <2>2, FrameLive, FrameClones, FrameSockets, FrameMarks, FrameOnlyRetired,
         FrameDies, FrameIds, FrameShape, FrameHeld, FrameCreation, FrameMarksExact,
         FrameCollector DEF RegistryInv
  <1>2. ASSUME died = "no", Step
        PROVE  RegistryInv'
    <2>1. ASSUME NEW t \in Threads, NEW x \in Xprt, NEW s \in Sock, Create(t, x, s)
          PROVE  RegistryInv'
      <3>1. PICK k \in Kinds : Construct(t, x, s, k)
        BY <2>1 DEF Create, SvcudpBufcreate, SvctcpCreate, MakefdXprt, Kinds
      <3>. QED
        BY <1>2, <3>1, ConstructKeeps
    <2>2. ASSUME NEW t \in Threads, XprtRegister(t)
          PROVE  RegistryInv'
      BY <1>2, <2>2, RegisterKeeps
    <2>3. ASSUME NEW p \in Xprt, NEW x \in Xprt, SvcudpXprtClone(p, x)
          PROVE  RegistryInv'
      BY <1>2, <2>3, CloneKeeps
    <2>4. ASSUME NEW x \in Xprt, NEW bits \in SUBSET ProgressBits, XprtProgress(x, bits)
          PROVE  RegistryInv'
      BY <2>4, ProgressKeeps
    <2>5. ASSUME NEW x \in Xprt, XprtGcMark(x)
          PROVE  RegistryInv'
      BY <1>2, <2>5, MarkKeeps
    <2>6. ASSUME Collect
          PROVE  RegistryInv'
      BY <1>2, <2>6, ReapAllKeeps, ReapAllReturnKeeps, ReapAllSkipKeeps, ReapOneKeeps,
         CloseKeeps, UnregisterKeeps, FinishKeeps DEF Collect
    <2>. QED
      BY <1>2, <2>1, <2>2, <2>3, <2>4, <2>5, <2>6 DEF Step
  <1>. QED
    BY <1>1, <1>2 DEF Next

\* A registration raises xports_maxid or leaves it alone.
LEMMA EnterGrows ==
  ASSUME xports_maxid \in Id \cup {-1}, NEW x, NEW id, id = XprtIdAlloc, ~OutOfIds(id),
         Enter(x, id)
  PROVE  xports_maxid' \in Id \cup {-1} /\ xports_maxid <= xports_maxid'
  <1>1. id \in 0 .. xports_maxid + 1 /\ ~(id >= NBits)
    BY AllocLowest DEF OutOfIds
  <1>2. xports_maxid' = IF id > xports_maxid THEN id ELSE xports_maxid
    BY DEF Enter
  <1>. QED
    BY <1>1, <1>2, NBitsAssumption DEF Id

\* So xports_maxid never falls.
LEMMA MaxidGrows ==
  ASSUME xports_maxid \in Id \cup {-1}, [Next]_vars
  PROVE  xports_maxid' \in Id \cup {-1} /\ xports_maxid <= xports_maxid'
  <1>1. ASSUME NEW x, NEW id, id = XprtIdAlloc, ~OutOfIds(id), Enter(x, id)
        PROVE  xports_maxid' \in Id \cup {-1} /\ xports_maxid <= xports_maxid'
    BY <1>1, EnterGrows
  <1>2. CASE UNCHANGED xports_maxid
    BY <1>2, NBitsAssumption DEF Id
  <1>3. CASE UNCHANGED vars
    BY <1>2, <1>3 DEF vars, registry
  <1>4. ASSUME NEW t, XprtRegister(t)
        PROVE  xports_maxid' \in Id \cup {-1} /\ xports_maxid <= xports_maxid'
    BY <1>1, <1>2, <1>4 DEF XprtRegister, SvcDie, registry
  <1>5. ASSUME NEW p, NEW x, SvcudpXprtClone(p, x)
        PROVE  xports_maxid' \in Id \cup {-1} /\ xports_maxid <= xports_maxid'
    BY <1>1, <1>2, <1>5 DEF SvcudpXprtClone, SvcDie, registry
  <1>6. ASSUME NEW t, NEW x, NEW s, Create(t, x, s)
        PROVE  UNCHANGED xports_maxid
    BY <1>6 DEF Create, SvcudpBufcreate, SvctcpCreate, MakefdXprt, Construct, registry
  <1>7. ASSUME NEW x, NEW bits, XprtProgress(x, bits) \/ XprtGcMark(x)
        PROVE  UNCHANGED xports_maxid
    BY <1>7 DEF XprtProgress, XprtGcMark, registry
  <1>8. ASSUME Collect
        PROVE  UNCHANGED xports_maxid
    BY <1>8 DEF Collect, XprtGcReapAll, ReapAllReturn, ReapAllSkip, XprtGcReapOne, DestroyClose,
                DestroyUnregister, UnregisterId, ReapFinish, SvcDie, registry
  <1>. QED
    BY <1>2, <1>3, <1>4, <1>5, <1>6, <1>7, <1>8 DEF Next, Step

(***************************************************************************)
(* The registry keeps its invariant for any size of its tables and any     *)
(* number of addresses and sockets, whatever the order of creation,        *)
(* cloning, marking and reaping, as long as the ids are small.             *)
(***************************************************************************)
THEOREM RegistryCorrect ==
  ASSUME Scope
  PROVE  Spec => [](SmallIds => RegistryInv)
  <1> DEFINE Inv == xports_maxid \in Id \cup {-1} /\ (SmallIds => RegistryInv)
  <1>1. Init => Inv
    BY InitEstablishes DEF Init
  <1>2. Inv /\ [Next]_vars => Inv'
    <2>1. SUFFICES ASSUME Inv, [Next]_vars
                   PROVE  Inv'
      OBVIOUS
    <2>2. xports_maxid' \in Id \cup {-1} /\ xports_maxid <= xports_maxid'
      BY <2>1, MaxidGrows
    <2>3. SmallIds' => SmallIds
      BY <2>1, <2>2, NBitsAssumption, WordBytesAssumption DEF SmallIds, Id
    <2>. QED
      BY <2>1, <2>2, <2>3, NextKeeps
  <1>3. Inv => (SmallIds => RegistryInv)
    OBVIOUS
  <1>. QED
    BY <1>1, <1>2, <1>3, PTL DEF Spec

(***************************************************************************)
(* The variables keep their types; in particular the vectors hold only the *)
(* cells of ids that were used, and the collector's id stays in the table. *)
(***************************************************************************)
THEOREM TypesCorrect ==
  ASSUME Scope
  PROVE  Spec => [](SmallIds => TypeOK)
  <1>1. RegistryInv => TypeOK
    BY DEF RegistryInv
  <1>. QED
    BY <1>1, RegistryCorrect, PTL

(***************************************************************************)
(* A registered transport is found under its id until it is destroyed.     *)
(***************************************************************************)
THEOREM LiveXprtIsFound ==
  ASSUME Scope
  PROVE  Spec => [](SmallIds => LiveXprtFound)
  <1>1. RegistryInv => LiveXprtFound
    BY DEF RegistryInv
  <1>. QED
    BY <1>1, RegistryCorrect, PTL

(***************************************************************************)
(* Reference counts are the numbers of clones, and a clone never outlives  *)
(* its parent.                                                             *)
(***************************************************************************)
THEOREM ClonesAreCounted ==
  ASSUME Scope
  PROVE  Spec => [](SmallIds => ClonesCounted)
  <1>1. RegistryInv => ClonesCounted
    BY DEF RegistryInv
  <1>. QED
    BY <1>1, RegistryCorrect, PTL

(***************************************************************************)
(* The socket of a transport is watched in exactly one poll slot as long   *)
(* as the transport is registered, and no longer.                          *)
(***************************************************************************)
THEOREM SocketsAreWatched ==
  ASSUME Scope
  PROVE  Spec => [](SmallIds => SocketsWatched)
  <1>1. RegistryInv => SocketsWatched
    BY DEF RegistryInv
  <1>. QED
    BY <1>1, RegistryCorrect, PTL

(***************************************************************************)
(* No mark is lost and the count of marks is exact.                        *)
(***************************************************************************)
THEOREM MarksAreCounted ==
  ASSUME Scope
  PROVE  Spec => [](SmallIds => MarksCounted)
  <1>1. RegistryInv => MarksCounted
    BY DEF RegistryInv
  <1>. QED
    BY <1>1, RegistryCorrect, PTL

(***************************************************************************)
(* The collector destroys only transports it was asked to destroy.         *)
(***************************************************************************)
THEOREM OnlyRetiredIsCollected ==
  ASSUME Scope
  PROVE  Spec => [](SmallIds => CollectsOnlyRetired)
  <1>1. RegistryInv => CollectsOnlyRetired
    BY DEF RegistryInv
  <1>. QED
    BY <1>1, RegistryCorrect, PTL

(***************************************************************************)
(* The only way to stop is to run out of ids with every id in use by a     *)
(* live transport.                                                         *)
(***************************************************************************)
THEOREM StopsOnlyWhenFull ==
  ASSUME Scope
  PROVE  Spec => [](SmallIds => DiesOnlyWhenFull)
  <1>1. RegistryInv => DiesOnlyWhenFull
    BY DEF RegistryInv
  <1>. QED
    BY <1>1, RegistryCorrect, PTL

-----------------------------------------------------------------------------
(* check_xports() finds nothing.                                           *)

\* Nothing is cloned from a clone.
ClonesAreLeaves == \A x \in live : IsClone(x) => mtxp_refcnt[x] = 0

\* A clone is created without clones, and only its parent, which is not a
\* clone, counts it.
LEMMA LeavesKept ==
  ASSUME RegistryInv, ClonesAreLeaves, [Next]_vars
  PROVE  ClonesAreLeaves'
  <1>1. CASE UNCHANGED <<live, mtxp_parent, mtxp_refcnt>>
    BY <1>1 DEF ClonesAreLeaves, IsClone
  <1>2. ASSUME NEW t, NEW x \in Xprt, NEW s, Create(t, x, s)
        PROVE  ClonesAreLeaves'
    <2>1. /\ live' = live \cup {x}
          /\ mtxp_parent' = [mtxp_parent EXCEPT ![x] = NO_PARENT]
          /\ mtxp_refcnt' = [mtxp_refcnt EXCEPT ![x] = 0]
      BY <1>2 DEF Create, SvcudpBufcreate, SvctcpCreate, MakefdXprt, Construct
    <2>. QED
      BY <2>1 DEF ClonesAreLeaves, IsClone, RegistryInv, TypeOK
  <1>3. ASSUME NEW t, XprtRegister(t)
        PROVE  UNCHANGED <<live, mtxp_parent, mtxp_refcnt>>
    BY <1>3 DEF XprtRegister, SvcDie, memory
  <1>4. ASSUME NEW p \in Xprt, NEW x \in Xprt, SvcudpXprtClone(p, x)
        PROVE  ClonesAreLeaves'
    <2>1. CASE SvcDie("out of ids") \/ SvcDie("lost transport")
      BY <1>1, <2>1 DEF SvcDie, memory
    <2>2. CASE ~(SvcDie("out of ids") \/ SvcDie("lost transport"))
      <3> DEFINE id == XprtIdAlloc
      <3>1. Registered(p) /\ ~IsClone(p) /\ ~(id >= NBits)
        BY <1>4, <2>2 DEF SvcudpXprtClone, OutOfIds
      <3>2. mtxp_id[p] \in Id /\ xports[mtxp_id[p]] = p
        BY <3>1 DEF RegistryInv, TypeOK, Registered, LiveXprtFound, XPRT_ID_INVALID
      <3>3. id \in Id /\ xports[id] = BAD
        BY <3>1, AllocFresh, NBitsAssumption DEF RegistryInv
      <3>. HIDE DEF id
      <3>4. [xports EXCEPT ![id] = x][mtxp_id[p]] = p
        BY <3>2, <3>3, XprtAssumption DEF RegistryInv, TypeOK
      <3>5. /\ x \notin live
            /\ live' = live \cup {x}
            /\ mtxp_parent' = [mtxp_parent EXCEPT ![x] = mtxp_id[p]]
            /\ mtxp_refcnt' = [mtxp_refcnt EXCEPT ![x] = 0, ![p] = @ + 1]
        BY <1>4, <2>2, <3>4 DEF SvcudpXprtClone, id
      <3>6. p # x
        BY <3>1, <3>5 DEF Registered
      <3>. QED
        BY <3>1, <3>5, <3>6 DEF ClonesAreLeaves, IsClone, RegistryInv, TypeOK
    <2>. QED
      BY <2>1, <2>2
  <1>5. ASSUME NEW x, NEW bits, XprtProgress(x, bits) \/ XprtGcMark(x)
        PROVE  UNCHANGED <<live, mtxp_parent, mtxp_refcnt>>
    BY <1>5 DEF XprtProgress, XprtGcMark, memory
  <1>6. ASSUME DestroyUnregister
        PROVE  ClonesAreLeaves'
    <2> DEFINE x == arg[Main]
               p == xports[mtxp_parent[x]]
    <2>1. CASE SvcDie("lost transport")
      BY <1>1, <2>1 DEF SvcDie, memory
    <2>2. CASE ~SvcDie("lost transport")
      <3>1. x \in Xprt /\ Registered(x)
        BY <1>6 DEF DestroyUnregister, RegistryInv, CollectsOnlyRetired, MarksExact, TypeOK
      <3>2. IsClone(x) => ~IsClone(p)
        BY <3>1 DEF RegistryInv, ClonesCounted
      <3>3. /\ live' = live \ {x}
            /\ UNCHANGED mtxp_parent
            /\ IF IsClone(x) THEN mtxp_refcnt' = [mtxp_refcnt EXCEPT ![p] = @ - 1]
                             ELSE UNCHANGED mtxp_refcnt
        BY <1>6, <2>2 DEF DestroyUnregister, DropClone
      <3>. QED
        BY <3>2, <3>3 DEF ClonesAreLeaves, IsClone, RegistryInv, TypeOK
    <2>. QED
      BY <2>1, <2>2
  <1>7. ASSUME Collect
        PROVE  DestroyUnregister \/ UNCHANGED <<live, mtxp_parent, mtxp_refcnt>>
    BY <1>7 DEF Collect, XprtGcReapAll, ReapAllReturn, ReapAllSkip, XprtGcReapOne, DestroyClose,
                ReapFinish, memory
  <1>8. CASE UNCHANGED vars
    BY <1>1, <1>8 DEF vars, memory
  <1>. QED
    BY <1>1, <1>2, <1>3, <1>4, <1>5, <1>6, <1>7, <1>8 DEF Next, Step

\* Every check of check_xports() follows from the invariant.
LEMMA FsckFollows ==
  ASSUME RegistryInv, ClonesAreLeaves
  PROVE  FsckClean
  <1>1. ASSUME NEW id \in UsedId, xports[id] # BAD
        PROVE  /\ id \in Id
               /\ xports[id] \in Xprt
               /\ Registered(xports[id])
               /\ mtxp_id[xports[id]] = id
    <2>1. id \in Id
      BY UsedIdRange DEF RegistryInv, TypeOK
    <2>2. xports[id] \in live /\ mtxp_id[xports[id]] = id
      BY <1>1, <2>1 DEF RegistryInv, IdsExact
    <2>3. id # XPRT_ID_INVALID
      BY <2>1, NBitsAssumption DEF Id, XPRT_ID_INVALID
    <2>. QED
      BY <2>1, <2>2, <2>3 DEF RegistryInv, TypeOK, Registered
  <1>2. CheckXportsDuplicates
    BY <1>1 DEF CheckXportsDuplicates
  <1>3. \A c \in Xprt : Registered(c) <=> InXports(c)
    BY <1>1, RegisteredUsed, XprtAssumption DEF InXports
  <1>4. ASSUME NEW id \in UsedId, xports[id] # BAD
        PROVE  LET x == xports[id]
               IN  /\ IF IsClone(x)
                      THEN IsValidSvcxprt(xports[mtxp_parent[x]])
                      ELSE IsValidSvcxprt(sock_xports[xp_sock[x]])
                           /\ BitvecGetBit(xports_idset, id)
                   /\ mtxp_refcnt[x] = FsckRefcnt(id)
    <2> DEFINE x == xports[id]
    <2>1. id \in Id /\ x \in Xprt /\ Registered(x) /\ mtxp_id[x] = id
      BY <1>1, <1>4
    <2>2. IsClone(x) => xports[mtxp_parent[x]] # BAD
      BY <2>1 DEF RegistryInv, ClonesCounted
    <2>3. ~IsClone(x) => sock_xports[xp_sock[x]] # BAD
      BY <2>1, XprtAssumption DEF RegistryInv, SocketsWatched
    <2>4. BitvecGetBit(xports_idset, id)
      BY <1>4, <2>1 DEF RegistryInv, IdsExact
    <2>5. {c \in Xprt : InXports(c) /\ mtxp_parent[c] = id} = Clones(x)
      BY <1>3, <2>1 DEF Clones
    <2>6. ASSUME ~IsClone(x)
          PROVE  mtxp_refcnt[x] = FsckRefcnt(id)
      BY <2>1, <2>5, <2>6 DEF RegistryInv, ClonesCounted, FsckRefcnt
    <2>7. ASSUME IsClone(x)
          PROVE  mtxp_refcnt[x] = FsckRefcnt(id)
      <3>1. ASSUME NEW c \in Clones(x)
            PROVE  FALSE
        <4>1. c \in Xprt /\ Registered(c) /\ mtxp_parent[c] = id
          BY <2>1 DEF Clones
        <4>2. IsClone(c)
          BY <2>1, <4>1, NBitsAssumption DEF IsClone, NO_PARENT, Id
        <4>3. ~IsClone(xports[id])
          BY <4>1, <4>2 DEF RegistryInv, ClonesCounted
        <4>. QED
          BY <2>7, <4>3
      <3>2. Clones(x) = {}
        BY <3>1
      <3>3. FsckRefcnt(id) = 0
        BY <2>5, <3>2, FS_EmptySet DEF FsckRefcnt
      <3>4. mtxp_refcnt[x] = 0
        BY <2>1, <2>7 DEF ClonesAreLeaves, Registered
      <3>. QED
        BY <3>3, <3>4
    <2>8. mtxp_refcnt[x] = FsckRefcnt(id)
      BY <2>6, <2>7
    <2>. QED
      BY <2>2, <2>3, <2>4, <2>8 DEF IsValidSvcxprt
  <1>. QED
    BY <1>2, <1>4 DEF FsckClean, CheckXports

(***************************************************************************)
(* The registry passes the check that svc_getreq_common_rv() makes of it,  *)
(* at every moment and not only when a request is served.                  *)
(***************************************************************************)
THEOREM FsckFindsNothing ==
  ASSUME Scope
  PROVE  Spec => [](SmallIds => FsckClean)
  <1> DEFINE Inv == xports_maxid \in Id \cup {-1} /\ (SmallIds => ClonesAreLeaves)
  <1>1. Init => Inv
    BY DEF Init, ClonesAreLeaves
  <1>2. Inv /\ (SmallIds => RegistryInv) /\ [Next]_vars => Inv'
    <2>1. SUFFICES ASSUME Inv, SmallIds => RegistryInv, [Next]_vars
                   PROVE  Inv'
      OBVIOUS
    <2>2. xports_maxid' \in Id \cup {-1} /\ xports_maxid <= xports_maxid'
      BY <2>1, MaxidGrows
    <2>3. SmallIds' => SmallIds
      BY <2>1, <2>2, NBitsAssumption, WordBytesAssumption DEF SmallIds, Id
    <2>. QED
      BY <2>1, <2>2, <2>3, LeavesKept
  <1>3. Inv /\ (SmallIds => RegistryInv) => (SmallIds => FsckClean)
    BY FsckFollows
  <1>. QED
    BY <1>1, <1>2, <1>3, RegistryCorrect, PTL DEF Spec

=============================================================================
