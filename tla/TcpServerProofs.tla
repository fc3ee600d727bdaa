--------------------------- MODULE TcpServerProofs ---------------------------
(***************************************************************************)
(* A TCP service in mtmode 0 keeps calls, records and descriptors apart    *)
(* for any number of clients, workers, connections and records, as long as *)
(* the ids are small (see XportsProofs).                                   *)
(***************************************************************************)
EXTENDS TcpServer, XportsProofs, ListLemmas

-----------------------------------------------------------------------------
(* The registry without its collector                                      *)

\* Unless a destructor runs, the registry is as module Xports says.
LEMMA RegistryFollows ==
  ASSUME TcpRegistry, pc[Main] \notin ReapSteps
  PROVE  RegistryInv
  <1>1. \A id \in UsedId : ~BitvecGetBit(xprtgc_idset, id)
    BY DEF TcpRegistry, NothingCollected, EmptyVec, BitvecGetBit
  <1>2. MarksCounted
    <2>1. {id \in UsedId : BitvecGetBit(xprtgc_idset, id)} = {}
      BY <1>1
    <2>. QED
      BY <2>1, FS_EmptySet DEF TcpRegistry, NothingCollected, MarksCounted
  <1>3. ASSUME NEW x \in Xprt, Registered(x)
        PROVE  ~IsClone(x) /\ mtxp_refcnt[x] = Cardinality(Clones(x))
    <2>1. Clones(x) = {}
      BY <1>3 DEF TcpRegistry, NothingCollected, Clones, Registered, IsClone, NO_PARENT, XPRT_ID_INVALID
    <2>. QED
      BY <2>1, FS_EmptySet DEF TcpRegistry, NothingCollected
  <1>4. ClonesCounted
    BY <1>3 DEF ClonesCounted
  <1>5. CollectsOnlyRetired /\ CollectorAt
    BY DEF CollectsOnlyRetired, CollectorAt, ReapSteps
  <1>6. MarksExact
    BY <1>1 DEF MarksExact, TcpRegistry, NothingCollected
  <1>. QED
    BY <1>2, <1>4, <1>5, <1>6 DEF TcpRegistry, RegistryInv

LEMMA RegistryAgain ==
  ASSUME RegistryInv', NothingCollected'
  PROVE  TcpRegistry'
  BY DEF TcpRegistry, RegistryInv

\* A transport that is created is no clone and has no mark.
LEMMA TcpConstructKeeps ==
  ASSUME Scope, TcpRegistry, died = "no",
         NEW x \in Xprt, NEW s \in Sock, NEW k \in Kinds, Construct(Main, x, s, k)
  PROVE  TcpRegistry'
  <1>1. pc[Main] = "idle" /\ Main \in Threads
    BY DEF Construct, Threads
  <1>2. RegistryInv'
    BY <1>1, RegistryFollows, ConstructKeeps DEF ReapSteps
  <1>3. /\ UNCHANGED <<xprtgc_idset, xprtgc_mark_count, retired>>
        /\ mtxp_parent' = [mtxp_parent EXCEPT ![x] = NO_PARENT]
        /\ mtxp_refcnt' = [mtxp_refcnt EXCEPT ![x] = 0]
    BY DEF Construct, gcvars
  <1>4. mtxp_parent \in [Xprt -> Id \cup {NO_PARENT}] /\ mtxp_refcnt \in [Xprt -> Nat]
    BY DEF TcpRegistry, TypeOK
  <1>5. NothingCollected'
    BY <1>3, <1>4 DEF TcpRegistry, NothingCollected, IsClone
  <1>. QED
    BY <1>2, <1>5, RegistryAgain

LEMMA TcpRegisterKeeps ==
  ASSUME Scope, SmallIds', TcpRegistry, died = "no", XprtRegister(Main)
  PROVE  TcpRegistry'
  <1>1. pc[Main] = "register" /\ Main \in Threads
    BY DEF XprtRegister, Threads
  <1>2. RegistryInv'
    BY <1>1, RegistryFollows, RegisterKeeps DEF ReapSteps
  <1>3. UNCHANGED <<xprtgc_idset, xprtgc_mark_count, retired, mtxp_parent, mtxp_refcnt>>
    BY DEF XprtRegister, SvcDie, gcvars, memory
  <1>4. NothingCollected'
    BY <1>3 DEF TcpRegistry, NothingCollected, IsClone
  <1>. QED
    BY <1>2, <1>4, RegistryAgain

LEMMA TcpReapKeeps ==
  ASSUME TcpRegistry, died = "no", XprtGcReapAll \/ ReapAllReturn
  PROVE  TcpRegistry'
  <1>1. pc[Main] \in {"idle", "scan"}
    BY DEF XprtGcReapAll, ReapAllReturn
  <1>2. RegistryInv'
    BY <1>1, RegistryFollows, ReapAllKeeps, ReapAllReturnKeeps DEF ReapSteps
  <1>3. UNCHANGED <<xprtgc_idset, xprtgc_mark_count, retired, mtxp_parent, mtxp_refcnt>>
    BY DEF XprtGcReapAll, ReapAllReturn, gcvars, memory
  <1>4. NothingCollected'
    BY <1>3 DEF TcpRegistry, NothingCollected, IsClone
  <1>. QED
    BY <1>2, <1>4, RegistryAgain

\* All of the registry but the descriptors and the places of the threads.
Tables == <<xports, sock_xports, xports_idset, xports_maxid, xports_pollfd, xprtgc_idset,
            xprtgc_mark_count, live, kind, xp_sock, mtxp_id, mtxp_parent, mtxp_refcnt,
            mtxp_progress, gcid, died, retired>>

\* What does not depend on descriptors and threads stays when they change.
LEMMA TablesKeep ==
  ASSUME TcpRegistry, UNCHANGED Tables, fds' \subseteq Sock,
         pc' \in [Threads -> {"idle", "register", "scan"} \cup ReapSteps],
         arg' \in [Threads -> Xprt \cup {BAD}],
         SocketsHeld', CreationPrivate'
  PROVE  TcpRegistry'
  <1>1. UNCHANGED <<xports, sock_xports, xports_idset, xports_maxid, xports_pollfd, xprtgc_idset,
                    xprtgc_mark_count, live, kind, xp_sock, mtxp_id, mtxp_parent, mtxp_refcnt,
                    mtxp_progress, gcid, died, retired>>
    BY DEF Tables
  <1>2. TypeOK'
    BY <1>1 DEF TcpRegistry, TypeOK, UsedId
  <1>3. LiveXprtFound' /\ SocketsWatched' /\ DiesOnlyWhenFull' /\ IdsExact' /\ XprtShape'
    BY <1>1, FrameLive, FrameSockets, FrameDies, FrameIds, FrameShape DEF TcpRegistry
  <1>4. NothingCollected'
    BY <1>1 DEF TcpRegistry, NothingCollected, IsClone
  <1>. QED
    BY <1>2, <1>3, <1>4 DEF TcpRegistry

LEMMA TcpUntouched ==
  ASSUME TcpRegistry, UNCHANGED vars
  PROVE  TcpRegistry'
  <1>1. UNCHANGED <<Tables, fds, pc, arg>>
    BY DEF vars, registry, gcvars, memory, threads, Tables
  <1>2. SocketsHeld' /\ CreationPrivate'
    BY <1>1, FrameHeld, FrameCreation DEF TcpRegistry, Tables
  <1>3. /\ fds' \subseteq Sock
        /\ pc' \in [Threads -> {"idle", "register", "scan"} \cup ReapSteps]
        /\ arg' \in [Threads -> Xprt \cup {BAD}]
    BY <1>1 DEF TcpRegistry, TypeOK
  <1>. QED
    BY <1>1, <1>2, <1>3, TablesKeep

\* Outside the functions of the registry, a descriptor is opened, or one that
\* belongs to no transport is closed.
LEMMA TcpFdsKeep ==
  ASSUME TcpRegistry, UNCHANGED <<registry, gcvars, memory, threads, died, retired>>,
         pc[Main] = "idle", fds' \subseteq Sock,
         \A s \in fds \ fds' : sock_xports[s] = BAD
  PROVE  TcpRegistry'
  <1>1. UNCHANGED <<Tables, pc, arg>>
    BY DEF registry, gcvars, memory, threads, Tables
  <1>2. UNCHANGED <<sock_xports, mtxp_parent>>
    BY <1>1 DEF Tables
  <1>3. SocketsHeld'
    BY <1>1, <1>2 DEF TcpRegistry, SocketsHeld, IsClone
  <1>4. CreationPrivate'
    BY <1>1 DEF CreationPrivate
  <1>5. /\ pc' \in [Threads -> {"idle", "register", "scan"} \cup ReapSteps]
        /\ arg' \in [Threads -> Xprt \cup {BAD}]
    BY <1>1 DEF TcpRegistry, TypeOK
  <1>. QED
    BY <1>1, <1>3, <1>4, <1>5, TablesKeep

\* The main thread enters or leaves a destructor.
LEMMA TcpThreadKeeps ==
  ASSUME TcpRegistry, UNCHANGED <<Tables, fds>>, pc[Main] \in {"idle", "finish"},
         NEW at \in {"idle", "close"}, pc' = [pc EXCEPT ![Main] = at],
         arg' \in [Threads -> Xprt \cup {BAD}]
  PROVE  TcpRegistry'
  <1>1. Main \in Threads /\ pc \in [Threads -> {"idle", "register", "scan"} \cup ReapSteps]
    BY DEF Threads, TcpRegistry, TypeOK
  <1>2. pc'[Main] = at /\ pc' \in [Threads -> {"idle", "register", "scan"} \cup ReapSteps]
    BY <1>1 DEF ReapSteps
  <1>3. UNCHANGED <<sock_xports, mtxp_parent>>
    BY DEF Tables
  <1>4. SocketsHeld'
    BY <1>2, <1>3 DEF TcpRegistry, SocketsHeld, IsClone
  <1>5. CreationPrivate'
    BY <1>2 DEF CreationPrivate
  <1>6. fds' \subseteq Sock
    BY DEF TcpRegistry, TypeOK
  <1>. QED
    BY <1>2, <1>4, <1>5, <1>6, TablesKeep

LEMMA TcpCloseKeeps ==
  ASSUME TcpRegistry, DestroyClose, arg[Main] \in Xprt, Registered(arg[Main])
  PROVE  TcpRegistry'
  <1>1. UNCHANGED <<Tables, arg>>
    BY DEF DestroyClose, registry, gcvars, memory, Tables
  <1>2. /\ pc[Main] = "close" /\ pc'[Main] = "unregister"
        /\ fds' = fds \ {xp_sock[arg[Main]]}
        /\ pc' \in [Threads -> {"idle", "register", "scan"} \cup ReapSteps]
    BY DEF DestroyClose, TcpRegistry, TypeOK, Threads, ReapSteps
  <1>3. UNCHANGED <<sock_xports, mtxp_parent>>
    BY <1>1 DEF Tables
  <1>4. sock_xports[xp_sock[arg[Main]]] = arg[Main]
    BY DEF TcpRegistry, SocketsWatched, NothingCollected
  <1>5. SocketsHeld'
    BY <1>1, <1>2, <1>3, <1>4 DEF TcpRegistry, SocketsHeld, IsClone
  <1>6. CreationPrivate'
    BY <1>2 DEF CreationPrivate
  <1>7. fds' \subseteq Sock /\ arg' \in [Threads -> Xprt \cup {BAD}]
    BY <1>1, <1>2 DEF TcpRegistry, TypeOK
  <1>. QED
    BY <1>1, <1>2, <1>5, <1>6, <1>7, TablesKeep

\* xprt_unregister() finds the transport, takes it from the tables and frees it.
LEMMA TcpUnregisterSteps ==
  ASSUME TcpRegistry, DestroyUnregister, arg[Main] \in Xprt, Registered(arg[Main])
  PROVE  LET x == arg[Main]
         IN  /\ mtxp_id[x] \in Id /\ mtxp_id[x] \in UsedId /\ xports[mtxp_id[x]] = x
             /\ sock_xports' = [sock_xports EXCEPT ![xp_sock[x]] = BAD]
             /\ xports_pollfd' = PollfdRemove(xp_sock[x])
             /\ xports' = [xports EXCEPT ![mtxp_id[x]] = BAD]
             /\ xports_idset' = BitvecClrBit(xports_idset, mtxp_id[x])
             /\ live' = live \ {x}
             /\ retired' = retired \ {x}
             /\ pc[Main] = "unregister" /\ pc' = [pc EXCEPT ![Main] = "finish"]
             /\ UNCHANGED <<xports_maxid, xprtgc_idset, xprtgc_mark_count, kind, xp_sock, mtxp_id,
                            mtxp_parent, mtxp_refcnt, mtxp_progress, fds, arg, gcid, died>>
  <1>1. mtxp_id[arg[Main]] \in Id /\ xports[mtxp_id[arg[Main]]] = arg[Main]
    BY DEF TcpRegistry, TypeOK, Registered, LiveXprtFound
  <1>2. mtxp_id[arg[Main]] \in UsedId
    BY <1>1, XprtAssumption DEF TcpRegistry, IdsExact
  <1>3. ~IsClone(arg[Main])
    BY DEF TcpRegistry, NothingCollected
  <1>. QED
    BY <1>1, <1>2, <1>3 DEF DestroyUnregister, UnregisterId, gcvars

LEMMA TcpUnregisterKeeps ==
  ASSUME SmallIds, TcpRegistry, died = "no", DestroyUnregister,
         arg[Main] \in Xprt, Registered(arg[Main])
  PROVE  TcpRegistry'
  <1> DEFINE x  == arg[Main]
             id == mtxp_id[x]
  <1>1. /\ id \in Id /\ id \in UsedId /\ xports[id] = x
        /\ sock_xports' = [sock_xports EXCEPT ![xp_sock[x]] = BAD]
        /\ xports_pollfd' = PollfdRemove(xp_sock[x])
        /\ xports' = [xports EXCEPT ![id] = BAD]
        /\ xports_idset' = BitvecClrBit(xports_idset, id)
        /\ live' = live \ {x}
        /\ retired' = retired \ {x}
        /\ pc' = [pc EXCEPT ![Main] = "finish"]
        /\ UNCHANGED <<xports_maxid, xprtgc_idset, xprtgc_mark_count, kind, xp_sock, mtxp_id,
                       mtxp_parent, mtxp_refcnt, mtxp_progress, fds, arg, gcid, died>>
    BY TcpUnregisterSteps
  <1>2. pc'[Main] = "finish"
    BY <1>1 DEF TcpRegistry, TypeOK, Threads
  <1>3. \A i \in Id : xports'[i] = IF i = id THEN BAD ELSE xports[i]
    BY <1>1 DEF TcpRegistry, TypeOK
  <1>4. \A y \in Xprt : Registered(y)' <=> (Registered(y) /\ y # x)
    BY <1>1 DEF Registered
  <1>5. \A y \in Xprt : Registered(y) =>
          mtxp_id[y] \in Id /\ xports[mtxp_id[y]] = y /\ (y # x => mtxp_id[y] # id)
    BY <1>1 DEF TcpRegistry, TypeOK, Registered, LiveXprtFound, XPRT_ID_INVALID
  <1>6. xp_sock[x] \in Sock /\ sock_xports[xp_sock[x]] = x
    BY DEF TcpRegistry, XprtShape, SocketsWatched, NothingCollected, Registered
  <1>7. \A s \in Sock : sock_xports'[s] = IF s = xp_sock[x] THEN BAD ELSE sock_xports[s]
    BY <1>1 DEF TcpRegistry, TypeOK
  <1>8. LiveXprtFound'
    BY <1>1, <1>3, <1>4, <1>5 DEF LiveXprtFound
  <1>9. SocketsWatched'
    <2>1. \A s \in Sock : PollSlots(s)' = IF s = xp_sock[x] THEN {} ELSE PollSlots(s)
      BY <1>1, SockAssumption DEF PollSlots, PollfdRemove
    <2>2. DOMAIN xports_pollfd' = DOMAIN xports_pollfd
      BY <1>1 DEF PollfdRemove
    <2>3. ASSUME NEW y \in Xprt, Registered(y), y # x
          PROVE  sock_xports'[xp_sock[y]] = y
      <3>1. sock_xports[xp_sock[y]] = y /\ xp_sock[y] \in Sock
        BY <2>3 DEF TcpRegistry, SocketsWatched, XprtShape, NothingCollected, Registered
      <3>. QED
        BY <1>6, <1>7, <2>3, <3>1
    <2>4. ASSUME NEW s \in Sock
          PROVE  IF sock_xports'[s] = BAD
                 THEN PollSlots(s)' = {}
                 ELSE /\ Registered(sock_xports[s])'
                      /\ xp_sock[sock_xports'[s]] = s
                      /\ \E i \in DOMAIN xports_pollfd' : PollSlots(s)' = {i}
      <3>1. CASE s = xp_sock[x]
        BY <1>7, <2>1, <3>1
      <3>2. CASE s # xp_sock[x]
        <4>1. sock_xports'[s] = sock_xports[s] /\ PollSlots(s)' = PollSlots(s)
          BY <1>7, <2>1, <3>2
        <4>2. CASE sock_xports[s] = BAD
          BY <4>1, <4>2 DEF TcpRegistry, SocketsWatched
        <4>3. CASE sock_xports[s] # BAD
          <5>1. /\ Registered(sock_xports[s])
                /\ xp_sock[sock_xports[s]] = s
                /\ \E i \in DOMAIN xports_pollfd : PollSlots(s) = {i}
            BY <4>3 DEF TcpRegistry, SocketsWatched
          <5>2. Registered(sock_xports[s])'
            BY <1>1, <3>2, <4>1, <5>1 DEF Registered
          <5>. QED
            BY <2>2, <4>1, <4>3, <5>1, <5>2
        <4>. QED
          BY <4>2, <4>3
      <3>. QED
        BY <3>1, <3>2
    <2>. QED
      BY <1>1, <1>4, <2>3, <2>4 DEF SocketsWatched
  <1>10. DiesOnlyWhenFull' /\ CreationPrivate'
    BY <1>1, <1>2 DEF DiesOnlyWhenFull, CreationPrivate
  <1>11. IdsExact'
    <2>1. ASSUME NEW i \in UsedId
          PROVE  BitvecGetBit(xports_idset', i) <=> (i # id /\ BitvecGetBit(xports_idset, i))
      <3>1. UsedId \subseteq 0 .. WordBytes
        BY UsedIdRange DEF TcpRegistry, TypeOK
      <3>. QED
        BY <1>1, <3>1, GetAfterClr
    <2>2. ASSUME NEW i \in Id, i # id, xports[i] # BAD
          PROVE  i \in UsedId /\ xports[i] \in live' /\ mtxp_id[xports[i]] = i
      BY <1>1, <2>2 DEF TcpRegistry, IdsExact
    <2>3. \A i \in UsedId : BitvecGetBit(xports_idset, i) <=> xports[i] # BAD
      BY UsedIdRange DEF TcpRegistry, TypeOK, IdsExact
    <2>4. UsedId' = UsedId
      BY <1>1 DEF UsedId
    <2>. QED
      BY <1>1, <1>3, <2>1, <2>2, <2>3, <2>4 DEF IdsExact
  <1>12. XprtShape'
    BY <1>1 DEF TcpRegistry, XprtShape, IsClone
  <1>13. SocketsHeld'
    <2>1. SUFFICES ASSUME NEW s \in Sock, sock_xports'[s] # BAD
                   PROVE  ~IsClone(sock_xports'[s]) /\ s \in fds
      BY <1>1 DEF SocketsHeld, IsClone
    <2>2. sock_xports'[s] = sock_xports[s] /\ s # xp_sock[x]
      BY <1>7, <2>1
    <2>3. xp_sock[sock_xports[s]] = s
      BY <2>1, <2>2 DEF TcpRegistry, SocketsWatched
    <2>. QED
      BY <2>1, <2>2, <2>3 DEF TcpRegistry, SocketsHeld
  <1>14. NothingCollected'
    BY <1>1 DEF TcpRegistry, NothingCollected, IsClone
  <1>15. TypeOK'
    <2>1. xports' \in [Id -> Xprt \cup {BAD}] /\ sock_xports' \in [Sock -> Xprt \cup {BAD}]
      BY <1>1 DEF TcpRegistry, TypeOK
    <2>2. xports_idset' \subseteq {Cell(i) : i \in UsedId}
      BY <1>1, VecTypes DEF TcpRegistry, TypeOK
    <2>3. xports_pollfd' \in Seq(Sock \cup {NoFd})
      <3>1. xports_pollfd \in Seq(Sock \cup {NoFd})
        BY DEF TcpRegistry, TypeOK
      <3>. QED
        BY <1>1, <3>1 DEF PollfdRemove
    <2>4. pc' \in [Threads -> {"idle", "register", "scan"} \cup ReapSteps]
      BY <1>1 DEF TcpRegistry, TypeOK, ReapSteps
    <2>. QED
      BY <1>1, <2>1, <2>2, <2>3, <2>4 DEF TcpRegistry, TypeOK, UsedId
  <1>. QED
    BY <1>8, <1>9, <1>10, <1>11, <1>12, <1>13, <1>14, <1>15 DEF TcpRegistry

-----------------------------------------------------------------------------
(* Sequences of records                                                    *)

\* What is left of a sequence without its head.
LEMMA TailProperties ==
  ASSUME NEW S, NEW q \in Seq(S), q # <<>>
  PROVE  /\ Len(q) \in Nat /\ Len(q) >= 1 /\ DOMAIN q = 1 .. Len(q)
         /\ Head(q) = q[1] /\ Head(q) \in S
         /\ Tail(q) \in Seq(S)
         /\ Len(Tail(q)) = Len(q) - 1 /\ DOMAIN Tail(q) = 1 .. Len(q) - 1
         /\ \A i \in DOMAIN Tail(q) : i + 1 \in DOMAIN q /\ i + 1 # 1 /\ Tail(q)[i] = q[i + 1]
  <1>1. Len(q) \in Nat /\ Len(q) >= 1 /\ DOMAIN q = 1 .. Len(q)
    BY LenProperties, EmptySeq
  <1>2. Head(q) = q[1] /\ Tail(q) \in Seq(S) /\ Len(Tail(q)) = Len(q) - 1
        /\ \A i \in 1 .. Len(q) - 1 : Tail(q)[i] = q[i + 1]
    BY <1>1, HeadTailProperties
  <1>3. DOMAIN Tail(q) = 1 .. Len(q) - 1
    BY <1>2, LenProperties
  <1>4. q[1] \in S
    BY <1>1, ElementOfSeq
  <1>. QED
    BY <1>1, <1>2, <1>3, <1>4

\* One read() brings the front of the stream into the buffer.
LEMMA ReadMovesFront ==
  ASSUME NEW S, NEW h \in Seq(S), NEW s \in Seq(S), NEW k \in 1 .. Len(s)
  PROVE  LET front == SubSeq(s, 1, k)
             back  == SubSeq(s, k + 1, Len(s))
         IN  front \in Seq(S) /\ back \in Seq(S) /\ h \o front \o back = h \o <<>> \o s
  <1> DEFINE front == SubSeq(s, 1, k)
             back  == SubSeq(s, k + 1, Len(s))
  <1>1. Len(s) \in Nat /\ Len(h) \in Nat
    BY LenProperties
  <1>2. /\ front \in Seq(S) /\ Len(front) = k
        /\ \A i \in 1 .. k : front[i] = s[i]
    BY <1>1, ElementOfSeq, SubSeqProperties
  <1>3. /\ back \in Seq(S) /\ Len(back) = Len(s) - k
        /\ \A i \in 1 .. Len(s) - k : back[i] = s[k + i]
    BY <1>1, ElementOfSeq, SubSeqProperties
  <1>. HIDE DEF front, back
  <1>4. front \o back = s
    <2>1. /\ front \o back \in Seq(S)
          /\ Len(front \o back) = Len(front) + Len(back)
          /\ \A i \in 1 .. Len(front) + Len(back) :
               (front \o back)[i] = IF i <= Len(front) THEN front[i] ELSE back[i - Len(front)]
      BY <1>2, <1>3, ConcatProperties
    <2>2. Len(front) + Len(back) = Len(s) /\ k \in Nat
      BY <1>1, <1>2, <1>3
    <2>3. ASSUME NEW i \in 1 .. Len(s)
          PROVE  (front \o back)[i] = s[i]
      <3>1. (front \o back)[i] = IF i <= k THEN front[i] ELSE back[i - k]
        BY <1>2, <2>1, <2>2
      <3>2. CASE i <= k
        BY <1>2, <3>1, <3>2
      <3>3. CASE i > k
        <4>1. i - k \in 1 .. Len(s) - k /\ k + (i - k) = i
          BY <1>1, <2>2, <3>3
        <4>2. back[i - k] = s[i]
          BY <1>3, <4>1
        <4>. QED
          BY <2>2, <3>1, <3>3, <4>2
      <3>. QED
        BY <1>1, <2>2, <3>2, <3>3
    <2>4. Len(front \o back) = Len(s)
      BY <2>1, <2>2
    <2>. QED
      BY <2>1, <2>3, <2>4, SeqEqual
  <1>5. (h \o front) \o back = h \o (front \o back)
    <2>1. PICK f \in Seq(S) : f = front
      BY <1>2
    <2>2. PICK g \in Seq(S) : g = back
      BY <1>3
    <2>3. (h \o f) \o g = h \o (f \o g)
      BY ConcatAssociative, SMTT(30)
    <2>. QED
      BY <2>1, <2>2, <2>3
  <1>6. h \o <<>> = h
    BY ConcatEmptySeq
  <1>. QED
    BY <1>2, <1>3, <1>4, <1>5, <1>6 DEF front, back

\* The head of the buffer is received.
LEMMA RecvMovesHead ==
  ASSUME NEW S, NEW h \in Seq(S), NEW b \in Seq(S), b # <<>>, NEW s \in Seq(S)
  PROVE  Append(h, Head(b)) \o Tail(b) \o s = h \o b \o s
  <1>1. /\ Len(b) \in Nat /\ Len(b) >= 1 /\ Head(b) = b[1] /\ Head(b) \in S
        /\ Tail(b) \in Seq(S) /\ Len(Tail(b)) = Len(b) - 1 /\ DOMAIN Tail(b) = 1 .. Len(b) - 1
        /\ \A i \in DOMAIN Tail(b) : Tail(b)[i] = b[i + 1]
    BY TailProperties
  <1>2. Len(h) \in Nat
    BY LenProperties
  <1>3. PICK a : a = Append(h, Head(b))
    OBVIOUS
  <1>4. /\ a \in Seq(S) /\ Len(a) = Len(h) + 1 /\ a[Len(h) + 1] = b[1]
        /\ \A i \in 1 .. Len(h) : a[i] = h[i]
    BY <1>1, <1>3, AppendProperties
  <1>5. PICK t : t = Tail(b)
    OBVIOUS
  <1>6. /\ t \in Seq(S) /\ Len(t) = Len(b) - 1
        /\ \A i \in 1 .. Len(b) - 1 : t[i] = b[i + 1]
    BY <1>1, <1>5
  <1>7. /\ a \o t \in Seq(S) /\ Len(a \o t) = Len(a) + Len(t)
        /\ \A i \in 1 .. Len(a) + Len(t) : (a \o t)[i] = IF i <= Len(a) THEN a[i] ELSE t[i - Len(a)]
    BY <1>4, <1>6, ConcatProperties
  <1>8. /\ h \o b \in Seq(S) /\ Len(h \o b) = Len(h) + Len(b)
        /\ \A i \in 1 .. Len(h) + Len(b) : (h \o b)[i] = IF i <= Len(h) THEN h[i] ELSE b[i - Len(h)]
    BY ConcatProperties
  <1>9. Len(a \o t) = Len(h \o b)
    BY <1>1, <1>2, <1>4, <1>6, <1>7, <1>8
  <1>10. ASSUME NEW i \in 1 .. Len(h) + Len(b)
         PROVE  (a \o t)[i] = (h \o b)[i]
    <2>1. (a \o t)[i] = IF i <= Len(a) THEN a[i] ELSE t[i - Len(a)]
      BY <1>1, <1>2, <1>4, <1>6, <1>7
    <2>2. (h \o b)[i] = IF i <= Len(h) THEN h[i] ELSE b[i - Len(h)]
      BY <1>8
    <2>3. CASE i <= Len(h)
      BY <1>2, <1>4, <2>1, <2>2, <2>3
    <2>4. CASE i = Len(h) + 1
      BY <1>2, <1>4, <2>1, <2>2, <2>4
    <2>5. CASE i > Len(h) + 1
      <3>1. i - Len(a) \in 1 .. Len(b) - 1 /\ (i - Len(a)) + 1 = i - Len(h)
        BY <1>1, <1>2, <1>4, <2>5
      <3>2. t[i - Len(a)] = b[i - Len(h)]
        BY <1>6, <3>1
      <3>. QED
        BY <1>2, <1>4, <2>1, <2>2, <2>5, <3>2
    <2>6. i \in Nat /\ (i <= Len(h) \/ i = Len(h) + 1 \/ i > Len(h) + 1)
      BY <1>1, <1>2
    <2>. QED
      BY <2>3, <2>4, <2>5, <2>6, Zenon
  <1>11. a \o t = h \o b
    BY <1>7, <1>8, <1>9, <1>10, SeqEqual
  <1>. QED
    BY <1>3, <1>5, <1>11

\* A record is sent.
LEMMA SendAppends ==
  ASSUME NEW S, NEW h \in Seq(S), NEW b \in Seq(S), NEW s \in Seq(S), NEW r \in S
  PROVE  h \o b \o Append(s, r) = Append(h \o b \o s, r)
  <1>1. PICK a : a = h \o b
    OBVIOUS
  <1>2. a \in Seq(S)
    BY <1>1, ConcatProperties
  <1>3. a \o Append(s, r) = Append(a \o s, r)
    <2>1. Append(s, r) = s \o <<r>> /\ <<r>> \in Seq(S)
      BY AppendIsConcat
    <2>2. a \o s \in Seq(S)
      BY <1>2, ConcatProperties
    <2>3. Append(a \o s, r) = (a \o s) \o <<r>>
      BY <2>2, AppendIsConcat
    <2>4. a \o (s \o <<r>>) = (a \o s) \o <<r>>
      BY <1>2, <2>1, ConcatAssociative
    <2>. QED
      BY <2>1, <2>3, <2>4
  <1>. QED
    BY <1>1, <1>3

-----------------------------------------------------------------------------
(* A part of the invariant stays true while its variables do not change.   *)

\* Elsewhere than in its destructor the main thread is in no function of the
\* registry.
LEMMA IdleAt ==
  ASSUME pc'[Main] = "idle", spc' # "destroy", died' = "no"
  PROVE  MainAt'
  BY DEF MainAt, ReapSteps

LEMMA NotSetup ==
  ASSUME spc' # "setup"
  PROVE  SetupAt'
  BY DEF SetupAt

LEMMA FrameMain ==
  ASSUME MainAt, UNCHANGED <<pc, died>>, spc' = spc \/ (spc' \in Stopped /\ died = "no")
  PROVE  MainAt'
  <1>1. CASE spc' = spc
    BY <1>1 DEF MainAt, Running
  <1>2. CASE spc' \in Stopped /\ died = "no"
    BY <1>2 DEF MainAt, Running
  <1>. QED
    BY <1>1, <1>2

LEMMA FrameSetup ==
  ASSUME SetupAt, UNCHANGED <<xports_maxid, sock_xports, pc, arg, live, kind>>,
         spc' = spc \/ spc' # "setup"
  PROVE  SetupAt'
  BY DEF SetupAt

LEMMA FrameServed ==
  ASSUME ServedAt, UNCHANGED <<events, fd, sock_xports, kind, pc, arg>>,
         spc' = spc \/ spc' \notin {"recv", "dispatch", "wait", "stat", "destroy"}
  PROVE  ServedAt'
  BY DEF ServedAt

LEMMA FrameFds ==
  ASSUME FdsExact, UNCHANGED <<live, mtxp_id, pc, arg, xp_sock, fds, accept_sock>>,
         spc' = spc \/ {spc, spc'} \cap {"move", "no descriptor", "crashed"} = {} \/ spc' = "crashed"
  PROVE  FdsExact'
  <1>1. spc' # "crashed" => spc # "crashed" /\ Accepting' = Accepting
    BY DEF Accepting
  <1>2. spc' = "no descriptor" => spc = "no descriptor"
    OBVIOUS
  <1>3. Closed' = Closed
    BY DEF Closed
  <1>. QED
    BY <1>1, <1>2, <1>3 DEF FdsExact, Registered

LEMMA FrameAccept ==
  ASSUME AcceptAt, UNCHANGED <<accept_sock, peer_of, live, xp_sock, pc, arg, kind, fds>>,
         spc' = spc \/ spc' \notin {"move", "make"},
         spc' \in {"move", "make"} => inbuf' = inbuf,
         \A p \in Peers : Fresh(p) => Fresh(p)',
         peer_of \in [Sock -> Peers \cup {BAD}]
  PROVE  AcceptAt'
  <1>1. SUFFICES ASSUME spc' \in {"move", "make"}
                 PROVE  /\ accept_sock \in Sock
                        /\ peer_of[accept_sock] # BAD
                        /\ Fresh(peer_of[accept_sock])'
                        /\ spc = "move" => \A x \in live : xp_sock[x] # accept_sock
                        /\ spc = "make" =>
                             IF pc[Main] = "register"
                             THEN /\ xp_sock[arg[Main]] = accept_sock
                                  /\ kind[arg[Main]] = "connection"
                                  /\ inbuf[arg[Main]] = <<>>
                             ELSE accept_sock \notin fds
    BY DEF AcceptAt, Fresh
  <1>2. spc' = spc /\ peer_of[accept_sock] \in Peers
    BY <1>1 DEF AcceptAt
  <1>3. Fresh(peer_of[accept_sock])'
    BY <1>1, <1>2 DEF AcceptAt, Fresh
  <1>. QED
    BY <1>1, <1>2, <1>3 DEF AcceptAt

LEMMA NotAccepting ==
  ASSUME spc' \notin {"move", "make"}
  PROVE  AcceptAt'
  BY DEF AcceptAt

LEMMA FrameBacklog ==
  ASSUME BacklogAt, UNCHANGED <<backlog, peer, peer_of, handled, stream, sent>>
  PROVE  BacklogAt'
  BY DEF BacklogAt, Fresh

LEMMA FramePeers ==
  ASSUME PeersApart, UNCHANGED <<peer, peer_of, live, mtxp_id, kind, xp_sock, pc, arg>>
  PROVE  PeersApart'
  BY DEF PeersApart, Registered, Closed

LEMMA FrameWorker ==
  ASSUME WorkerAt, UNCHANGED <<wpc, handle, sock_xports, fd, worker_return>>,
         spc' = spc \/ spc' = "crashed"
  PROVE  WorkerAt'
  BY DEF WorkerAt, Serving

LEMMA FrameReplies ==
  ASSUME RepliesToCaller,
         UNCHANGED <<wpc, live, mtxp_id, handle, serves, peer_of, xp_sock, x_id>>
  PROVE  RepliesToCaller'
  BY DEF RepliesToCaller, Serving, Registered

LEMMA FrameReceived ==
  ASSUME ReceivedInOrder,
         UNCHANGED <<live, mtxp_id, kind, peer_of, xp_sock, handled, inbuf, stream, sent>>
  PROVE  ReceivedInOrder'
  BY DEF ReceivedInOrder, Registered

\* While the main thread does not wait, no worker has a call.
LEMMA NoneServing ==
  ASSUME WorkerAt, spc \notin {"wait", "crashed"} \/ worker_return # 0
  PROVE  Serving = {}
  BY DEF WorkerAt

LEMMA WorkersFree ==
  ASSUME Serving = {}, UNCHANGED wpc
  PROVE  WorkerAt' /\ RepliesToCaller'
  <1>1. Serving' = {}
    BY DEF Serving
  <1>. QED
    BY <1>1 DEF WorkerAt, RepliesToCaller

-----------------------------------------------------------------------------
(* What the invariant says of the transport that is served.                *)

LEMMA MainIdle ==
  ASSUME TcpInv, Running, spc \notin {"setup", "poll", "make", "destroy"}
  PROVE  pc[Main] = "idle"
  <1>1. pc[Main] \in {"idle", "register", "scan"} \cup ReapSteps
    BY DEF TcpInv, TcpRegistry, TypeOK, Threads
  <1>2. pc[Main] # "register" /\ pc[Main] # "scan" /\ pc[Main] \notin ReapSteps
    BY DEF TcpInv, MainAt
  <1>. QED
    BY <1>1, <1>2

\* A socket in the table leads to a registered transport that has it, and only
\* one registered transport has a socket.
LEMMA OwnerOfSocket ==
  ASSUME TcpRegistry
  PROVE  /\ \A s \in Sock : sock_xports[s] # BAD =>
              /\ sock_xports[s] \in Xprt
              /\ Registered(sock_xports[s])
              /\ xp_sock[sock_xports[s]] = s
         /\ \A x \in Xprt : Registered(x) => xp_sock[x] \in Sock /\ sock_xports[xp_sock[x]] = x
  BY DEF TcpRegistry, SocketsWatched, TypeOK, Registered, XprtShape, NothingCollected

LEMMA ServedXprt ==
  ASSUME TcpInv, spc \in {"recv", "dispatch", "wait", "stat"}
  PROVE  /\ fd \in Sock /\ xprt \in Xprt /\ Registered(xprt) /\ xp_sock[xprt] = fd
         /\ kind[xprt] = "connection" /\ pc[Main] = "idle" =>
              client \in Peers /\ client # BAD /\ peer[client] # "off"
  <1>1. fd \in Sock /\ xprt # BAD
    BY DEF TcpInv, ServedAt, xprt
  <1>2. xprt \in Xprt /\ Registered(xprt) /\ xp_sock[xprt] = fd
    BY <1>1, OwnerOfSocket DEF TcpInv, xprt
  <1>3. ASSUME kind[xprt] = "connection", pc[Main] = "idle"
        PROVE  client \in Peers /\ client # BAD /\ peer[client] # "off"
    <2>1. client # BAD
      BY <1>1, <1>2, <1>3 DEF TcpInv, PeersApart, Closed, client
    <2>2. client \in Peers \cup {BAD}
      BY <1>1 DEF TcpInv, TcpTypeOK, client
    <2>. QED
      BY <1>1, <2>1, <2>2 DEF TcpInv, PeersApart, client
  <1>. QED
    BY <1>1, <1>2, <1>3

\* Every transport has its own descriptor, which is open, while no destructor
\* is at work.
LEMMA DescriptorsOpen ==
  ASSUME TcpInv, Running, pc[Main] \notin {"unregister"}
  PROVE  \A x \in live : xp_sock[x] \in fds /\ xp_sock[x] \in Sock
  BY DEF TcpInv, Running, Stopped, FdsExact, Closed, TcpRegistry, XprtShape

-----------------------------------------------------------------------------
(* Every step keeps the invariant.  The main thread goes through the       *)
(* sockets that poll() found.                                              *)

LEMMA SameVars ==
  ASSUME UNCHANGED vars
  PROVE  UNCHANGED <<xports, sock_xports, xports_maxid, xports_pollfd, live, kind, xp_sock, mtxp_id,
                     fds, pc, arg, died>>
  BY DEF vars, registry, gcvars, memory, threads

Places == {"setup", "run", "poll", "getreq", "recv", "move", "make", "dispatch", "wait", "stat",
           "destroy"} \cup Stopped

\* The main thread moves on, and no record with it.
LEMMA TypesSame ==
  ASSUME TcpTypeOK, TcpFunctions, TcpRegistry',
         UNCHANGED <<order, peer, sent, stream, backlog, inbuf, x_id, strm_stat, wpc, handle, serves,
                     worker_return, handled>>,
         peer_of' \in [Sock -> Peers \cup {BAD}],
         spc' \in Places, events' \subseteq Sock, {fd', accept_sock'} \subseteq Sock \cup {NoFd}
  PROVE  TcpTypeOK' /\ TcpFunctions'
  <1>1. TypeOK'
    BY DEF TcpRegistry
  <1>. QED
    BY <1>1 DEF TcpTypeOK, TcpFunctions, Places

\* The main thread moves on, and neither the registry nor a record with it.
LEMMA MoveKeeps ==
  ASSUME TcpInv, Running, UNCHANGED vars,
         UNCHANGED <<order, network, accept_sock, worker_return, conns, workers, handled>>,
         pc[Main] = "idle", Serving = {},
         {spc, spc'} \subseteq {"run", "poll", "getreq", "recv", "wait", "stat"},
         events' \subseteq Sock, fd' \in Sock \cup {NoFd},
         ServedAt'
  PROVE  TcpInv'
  <1>1. UNCHANGED <<order, peer, sent, stream, backlog, peer_of, accept_sock, worker_return, inbuf,
                    x_id, strm_stat, wpc, handle, serves, handled>>
    BY DEF network, conns, workers
  <1>2. UNCHANGED <<sock_xports, live, kind, xp_sock, mtxp_id, fds, pc, arg, died>>
    BY SameVars
  <1>3. TcpRegistry'
    BY TcpUntouched DEF TcpInv
  <1>4. TcpTypeOK' /\ TcpFunctions'
    <2>1. {fd', accept_sock'} \subseteq Sock \cup {NoFd}
      BY <1>1 DEF TcpInv, TcpTypeOK
    <2>2. peer_of' \in [Sock -> Peers \cup {BAD}] /\ spc' \in Places
      BY <1>1 DEF TcpInv, TcpTypeOK, Places
    <2>. QED
      BY <1>1, <1>3, <2>1, <2>2, TypesSame DEF TcpInv
  <1>5. MainAt' /\ SetupAt' /\ AcceptAt'
    BY <1>2, IdleAt, NotSetup, NotAccepting DEF Running
  <1>6. FdsExact' /\ BacklogAt' /\ PeersApart' /\ ReceivedInOrder'
    BY <1>1, <1>2, FrameFds, FrameBacklog, FramePeers, FrameReceived DEF TcpInv
  <1>7. WorkerAt' /\ RepliesToCaller'
    BY <1>1, WorkersFree
  <1>. QED
    BY <1>3, <1>4, <1>5, <1>6, <1>7 DEF TcpInv

LEMMA SvcPollKeeps ==
  ASSUME TcpInv, Running, SvcPoll
  PROVE  TcpInv'
  <1>1. /\ spc = "poll" /\ pc[Main] = "idle"
        /\ events' = {s \in Sock : PollSlots(s) # {} /\ sock_xports[s] # BAD /\ Readable(s)}
        /\ spc' \in {"run", "getreq"}
        /\ UNCHANGED <<vars, order, network, fd, accept_sock, worker_return, conns, workers, handled>>
    BY DEF SvcPoll
  <1>2. events' \subseteq Sock /\ \A s \in events' : sock_xports[s] # BAD
    BY <1>1
  <1>3. ServedAt'
    BY <1>1, <1>2, SameVars DEF ServedAt
  <1>4. Serving = {} /\ fd' \in Sock \cup {NoFd}
    BY <1>1, NoneServing DEF TcpInv, TcpTypeOK
  <1>. QED
    BY <1>1, <1>2, <1>3, <1>4, MoveKeeps

LEMMA GetreqCommonKeeps ==
  ASSUME TcpInv, Running, NEW s \in Sock, SvcGetreqCommon(s)
  PROVE  TcpInv'
  <1>1. /\ spc = "getreq" /\ s \in events
        /\ fd' = s /\ events' = events \ {s} /\ spc' = "recv"
        /\ UNCHANGED <<vars, order, network, accept_sock, worker_return, conns, workers, handled>>
    BY DEF SvcGetreqCommon
  <1>2. pc[Main] = "idle" /\ Serving = {} /\ events \subseteq Sock
    BY <1>1, MainIdle, NoneServing DEF TcpInv, TcpTypeOK
  <1>3. ServedAt'
    BY <1>1, SameVars DEF TcpInv, ServedAt
  <1>. QED
    BY <1>1, <1>2, <1>3, MoveKeeps

LEMMA PollReturnKeeps ==
  ASSUME TcpInv, Running, SvcGetreqPollReturn
  PROVE  TcpInv'
  <1>1. /\ spc = "getreq" /\ spc' = "run"
        /\ UNCHANGED <<vars, order, network, events, fd, accept_sock, worker_return, conns,
                       workers, handled>>
    BY DEF SvcGetreqPollReturn
  <1>2. pc[Main] = "idle" /\ Serving = {} /\ events \subseteq Sock /\ fd \in Sock \cup {NoFd}
    BY <1>1, MainIdle, NoneServing DEF TcpInv, TcpTypeOK
  <1>3. ServedAt'
    BY <1>1, SameVars, FrameServed DEF TcpInv
  <1>. QED
    BY <1>1, <1>2, <1>3, MoveKeeps

LEMMA WaitOnReturnKeeps ==
  ASSUME TcpInv, Running, WaitOnReturn
  PROVE  TcpInv'
  <1>1. /\ spc = "wait" /\ spc' = "stat" /\ worker_return = 1
        /\ UNCHANGED <<vars, order, network, events, fd, accept_sock, worker_return, conns,
                       workers, handled>>
    BY DEF WaitOnReturn
  <1>2. pc[Main] = "idle" /\ Serving = {} /\ events \subseteq Sock /\ fd \in Sock \cup {NoFd}
    BY <1>1, MainIdle, NoneServing DEF TcpInv, TcpTypeOK
  <1>3. ServedAt'
    BY <1>1, SameVars DEF TcpInv, ServedAt
  <1>. QED
    BY <1>1, <1>2, <1>3, MoveKeeps

\* What is in the buffer is served before the next socket; a connection that
\* has died is destroyed.
LEMMA SvctcpStatKeeps ==
  ASSUME TcpInv, Running, SvctcpStat
  PROVE  TcpInv'
  <1>1. /\ spc = "stat"
        /\ UNCHANGED <<registry, gcvars, memory, fds, gcid, died, retired, order, network,
                       events, fd, accept_sock, worker_return, conns, workers, handled>>
    BY DEF SvctcpStat
  <1>2. pc[Main] = "idle" /\ Serving = {} /\ events \subseteq Sock /\ fd \in Sock \cup {NoFd}
    BY <1>1, MainIdle, NoneServing DEF TcpInv, TcpTypeOK
  <1>3. CASE ~HasDied(xprt)
    <2>1. spc' \in {"recv", "getreq"} /\ UNCHANGED vars
      BY <1>1, <1>3 DEF SvctcpStat, vars, threads
    <2>2. ServedAt'
      BY <1>1, <2>1, SameVars DEF TcpInv, ServedAt
    <2>. QED
      BY <1>1, <1>2, <2>1, <2>2, MoveKeeps
  <1>4. CASE HasDied(xprt)
    <2>1. /\ spc' = "destroy"
          /\ pc' = [pc EXCEPT ![Main] = "close"]
          /\ arg' = [arg EXCEPT ![Main] = xprt]
      BY <1>4 DEF SvctcpStat
    <2>2. fd \in Sock \ events /\ xprt \in Xprt /\ xprt # BAD /\ xprt = sock_xports[fd]
      BY <1>1, ServedXprt DEF TcpInv, ServedAt, xprt
    <2>3. /\ Main \in Threads
          /\ pc \in [Threads -> {"idle", "register", "scan"} \cup ReapSteps]
          /\ arg \in [Threads -> Xprt \cup {BAD}]
      BY DEF Threads, TcpInv, TcpRegistry, TypeOK
    <2>4. pc'[Main] = "close" /\ arg'[Main] = xprt /\ arg' \in [Threads -> Xprt \cup {BAD}]
      BY <2>1, <2>2, <2>3
    <2>5. UNCHANGED <<Tables, fds>>
      BY <1>1 DEF Tables, registry, gcvars, memory
    <2>6. UNCHANGED <<order, peer, sent, stream, backlog, peer_of, accept_sock, worker_return,
                      inbuf, x_id, strm_stat, wpc, handle, serves, handled, sock_xports, live, kind,
                      xp_sock, mtxp_id, fds, died>>
      BY <1>1 DEF network, conns, workers, registry, memory
    <2>7. TcpRegistry'
      BY <1>2, <2>1, <2>4, <2>5, TcpThreadKeeps DEF TcpInv
    <2>8. TcpTypeOK' /\ TcpFunctions'
      <3>1. {fd', accept_sock'} \subseteq Sock \cup {NoFd}
        BY <1>1 DEF TcpInv, TcpTypeOK
      <3>2. peer_of' \in [Sock -> Peers \cup {BAD}] /\ spc' \in Places
        BY <2>1, <2>6 DEF TcpInv, TcpTypeOK, Places
      <3>. QED
        BY <1>1, <1>2, <2>6, <2>7, <3>1, <3>2, TypesSame DEF TcpInv
    <2>9. MainAt' /\ SetupAt' /\ AcceptAt'
      BY <2>1, <2>4, <2>6, NotSetup, NotAccepting DEF MainAt, ReapSteps, Running
    <2>10. ServedAt'
      BY <1>1, <2>1, <2>2, <2>4, <2>6 DEF TcpInv, ServedAt
    <2>11. Closed = {} /\ Closed' = {} /\ Accepting = {} /\ Accepting' = {}
      BY <1>1, <1>2, <2>1, <2>4 DEF Closed, Accepting
    <2>12. FdsExact'
      BY <1>1, <1>2, <2>1, <2>4, <2>6, <2>11 DEF TcpInv, FdsExact, Registered
    <2>13. PeersApart'
      BY <2>6, <2>11 DEF TcpInv, PeersApart, Registered
    <2>14. BacklogAt' /\ ReceivedInOrder'
      BY <2>6, FrameBacklog, FrameReceived DEF TcpInv
    <2>15. WorkerAt' /\ RepliesToCaller'
      BY <1>2, <2>6, WorkersFree
    <2>. QED
      BY <2>7, <2>8, <2>9, <2>10, <2>12, <2>13, <2>14, <2>15 DEF TcpInv
  <1>. QED
    BY <1>3, <1>4

\* The scan for marked transports finds none.
LEMMA SvcRunKeeps ==
  ASSUME TcpInv, Running, SvcRun \/ Reap
  PROVE  TcpInv'
  <1>1. /\ spc \in {"run", "poll"} /\ spc' = "poll"
        /\ pc'[Main] \in {"idle", "scan"} /\ pc[Main] \in {"idle", "scan"}
    <2>1. Main \in Threads /\ pc \in [Threads -> {"idle", "register", "scan"} \cup ReapSteps]
      BY DEF Threads, TcpInv, TcpRegistry, TypeOK
    <2>2. CASE SvcRun
      BY <2>1, <2>2 DEF SvcRun, XprtGcReapAll
    <2>3. CASE Reap
      <3>1. pc[Main] = "scan" /\ pc' = [pc EXCEPT ![Main] = "idle"] /\ spc' = spc
        BY <2>3 DEF Reap, ReapAllReturn, tcp
      <3>2. spc = "poll"
        BY <3>1 DEF TcpInv, MainAt
      <3>. QED
        BY <2>1, <3>1, <3>2
    <2>. QED
      BY <2>2, <2>3
  <1>2. UNCHANGED <<order, network, events, fd, accept_sock, worker_return, conns, workers, handled,
                    registry, memory, fds, arg, died>>
    BY DEF SvcRun, Reap, XprtGcReapAll, ReapAllReturn, tcp
  <1>3. UNCHANGED <<order, peer, sent, stream, backlog, peer_of, events, fd, accept_sock,
                    worker_return, inbuf, x_id, strm_stat, wpc, handle, serves, handled, sock_xports,
                    live, kind, xp_sock, mtxp_id, fds, arg, died>>
    BY <1>2 DEF network, conns, workers, registry, memory
  <1>4. TcpRegistry'
    BY TcpReapKeeps DEF TcpInv, SvcRun, Reap, Running
  <1>5. TcpTypeOK' /\ TcpFunctions'
    <2>1. {fd', accept_sock'} \subseteq Sock \cup {NoFd} /\ events' \subseteq Sock
      BY <1>3 DEF TcpInv, TcpTypeOK
    <2>2. peer_of' \in [Sock -> Peers \cup {BAD}] /\ spc' \in Places
      BY <1>1, <1>3 DEF TcpInv, TcpTypeOK, Places
    <2>. QED
      BY <1>3, <1>4, <2>1, <2>2, TypesSame DEF TcpInv
  <1>6. MainAt' /\ SetupAt' /\ AcceptAt'
    BY <1>1, <1>3, NotSetup, NotAccepting DEF MainAt, ReapSteps, Running
  <1>7. ServedAt'
    BY <1>1, <1>3 DEF TcpInv, ServedAt
  <1>8. Closed = {} /\ Closed' = {} /\ Accepting = {} /\ Accepting' = {}
    BY <1>1 DEF Closed, Accepting
  <1>9. FdsExact'
    BY <1>1, <1>3, <1>8 DEF TcpInv, FdsExact, Registered
  <1>10. PeersApart'
    BY <1>3, <1>8 DEF TcpInv, PeersApart, Registered
  <1>11. BacklogAt' /\ ReceivedInOrder'
    BY <1>3, FrameBacklog, FrameReceived DEF TcpInv
  <1>12. WorkerAt' /\ RepliesToCaller'
    BY <1>1, <1>3, NoneServing, WorkersFree DEF TcpInv
  <1>. QED
    BY <1>4, <1>5, <1>6, <1>7, <1>9, <1>10, <1>11, <1>12 DEF TcpInv

-----------------------------------------------------------------------------
(* A connection that has died is destroyed.                                *)

\* The transport that the destructor works on.
LEMMA DoomedXprt ==
  ASSUME TcpInv, spc = "destroy", pc[Main] \in {"close", "unregister"}
  PROVE  /\ fd \in Sock \ events /\ sock_xports[fd] = arg[Main]
         /\ arg[Main] \in Xprt /\ Registered(arg[Main]) /\ xp_sock[arg[Main]] = fd
         /\ \A x \in live : Registered(x) /\ (xp_sock[x] = fd => x = arg[Main])
  <1>1. fd \in Sock \ events /\ sock_xports[fd] = arg[Main]
    BY DEF TcpInv, ServedAt
  <1>2. \A x \in live : Registered(x)
    BY DEF TcpInv, FdsExact
  <1>3. arg[Main] # BAD
    BY DEF TcpInv, ServedAt
  <1>. QED
    BY <1>1, <1>2, <1>3, OwnerOfSocket DEF TcpInv, TcpRegistry, TypeOK

LEMMA DestroyCloseKeeps ==
  ASSUME TcpInv, Running, SvctcpDestroyClose
  PROVE  TcpInv'
  <1> DEFINE x == arg[Main]
  <1>1. /\ spc = "destroy" /\ pc[Main] = "close" /\ pc'[Main] = "unregister"
        /\ fds' = fds \ {xp_sock[x]}
        /\ peer_of' = [peer_of EXCEPT ![xp_sock[x]] = BAD]
        /\ UNCHANGED <<registry, memory, arg, died>>
        /\ UNCHANGED <<order, peer, sent, stream, backlog, spc, events, fd, accept_sock,
                       worker_return, conns, workers, handled>>
    BY DEF SvctcpDestroyClose, DestroyClose, TcpInv, TcpRegistry, TypeOK, Threads
  <1>2. UNCHANGED <<inbuf, x_id, strm_stat, wpc, handle, serves, sock_xports, live, kind,
                    xp_sock, mtxp_id>>
    BY <1>1 DEF conns, workers, registry, memory
  <1>3. /\ fd \in Sock \ events /\ sock_xports[fd] = x
        /\ x \in Xprt /\ Registered(x) /\ xp_sock[x] = fd
        /\ \A y \in live : Registered(y) /\ (xp_sock[y] = fd => y = x)
    BY <1>1, DoomedXprt
  <1>. HIDE DEF x
  <1>4. TcpRegistry'
    BY <1>3, TcpCloseKeeps DEF TcpInv, SvctcpDestroyClose, x
  <1>5. /\ peer_of \in [Sock -> Peers \cup {BAD}] /\ peer_of' \in [Sock -> Peers \cup {BAD}]
        /\ \A s \in Sock : peer_of'[s] = IF s = fd THEN BAD ELSE peer_of[s]
    BY <1>1, <1>3 DEF TcpInv, TcpTypeOK
  <1>6. TcpTypeOK' /\ TcpFunctions'
    <2>1. {fd', accept_sock'} \subseteq Sock \cup {NoFd} /\ events' \subseteq Sock /\ spc' \in Places
      BY <1>1 DEF TcpInv, TcpTypeOK, Places
    <2>. QED
      BY <1>1, <1>2, <1>4, <1>5, <2>1, TypesSame DEF TcpInv
  <1>7. MainAt' /\ SetupAt' /\ AcceptAt'
    BY <1>1, NotSetup, NotAccepting DEF MainAt, ReapSteps, Running
  <1>8. ServedAt'
    BY <1>1, <1>2 DEF TcpInv, ServedAt
  <1>9. Closed = {} /\ Closed' = {x} /\ Accepting = {} /\ Accepting' = {}
    BY <1>1 DEF Closed, Accepting, x
  <1>10. FdsExact'
    <2>1. fds = {xp_sock[y] : y \in live}
      BY <1>1, <1>9 DEF TcpInv, FdsExact
    <2>2. fds' = {xp_sock[y] : y \in live \ {x}}
      BY <1>1, <1>3, <2>1
    <2>3. \A y \in live : Registered(y)'
      BY <1>2, <1>3 DEF Registered
    <2>. QED
      BY <1>1, <1>2, <1>9, <2>2, <2>3 DEF FdsExact
  <1>11. BacklogAt'
    <2>1. \A i \in DOMAIN backlog : backlog[i] # BAD
      BY TcpAssumption DEF TcpInv, TcpTypeOK
    <2>2. \A p \in Peers : Fresh(p)' <=> Fresh(p)
      BY <1>1 DEF Fresh
    <2>3. \A i \in DOMAIN backlog : backlog[i] \in Peers
      BY DEF TcpInv, TcpTypeOK
    <2>. QED
      BY <1>1, <1>5, <2>1, <2>2, <2>3 DEF TcpInv, BacklogAt
  <1>12. PeersApart'
    <2>1. \A s \in Sock : peer_of'[s] # BAD => peer_of'[s] = peer_of[s]
      BY <1>5
    <2>2. ASSUME NEW y \in Xprt, Registered(y), kind[y] = "connection", y # x
          PROVE  peer_of'[xp_sock[y]] # BAD
      <3>1. xp_sock[y] \in Sock /\ xp_sock[y] # fd
        BY <1>3, <2>2, OwnerOfSocket DEF TcpInv
      <3>2. peer_of[xp_sock[y]] # BAD
        BY <1>9, <2>2 DEF TcpInv, PeersApart
      <3>. QED
        BY <1>5, <3>1, <3>2
    <2>. QED
      BY <1>1, <1>2, <1>9, <2>1, <2>2 DEF TcpInv, PeersApart, Registered
  <1>13. ReceivedInOrder'
    <2>1. \A y \in Xprt : Registered(y) => xp_sock[y] \in Sock
      BY OwnerOfSocket DEF TcpInv
    <2>2. \A y \in Xprt : Registered(y) /\ peer_of'[xp_sock[y]] # BAD =>
            peer_of'[xp_sock[y]] = peer_of[xp_sock[y]]
      BY <1>5, <2>1
    <2>. QED
      BY <1>1, <1>2, <2>2 DEF TcpInv, ReceivedInOrder, Registered
  <1>14. WorkerAt' /\ RepliesToCaller'
    BY <1>1, <1>2, NoneServing, WorkersFree DEF TcpInv
  <1>. QED
    BY <1>4, <1>6, <1>7, <1>8, <1>10, <1>11, <1>12, <1>13, <1>14 DEF TcpInv

LEMMA DestroyUnregisterKeeps ==
  ASSUME SmallIds, TcpInv, Running, SvctcpDestroyUnregister
  PROVE  TcpInv'
  <1> DEFINE x == arg[Main]
  <1>1. spc = "destroy" /\ pc[Main] = "unregister" /\ DestroyUnregister /\ UNCHANGED tcp
    BY DEF SvctcpDestroyUnregister, DestroyUnregister
  <1>2. /\ fd \in Sock \ events /\ sock_xports[fd] = x
        /\ x \in Xprt /\ Registered(x) /\ xp_sock[x] = fd
        /\ \A y \in live : Registered(y) /\ (xp_sock[y] = fd => y = x)
    BY <1>1, DoomedXprt
  <1>3. /\ sock_xports' = [sock_xports EXCEPT ![xp_sock[x]] = BAD]
        /\ live' = live \ {x}
        /\ pc' = [pc EXCEPT ![Main] = "finish"]
        /\ UNCHANGED <<kind, xp_sock, mtxp_id, fds, arg, died>>
    BY <1>1, <1>2, TcpUnregisterSteps DEF TcpInv
  <1>4. UNCHANGED <<order, peer, sent, stream, backlog, peer_of, spc, events, fd, accept_sock,
                    worker_return, inbuf, x_id, strm_stat, wpc, handle, serves, handled>>
    BY <1>1 DEF tcp, network, conns, workers
  <1>5. TcpRegistry'
    BY <1>1, <1>2, TcpUnregisterKeeps DEF TcpInv, Running
  <1>. HIDE DEF x
  <1>6. pc'[Main] = "finish"
    BY <1>3 DEF TcpInv, TcpRegistry, TypeOK, Threads
  <1>7. \A s \in Sock : sock_xports'[s] = IF s = fd THEN BAD ELSE sock_xports[s]
    BY <1>2, <1>3 DEF TcpInv, TcpRegistry, TypeOK
  <1>8. TcpTypeOK' /\ TcpFunctions'
    <2>1. {fd', accept_sock'} \subseteq Sock \cup {NoFd} /\ events' \subseteq Sock /\ spc' \in Places
      BY <1>4 DEF TcpInv, TcpTypeOK, Places
    <2>2. peer_of' \in [Sock -> Peers \cup {BAD}]
      BY <1>4 DEF TcpInv, TcpTypeOK
    <2>. QED
      BY <1>4, <1>5, <2>1, <2>2, TypesSame DEF TcpInv
  <1>9. MainAt' /\ SetupAt' /\ AcceptAt'
    BY <1>1, <1>3, <1>4, <1>6, NotSetup, NotAccepting DEF MainAt, ReapSteps, Running
  <1>10. ServedAt'
    <2>1. \A s \in events : s \in Sock /\ s # fd /\ sock_xports[s] # BAD
      BY <1>2 DEF TcpInv, TcpTypeOK, ServedAt
    <2>. QED
      BY <1>1, <1>4, <1>6, <1>7, <2>1 DEF ServedAt
  <1>11. Closed = {x} /\ Closed' = {} /\ Accepting = {} /\ Accepting' = {}
    BY <1>1, <1>4, <1>6 DEF Closed, Accepting, x
  <1>12. \A y \in Xprt : Registered(y)' <=> (Registered(y) /\ y # x)
    BY <1>3 DEF Registered
  <1>13. FdsExact'
    <2>1. fds = {xp_sock[y] : y \in live \ {x}}
      BY <1>1, <1>11 DEF TcpInv, FdsExact
    <2>2. \A y \in live' : Registered(y)'
      BY <1>2, <1>3 DEF Registered
    <2>. QED
      BY <1>1, <1>3, <1>4, <1>11, <2>1, <2>2 DEF FdsExact
  <1>14. PeersApart'
    BY <1>3, <1>4, <1>11, <1>12 DEF TcpInv, PeersApart
  <1>15. BacklogAt'
    BY <1>4, FrameBacklog DEF TcpInv
  <1>16. ReceivedInOrder'
    BY <1>3, <1>4, <1>12 DEF TcpInv, ReceivedInOrder
  <1>17. WorkerAt' /\ RepliesToCaller'
    BY <1>1, <1>4, NoneServing, WorkersFree DEF TcpInv
  <1>. QED
    BY <1>5, <1>8, <1>9, <1>10, <1>13, <1>14, <1>15, <1>16, <1>17 DEF TcpInv

LEMMA DestroyReturnKeeps ==
  ASSUME TcpInv, Running, SvctcpDestroyReturn
  PROVE  TcpInv'
  <1>1. /\ spc = "destroy" /\ pc[Main] = "finish" /\ spc' = "getreq"
        /\ pc' = [pc EXCEPT ![Main] = "idle"]
        /\ UNCHANGED <<registry, gcvars, memory, fds, arg, gcid, died, retired, order, network,
                       events, fd, accept_sock, worker_return, conns, workers, handled>>
    BY DEF SvctcpDestroyReturn
  <1>2. /\ pc'[Main] = "idle"
        /\ arg' \in [Threads -> Xprt \cup {BAD}]
    BY <1>1 DEF TcpInv, TcpRegistry, TypeOK, Threads
  <1>3. UNCHANGED <<Tables, fds>>
    BY <1>1 DEF Tables, registry, gcvars, memory
  <1>4. UNCHANGED <<order, peer, sent, stream, backlog, peer_of, events, fd, accept_sock,
                    worker_return, inbuf, x_id, strm_stat, wpc, handle, serves, handled, sock_xports,
                    live, kind, xp_sock, mtxp_id, fds, arg, died>>
    BY <1>1 DEF network, conns, workers, registry, memory
  <1>5. TcpRegistry'
    BY <1>1, <1>2, <1>3, TcpThreadKeeps DEF TcpInv
  <1>6. TcpTypeOK' /\ TcpFunctions'
    <2>1. {fd', accept_sock'} \subseteq Sock \cup {NoFd} /\ events' \subseteq Sock /\ spc' \in Places
      BY <1>1 DEF TcpInv, TcpTypeOK, Places
    <2>2. peer_of' \in [Sock -> Peers \cup {BAD}]
      BY <1>4 DEF TcpInv, TcpTypeOK
    <2>. QED
      BY <1>4, <1>5, <2>1, <2>2, TypesSame DEF TcpInv
  <1>7. MainAt' /\ SetupAt' /\ AcceptAt'
    BY <1>1, <1>2, IdleAt, NotSetup, NotAccepting DEF Running
  <1>8. ServedAt'
    BY <1>1, <1>4 DEF TcpInv, ServedAt
  <1>9. Closed = {} /\ Closed' = {} /\ Accepting = {} /\ Accepting' = {}
    BY <1>1, <1>2 DEF Closed, Accepting
  <1>10. FdsExact'
    BY <1>1, <1>4, <1>9 DEF TcpInv, FdsExact, Registered
  <1>11. PeersApart'
    BY <1>4, <1>9 DEF TcpInv, PeersApart, Registered
  <1>12. BacklogAt' /\ ReceivedInOrder'
    BY <1>4, FrameBacklog, FrameReceived DEF TcpInv
  <1>13. WorkerAt' /\ RepliesToCaller'
    BY <1>1, <1>4, NoneServing, WorkersFree DEF TcpInv
  <1>. QED
    BY <1>5, <1>6, <1>7, <1>8, <1>10, <1>11, <1>12, <1>13 DEF TcpInv

-----------------------------------------------------------------------------
(* The rendezvous.                                                         *)

LEMMA LowestIn ==
  ASSUME NEW S \in SUBSET Nat, S # {}
  PROVE  Lowest(S) \in S
  BY LeastNatural DEF Lowest

LEMMA HighestIn ==
  ASSUME NEW n \in Nat, NEW S \in SUBSET (0 .. n), S # {}
  PROVE  Highest(S) \in S
  <1> DEFINE T == {n - k : k \in S}
  <1>1. T \in SUBSET Nat /\ T # {}
    <2>1. PICK k \in S : TRUE
      OBVIOUS
    <2>2. n - k \in T
      BY <2>1
    <2>3. \A i \in S : n - i \in Nat
      OBVIOUS
    <2>. QED
      BY <2>2, <2>3
  <1>2. PICK m \in T : \A k \in T : m <= k
    BY <1>1, LeastNatural
  <1>3. PICK j \in S : m = n - j
    OBVIOUS
  <1>4. ASSUME NEW k \in S
        PROVE  j >= k
    <2>1. n - j <= n - k
      BY <1>2, <1>3
    <2>. QED
      BY <2>1
  <1>. QED
    BY <1>3, <1>4 DEF Highest

\* The first connection leaves the backlog.
LEMMA BacklogShrinks ==
  ASSUME BacklogAt, backlog \in Seq(Peers), backlog # <<>>, backlog' = Tail(backlog),
         UNCHANGED <<peer, handled, stream, sent>>,
         \A i \in DOMAIN backlog : i # 1 => \A s \in Sock : peer_of'[s] # backlog[i]
  PROVE  BacklogAt'
  <1>1. \A i \in DOMAIN backlog' :
          i + 1 \in DOMAIN backlog /\ i + 1 # 1 /\ backlog'[i] = backlog[i + 1] /\ i \in Nat
    BY TailProperties
  <1>2. \A i, j \in DOMAIN backlog' : backlog'[i] = backlog'[j] => i = j
    <2>1. SUFFICES ASSUME NEW i \in DOMAIN backlog', NEW j \in DOMAIN backlog',
                          backlog'[i] = backlog'[j]
                   PROVE  i = j
      OBVIOUS
    <2>2. i + 1 = j + 1
      BY <1>1, <2>1 DEF BacklogAt
    <2>. QED
      BY <1>1, <2>2
  <1>3. ASSUME NEW i \in DOMAIN backlog'
        PROVE  /\ peer[backlog'[i]] # "off" /\ Fresh(backlog[i])'
               /\ \A s \in Sock : peer_of'[s] # backlog'[i]
    <2>1. peer[backlog[i + 1]] # "off" /\ Fresh(backlog[i + 1])
      BY <1>1 DEF BacklogAt
    <2>2. Fresh(backlog[i])'
      BY <1>1, <2>1 DEF Fresh
    <2>. QED
      BY <1>1, <2>1, <2>2
  <1>4. \A q \in Peers : Fresh(q)' <=> Fresh(q)
    BY DEF Fresh
  <1>. QED
    BY <1>2, <1>3, <1>4 DEF BacklogAt

\* accept() takes the first connection of the backlog.
LEMMA RendezvousKeeps ==
  ASSUME TcpInv, Running, RendezvousRequest
  PROVE  TcpInv'
  <1> DEFINE s == Lowest(Unopened)
             p == Head(backlog)
  <1>1. /\ spc = "recv" /\ backlog # <<>> /\ Unopened # {} /\ spc' = "move"
        /\ accept_sock' = s /\ fds' = fds \cup {s}
        /\ peer_of' = [peer_of EXCEPT ![s] = p]
        /\ backlog' = Tail(backlog)
        /\ UNCHANGED <<registry, gcvars, memory, threads, died, retired>>
        /\ UNCHANGED <<order, peer, sent, stream, events, fd, worker_return, conns, workers, handled>>
    BY DEF RendezvousRequest, AtRendezvous
  <1>2. UNCHANGED <<inbuf, x_id, strm_stat, wpc, handle, serves, sock_xports, live, kind,
                    xp_sock, mtxp_id, pc, arg>>
    BY <1>1 DEF conns, workers, registry, memory, threads
  <1>3. s \in Sock /\ s \notin fds
    <2>1. Unopened \in SUBSET Nat
      BY TcpAssumption DEF Unopened
    <2>2. s \in Unopened
      BY <1>1, <2>1, LowestIn
    <2>. QED
      BY <2>2 DEF Unopened
  <1>4. pc[Main] = "idle" /\ Serving = {}
    BY <1>1, MainIdle, NoneServing DEF TcpInv
  <1>5. /\ DOMAIN backlog = 1 .. Len(backlog) /\ Len(backlog) \in Nat /\ Len(backlog) >= 1
        /\ p = backlog[1] /\ p \in Peers /\ Tail(backlog) \in Seq(Peers)
        /\ \A i \in DOMAIN Tail(backlog) :
             i \in Nat /\ i + 1 \in DOMAIN backlog /\ i + 1 # 1 /\ Tail(backlog)[i] = backlog[i + 1]
    BY <1>1, TailProperties DEF TcpInv, TcpTypeOK
  <1>6. /\ 1 \in DOMAIN backlog /\ p # BAD /\ peer[p] # "off" /\ Fresh(p)
        /\ \A r \in Sock : peer_of[r] # p
    BY <1>5, TcpAssumption DEF TcpInv, BacklogAt
  <1>. HIDE DEF s, p
  <1>7. TcpRegistry'
    BY <1>1, <1>3, <1>4, TcpFdsKeep DEF TcpInv, TcpRegistry, TypeOK
  <1>8. /\ peer_of \in [Sock -> Peers \cup {BAD}] /\ peer_of' \in [Sock -> Peers \cup {BAD}]
        /\ \A r \in Sock : peer_of'[r] = IF r = s THEN p ELSE peer_of[r]
    BY <1>1, <1>3, <1>5 DEF TcpInv, TcpTypeOK
  <1>9. TcpTypeOK' /\ TcpFunctions'
    <2>1. TypeOK'
      BY <1>7 DEF TcpRegistry
    <2>. QED
      BY <1>1, <1>2, <1>3, <1>5, <1>8, <2>1 DEF TcpInv, TcpTypeOK, TcpFunctions
  <1>10. MainAt' /\ SetupAt'
    BY <1>1, <1>2, <1>4, IdleAt, NotSetup DEF Running
  <1>11. ServedAt'
    BY <1>1, <1>2, FrameServed DEF TcpInv
  <1>12. Closed = {} /\ Closed' = {} /\ Accepting = {} /\ Accepting' = {s}
    BY <1>1, <1>2, <1>4 DEF Closed, Accepting
  <1>13. \A x \in live : xp_sock[x] # s /\ xp_sock[x] \in Sock
    BY <1>3, <1>4, DescriptorsOpen
  <1>14. FdsExact'
    BY <1>1, <1>2, <1>12 DEF TcpInv, FdsExact, Registered
  <1>15. \A q \in Peers : Fresh(q)' <=> Fresh(q)
    BY <1>1 DEF Fresh
  <1>16. AcceptAt'
    <2>1. accept_sock' = s /\ peer_of'[s] = p
      BY <1>1, <1>3, <1>8
    <2>2. Fresh(peer_of[accept_sock])'
      BY <1>1, <1>6, <2>1 DEF Fresh
    <2>. QED
      BY <1>1, <1>2, <1>3, <1>6, <1>13, <2>1, <2>2 DEF AcceptAt
  <1>17. BacklogAt'
    <2>1. ASSUME NEW i \in DOMAIN backlog, i # 1, NEW r \in Sock
          PROVE  peer_of'[r] # backlog[i]
      BY <1>5, <1>6, <1>8, <2>1 DEF TcpInv, BacklogAt
    <2>2. backlog \in Seq(Peers)
      BY DEF TcpInv, TcpTypeOK
    <2>. QED
      BY <1>1, <2>1, <2>2, BacklogShrinks DEF TcpInv
  <1>18. PeersApart'
    <2>1. \A r \in Sock : peer_of'[r] # BAD => peer[peer_of'[r]] # "off"
      BY <1>6, <1>8 DEF TcpInv, PeersApart
    <2>2. \A r, q \in Sock : peer_of'[r] # BAD /\ peer_of'[r] = peer_of'[q] => r = q
      BY <1>6, <1>8 DEF TcpInv, PeersApart
    <2>3. \A x \in live : peer_of'[xp_sock[x]] = peer_of[xp_sock[x]]
      BY <1>8, <1>13
    <2>. QED
      BY <1>1, <1>2, <1>12, <2>1, <2>2, <2>3 DEF TcpInv, PeersApart, Registered
  <1>19. ReceivedInOrder'
    <2>1. \A x \in live : peer_of'[xp_sock[x]] = peer_of[xp_sock[x]]
      BY <1>8, <1>13
    <2>. QED
      BY <1>1, <1>2, <2>1 DEF TcpInv, ReceivedInOrder, Registered
  <1>20. WorkerAt' /\ RepliesToCaller'
    BY <1>2, <1>4, WorkersFree
  <1>. QED
    BY <1>7, <1>9, <1>10, <1>11, <1>14, <1>16, <1>17, <1>18, <1>19, <1>20 DEF TcpInv

\* accept() fails: the connection stays in the backlog, or is gone.
LEMMA AcceptFailedKeeps ==
  ASSUME TcpInv, Running, SvcAcceptFailed
  PROVE  TcpInv'
  <1>1. /\ spc = "recv" /\ spc' = "getreq" /\ backlog # <<>>
        /\ UNCHANGED backlog \/ backlog' = Tail(backlog)
        /\ UNCHANGED <<vars, order, peer, sent, stream, peer_of, events, fd, accept_sock,
                       worker_return, conns, workers, handled>>
    BY DEF SvcAcceptFailed, AtRendezvous
  <1>2. UNCHANGED <<inbuf, x_id, strm_stat, wpc, handle, serves>>
    BY <1>1 DEF conns, workers
  <1>3. UNCHANGED <<sock_xports, live, kind, xp_sock, mtxp_id, fds, pc, arg, died>>
    BY <1>1, SameVars
  <1>4. pc[Main] = "idle" /\ Serving = {}
    BY <1>1, MainIdle, NoneServing DEF TcpInv
  <1>5. TcpRegistry'
    BY <1>1, TcpUntouched DEF TcpInv
  <1>6. backlog \in Seq(Peers) /\ backlog' \in Seq(Peers)
    <2>1. backlog \in Seq(Peers)
      BY DEF TcpInv, TcpTypeOK
    <2>2. Tail(backlog) \in Seq(Peers)
      BY <1>1, <2>1, TailProperties
    <2>. QED
      BY <1>1, <2>1, <2>2
  <1>7. TcpTypeOK' /\ TcpFunctions'
    <2>1. TypeOK'
      BY <1>5 DEF TcpRegistry
    <2>. QED
      BY <1>1, <1>2, <1>6, <2>1 DEF TcpInv, TcpTypeOK, TcpFunctions
  <1>8. MainAt' /\ SetupAt' /\ AcceptAt'
    BY <1>1, <1>3, <1>4, IdleAt, NotSetup, NotAccepting DEF Running
  <1>9. ServedAt' /\ FdsExact' /\ PeersApart' /\ ReceivedInOrder'
    BY <1>1, <1>2, <1>3, FrameServed, FrameFds, FramePeers, FrameReceived DEF TcpInv
  <1>10. BacklogAt'
    <2>1. CASE UNCHANGED backlog
      BY <1>1, <2>1, FrameBacklog DEF TcpInv
    <2>2. CASE backlog' = Tail(backlog)
      <3>1. \A i \in DOMAIN backlog : \A s \in Sock : peer_of'[s] # backlog[i]
        BY <1>1 DEF TcpInv, BacklogAt
      <3>. QED
        BY <1>1, <1>6, <2>2, <3>1, BacklogShrinks DEF TcpInv
    <2>. QED
      BY <1>1, <2>1, <2>2
  <1>11. WorkerAt' /\ RepliesToCaller'
    BY <1>2, <1>4, WorkersFree
  <1>. QED
    BY <1>5, <1>7, <1>8, <1>9, <1>10, <1>11 DEF TcpInv

\* move_fd() finds no other descriptor, and the service ends.
LEMMA MoveFdFailedKeeps ==
  ASSUME TcpInv, Running, MoveFd, order # 0 /\ Vacant = {}
  PROVE  TcpInv'
  <1>1. /\ spc = "move" /\ spc' = "no descriptor"
        /\ UNCHANGED <<vars, accept_sock, peer_of, order, peer, sent, stream, backlog, events, fd,
                       worker_return, conns, workers, handled>>
    BY DEF MoveFd
  <1>2. UNCHANGED <<inbuf, x_id, strm_stat, wpc, handle, serves>>
    BY <1>1 DEF conns, workers
  <1>3. UNCHANGED <<sock_xports, live, kind, xp_sock, mtxp_id, fds, pc, arg, died>>
    BY <1>1, SameVars
  <1>4. pc[Main] = "idle" /\ Serving = {}
    BY <1>1, MainIdle, NoneServing DEF TcpInv
  <1>5. TcpRegistry'
    BY <1>1, TcpUntouched DEF TcpInv
  <1>6. TcpTypeOK' /\ TcpFunctions'
    <2>1. TypeOK'
      BY <1>5 DEF TcpRegistry
    <2>. QED
      BY <1>1, <1>2, <2>1 DEF TcpInv, TcpTypeOK, TcpFunctions, Stopped
  <1>7. MainAt' /\ SetupAt' /\ AcceptAt'
    BY <1>1, <1>3, <1>4, IdleAt, NotSetup, NotAccepting DEF Running
  <1>8. ServedAt' /\ BacklogAt' /\ PeersApart' /\ ReceivedInOrder'
    BY <1>1, <1>2, <1>3, FrameServed, FrameBacklog, FramePeers, FrameReceived DEF TcpInv
  <1>9. FdsExact'
    <2>1. Accepting = {accept_sock} /\ Accepting' = {accept_sock} /\ Closed' = Closed
      BY <1>1, <1>3 DEF Accepting, Closed
    <2>2. lo .. hi \subseteq fds
      BY DEF Vacant
    <2>. QED
      BY <1>1, <1>3, <2>1, <2>2 DEF TcpInv, FdsExact, Registered
  <1>10. WorkerAt' /\ RepliesToCaller'
    BY <1>2, <1>4, WorkersFree
  <1>. QED
    BY <1>5, <1>6, <1>7, <1>8, <1>9, <1>10 DEF TcpInv

\* The connection gets another descriptor, which belongs to nobody.
LEMMA MoveFdKeeps ==
  ASSUME TcpInv, Running, MoveFd, ~(order # 0 /\ Vacant = {})
  PROVE  TcpInv'
  <1> DEFINE a == accept_sock
             p == peer_of[a]
  <1>1. PICK s : /\ s = CASE order = 0  -> a
                          [] order = 1  -> Lowest(Vacant)
                          [] order = -1 -> Highest(Vacant)
                 /\ accept_sock' = s
                 /\ peer_of' = [peer_of EXCEPT ![a] = BAD, ![s] = p]
    BY DEF MoveFd
  <1>2. /\ spc = "move" /\ spc' = "make" /\ fds' = fds \ {a}
        /\ UNCHANGED <<registry, gcvars, memory, threads, died, retired>>
        /\ UNCHANGED <<order, peer, sent, stream, backlog, events, fd, worker_return, conns,
                       workers, handled>>
    BY DEF MoveFd, CloseMoved
  <1>3. UNCHANGED <<inbuf, x_id, strm_stat, wpc, handle, serves, sock_xports, live, kind,
                    xp_sock, mtxp_id, pc, arg>>
    BY <1>2 DEF conns, workers, registry, memory, threads
  <1>4. /\ a \in Sock /\ p # BAD /\ Fresh(p)
        /\ \A x \in live : xp_sock[x] # a
    BY <1>2 DEF TcpInv, AcceptAt
  <1>5. s = a \/ s \in Sock \ fds
    <2>1. order \in {-1, 0, 1}
      BY TcpAssumption DEF TcpInv, TcpTypeOK
    <2>2. Vacant \subseteq Sock \ fds
      BY TcpAssumption DEF Vacant
    <2>3. hi \in Nat /\ lo \in Nat
      BY TcpAssumption
    <2>4. Vacant \in SUBSET (0 .. hi) /\ Vacant \in SUBSET Nat
      BY <2>3 DEF Vacant
    <2>5. Vacant # {} => Lowest(Vacant) \in Vacant /\ Highest(Vacant) \in Vacant
      BY <2>3, <2>4, LowestIn, HighestIn
    <2>6. CASE order = 0
      BY <1>1, <2>6
    <2>7. CASE order = 1
      BY <1>1, <2>2, <2>5, <2>7
    <2>8. CASE order = -1
      BY <1>1, <2>2, <2>5, <2>8
    <2>. QED
      BY <2>1, <2>6, <2>7, <2>8
  <1>6. pc[Main] = "idle" /\ Serving = {}
    BY <1>2, MainIdle, NoneServing DEF TcpInv
  <1>7. /\ peer_of \in [Sock -> Peers \cup {BAD}] /\ peer_of' \in [Sock -> Peers \cup {BAD}]
        /\ s \in Sock
        /\ \A r \in Sock : peer_of'[r] = IF r = s THEN p ELSE IF r = a THEN BAD ELSE peer_of[r]
    BY <1>1, <1>4, <1>5 DEF TcpInv, TcpTypeOK
  <1>8. \A x \in live : xp_sock[x] # s /\ xp_sock[x] # a /\ xp_sock[x] \in Sock
    BY <1>4, <1>5, <1>6, DescriptorsOpen
  <1>. HIDE DEF a, p
  <1>9. TcpRegistry'
    <2>1. sock_xports[a] = BAD
      BY <1>4, OwnerOfSocket DEF TcpInv, Registered
    <2>2. fds' \subseteq Sock /\ \A r \in fds \ fds' : sock_xports[r] = BAD
      BY <1>2, <2>1 DEF TcpInv, TcpRegistry, TypeOK
    <2>. QED
      BY <1>2, <1>6, <2>2, TcpFdsKeep DEF TcpInv
  <1>10. TcpTypeOK' /\ TcpFunctions'
    <2>1. {fd, accept_sock} \subseteq Sock \cup {NoFd} /\ events \subseteq Sock
      BY DEF TcpInv, TcpTypeOK
    <2>2. fd' = fd /\ events' = events /\ accept_sock' = s
      BY <1>1, <1>2
    <2>3. {fd', accept_sock'} \subseteq Sock \cup {NoFd} /\ events' \subseteq Sock
      BY ONLY <1>7, <2>1, <2>2
    <2>4. spc' \in Places
      BY ONLY <1>2 DEF Places
    <2>. QED
      BY <1>2, <1>3, <1>7, <1>9, <2>3, <2>4, TypesSame DEF TcpInv
  <1>11. MainAt' /\ SetupAt'
    BY <1>2, <1>3, <1>6, IdleAt, NotSetup DEF Running
  <1>12. ServedAt'
    BY <1>2, <1>3, FrameServed DEF TcpInv
  <1>13. Closed = {} /\ Closed' = {} /\ Accepting = {a} /\ Accepting' = {}
    BY <1>2, <1>3, <1>6 DEF Closed, Accepting, a
  <1>14. FdsExact'
    <2>1. fds = {xp_sock[x] : x \in live} \cup {a}
      BY <1>2, <1>13 DEF TcpInv, FdsExact
    <2>2. fds' = {xp_sock[x] : x \in live}
      BY <1>2, <1>8, <2>1
    <2>. QED
      BY <1>2, <1>3, <1>13, <2>2 DEF TcpInv, FdsExact, Registered
  <1>15. AcceptAt'
    <2>1. accept_sock' = s /\ peer_of'[s] = p
      BY <1>1, <1>7
    <2>2. Fresh(peer_of[accept_sock])'
      BY <1>2, <1>4, <2>1 DEF Fresh
    <2>3. s \notin fds'
      BY <1>2, <1>5
    <2>. QED
      BY <1>2, <1>3, <1>4, <1>6, <1>7, <2>1, <2>2, <2>3 DEF AcceptAt
  <1>16. \A r \in Sock : peer_of'[r] # BAD => \E q \in Sock : peer_of[q] = peer_of'[r]
    BY <1>4, <1>7 DEF p
  <1>17. BacklogAt'
    <2>1. \A i \in DOMAIN backlog : backlog[i] \in Peers /\ backlog[i] # BAD
      BY TcpAssumption DEF TcpInv, TcpTypeOK
    <2>2. \A q \in Peers : Fresh(q)' <=> Fresh(q)
      BY <1>2 DEF Fresh
    <2>3. \A i \in DOMAIN backlog : \A r \in Sock : peer_of'[r] # backlog[i]
      BY <1>16, <2>1 DEF TcpInv, BacklogAt
    <2>. QED
      BY <1>2, <2>1, <2>2, <2>3 DEF TcpInv, BacklogAt
  <1>18. PeersApart'
    <2>1. \A r \in Sock : peer_of'[r] # BAD => peer[peer_of'[r]] # "off"
      BY <1>16 DEF TcpInv, PeersApart
    <2>2. \A r, q \in Sock : peer_of'[r] # BAD /\ peer_of'[r] = peer_of'[q] => r = q
      BY <1>4, <1>7 DEF TcpInv, PeersApart, p
    <2>3. \A x \in live : peer_of'[xp_sock[x]] = peer_of[xp_sock[x]]
      BY <1>7, <1>8
    <2>. QED
      BY <1>2, <1>3, <1>13, <2>1, <2>2, <2>3 DEF TcpInv, PeersApart, Registered
  <1>19. ReceivedInOrder'
    <2>1. \A x \in live : peer_of'[xp_sock[x]] = peer_of[xp_sock[x]]
      BY <1>7, <1>8
    <2>. QED
      BY <1>2, <1>3, <2>1 DEF TcpInv, ReceivedInOrder, Registered
  <1>20. WorkerAt' /\ RepliesToCaller'
    BY <1>3, <1>6, WorkersFree
  <1>. QED
    BY <1>9, <1>10, <1>11, <1>12, <1>14, <1>15, <1>17, <1>18, <1>19, <1>20 DEF TcpInv

-----------------------------------------------------------------------------
(* Transports are created and registered.                                  *)

LEMMA ConstructSteps ==
  ASSUME TcpRegistry, NEW x \in Xprt, NEW s \in Sock, NEW k \in Kinds, Construct(Main, x, s, k)
  PROVE  /\ pc[Main] = "idle" /\ x \notin live /\ s \notin fds
         /\ fds' = fds \cup {s} /\ live' = live \cup {x}
         /\ pc'[Main] = "register" /\ arg'[Main] = x
         /\ kind'[x] = k /\ xp_sock'[x] = s /\ ~Registered(x)'
         /\ \A y \in Xprt \ {x} : /\ kind'[y] = kind[y] /\ xp_sock'[y] = xp_sock[y]
                                  /\ Registered(y)' <=> Registered(y)
         /\ UNCHANGED <<sock_xports, xports_maxid, died>>
  <1>1. /\ pc[Main] = "idle" /\ x \notin live /\ s \notin fds
        /\ fds' = fds \cup {s} /\ live' = live \cup {x}
        /\ kind' = [kind EXCEPT ![x] = k]
        /\ xp_sock' = [xp_sock EXCEPT ![x] = s]
        /\ mtxp_id' = [mtxp_id EXCEPT ![x] = XPRT_ID_INVALID]
        /\ pc' = [pc EXCEPT ![Main] = "register"]
        /\ arg' = [arg EXCEPT ![Main] = x]
        /\ UNCHANGED <<sock_xports, xports_maxid, died>>
    BY DEF Construct, registry
  <1>2. /\ Main \in Threads
        /\ kind \in [Xprt -> Kinds]
        /\ xp_sock \in [Xprt -> Sock \cup {NoFd}]
        /\ mtxp_id \in [Xprt -> Id \cup {XPRT_ID_INVALID}]
        /\ pc \in [Threads -> {"idle", "register", "scan"} \cup ReapSteps]
        /\ arg \in [Threads -> Xprt \cup {BAD}]
    BY DEF Threads, TcpRegistry, TypeOK
  <1>3. ~Registered(x)'
    BY <1>1, <1>2 DEF Registered
  <1>4. \A y \in Xprt \ {x} : mtxp_id'[y] = mtxp_id[y] /\ (y \in live' <=> y \in live)
    BY <1>1, <1>2
  <1>5. \A y \in Xprt \ {x} : Registered(y)' <=> Registered(y)
    BY <1>4 DEF Registered
  <1>. QED
    BY <1>1, <1>2, <1>3, <1>5

\* The registry has an id for the new transport, or the process dies.
LEMMA RegisterSteps ==
  ASSUME TcpRegistry, XprtRegister(Main)
  PROVE  /\ pc[Main] = "register"
         /\ arg[Main] \in Xprt /\ arg[Main] \in live /\ xp_sock[arg[Main]] \in Sock
         /\ \/ /\ died' = "out of ids"
               /\ UNCHANGED <<sock_xports, live, kind, xp_sock, mtxp_id, fds, pc, arg>>
               /\ xports_maxid + 1 >= NBits
            \/ /\ sock_xports' = [sock_xports EXCEPT ![xp_sock[arg[Main]]] = arg[Main]]
               /\ pc'[Main] = "idle"
               /\ Registered(arg[Main])'
               /\ \A y \in Xprt \ {arg[Main]} : Registered(y)' <=> Registered(y)
               /\ UNCHANGED <<live, kind, xp_sock, fds, arg, died>>
  <1> DEFINE x == arg[Main]
  <1>1. pc[Main] = "register"
    BY DEF XprtRegister
  <1>2. x \in Xprt /\ x \in live /\ xp_sock[x] \in Sock /\ sock_xports[xp_sock[x]] = BAD
    BY <1>1 DEF TcpRegistry, CreationPrivate, TypeOK, XprtShape
  <1>3. PICK id : id = XprtIdAlloc
    OBVIOUS
  <1>4. /\ id \in Nat /\ id <= xports_maxid + 1
        /\ id < NBits => id \in Id
    BY <1>3, AllocFresh DEF TcpRegistry
  <1>5. NBits \in Nat /\ xports_maxid \in Int
    BY NBitsAssumption DEF TcpRegistry, TypeOK, Id
  <1>6. CASE OutOfIds(id)
    <2>1. SvcDie("out of ids")
      BY <1>3, <1>6 DEF XprtRegister
    <2>2. xports_maxid + 1 >= NBits
      BY <1>4, <1>5, <1>6 DEF OutOfIds
    <2>3. UNCHANGED <<sock_xports, live, kind, xp_sock, mtxp_id, fds, pc, arg>>
      BY <2>1 DEF SvcDie, registry, memory, threads
    <2>4. died' = "out of ids"
      BY <2>1 DEF SvcDie
    <2>. QED
      BY <1>1, <1>2, <2>2, <2>3, <2>4
  <1>7. CASE ~OutOfIds(id)
    <2>1. id \in Id
      BY <1>4, <1>5, <1>7 DEF OutOfIds
    <2>2. /\ sock_xports' = [sock_xports EXCEPT ![xp_sock[x]] = x]
          /\ mtxp_id' = [mtxp_id EXCEPT ![x] = id]
          /\ pc' = [pc EXCEPT ![Main] = "idle"]
          /\ UNCHANGED <<live, kind, xp_sock, fds, arg, died>>
      BY <1>2, <1>3, <1>7 DEF XprtRegister, SocketXprtIsAvailable
    <2>3. /\ Main \in Threads
          /\ mtxp_id \in [Xprt -> Id \cup {XPRT_ID_INVALID}]
          /\ pc \in [Threads -> {"idle", "register", "scan"} \cup ReapSteps]
      BY DEF Threads, TcpRegistry, TypeOK
    <2>4. id # XPRT_ID_INVALID
      BY <2>1, <1>5 DEF Id, XPRT_ID_INVALID
    <2>5. Registered(x)'
      BY <1>2, <2>2, <2>3, <2>4 DEF Registered
    <2>6. \A y \in Xprt \ {x} : Registered(y)' <=> Registered(y)
      BY <2>2, <2>3 DEF Registered
    <2>. QED
      BY <1>1, <1>2, <2>2, <2>3, <2>5, <2>6
  <1>. QED
    BY <1>6, <1>7

\* The transport of the service is the first one.
LEMMA CreateServiceKeeps ==
  ASSUME Scope, TcpInv, Running, CreateService
  PROVE  TcpInv'
  <1>1. PICK x \in Xprt : Construct(Main, x, Lowest(Unopened), "rendezvous")
    BY TcpAssumption DEF CreateService, SvctcpCreate
  <1>2. spc = "setup" /\ UNCHANGED tcp /\ pc[Main] = "idle"
    BY <1>1 DEF CreateService, Construct
  <1>3. live = {} /\ fds = {} /\ Closed = {} /\ Accepting = {}
    BY <1>2 DEF TcpInv, SetupAt, FdsExact, Closed, Accepting
  <1>4. PICK s \in Sock : s = Lowest(Unopened)
    <2>1. Unopened \in SUBSET Nat /\ Unopened # {} /\ Unopened \subseteq Sock
      BY <1>3, TcpAssumption DEF Unopened
    <2>. QED
      BY <2>1, LowestIn
  <1>5. Construct(Main, x, s, "rendezvous") /\ "rendezvous" \in Kinds
    BY <1>1, <1>4 DEF Kinds
  <1>6. TcpRegistry /\ TcpRegistry'
    BY <1>5, TcpConstructKeeps DEF TcpInv, Running
  <1>7. /\ fds' = {s} /\ live' = {x}
        /\ pc'[Main] = "register" /\ arg'[Main] = x
        /\ kind'[x] = "rendezvous" /\ xp_sock'[x] = s
        /\ \A y \in Xprt : ~Registered(y)'
        /\ UNCHANGED <<sock_xports, xports_maxid, died>>
    <2>1. /\ fds' = fds \cup {s} /\ live' = live \cup {x}
          /\ pc'[Main] = "register" /\ arg'[Main] = x
          /\ kind'[x] = "rendezvous" /\ xp_sock'[x] = s /\ ~Registered(x)'
          /\ UNCHANGED <<sock_xports, xports_maxid, died>>
      BY <1>5, <1>6, ConstructSteps
    <2>2. fds' = {s} /\ live' = {x}
      BY <1>3, <2>1
    <2>3. \A y \in Xprt : ~Registered(y)'
      BY <2>1, <2>2 DEF Registered
    <2>. QED
      BY <2>1, <2>2, <2>3
  <1>8. UNCHANGED <<order, peer, sent, stream, backlog, peer_of, spc, events, fd, accept_sock,
                    worker_return, inbuf, x_id, strm_stat, wpc, handle, serves, handled>>
    BY <1>2 DEF tcp, network, conns, workers
  <1>9. TcpTypeOK' /\ TcpFunctions'
    <2>1. {fd', accept_sock'} \subseteq Sock \cup {NoFd} /\ events' \subseteq Sock /\ spc' \in Places
      BY <1>8 DEF TcpInv, TcpTypeOK, Places
    <2>2. peer_of' \in [Sock -> Peers \cup {BAD}]
      BY <1>8 DEF TcpInv, TcpTypeOK
    <2>. QED
      BY <1>6, <1>8, <2>1, <2>2, TypesSame DEF TcpInv
  <1>10. MainAt' /\ SetupAt' /\ ServedAt' /\ AcceptAt'
    BY <1>2, <1>7, <1>8 DEF TcpInv, MainAt, ReapSteps, SetupAt, ServedAt, AcceptAt, Running
  <1>11. FdsExact'
    <2>1. Closed' = {} /\ Accepting' = {}
      BY <1>2, <1>7, <1>8 DEF Closed, Accepting
    <2>. QED
      BY <1>2, <1>7, <1>8, <2>1 DEF FdsExact
  <1>12. BacklogAt'
    BY <1>8, FrameBacklog DEF TcpInv
  <1>13. PeersApart' /\ ReceivedInOrder'
    BY <1>7, <1>8 DEF TcpInv, PeersApart, ReceivedInOrder
  <1>14. WorkerAt' /\ RepliesToCaller'
    BY <1>2, <1>8, NoneServing, WorkersFree DEF TcpInv
  <1>. QED
    BY <1>6, <1>9, <1>10, <1>11, <1>12, <1>13, <1>14 DEF TcpInv

\* A connection gets a transport of its own, with an empty buffer.
LEMMA MakeConnectionKeeps ==
  ASSUME Scope, TcpInv, Running, NEW x \in Xprt, MakeConnection(x)
  PROVE  TcpInv'
  <1>1. /\ spc = "make" /\ Construct(Main, x, accept_sock, "connection")
        /\ inbuf' = [inbuf EXCEPT ![x] = <<>>]
        /\ strm_stat' = [strm_stat EXCEPT ![x] = "IDLE"]
        /\ UNCHANGED <<order, network, spc, events, fd, accept_sock, worker_return, x_id,
                       workers, handled>>
    BY DEF MakeConnection, MakefdXprt
  <1>2. UNCHANGED <<peer, sent, stream, backlog, peer_of, wpc, handle, serves>>
    BY <1>1 DEF network, workers
  <1>3. PICK s \in Sock : s = accept_sock
    BY <1>1 DEF TcpInv, AcceptAt
  <1>4. Construct(Main, x, s, "connection") /\ "connection" \in Kinds
    BY <1>1, <1>3 DEF Kinds
  <1>5. TcpRegistry /\ TcpRegistry'
    BY <1>4, TcpConstructKeeps DEF TcpInv, Running
  <1>6. /\ pc[Main] = "idle" /\ x \notin live /\ s \notin fds
        /\ fds' = fds \cup {s} /\ live' = live \cup {x}
        /\ pc'[Main] = "register" /\ arg'[Main] = x
        /\ kind'[x] = "connection" /\ xp_sock'[x] = s /\ ~Registered(x)'
        /\ \A y \in Xprt \ {x} : /\ kind'[y] = kind[y] /\ xp_sock'[y] = xp_sock[y]
                                 /\ Registered(y)' <=> Registered(y)
        /\ UNCHANGED <<sock_xports, xports_maxid, died>>
    BY <1>4, <1>5, ConstructSteps
  <1>7. /\ inbuf \in [Xprt -> Seq(Records)] /\ inbuf' \in [Xprt -> Seq(Records)]
        /\ inbuf'[x] = <<>> /\ \A y \in Xprt \ {x} : inbuf'[y] = inbuf[y]
        /\ strm_stat' \in [Xprt -> {"IDLE", "DIED"}]
    BY <1>1 DEF TcpInv, TcpTypeOK, TcpFunctions
  <1>8. TcpTypeOK' /\ TcpFunctions'
    <2>1. TypeOK'
      BY <1>5 DEF TcpRegistry
    <2>. QED
      BY <1>1, <1>2, <1>7, <2>1 DEF TcpInv, TcpTypeOK, TcpFunctions
  <1>9. MainAt' /\ SetupAt'
    BY <1>1, <1>6, NotSetup DEF MainAt, ReapSteps, Running
  <1>10. ServedAt'
    BY <1>1, <1>6 DEF TcpInv, ServedAt
  <1>11. Closed = {} /\ Closed' = {} /\ Accepting = {} /\ Accepting' = {}
    BY <1>1, <1>6 DEF Closed, Accepting
  <1>12. FdsExact'
    <2>1. fds = {xp_sock[y] : y \in live} /\ live \subseteq Xprt \ {x} /\ \A y \in live : Registered(y)
      BY <1>1, <1>6, <1>11 DEF TcpInv, FdsExact, TcpRegistry, TypeOK
    <2>2. fds' = {xp_sock'[y] : y \in live'}
      BY <1>6, <2>1
    <2>3. \A y \in live' : Registered(y)' \/ y = arg'[Main]
      BY <1>6, <2>1
    <2>. QED
      BY <1>1, <1>6, <1>11, <2>2, <2>3 DEF FdsExact
  <1>13. AcceptAt'
    <2>1. Fresh(peer_of[accept_sock])' <=> Fresh(peer_of[accept_sock])
      BY <1>1, <1>2 DEF Fresh
    <2>. QED
      BY <1>1, <1>2, <1>3, <1>6, <1>7, <2>1 DEF TcpInv, AcceptAt
  <1>14. BacklogAt'
    BY <1>1, <1>2, FrameBacklog DEF TcpInv
  <1>15. PeersApart'
    BY <1>2, <1>6, <1>11 DEF TcpInv, PeersApart
  <1>16. ReceivedInOrder'
    <2>1. ASSUME NEW y \in Xprt, Registered(y)', kind'[y] = "connection", peer_of'[xp_sock'[y]] # BAD
          PROVE  handled'[peer_of'[xp_sock'[y]]] \o inbuf'[y] \o stream'[peer_of'[xp_sock'[y]]]
                   = sent'[peer_of'[xp_sock'[y]]]
      <3>1. y # x /\ Registered(y) /\ kind[y] = "connection" /\ xp_sock'[y] = xp_sock[y]
            /\ inbuf'[y] = inbuf[y]
        BY <1>6, <1>7, <2>1
      <3>. QED
        BY <1>1, <1>2, <2>1, <3>1 DEF TcpInv, ReceivedInOrder
    <2>. QED
      BY <2>1 DEF ReceivedInOrder
  <1>17. WorkerAt' /\ RepliesToCaller'
    BY <1>1, <1>2, NoneServing, WorkersFree DEF TcpInv
  <1>. QED
    BY <1>5, <1>8, <1>9, <1>10, <1>12, <1>13, <1>14, <1>15, <1>16, <1>17 DEF TcpInv

\* The service is registered, and never dies of it.
LEMMA RegisterServiceKeeps ==
  ASSUME Scope, SmallIds', TcpInv, Running, RegisterService
  PROVE  TcpInv'
  <1> DEFINE x == arg[Main]
  <1>1. /\ spc = "setup" /\ XprtRegister(Main) /\ spc' = "run"
        /\ UNCHANGED <<order, network, events, fd, accept_sock, worker_return, conns, workers,
                       handled>>
    BY DEF RegisterService
  <1>2. UNCHANGED <<peer, sent, stream, backlog, peer_of, inbuf, x_id, strm_stat, wpc, handle, serves>>
    BY <1>1 DEF network, conns, workers
  <1>3. TcpRegistry /\ TcpRegistry'
    BY <1>1, TcpRegisterKeeps DEF TcpInv, Running
  <1>4. /\ pc[Main] = "register" /\ x \in Xprt /\ x \in live /\ xp_sock[x] \in Sock
        /\ sock_xports' = [sock_xports EXCEPT ![xp_sock[x]] = x]
        /\ pc'[Main] = "idle"
        /\ Registered(x)'
        /\ \A y \in Xprt \ {x} : Registered(y)' <=> Registered(y)
        /\ UNCHANGED <<live, kind, xp_sock, fds, arg, died>>
    <2>1. ~(xports_maxid + 1 >= NBits)
      BY <1>1, NBitsAssumption DEF TcpInv, SetupAt
    <2>. QED
      BY <1>1, <1>3, <2>1, RegisterSteps
  <1>5. TcpTypeOK' /\ TcpFunctions'
    <2>1. {fd', accept_sock'} \subseteq Sock \cup {NoFd} /\ events' \subseteq Sock /\ spc' \in Places
      BY <1>1 DEF TcpInv, TcpTypeOK, Places
    <2>2. peer_of' \in [Sock -> Peers \cup {BAD}]
      BY <1>2 DEF TcpInv, TcpTypeOK
    <2>. QED
      BY <1>1, <1>2, <1>3, <2>1, <2>2, TypesSame DEF TcpInv
  <1>6. MainAt' /\ SetupAt' /\ AcceptAt'
    BY <1>1, <1>4, IdleAt, NotSetup, NotAccepting DEF Running
  <1>7. \A s \in Sock : sock_xports[s] = BAD
    BY <1>1 DEF TcpInv, SetupAt
  <1>8. ServedAt'
    BY <1>1, <1>7 DEF TcpInv, TcpTypeOK, ServedAt
  <1>9. Closed = {} /\ Closed' = {} /\ Accepting = {} /\ Accepting' = {}
    BY <1>1, <1>4 DEF Closed, Accepting
  <1>10. \A y \in Xprt : Registered(y)' => y = x
    BY <1>3, <1>4, <1>7, OwnerOfSocket, XprtAssumption
  <1>11. FdsExact'
    <2>1. \A y \in live : y = x \/ Registered(y)
      BY DEF TcpInv, FdsExact
    <2>2. live \subseteq Xprt
      BY <1>3 DEF TcpRegistry, TypeOK
    <2>3. \A y \in live : Registered(y)'
      BY <1>4, <2>1, <2>2
    <2>. QED
      BY <1>1, <1>4, <1>9, <2>3 DEF TcpInv, FdsExact
  <1>12. BacklogAt'
    BY <1>1, <1>2, FrameBacklog DEF TcpInv
  <1>13. PeersApart' /\ ReceivedInOrder'
    <2>1. kind'[x] # "connection"
      BY <1>1, <1>4 DEF TcpInv, SetupAt
    <2>. QED
      BY <1>2, <1>10, <2>1 DEF TcpInv, PeersApart, ReceivedInOrder
  <1>14. WorkerAt' /\ RepliesToCaller'
    BY <1>1, <1>2, NoneServing, WorkersFree DEF TcpInv
  <1>. QED
    BY <1>3, <1>5, <1>6, <1>8, <1>11, <1>12, <1>13, <1>14 DEF TcpInv

\* The connection is registered; from now on its records are received.
LEMMA RegisterConnectionKeeps ==
  ASSUME Scope, SmallIds', TcpInv, Running, RegisterConnection
  PROVE  TcpInv'
  <1> DEFINE x == arg[Main]
  <1>1. /\ spc = "make" /\ XprtRegister(Main) /\ spc' = "getreq" /\ accept_sock' = NoFd
        /\ UNCHANGED <<order, network, events, fd, worker_return, conns, workers, handled>>
    BY DEF RegisterConnection
  <1>2. UNCHANGED <<peer, sent, stream, backlog, peer_of, inbuf, x_id, strm_stat, wpc, handle, serves>>
    BY <1>1 DEF network, conns, workers
  <1>3. TcpRegistry /\ TcpRegistry'
    BY <1>1, TcpRegisterKeeps DEF TcpInv, Running
  <1>4. TcpTypeOK' /\ TcpFunctions'
    <2>1. {fd', accept_sock'} \subseteq Sock \cup {NoFd} /\ events' \subseteq Sock /\ spc' \in Places
      BY <1>1 DEF TcpInv, TcpTypeOK, Places
    <2>2. peer_of' \in [Sock -> Peers \cup {BAD}]
      BY <1>2 DEF TcpInv, TcpTypeOK
    <2>. QED
      BY <1>1, <1>2, <1>3, <2>1, <2>2, TypesSame DEF TcpInv
  <1>5. SetupAt' /\ AcceptAt'
    BY <1>1, NotSetup, NotAccepting
  <1>6. BacklogAt'
    BY <1>1, <1>2, FrameBacklog DEF TcpInv
  <1>7. WorkerAt' /\ RepliesToCaller'
    BY <1>1, <1>2, NoneServing, WorkersFree DEF TcpInv
  <1>8. pc[Main] = "register" /\ x \in Xprt /\ x \in live /\ xp_sock[x] \in Sock
    BY <1>1, <1>3, RegisterSteps
  <1>9. Accepting = {} /\ Accepting' = {} /\ Closed = {}
    BY <1>1, <1>8 DEF Accepting, Closed
  <1>10. CASE /\ died' = "out of ids"
              /\ UNCHANGED <<sock_xports, live, kind, xp_sock, mtxp_id, fds, pc, arg>>
    <2>1. MainAt'
      BY <1>1, <1>10 DEF MainAt, Running
    <2>2. ServedAt'
      BY <1>1, <1>10, FrameServed DEF TcpInv
    <2>3. Closed' = {}
      BY <1>8, <1>10 DEF Closed
    <2>4. FdsExact'
      BY <1>1, <1>9, <1>10, <2>3 DEF TcpInv, FdsExact, Registered
    <2>5. PeersApart' /\ ReceivedInOrder'
      BY <1>1, <1>2, <1>10, FramePeers, FrameReceived DEF TcpInv
    <2>. QED
      BY <1>3, <1>4, <1>5, <1>6, <1>7, <2>1, <2>2, <2>4, <2>5 DEF TcpInv
  <1>11. CASE /\ sock_xports' = [sock_xports EXCEPT ![xp_sock[x]] = x]
              /\ pc'[Main] = "idle"
              /\ Registered(x)'
              /\ \A y \in Xprt \ {x} : Registered(y)' <=> Registered(y)
              /\ UNCHANGED <<live, kind, xp_sock, fds, arg, died>>
    <2> DEFINE s == accept_sock
               p == peer_of[s]
    <2>1. /\ s \in Sock /\ p # BAD /\ p \in Peers /\ Fresh(p)
          /\ xp_sock[x] = s /\ kind[x] = "connection" /\ inbuf[x] = <<>>
      BY <1>1, <1>8 DEF TcpInv, AcceptAt, TcpTypeOK
    <2>2. MainAt'
      BY <1>1, <1>11, IdleAt DEF Running
    <2>3. ServedAt'
      <3>1. \A r \in events : r \in Sock /\ sock_xports[r] # BAD
        BY DEF TcpInv, ServedAt, TcpTypeOK
      <3>2. \A r \in events : sock_xports'[r] # BAD
        BY <1>3, <1>8, <1>11, <3>1, XprtAssumption DEF TcpRegistry, TypeOK
      <3>. QED
        BY <1>1, <3>2 DEF ServedAt
    <2>4. Closed' = {}
      BY <1>11 DEF Closed
    <2>5. FdsExact'
      <3>1. \A y \in live : y \in Xprt /\ (y = x \/ Registered(y))
        BY <1>3 DEF TcpInv, FdsExact, TcpRegistry, TypeOK
      <3>2. \A y \in live : Registered(y)'
        BY <1>11, <3>1
      <3>. QED
        BY <1>1, <1>9, <1>11, <2>4, <3>2 DEF TcpInv, FdsExact
    <2>6. PeersApart'
      BY <1>2, <1>9, <1>11, <2>1, <2>4 DEF TcpInv, PeersApart
    <2>7. ReceivedInOrder'
      <3>1. sent[p] \in Seq(Records)
        BY <2>1 DEF TcpInv, TcpFunctions
      <3>2. PICK q \in Seq(Records) : q = sent[p]
        BY <3>1
      <3>3. <<>> \o <<>> \o q = q
        BY EmptySeq, ConcatEmptySeq
      <3>4. handled[p] \o inbuf[x] \o stream[p] = sent[p]
        BY <2>1, <3>2, <3>3 DEF Fresh
      <3>5. ASSUME NEW y \in Xprt \ {x}, Registered(y), kind[y] = "connection",
                   peer_of[xp_sock[y]] # BAD
            PROVE  handled[peer_of[xp_sock[y]]] \o inbuf[y] \o stream[peer_of[xp_sock[y]]]
                     = sent[peer_of[xp_sock[y]]]
        BY <3>5 DEF TcpInv, ReceivedInOrder
      <3>. QED
        BY <1>1, <1>2, <1>11, <2>1, <3>4, <3>5 DEF ReceivedInOrder
    <2>. QED
      BY <1>3, <1>4, <1>5, <1>6, <1>7, <2>2, <2>3, <2>5, <2>6, <2>7 DEF TcpInv
  <1>. QED
    BY <1>1, <1>3, <1>10, <1>11, RegisterSteps

-----------------------------------------------------------------------------
(* Records are read and received.                                          *)

\* The records received, those in the buffer and those in the stream change, and
\* are, in this order, the same as before.
Moves(x, p, h, b, s) ==
  /\ handled' = [handled EXCEPT ![p] = h]
  /\ inbuf' = [inbuf EXCEPT ![x] = b]
  /\ stream' = [stream EXCEPT ![p] = s]
  /\ h \o b \o s = handled[p] \o inbuf[x] \o stream[p]

LEMMA SeqElements ==
  ASSUME NEW S, NEW q \in Seq(S)
  PROVE  \A i \in DOMAIN q : q[i] \in S
  OBVIOUS

LEMMA RecordsTyped ==
  ASSUME TcpFunctions'
  PROVE  \A p \in Peers : {sent'[p], stream'[p], handled'[p]} \subseteq Seq(Records)
  BY DEF TcpFunctions

\* The records of one client move on, in order, and no others do.
LEMMA RecordsMove ==
  ASSUME TcpInv, Running, AtConnection, UNCHANGED vars,
         UNCHANGED <<order, peer, sent, backlog, peer_of, events, fd, accept_sock, worker_return,
                     workers>>,
         NEW x \in Xprt, x = xprt, NEW p \in Peers, p = client,
         NEW h \in Seq(Records), NEW b \in Seq(Records), NEW s \in Seq(Records),
         Moves(x, p, h, b, s),
         x_id' \in [Xprt -> Records \cup {BAD}], strm_stat' \in [Xprt -> {"IDLE", "DIED"}],
         spc' \in {"recv", "stat", "dispatch", "bad credentials"}
  PROVE  TcpInv'
  <1>1. spc = "recv" /\ kind[x] = "connection"
    BY DEF AtConnection
  <1>2. UNCHANGED <<wpc, handle, serves>>
    BY DEF workers
  <1>3. UNCHANGED <<sock_xports, live, kind, xp_sock, mtxp_id, fds, pc, arg, died>>
    BY SameVars
  <1>4. pc[Main] = "idle" /\ Serving = {}
    BY <1>1, MainIdle, NoneServing DEF TcpInv
  <1>5. /\ fd \in Sock /\ Registered(x) /\ xp_sock[x] = fd /\ p = peer_of[fd]
        /\ p # BAD /\ peer[p] # "off"
    BY <1>1, <1>4, ServedXprt DEF client
  <1>6. TcpRegistry'
    BY TcpUntouched DEF TcpInv
  <1>7. /\ handled' \in [Peers -> Seq(Records)] /\ stream' \in [Peers -> Seq(Records)]
        /\ inbuf' \in [Xprt -> Seq(Records)]
        /\ handled'[p] = h /\ stream'[p] = s /\ inbuf'[x] = b
        /\ \A q \in Peers \ {p} : handled'[q] = handled[q] /\ stream'[q] = stream[q]
        /\ \A y \in Xprt \ {x} : inbuf'[y] = inbuf[y]
    <2>1. /\ handled \in [Peers -> Seq(Records)] /\ stream \in [Peers -> Seq(Records)]
          /\ inbuf \in [Xprt -> Seq(Records)]
      BY DEF TcpInv, TcpFunctions
    <2>. QED
      BY <2>1 DEF Moves
  <1>8. TcpTypeOK' /\ TcpFunctions'
    <2>1. TypeOK'
      BY <1>6 DEF TcpRegistry
    <2>2. TcpFunctions'
      BY <1>2, <1>7 DEF TcpInv, TcpFunctions
    <2>3. TcpTypeOK'
      <3>1. \A q \in Peers : /\ {sent'[q], stream'[q], handled'[q]} \subseteq Seq(Records)
                             /\ Len(sent'[q]) <= MaxSent[q]
        <4>1. \A q \in Peers : {sent'[q], stream'[q], handled'[q]} \subseteq Seq(Records)
          BY <2>2, RecordsTyped
        <4>2. \A q \in Peers : Len(sent[q]) <= MaxSent[q]
          BY DEF TcpInv, TcpTypeOK
        <4>. QED
          BY <4>1, <4>2
      <3>2. \A y \in Xprt : inbuf'[y] \in Seq(Records)
        BY <1>7
      <3>. QED
        BY <1>2, <2>1, <3>1, <3>2 DEF TcpInv, TcpTypeOK, Stopped
    <2>. QED
      BY <2>1, <2>2, <2>3
  <1>9. MainAt' /\ SetupAt' /\ AcceptAt'
    BY <1>3, <1>4, IdleAt, NotSetup, NotAccepting DEF Running
  <1>10. ServedAt'
    <2>1. fd \in Sock \ events /\ sock_xports[fd] # BAD /\ kind[sock_xports[fd]] = "connection"
      BY <1>1 DEF TcpInv, ServedAt, xprt
    <2>. QED
      BY <1>1, <1>3, <2>1 DEF TcpInv, ServedAt
  <1>11. FdsExact' /\ PeersApart'
    BY <1>1, <1>3, FrameFds, FramePeers DEF TcpInv
  <1>12. BacklogAt'
    <2>1. \A i \in DOMAIN backlog : backlog[i] \in Peers /\ backlog[i] # p
      <3>1. \A i \in DOMAIN backlog : backlog[i] \in Peers
        <4>1. backlog \in Seq(Peers)
          BY DEF TcpInv, TcpTypeOK
        <4>. QED
          BY <4>1, SeqElements
      <3>2. \A i \in DOMAIN backlog : peer_of[fd] # backlog[i]
        BY <1>5 DEF TcpInv, BacklogAt
      <3>. QED
        BY <1>5, <3>1, <3>2
    <2>2. \A q \in Peers \ {p} : Fresh(q) => Fresh(q)'
      BY <1>7 DEF Fresh
    <2>3. \A i \in DOMAIN backlog : Fresh(backlog[i])'
      BY <1>7, <2>1 DEF TcpInv, BacklogAt, Fresh
    <2>. QED
      BY <1>5, <2>1, <2>2, <2>3 DEF TcpInv, BacklogAt
  <1>13. ReceivedInOrder'
    <2>1. h \o b \o s = sent[p]
      BY <1>1, <1>5 DEF TcpInv, ReceivedInOrder, Moves
    <2>2. ASSUME NEW y \in Xprt \ {x}, Registered(y), kind[y] = "connection",
                 NEW q, q = peer_of[xp_sock[y]], q # BAD
          PROVE  handled'[q] \o inbuf'[y] \o stream'[q] = sent[q]
      <3>1. xp_sock[y] \in Sock /\ sock_xports[xp_sock[y]] = y /\ sock_xports[fd] = x
        BY <1>5, <2>2, OwnerOfSocket DEF TcpInv
      <3>2. q \in Peers /\ q # p
        <4>1. peer_of \in [Sock -> Peers \cup {BAD}]
          BY DEF TcpInv, TcpTypeOK
        <4>2. xp_sock[y] # fd
          BY <2>2, <3>1
        <4>3. \A r, t \in Sock : peer_of[r] # BAD /\ peer_of[r] = peer_of[t] => r = t
          BY DEF TcpInv, PeersApart
        <4>. QED
          BY <1>5, <2>2, <3>1, <4>1, <4>2, <4>3
      <3>3. handled[q] \o inbuf[y] \o stream[q] = sent[q]
        BY <2>2 DEF TcpInv, ReceivedInOrder
      <3>. QED
        BY <1>7, <3>2, <3>3
    <2>3. SUFFICES ASSUME NEW y \in Xprt, Registered(y), kind[y] = "connection",
                          NEW q, q = peer_of[xp_sock[y]], q # BAD
                   PROVE  handled'[q] \o inbuf'[y] \o stream'[q] = sent[q]
      BY <1>3 DEF ReceivedInOrder, Registered
    <2>4. CASE y = x
      BY <1>5, <1>7, <2>1, <2>3, <2>4
    <2>5. CASE y # x
      BY <2>2, <2>3, <2>5
    <2>. QED
      BY <2>4, <2>5
  <1>14. WorkerAt' /\ RepliesToCaller'
    BY <1>2, <1>4, WorkersFree
  <1>. QED
    BY <1>6, <1>8, <1>9, <1>10, <1>11, <1>12, <1>13, <1>14 DEF TcpInv

\* What the steps of a connection start from.
LEMMA ConnectionAt ==
  ASSUME TcpInv, Running, AtConnection
  PROVE  /\ xprt \in Xprt /\ client \in Peers
         /\ handled \in [Peers -> Seq(Records)] /\ stream \in [Peers -> Seq(Records)]
         /\ inbuf \in [Xprt -> Seq(Records)]
         /\ x_id \in [Xprt -> Records \cup {BAD}] /\ strm_stat \in [Xprt -> {"IDLE", "DIED"}]
  <1>1. spc = "recv" /\ kind[xprt] = "connection" /\ pc[Main] = "idle"
    BY MainIdle DEF AtConnection
  <1>. QED
    BY <1>1, ServedXprt DEF TcpInv, TcpFunctions, TcpTypeOK

LEMMA ReadtcpKeeps ==
  ASSUME TcpInv, Running, NEW k, Readtcp(k)
  PROVE  TcpInv'
  <1>1. AtConnection
    BY DEF Readtcp
  <1>2. PICK x \in Xprt : x = xprt
    BY <1>1, ConnectionAt
  <1>3. PICK p \in Peers : p = client
    BY <1>1, ConnectionAt
  <1>4. PICK s \in Seq(Records) : s = stream[p]
    BY <1>1, ConnectionAt
  <1>5. PICK h \in Seq(Records) : h = handled[p]
    BY <1>1, ConnectionAt
  <1>6. /\ inbuf[x] = <<>> /\ k \in 1 .. Len(s)
        /\ inbuf' = [inbuf EXCEPT ![x] = SubSeq(s, 1, k)]
        /\ stream' = [stream EXCEPT ![p] = SubSeq(s, k + 1, Len(s))]
        /\ UNCHANGED <<vars, order, peer, sent, backlog, peer_of, spc, events, fd, accept_sock,
                       worker_return, x_id, strm_stat, workers, handled>>
    BY <1>2, <1>3, <1>4 DEF Readtcp, Taken
  <1>7. PICK f \in Seq(Records) : f = SubSeq(s, 1, k)
    BY <1>6, ReadMovesFront
  <1>8. PICK g \in Seq(Records) : g = SubSeq(s, k + 1, Len(s))
    BY <1>6, ReadMovesFront
  <1>9. h \o f \o g = h \o <<>> \o s
    BY <1>6, <1>7, <1>8, ReadMovesFront
  <1>10. handled' = [handled EXCEPT ![p] = h]
    BY <1>1, <1>5, <1>6, ConnectionAt
  <1>11. spc' = "recv"
    BY <1>1, <1>6 DEF AtConnection
  <1>12. Moves(x, p, h, f, g)
    BY <1>4, <1>5, <1>6, <1>7, <1>8, <1>9, <1>10 DEF Moves
  <1>13. x_id' \in [Xprt -> Records \cup {BAD}] /\ strm_stat' \in [Xprt -> {"IDLE", "DIED"}]
    BY <1>1, <1>6, ConnectionAt
  <1>. QED
    BY <1>1, <1>2, <1>3, <1>6, <1>11, <1>12, <1>13, RecordsMove

LEMMA ReadtcpFailsKeeps ==
  ASSUME TcpInv, Running, ReadtcpFails
  PROVE  TcpInv'
  <1>1. /\ AtConnection
        /\ strm_stat' = [strm_stat EXCEPT ![xprt] = "DIED"]
        /\ spc' = "stat"
        /\ UNCHANGED <<vars, order, network, events, fd, accept_sock, worker_return, inbuf, x_id,
                       workers, handled>>
    BY DEF ReadtcpFails
  <1>2. PICK x \in Xprt : x = xprt
    BY <1>1, ConnectionAt
  <1>3. PICK p \in Peers : p = client
    BY <1>1, ConnectionAt
  <1>4. UNCHANGED <<peer, sent, stream, backlog, peer_of>>
    BY <1>1 DEF network
  <1>5. PICK h \in Seq(Records), b \in Seq(Records), s \in Seq(Records) :
          h = handled[p] /\ b = inbuf[x] /\ s = stream[p]
    BY <1>1, ConnectionAt
  <1>6. /\ handled' = [handled EXCEPT ![p] = h]
        /\ inbuf' = [inbuf EXCEPT ![x] = b]
        /\ stream' = [stream EXCEPT ![p] = s]
    BY <1>1, <1>4, <1>5, ConnectionAt
  <1>7. Moves(x, p, h, b, s)
    BY <1>5, <1>6 DEF Moves
  <1>8. x_id' \in [Xprt -> Records \cup {BAD}] /\ strm_stat' \in [Xprt -> {"IDLE", "DIED"}]
    BY <1>1, ConnectionAt
  <1>. QED
    BY <1>1, <1>2, <1>3, <1>4, <1>7, <1>8, RecordsMove

\* The next record is received, whatever is done with it.
LEMMA RecvKeeps ==
  ASSUME TcpInv, Running, NEW r \in Records,
         RecvMalformed(r) \/ RecvUnknown(r) \/ RecvBadAuth(r) \/ RecvCall(r)
  PROVE  TcpInv'
  <1>1. SvctcpRecv(r) /\ spc' \in {"stat", "dispatch", "bad credentials"} /\ AtConnection
    BY DEF RecvMalformed, RecvUnknown, RecvBadAuth, RecvCall, SvctcpRecv
  <1>2. PICK x \in Xprt : x = xprt
    BY <1>1, ConnectionAt
  <1>3. PICK p \in Peers : p = client
    BY <1>1, ConnectionAt
  <1>4. PICK h \in Seq(Records), b \in Seq(Records), s \in Seq(Records) :
          h = handled[p] /\ b = inbuf[x] /\ s = stream[p]
    BY <1>1, ConnectionAt
  <1>5. /\ b # <<>> /\ r = Head(b)
        /\ inbuf' = [inbuf EXCEPT ![x] = Tail(b)]
        /\ handled' = [handled EXCEPT ![p] = Append(h, r)]
        /\ x_id' = IF r \in Malformed THEN x_id ELSE [x_id EXCEPT ![x] = r]
        /\ UNCHANGED <<vars, order, network, events, fd, accept_sock, worker_return, workers>>
    BY <1>1, <1>2, <1>3, <1>4 DEF SvctcpRecv
  <1>6. UNCHANGED <<peer, sent, stream, backlog, peer_of>>
    BY <1>5 DEF network
  <1>7. stream' = [stream EXCEPT ![p] = s]
    BY <1>1, <1>4, <1>6, ConnectionAt
  <1>8. PICK t \in Seq(Records) : t = Tail(b)
    BY <1>5, TailProperties
  <1>9. PICK a \in Seq(Records) : a = Append(h, r)
    BY AppendProperties
  <1>10. Moves(x, p, a, t, s)
    <2>1. b # <<>>
      BY <1>5
    <2>2. Append(h, Head(b)) \o Tail(b) \o s = h \o b \o s
      BY <2>1, RecvMovesHead
    <2>. QED
      BY <1>4, <1>5, <1>7, <1>8, <1>9, <2>2 DEF Moves
  <1>11. x_id' \in [Xprt -> Records \cup {BAD}]
    BY <1>1, <1>5, ConnectionAt
  <1>12. strm_stat' \in [Xprt -> {"IDLE", "DIED"}]
    <2>1. strm_stat' = strm_stat \/ \E y \in {xprt} : strm_stat' = [strm_stat EXCEPT ![y] = "DIED"]
      BY DEF RecvMalformed, RecvUnknown, RecvBadAuth, RecvCall, Write
    <2>. QED
      BY <1>1, <2>1, ConnectionAt
  <1>. QED
    BY <1>1, <1>2, <1>3, <1>5, <1>6, <1>10, <1>11, <1>12, RecordsMove

-----------------------------------------------------------------------------
(* The workers.                                                            *)

\* Steps that leave the registry, the network and the connections alone.
LEMMA WorkerMoves ==
  ASSUME TcpInv, Running, UNCHANGED vars,
         UNCHANGED <<order, network, events, fd, accept_sock, inbuf, x_id, handled>>,
         strm_stat' \in [Xprt -> {"IDLE", "DIED"}],
         worker_return' \in {0, 1},
         wpc' \in [Workers -> {"idle", "start", "stuck", "args", "replied", "ending"}],
         handle' \in [Workers -> Xprt \cup {BAD}],
         serves' \in [Workers -> [peer : Peers \cup {BAD}, call : Records \cup {BAD}]],
         \/ spc' = spc
         \/ spc' = "crashed"
         \/ spc = "dispatch" /\ spc' = "wait",
         WorkerAt', RepliesToCaller'
  PROVE  TcpInv'
  <1>1. UNCHANGED <<peer, sent, stream, backlog, peer_of>>
    BY DEF network
  <1>2. UNCHANGED <<sock_xports, xports_maxid, live, kind, xp_sock, mtxp_id, fds, pc, arg, died>>
    BY SameVars
  <1>3. TcpRegistry'
    BY TcpUntouched DEF TcpInv
  <1>4. spc \in Places /\ spc' \in Places /\ died = "no"
    BY DEF TcpInv, TcpTypeOK, Places, Stopped, Running
  <1>5. TcpTypeOK' /\ TcpFunctions'
    <2>1. TypeOK'
      BY <1>3 DEF TcpRegistry
    <2>. QED
      BY <1>1, <1>4, <2>1 DEF TcpInv, TcpTypeOK, TcpFunctions, Places
  <1>6. MainAt'
    <2>1. CASE spc = "dispatch" /\ spc' = "wait"
      BY <1>2, <1>4, <2>1, MainIdle, IdleAt
    <2>2. CASE spc' = spc \/ spc' = "crashed"
      BY <1>2, <1>4, <2>2, FrameMain DEF TcpInv, Stopped
    <2>. QED
      BY <2>1, <2>2
  <1>7. SetupAt' /\ FdsExact' /\ BacklogAt' /\ PeersApart' /\ ReceivedInOrder'
    BY <1>1, <1>2, FrameSetup, FrameFds, FrameBacklog, FramePeers, FrameReceived DEF TcpInv
  <1>8. ServedAt'
    BY <1>2 DEF TcpInv, ServedAt
  <1>9. AcceptAt'
    <2>1. \A p \in Peers : Fresh(p) => Fresh(p)'
      BY <1>1 DEF Fresh
    <2>2. peer_of \in [Sock -> Peers \cup {BAD}]
      BY DEF TcpInv, TcpTypeOK
    <2>. QED
      BY <1>1, <1>2, <2>1, <2>2, FrameAccept DEF TcpInv
  <1>. QED
    BY <1>3, <1>5, <1>6, <1>7, <1>8, <1>9 DEF TcpInv

\* The types of what workers change.
LEMMA WorkerTypes ==
  ASSUME TcpInv
  PROVE  /\ wpc \in [Workers -> {"idle", "start", "stuck", "args", "replied", "ending"}]
         /\ handle \in [Workers -> Xprt \cup {BAD}]
         /\ serves \in [Workers -> [peer : Peers \cup {BAD}, call : Records \cup {BAD}]]
         /\ strm_stat \in [Xprt -> {"IDLE", "DIED"}]
         /\ worker_return \in {0, 1}
  BY DEF TcpInv, TcpTypeOK, TcpFunctions

\* A call is given to a worker, with the transport that received it.
LEMMA DispatchKeeps ==
  ASSUME TcpInv, Running, NEW w \in Workers, RequestDispatch(w)
  PROVE  TcpInv'
  <1>1. /\ spc = "dispatch" /\ spc' = "wait" /\ worker_return' = 0
        /\ wpc' = [wpc EXCEPT ![w] = "start"]
        /\ handle' = [handle EXCEPT ![w] = xprt]
        /\ serves' = [serves EXCEPT ![w] = [peer |-> client, call |-> x_id[xprt]]]
        /\ UNCHANGED <<vars, order, network, events, fd, accept_sock, conns, handled>>
    BY DEF RequestDispatch
  <1>2. UNCHANGED <<peer_of, inbuf, x_id, strm_stat>>
    BY <1>1 DEF network, conns
  <1>3. UNCHANGED <<sock_xports, live, mtxp_id, xp_sock>>
    BY <1>1, SameVars
  <1>4. PICK x \in Xprt : x = xprt
    BY <1>1, ServedXprt
  <1>5. fd \in Sock /\ Registered(x) /\ xp_sock[x] = fd
    BY <1>1, <1>4, ServedXprt
  <1>6. PICK c \in Peers \cup {BAD} : c = client
    BY <1>5 DEF TcpInv, TcpTypeOK, client
  <1>7. PICK r \in Records \cup {BAD} : r = x_id[x]
    BY DEF TcpInv, TcpTypeOK
  <1>8. /\ wpc' \in [Workers -> {"idle", "start", "stuck", "args", "replied", "ending"}]
        /\ handle' \in [Workers -> Xprt \cup {BAD}]
        /\ serves' \in [Workers -> [peer : Peers \cup {BAD}, call : Records \cup {BAD}]]
        /\ handle'[w] = x /\ serves'[w] = [peer |-> c, call |-> r]
        /\ wpc'[w] = "start" /\ \A v \in Workers \ {w} : wpc'[v] = wpc[v]
    BY <1>1, <1>4, <1>6, <1>7, WorkerTypes
  <1>9. Serving' = {w}
    <2>1. Serving = {}
      BY <1>1, NoneServing DEF TcpInv
    <2>. QED
      BY <1>8, <2>1 DEF Serving
  <1>10. WorkerAt'
    BY <1>1, <1>3, <1>4, <1>8, <1>9 DEF WorkerAt, xprt
  <1>11. RepliesToCaller'
    <2>1. peer_of'[xp_sock'[x]] = c /\ x_id'[x] = r
      BY <1>2, <1>3, <1>5, <1>6, <1>7 DEF client
    <2>2. Registered(x)'
      BY <1>3, <1>5 DEF Registered
    <2>. QED
      BY <1>8, <1>9, <2>1, <2>2 DEF RepliesToCaller
  <1>12. strm_stat' \in [Xprt -> {"IDLE", "DIED"}] /\ worker_return' \in {0, 1}
    BY <1>1, <1>2, WorkerTypes
  <1>. QED
    BY <1>1, <1>2, <1>8, <1>10, <1>11, <1>12, WorkerMoves

LEMMA GetargsKeeps ==
  ASSUME TcpInv, Running, NEW w \in Workers, SvctcpGetargs(w)
  PROVE  TcpInv'
  <1>1. /\ wpc[w] = "start"
        /\ UNCHANGED <<vars, order, network, spc, events, fd, accept_sock, worker_return, conns,
                       handle, serves, handled>>
    BY DEF SvctcpGetargs
  <1>2. PICK at \in {"stuck", "args"} : wpc' = [wpc EXCEPT ![w] = at]
    BY DEF SvctcpGetargs
  <1>3. UNCHANGED <<peer_of, inbuf, x_id, strm_stat>>
    BY <1>1 DEF network, conns
  <1>4. /\ wpc' \in [Workers -> {"idle", "start", "stuck", "args", "replied", "ending"}]
        /\ Serving' = Serving
    BY <1>1, <1>2, WorkerTypes DEF Serving
  <1>5. UNCHANGED <<sock_xports, live, mtxp_id, xp_sock>>
    BY <1>1, SameVars
  <1>6. WorkerAt' /\ RepliesToCaller'
    BY <1>1, <1>3, <1>4, <1>5 DEF TcpInv, WorkerAt, RepliesToCaller, Registered
  <1>. QED
    BY <1>1, <1>3, <1>4, <1>6, WorkerTypes, WorkerMoves

\* The transport of a worker that replies is the one it was given.
LEMMA ReplyKeeps ==
  ASSUME TcpInv, Running, NEW w \in Workers, SvctcpReply(w)
  PROVE  TcpInv'
  <1>1. /\ wpc[w] = "args" /\ wpc' = [wpc EXCEPT ![w] = "replied"]
        /\ UNCHANGED <<order, network, spc, events, fd, accept_sock, worker_return, inbuf, x_id,
                       handle, serves, handled>>
    BY DEF SvctcpReply
  <1>2. w \in Serving
    BY <1>1 DEF Serving
  <1>3. handle[w] \in Xprt /\ Registered(handle[w])
    BY <1>2 DEF TcpInv, RepliesToCaller, Registered, TcpRegistry, TypeOK
  <1>4. xports[mtxp_id[handle[w]]] = handle[w]
    BY <1>3 DEF TcpInv, TcpRegistry, LiveXprtFound
  <1>5. UNCHANGED vars /\ Write(handle[w])
    BY <1>4 DEF SvctcpReply
  <1>6. strm_stat' \in [Xprt -> {"IDLE", "DIED"}]
    BY <1>5, WorkerTypes DEF Write
  <1>7. UNCHANGED peer_of
    BY <1>1 DEF network
  <1>8. /\ wpc' \in [Workers -> {"idle", "start", "stuck", "args", "replied", "ending"}]
        /\ Serving' = Serving
    BY <1>1, WorkerTypes DEF Serving
  <1>9. UNCHANGED <<sock_xports, live, mtxp_id, xp_sock>>
    BY <1>5, SameVars
  <1>10. WorkerAt' /\ RepliesToCaller'
    BY <1>1, <1>7, <1>8, <1>9 DEF TcpInv, WorkerAt, RepliesToCaller, Registered
  <1>. QED
    BY <1>1, <1>5, <1>6, <1>8, <1>10, WorkerTypes, WorkerMoves

\* The one call that is served is returned.
LEMMA SvcReturnKeeps ==
  ASSUME TcpInv, Running, NEW w \in Workers, SvcReturn(w)
  PROVE  TcpInv'
  <1>1. /\ wpc[w] = "replied" /\ worker_return' = 1 /\ wpc' = [wpc EXCEPT ![w] = "ending"]
        /\ UNCHANGED <<vars, order, network, spc, events, fd, accept_sock, conns, handle, serves,
                       handled>>
    BY DEF SvcReturn
  <1>2. UNCHANGED <<inbuf, x_id, strm_stat>>
    BY <1>1 DEF conns
  <1>3. /\ wpc' \in [Workers -> {"idle", "start", "stuck", "args", "replied", "ending"}]
        /\ Serving' = Serving \ {w} /\ w \in Serving
    BY <1>1, WorkerTypes DEF Serving
  <1>4. Serving' = {}
    BY <1>3 DEF TcpInv, WorkerAt
  <1>5. WorkerAt' /\ RepliesToCaller'
    BY <1>4 DEF WorkerAt, RepliesToCaller
  <1>. QED
    BY <1>1, <1>2, <1>3, <1>5, WorkerTypes, WorkerMoves

LEMMA SvcReturnEndKeeps ==
  ASSUME TcpInv, Running, NEW w \in Workers, SvcReturnEnd(w)
  PROVE  TcpInv'
  <1>1. /\ wpc[w] = "ending" /\ wpc' = [wpc EXCEPT ![w] = "idle"]
        /\ handle' = [handle EXCEPT ![w] = BAD]
        /\ serves' = [serves EXCEPT ![w] = Nobody]
        /\ spc' = spc \/ spc' = "crashed"
        /\ UNCHANGED <<vars, order, network, events, fd, accept_sock, worker_return, conns, handled>>
    BY DEF SvcReturnEnd
  <1>2. UNCHANGED <<peer_of, inbuf, x_id, strm_stat>>
    BY <1>1 DEF network, conns
  <1>3. UNCHANGED <<sock_xports, live, mtxp_id, xp_sock>>
    BY <1>1, SameVars
  <1>4. Nobody \in [peer : Peers \cup {BAD}, call : Records \cup {BAD}]
    BY DEF Nobody
  <1>5. /\ wpc' \in [Workers -> {"idle", "start", "stuck", "args", "replied", "ending"}]
        /\ handle' \in [Workers -> Xprt \cup {BAD}]
        /\ serves' \in [Workers -> [peer : Peers \cup {BAD}, call : Records \cup {BAD}]]
        /\ \A v \in Workers \ {w} : handle'[v] = handle[v] /\ serves'[v] = serves[v]
    BY <1>1, <1>4, WorkerTypes
  <1>6. Serving' = Serving /\ w \notin Serving
    BY <1>1, WorkerTypes DEF Serving
  <1>7. \A v \in Serving : v \in Workers \ {w}
    BY <1>6 DEF Serving
  <1>8. WorkerAt'
    BY <1>1, <1>3, <1>5, <1>6, <1>7 DEF TcpInv, WorkerAt
  <1>9. RepliesToCaller'
    BY <1>2, <1>3, <1>5, <1>6, <1>7 DEF TcpInv, RepliesToCaller, Registered
  <1>. QED
    BY <1>1, <1>2, <1>5, <1>8, <1>9, WorkerTypes, WorkerMoves

-----------------------------------------------------------------------------
(* The clients.                                                            *)

\* Steps of which the server sees nothing yet.
LEMMA PeerMoves ==
  ASSUME TcpInv, Running, UNCHANGED vars,
         UNCHANGED <<order, peer_of, spc, events, fd, accept_sock, worker_return, conns, workers,
                     handled>>,
         peer' \in [Peers -> {"off", "open", "gone"}],
         sent' \in [Peers -> Seq(Records)], stream' \in [Peers -> Seq(Records)],
         \A p \in Peers : Len(sent'[p]) <= MaxSent[p],
         backlog' \in Seq(Peers),
         \A p \in Peers : Fresh(p) => Fresh(p)',
         \A p \in Peers : peer[p] # "off" => peer'[p] # "off",
         BacklogAt', ReceivedInOrder'
  PROVE  TcpInv'
  <1>1. UNCHANGED <<inbuf, x_id, strm_stat, wpc, handle, serves>>
    BY DEF conns, workers
  <1>2. UNCHANGED <<sock_xports, xports_maxid, live, kind, xp_sock, mtxp_id, fds, pc, arg, died>>
    BY SameVars
  <1>3. TcpRegistry'
    BY TcpUntouched DEF TcpInv
  <1>4. TcpFunctions'
    BY <1>1 DEF TcpInv, TcpFunctions
  <1>5. TcpTypeOK'
    <2>1. TypeOK'
      BY <1>3 DEF TcpRegistry
    <2>2. \A p \in Peers : {sent'[p], stream'[p], handled'[p]} \subseteq Seq(Records)
      BY <1>4, RecordsTyped
    <2>. QED
      BY <1>1, <2>1, <2>2 DEF TcpInv, TcpTypeOK
  <1>6. MainAt' /\ SetupAt' /\ ServedAt' /\ FdsExact' /\ WorkerAt' /\ RepliesToCaller'
    BY <1>1, <1>2, FrameMain, FrameSetup, FrameServed, FrameFds, FrameWorker, FrameReplies DEF TcpInv
  <1>7. peer_of \in [Sock -> Peers \cup {BAD}]
    BY DEF TcpInv, TcpTypeOK
  <1>8. AcceptAt'
    BY <1>1, <1>2, <1>7, FrameAccept DEF TcpInv
  <1>9. PeersApart'
    <2>1. \A s \in Sock : peer_of[s] # BAD => peer_of[s] \in Peers
      BY <1>7
    <2>2. Closed' = Closed
      BY <1>2 DEF Closed
    <2>. QED
      BY <1>2, <2>1, <2>2 DEF TcpInv, PeersApart, Registered
  <1>. QED
    BY <1>3, <1>4, <1>5, <1>6, <1>8, <1>9 DEF TcpInv

LEMMA PeerTypes ==
  ASSUME TcpInv
  PROVE  /\ peer \in [Peers -> {"off", "open", "gone"}]
         /\ sent \in [Peers -> Seq(Records)] /\ stream \in [Peers -> Seq(Records)]
         /\ handled \in [Peers -> Seq(Records)] /\ inbuf \in [Xprt -> Seq(Records)]
         /\ peer_of \in [Sock -> Peers \cup {BAD}]
         /\ \A p \in Peers : Len(sent[p]) <= MaxSent[p]
         /\ backlog \in Seq(Peers)
  BY DEF TcpInv, TcpTypeOK, TcpFunctions

\* A client that connects is in the backlog once.
LEMMA ConnectKeeps ==
  ASSUME TcpInv, Running, NEW p \in Peers, Connect(p)
  PROVE  TcpInv'
  <1>1. /\ peer[p] = "off" /\ peer' = [peer EXCEPT ![p] = "open"]
        /\ backlog' = Append(backlog, p)
        /\ UNCHANGED <<vars, order, sent, stream, peer_of, spc, events, fd, accept_sock,
                       worker_return, conns, workers, handled>>
    BY DEF Connect
  <1>2. UNCHANGED <<inbuf, live, mtxp_id, kind, xp_sock>>
    BY <1>1, SameVars DEF conns
  <1>3. /\ peer' \in [Peers -> {"off", "open", "gone"}] /\ peer'[p] = "open"
        /\ \A q \in Peers : peer'[q] = "off" => peer[q] = "off"
        /\ \A q \in Peers : peer[q] # "off" => peer'[q] # "off"
    BY <1>1, PeerTypes
  <1>4. PICK b \in Seq(Peers) : b = backlog
    BY PeerTypes
  <1>5. /\ backlog' \in Seq(Peers) /\ Len(b) \in Nat /\ DOMAIN b = 1 .. Len(b)
        /\ DOMAIN backlog' = 1 .. Len(b) + 1
        /\ \A i \in 1 .. Len(b) : backlog'[i] = b[i]
        /\ backlog'[Len(b) + 1] = p
    BY <1>1, <1>4, AppendProperties, LenProperties
  <1>6. \A q \in Peers : Fresh(q)' <=> Fresh(q)
    BY <1>1 DEF Fresh
  <1>7. /\ p # BAD /\ Fresh(p)
        /\ \A s \in Sock : peer_of[s] # p
        /\ \A i \in 1 .. Len(b) : b[i] # p
    <2>1. Fresh(p)
      BY <1>1 DEF TcpInv, BacklogAt
    <2>2. p # BAD
      BY TcpAssumption
    <2>3. \A s \in Sock : peer_of[s] # p
      BY <1>1, <2>2 DEF TcpInv, PeersApart
    <2>4. \A i \in DOMAIN b : b[i] # p
      BY <1>1, <1>4 DEF TcpInv, BacklogAt
    <2>. QED
      BY <1>5, <2>1, <2>2, <2>3, <2>4
  <1>8. BacklogAt'
    <2>1. \A q \in Peers : peer'[q] = "off" => Fresh(q)'
      BY <1>3, <1>6 DEF TcpInv, BacklogAt
    <2>2. ASSUME NEW i \in 1 .. Len(b) + 1
          PROVE  i \in 1 .. Len(b) \/ i = Len(b) + 1
      BY <1>5
    <2>3. \A i, j \in DOMAIN backlog' : backlog'[i] = backlog'[j] => i = j
      <3>1. SUFFICES ASSUME NEW i \in 1 .. Len(b) + 1, NEW j \in 1 .. Len(b) + 1,
                            backlog'[i] = backlog'[j]
                     PROVE  i = j
        BY <1>5
      <3>2. \A k, l \in 1 .. Len(b) : b[k] = b[l] => k = l
        BY <1>4, <1>5 DEF TcpInv, BacklogAt
      <3>. QED
        BY <1>5, <1>7, <2>2, <3>1, <3>2
    <2>4. ASSUME NEW i \in 1 .. Len(b) + 1
          PROVE  /\ peer'[backlog'[i]] # "off" /\ Fresh(backlog[i])'
                 /\ \A s \in Sock : peer_of[s] # backlog'[i]
      <3>1. CASE i \in 1 .. Len(b)
        <4>1. /\ b[i] \in Peers /\ peer[b[i]] # "off" /\ Fresh(b[i])
              /\ \A s \in Sock : peer_of[s] # b[i]
          BY <1>4, <1>5, <3>1, SeqElements DEF TcpInv, BacklogAt
        <4>2. backlog'[i] = b[i]
          BY <1>5, <3>1
        <4>3. Fresh(backlog[i])'
          BY <1>1, <4>1, <4>2 DEF Fresh
        <4>. QED
          BY <1>3, <4>1, <4>2, <4>3
      <3>2. CASE i = Len(b) + 1
        <4>1. backlog'[i] = p
          BY <1>5, <3>2
        <4>2. Fresh(backlog[i])'
          BY <1>1, <1>7, <4>1 DEF Fresh
        <4>. QED
          BY <1>3, <1>7, <4>1, <4>2
      <3>. QED
        BY <2>2, <3>1, <3>2
    <2>. QED
      BY <1>1, <1>5, <2>1, <2>3, <2>4 DEF BacklogAt
  <1>9. ReceivedInOrder'
    BY <1>1, <1>2, FrameReceived DEF TcpInv
  <1>10. sent' \in [Peers -> Seq(Records)] /\ stream' \in [Peers -> Seq(Records)]
         /\ \A q \in Peers : Len(sent'[q]) <= MaxSent[q]
    BY <1>1, PeerTypes
  <1>. QED
    BY <1>1, <1>3, <1>5, <1>6, <1>8, <1>9, <1>10, PeerMoves

LEMMA CloseKeepsTcp ==
  ASSUME TcpInv, Running, NEW p \in Peers, Close(p)
  PROVE  TcpInv'
  <1>1. /\ peer[p] = "open" /\ peer' = [peer EXCEPT ![p] = "gone"]
        /\ UNCHANGED <<vars, order, sent, stream, backlog, peer_of, spc, events, fd, accept_sock,
                       worker_return, conns, workers, handled>>
    BY DEF Close
  <1>2. UNCHANGED <<inbuf, live, mtxp_id, kind, xp_sock>>
    BY <1>1, SameVars DEF conns
  <1>3. /\ peer' \in [Peers -> {"off", "open", "gone"}]
        /\ \A q \in Peers : peer'[q] = "off" => peer[q] = "off"
        /\ \A q \in Peers : peer[q] # "off" => peer'[q] # "off"
    BY <1>1, PeerTypes
  <1>4. \A q \in Peers : Fresh(q)' <=> Fresh(q)
    BY <1>1 DEF Fresh
  <1>5. \A i \in DOMAIN backlog : backlog[i] \in Peers
    BY PeerTypes, SeqElements
  <1>6. BacklogAt'
    BY <1>1, <1>3, <1>4, <1>5 DEF TcpInv, BacklogAt
  <1>7. ReceivedInOrder'
    BY <1>1, <1>2, FrameReceived DEF TcpInv
  <1>8. /\ sent' \in [Peers -> Seq(Records)] /\ stream' \in [Peers -> Seq(Records)]
        /\ backlog' \in Seq(Peers)
        /\ \A q \in Peers : Len(sent'[q]) <= MaxSent[q]
    BY <1>1, PeerTypes
  <1>. QED
    BY <1>1, <1>3, <1>4, <1>6, <1>7, <1>8, PeerMoves

\* A record is sent: it is the last one in the stream.
LEMMA SendKeeps ==
  ASSUME TcpInv, Running, NEW p \in Peers, NEW r \in Says[p], Send(p, r)
  PROVE  TcpInv'
  <1>1. /\ Len(sent[p]) < MaxSent[p]
        /\ sent' = [sent EXCEPT ![p] = Append(sent[p], r)]
        /\ stream' = [stream EXCEPT ![p] = Append(stream[p], r)]
        /\ UNCHANGED <<vars, order, peer, backlog, peer_of, spc, events, fd, accept_sock,
                       worker_return, conns, workers, handled>>
    BY DEF Send
  <1>2. r \in Records
    BY TcpAssumption DEF Records
  <1>3. UNCHANGED <<inbuf, live, mtxp_id, kind, xp_sock>>
    BY <1>1, SameVars DEF conns
  <1>4. PICK a \in Seq(Records), s \in Seq(Records) : a = sent[p] /\ s = stream[p]
    BY PeerTypes
  <1>5. PICK a1 \in Seq(Records) : a1 = Append(a, r) /\ Len(a1) = Len(a) + 1
    BY <1>2, AppendProperties
  <1>6. PICK s1 \in Seq(Records) : s1 = Append(s, r)
    BY <1>2, AppendProperties
  <1>7. /\ sent' \in [Peers -> Seq(Records)] /\ stream' \in [Peers -> Seq(Records)]
        /\ sent'[p] = a1 /\ stream'[p] = s1
        /\ \A q \in Peers \ {p} : sent'[q] = sent[q] /\ stream'[q] = stream[q]
    <2>1. sent' = [sent EXCEPT ![p] = a1] /\ stream' = [stream EXCEPT ![p] = s1]
      BY <1>1, <1>4, <1>5, <1>6
    <2>. QED
      BY <2>1, PeerTypes
  <1>8. \A q \in Peers : Len(sent'[q]) <= MaxSent[q]
    <2>1. Len(a) \in Nat /\ MaxSent[p] \in Nat
      BY LenProperties, TcpAssumption
    <2>2. Len(a1) <= MaxSent[p]
      BY <1>1, <1>4, <1>5, <2>1
    <2>. QED
      BY <1>7, <2>2, PeerTypes
  <1>9. \A q \in Peers : Fresh(q) => Fresh(q)'
    <2>1. Fresh(p) => Fresh(p)'
      BY <1>1, <1>4, <1>5, <1>6, <1>7 DEF Fresh
    <2>2. \A q \in Peers \ {p} : Fresh(q) => Fresh(q)'
      BY <1>1, <1>7 DEF Fresh
    <2>. QED
      BY <2>1, <2>2
  <1>10. \A i \in DOMAIN backlog : backlog[i] \in Peers
    BY PeerTypes, SeqElements
  <1>11. BacklogAt'
    <2>1. \A i \in DOMAIN backlog : Fresh(backlog[i])'
      <3>1. SUFFICES ASSUME NEW i \in DOMAIN backlog
                     PROVE  Fresh(backlog[i])'
        OBVIOUS
      <3>2. PICK q \in Peers : q = backlog[i]
        BY <1>10
      <3>3. Fresh(q)'
        BY <1>9, <3>2 DEF TcpInv, BacklogAt
      <3>. QED
        BY <1>1, <3>2, <3>3 DEF Fresh
    <2>. QED
      BY <1>1, <1>9, <1>10, <2>1 DEF TcpInv, BacklogAt
  <1>12. ReceivedInOrder'
    <2>1. SUFFICES ASSUME NEW y \in Xprt, Registered(y), kind[y] = "connection",
                          NEW q, q = peer_of[xp_sock[y]], q # BAD
                   PROVE  handled[q] \o inbuf[y] \o stream'[q] = sent'[q]
      BY <1>1, <1>3 DEF ReceivedInOrder, Registered
    <2>2. q \in Peers /\ inbuf[y] \in Seq(Records)
      <3>1. xp_sock[y] \in Sock
        BY <2>1, OwnerOfSocket DEF TcpInv
      <3>. QED
        BY <2>1, <3>1, PeerTypes
    <2>3. handled[q] \o inbuf[y] \o stream[q] = sent[q]
      BY <2>1 DEF TcpInv, ReceivedInOrder
    <2>4. CASE q # p
      BY <1>7, <2>2, <2>3, <2>4
    <2>5. CASE q = p
      <3>1. PICK h \in Seq(Records), b \in Seq(Records) : h = handled[q] /\ b = inbuf[y]
        BY <2>2, PeerTypes
      <3>2. h \o b \o s = a
        BY <1>4, <2>3, <2>5, <3>1
      <3>3. h \o b \o Append(s, r) = Append(h \o b \o s, r)
        BY <1>2, SendAppends
      <3>. QED
        BY <1>5, <1>6, <1>7, <2>5, <3>1, <3>2, <3>3
    <2>. QED
      BY <2>4, <2>5
  <1>13. peer' \in [Peers -> {"off", "open", "gone"}] /\ backlog' \in Seq(Peers)
         /\ \A q \in Peers : peer[q] # "off" => peer'[q] # "off"
    BY <1>1, PeerTypes
  <1>. QED
    BY <1>1, <1>7, <1>8, <1>9, <1>11, <1>12, <1>13, PeerMoves

-----------------------------------------------------------------------------
(* The invariant holds at the start and is kept by every step.             *)

LEMMA TcpInitEstablishes ==
  ASSUME TcpInit
  PROVE  TcpInv
  <1>1. Init
    BY DEF TcpInit
  <1>2. /\ xports_maxid = -1 /\ xprtgc_idset = EmptyVec /\ xprtgc_mark_count = 0 /\ live = {}
        /\ sock_xports = [s \in Sock |-> BAD] /\ fds = {} /\ retired = {} /\ died = "no"
        /\ mtxp_parent = [x \in Xprt |-> NO_PARENT] /\ mtxp_refcnt = [x \in Xprt |-> 0]
        /\ pc = [t \in Threads |-> "idle"]
    BY <1>1 DEF Init
  <1>3. TcpRegistry
    <2>1. RegistryInv
      BY <1>1, InitEstablishes
    <2>2. NothingCollected
      BY <1>2 DEF NothingCollected, IsClone
    <2>. QED
      BY <2>1, <2>2 DEF RegistryInv, TcpRegistry
  <1>4. /\ order \in Orders /\ peer = [p \in Peers |-> "off"]
        /\ sent = [p \in Peers |-> <<>>] /\ stream = [p \in Peers |-> <<>>]
        /\ handled = [p \in Peers |-> <<>>] /\ inbuf = [x \in Xprt |-> <<>>]
        /\ backlog = <<>> /\ peer_of = [s \in Sock |-> BAD]
        /\ spc = "setup" /\ events = {} /\ fd = NoFd /\ accept_sock = NoFd /\ worker_return = 0
        /\ x_id = [x \in Xprt |-> BAD] /\ strm_stat = [x \in Xprt |-> "IDLE"]
        /\ wpc = [w \in Workers |-> "idle"] /\ handle = [w \in Workers |-> BAD]
        /\ serves = [w \in Workers |-> Nobody]
    BY DEF TcpInit
  <1>5. <<>> \in Seq(Records) /\ <<>> \in Seq(Peers)
    OBVIOUS
  <1>6. TcpFunctions
    BY <1>4, <1>5 DEF TcpFunctions, Nobody
  <1>7. TcpTypeOK
    <2>1. TypeOK
      BY <1>3 DEF TcpRegistry
    <2>2. \A p \in Peers : MaxSent[p] \in Nat
      BY TcpAssumption
    <2>3. \A p \in Peers : /\ {sent[p], stream[p], handled[p]} \subseteq Seq(Records)
                           /\ Len(sent[p]) <= MaxSent[p]
      <3>1. Len(<<>>) = 0
        BY EmptySeq
      <3>2. ASSUME NEW p \in Peers
            PROVE  Len(sent[p]) <= MaxSent[p]
        <4>1. Len(sent[p]) = 0
          BY <1>4, <3>1
        <4>2. PICK n \in Nat : n = MaxSent[p]
          BY <2>2
        <4>. QED
          BY <4>1, <4>2
      <3>. QED
        BY <1>4, <1>5, <3>2
    <2>. QED
      BY <1>4, <1>5, <2>1, <2>3 DEF TcpTypeOK
  <1>8. pc[Main] = "idle" /\ \A s \in Sock : sock_xports[s] = BAD
    BY <1>2 DEF Threads
  <1>9. MainAt /\ SetupAt /\ ServedAt /\ AcceptAt
    BY <1>2, <1>4, <1>8 DEF MainAt, SetupAt, ServedAt, AcceptAt, ReapSteps
  <1>10. FdsExact
    BY <1>2, <1>4, <1>8 DEF FdsExact, Closed, Accepting
  <1>11. BacklogAt
    <2>1. DOMAIN backlog = {}
      BY <1>4
    <2>2. \A p \in Peers : Fresh(p)
      BY <1>4 DEF Fresh
    <2>. QED
      BY <2>1, <2>2 DEF BacklogAt
  <1>12. PeersApart /\ ReceivedInOrder
    BY <1>2, <1>4 DEF PeersApart, ReceivedInOrder, Registered
  <1>13. Serving = {}
    BY <1>4 DEF Serving
  <1>14. WorkerAt /\ RepliesToCaller
    BY <1>13 DEF WorkerAt, RepliesToCaller
  <1>. QED
    BY <1>3, <1>6, <1>7, <1>9, <1>10, <1>11, <1>12, <1>14 DEF TcpInv

LEMMA TcpStutters ==
  ASSUME TcpInv, UNCHANGED <<vars, tcp>>
  PROVE  TcpInv'
  <1>1. UNCHANGED <<order, peer, sent, stream, backlog, peer_of, spc, events, fd, accept_sock,
                    worker_return, inbuf, x_id, strm_stat, wpc, handle, serves, handled>>
    BY DEF tcp, network, conns, workers
  <1>2. UNCHANGED <<sock_xports, xports_maxid, live, kind, xp_sock, mtxp_id, fds, pc, arg, died>>
    BY SameVars
  <1>3. TcpRegistry'
    BY TcpUntouched DEF TcpInv
  <1>4. TcpTypeOK' /\ TcpFunctions'
    <2>1. {fd', accept_sock'} \subseteq Sock \cup {NoFd} /\ events' \subseteq Sock /\ spc' \in Places
      BY <1>1 DEF TcpInv, TcpTypeOK, Places
    <2>2. peer_of' \in [Sock -> Peers \cup {BAD}]
      BY <1>1 DEF TcpInv, TcpTypeOK
    <2>. QED
      BY <1>1, <1>3, <2>1, <2>2, TypesSame DEF TcpInv
  <1>5. MainAt' /\ SetupAt' /\ ServedAt' /\ FdsExact'
    BY <1>1, <1>2, FrameMain, FrameSetup, FrameServed, FrameFds DEF TcpInv
  <1>6. AcceptAt'
    <2>1. \A p \in Peers : Fresh(p) => Fresh(p)'
      BY <1>1 DEF Fresh
    <2>2. peer_of \in [Sock -> Peers \cup {BAD}]
      BY DEF TcpInv, TcpTypeOK
    <2>. QED
      BY <1>1, <1>2, <2>1, <2>2, FrameAccept DEF TcpInv
  <1>7. BacklogAt' /\ PeersApart' /\ WorkerAt' /\ RepliesToCaller' /\ ReceivedInOrder'
    BY <1>1, <1>2, FrameBacklog, FramePeers, FrameWorker, FrameReplies, FrameReceived DEF TcpInv
  <1>. QED
    BY <1>3, <1>4, <1>5, <1>6, <1>7 DEF TcpInv

LEMMA TcpNextKeeps ==
  ASSUME Scope, SmallIds, SmallIds', TcpInv, [TcpNext]_<<vars, tcp>>
  PROVE  TcpInv'
  <1>1. CASE UNCHANGED <<vars, tcp>>
    BY <1>1, TcpStutters
  <1>2. ASSUME Running, MainStep
        PROVE  TcpInv'
    <2>1. CASE CreateService
      BY <1>2, <2>1, CreateServiceKeeps
    <2>2. CASE \E x \in Xprt : MakeConnection(x)
      BY <1>2, <2>2, MakeConnectionKeeps
    <2>3. CASE RegisterService
      BY <1>2, <2>3, RegisterServiceKeeps
    <2>4. CASE SvcRun \/ Reap
      BY <1>2, <2>4, SvcRunKeeps
    <2>5. CASE SvcPoll
      BY <1>2, <2>5, SvcPollKeeps
    <2>6. CASE \E s \in Sock : SvcGetreqCommon(s)
      BY <1>2, <2>6, GetreqCommonKeeps
    <2>7. CASE SvcGetreqPollReturn
      BY <1>2, <2>7, PollReturnKeeps
    <2>8. CASE RendezvousRequest
      BY <1>2, <2>8, RendezvousKeeps
    <2>9. CASE SvcAcceptFailed
      BY <1>2, <2>9, AcceptFailedKeeps
    <2>10. CASE MoveFd
      BY <1>2, <2>10, MoveFdFailedKeeps, MoveFdKeeps
    <2>11. CASE RegisterConnection
      BY <1>2, <2>11, RegisterConnectionKeeps
    <2>12. CASE \E p \in Peers : \E k \in 1 .. MaxSent[p] : Readtcp(k)
      BY <1>2, <2>12, ReadtcpKeeps
    <2>13. CASE ReadtcpFails
      BY <1>2, <2>13, ReadtcpFailsKeeps
    <2>14. CASE \E r \in Records :
                  RecvMalformed(r) \/ RecvUnknown(r) \/ RecvBadAuth(r) \/ RecvCall(r)
      BY <1>2, <2>14, RecvKeeps
    <2>15. CASE \E w \in Workers : RequestDispatch(w)
      BY <1>2, <2>15, DispatchKeeps
    <2>16. CASE WaitOnReturn
      BY <1>2, <2>16, WaitOnReturnKeeps
    <2>17. CASE SvctcpStat
      BY <1>2, <2>17, SvctcpStatKeeps
    <2>18. CASE SvctcpDestroyClose
      BY <1>2, <2>18, DestroyCloseKeeps
    <2>19. CASE SvctcpDestroyUnregister
      BY <1>2, <2>19, DestroyUnregisterKeeps
    <2>20. CASE SvctcpDestroyReturn
      BY <1>2, <2>20, DestroyReturnKeeps
    <2>. QED
      BY <1>2, <2>1, <2>2, <2>3, <2>4, <2>5, <2>6, <2>7, <2>8, <2>9, <2>10, <2>11, <2>12, <2>13,
         <2>14, <2>15, <2>16, <2>17, <2>18, <2>19, <2>20 DEF MainStep
  <1>3. ASSUME Running, NEW w \in Workers, WorkerStep(w)
        PROVE  TcpInv'
    BY <1>3, GetargsKeeps, ReplyKeeps, SvcReturnKeeps, SvcReturnEndKeeps DEF WorkerStep
  <1>4. ASSUME Running, NEW p \in Peers, PeerStep(p)
        PROVE  TcpInv'
    BY <1>4, ConnectKeeps, CloseKeepsTcp, SendKeeps DEF PeerStep
  <1>. QED
    BY <1>1, <1>2, <1>3, <1>4 DEF TcpNext

\* The ids in use never become fewer, so that ids that are small were small.
LEMMA TcpMaxidGrows ==
  ASSUME xports_maxid \in Id \cup {-1}, [TcpNext]_<<vars, tcp>>
  PROVE  xports_maxid' \in Id \cup {-1} /\ xports_maxid <= xports_maxid'
  <1>1. ASSUME UNCHANGED xports_maxid
        PROVE  xports_maxid' \in Id \cup {-1} /\ xports_maxid <= xports_maxid'
    BY <1>1, NBitsAssumption DEF Id
  <1>2. CASE XprtRegister(Main)
    <2>1. CASE UNCHANGED xports_maxid
      BY <1>1, <2>1
    <2>2. CASE ~OutOfIds(XprtIdAlloc) /\ Enter(arg[Main], XprtIdAlloc)
      BY <2>2, EnterGrows
    <2>. QED
      BY <1>2, <2>1, <2>2 DEF XprtRegister, SvcDie, registry
  <1>3. CASE UNCHANGED <<vars, tcp>>
    BY <1>1, <1>3 DEF vars, registry
  <1>4. CASE MainStep
    <2>1. UNCHANGED xports_maxid \/ XprtRegister(Main)
      BY <1>4 DEF MainStep, CreateService, SvctcpCreate, MakeConnection, MakefdXprt, Construct,
         RegisterService, SvcRun, XprtGcReapAll, Reap, ReapAllReturn, SvcPoll, SvcGetreqCommon,
         SvcGetreqPollReturn, RendezvousRequest, SvcAcceptFailed, MoveFd, RegisterConnection,
         Readtcp, ReadtcpFails, RecvMalformed, RecvUnknown, RecvBadAuth, RecvCall, SvctcpRecv,
         RequestDispatch, WaitOnReturn, SvctcpStat, SvctcpDestroyClose, DestroyClose,
         SvctcpDestroyUnregister, DestroyUnregister, UnregisterId, SvcDie, SvctcpDestroyReturn,
         vars, registry
    <2>. QED
      BY <1>1, <1>2, <2>1
  <1>5. CASE \E w \in Workers : WorkerStep(w)
    BY <1>1, <1>5 DEF WorkerStep, SvctcpGetargs, SvctcpReply, SvcReturn, SvcReturnEnd, SvcDie,
       vars, registry
  <1>6. CASE \E p \in Peers : PeerStep(p)
    BY <1>1, <1>6 DEF PeerStep, Connect, Close, Send, vars, registry
  <1>. QED
    BY <1>3, <1>4, <1>5, <1>6 DEF TcpNext

-----------------------------------------------------------------------------

(***************************************************************************)
(* The invariant of the TCP service holds in every state, for any number   *)
(* of clients, workers, connections and records, as long as the ids are    *)
(* small enough for the bit vectors.                                       *)
(***************************************************************************)
THEOREM TcpCorrect ==
  ASSUME Scope
  PROVE  TcpSpec => [](SmallIds => TcpInv)
  <1> DEFINE Inv == xports_maxid \in Id \cup {-1} /\ (SmallIds => TcpInv)
  <1>1. TcpInit => Inv
    BY TcpInitEstablishes DEF TcpInit, Init
  <1>2. Inv /\ [TcpNext]_<<vars, tcp>> => Inv'
    <2>1. SUFFICES ASSUME Inv, [TcpNext]_<<vars, tcp>>
                   PROVE  Inv'
      OBVIOUS
    <2>2. xports_maxid' \in Id \cup {-1} /\ xports_maxid <= xports_maxid'
      BY <2>1, TcpMaxidGrows
    <2>3. SmallIds' => SmallIds
      BY <2>1, <2>2, NBitsAssumption, WordBytesAssumption DEF SmallIds, Id
    <2>. QED
      BY <2>1, <2>2, <2>3, TcpNextKeeps
  <1>3. Inv => (SmallIds => TcpInv)
    OBVIOUS
  <1>. QED
    BY <1>1, <1>2, <1>3, PTL DEF TcpSpec

(***************************************************************************)
(* The variables of the TCP service keep their types.                      *)
(***************************************************************************)
THEOREM TcpTypesCorrect ==
  ASSUME Scope
  PROVE  TcpSpec => [](SmallIds => TcpTypeOK)
  <1>1. TcpInv => TcpTypeOK
    BY DEF TcpInv
  <1>. QED
    BY <1>1, TcpCorrect, PTL

(***************************************************************************)
(* svctcp_reply() answers the call that the worker serves, with its xid,   *)
(* on the connection of the peer that sent it.                             *)
(***************************************************************************)
THEOREM ReplyGoesToCaller ==
  ASSUME Scope
  PROVE  TcpSpec => [](SmallIds => RepliesToCaller)
  <1>1. TcpInv => RepliesToCaller
    BY DEF TcpInv
  <1>. QED
    BY <1>1, TcpCorrect, PTL

(***************************************************************************)
(* svctcp_recv() receives what a peer has sent once and in order, for any  *)
(* division of its records into reads.                                     *)
(***************************************************************************)
THEOREM RecordsStayInOrder ==
  ASSUME Scope
  PROVE  TcpSpec => [](SmallIds => ReceivedInOrder)
  <1>1. TcpInv => ReceivedInOrder
    BY DEF TcpInv
  <1>. QED
    BY <1>1, TcpCorrect, PTL

(***************************************************************************)
(* Between two rounds of serving the open descriptors are those of the     *)
(* registered transports, one for each, and move_fd() only fails when the  *)
(* range is really full.                                                   *)
(***************************************************************************)
THEOREM DescriptorsStayOwned ==
  ASSUME Scope
  PROVE  TcpSpec => [](SmallIds => DescriptorsOwned)
  <1>1. TcpInv => DescriptorsOwned
    <2>0. SUFFICES ASSUME TcpInv
                   PROVE  DescriptorsOwned
      OBVIOUS
    <2>1. ASSUME spc \in {"run", "poll"}
          PROVE  /\ \A x \in live : Registered(x)
                 /\ fds = {xp_sock[x] : x \in live}
                 /\ \A x, y \in live : xp_sock[x] = xp_sock[y] => x = y
      <3>1. Running
        BY <2>0, <2>1 DEF TcpInv, MainAt, Running, Stopped
      <3>2. pc[Main] # "register" /\ pc[Main] # "unregister"
        BY <2>0, <2>1, <3>1 DEF TcpInv, MainAt, ReapSteps
      <3>3. \A x \in live : Registered(x) /\ x \in Xprt
        BY <2>0, <3>2 DEF TcpInv, FdsExact, TcpRegistry, TypeOK
      <3>4. fds = {xp_sock[x] : x \in live}
        BY <2>0, <2>1, <3>2 DEF TcpInv, FdsExact, Closed, Accepting
      <3>5. \A x \in live : sock_xports[xp_sock[x]] = x
        BY <2>0, <3>3, OwnerOfSocket DEF TcpInv
      <3>. QED
        BY <3>3, <3>4, <3>5
    <2>2. ASSUME spc = "no descriptor"
          PROVE  lo .. hi \subseteq {accept_sock} \cup {xp_sock[x] : x \in live}
      BY <2>0, <2>2 DEF TcpInv, FdsExact, Accepting
    <2>. QED
      BY <2>1, <2>2 DEF DescriptorsOwned
  <1>. QED
    BY <1>1, TcpCorrect, PTL

(***************************************************************************)
(* Though its destructors run outside the collector, the TCP service keeps *)
(* the registry right: a registered connection is found under its id, its  *)
(* socket is watched in one poll slot, and the process dies only when      *)
(* every id belongs to a live transport, never of a lost transport or of a *)
(* socket that is not vacant.                                              *)
(***************************************************************************)
THEOREM TcpKeepsRegistry ==
  ASSUME Scope
  PROVE  TcpSpec => [](SmallIds => LiveXprtFound /\ SocketsWatched /\ DiesOnlyWhenFull)
  <1>1. TcpInv => LiveXprtFound /\ SocketsWatched /\ DiesOnlyWhenFull
    BY DEF TcpInv, TcpRegistry
  <1>. QED
    BY <1>1, TcpCorrect, PTL

=============================================================================
