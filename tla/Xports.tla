------------------------------- MODULE Xports -------------------------------
(***************************************************************************)
(* The registry of transports of RPC-MT (src/librpc/svc.c) and its garbage *)
(* collector.                                                              *)
(*                                                                         *)
(* A transport (SVCXPRT) is a block of memory with an id.  xports[id] and, *)
(* for a transport that owns its socket, sock_xports[sock] and a slot of   *)
(* xports_pollfd lead to it.  A clone of a UDP transport shares the socket *)
(* of its parent, which counts its clones.  A worker that is done with a   *)
(* clone, and the main thread when a connection has died, mark the id for  *)
(* collection; only the main thread, which runs svc_run(), destroys marked *)
(* transports.                                                             *)
(*                                                                         *)
(* A section that holds xports_lock is one step.  Everything the code does *)
(* outside it is a step of its own: opening and closing a socket, and the  *)
(* final write of the collector to xports.  xprtgc_lock is held by the     *)
(* main thread from the start to the end of the reaping of an id, which is *)
(* when pc[Main] is one of ReapSteps; the scan for marked ids does not     *)
(* hold it.                                                                *)
(***************************************************************************)
EXTENDS Bitvec, Sequences, FiniteSets

CONSTANTS
  Xprt,         (* the addresses at which alloc_xprt() may place a SVCXPRT *)
  Sock,         (* the file descriptors a socket may get                   *)
  BAD,          (* BAD_SVCXPRT_PTR: no transport                           *)
  NoFd,         (* -1 in the fd field of an unused poll slot               *)
  Main,         (* the thread that runs svc_run()                          *)
  Creators,     (* other threads that create transports while it runs      *)
  ProgressBits  (* the milestones of mtxp_progress that are told apart     *)

ASSUME XprtAssumption == IsFiniteSet(Xprt) /\ BAD \notin Xprt
ASSUME SockAssumption == NoFd \notin Sock
ASSUME ThreadAssumption == Main \notin Creators
ASSUME ProgressAssumption == "RETURN" \in ProgressBits

VARIABLES
  xports,             (* id -> the transport registered under it, or BAD   *)
  sock_xports,        (* fd -> the transport that owns it, or BAD          *)
  xports_idset,       (* bit vector of the ids in use                      *)
  xports_maxid,       (* the largest id ever used, -1 before the first     *)
  xports_pollfd,      (* the fd of each poll slot                          *)
  xprtgc_idset,       (* bit vector of the ids marked for collection       *)
  xprtgc_mark_count,  (* how many are marked                               *)
  live,               (* the addresses allocated and not freed             *)
  kind,               (* "udp", "rendezvous" or "connection": it stands    *)
                      (* for xp_ops, xp_port and mtxp_clone                *)
  xp_sock,            (* the socket of a transport                         *)
  mtxp_id,            (* its id, -1 until it is registered                 *)
  mtxp_parent,        (* the id of the transport it was cloned from, or -1 *)
  mtxp_refcnt,        (* the number of its clones                          *)
  mtxp_progress,      (* the milestones it has passed                      *)
  fds,                (* the file descriptors open in the process          *)
  pc,                 (* where each thread is                              *)
  arg,                (* the transport each thread works on                *)
  gcid,               (* the id the collector has come to                  *)
  died,               (* why the process has stopped, or "no"              *)
  retired             (* history: the transports xprt_gc_mark() was called *)
                      (* for                                               *)

registry == <<xports, sock_xports, xports_idset, xports_maxid, xports_pollfd>>
gcvars   == <<xprtgc_idset, xprtgc_mark_count>>
memory   == <<live, kind, xp_sock, mtxp_id, mtxp_parent, mtxp_refcnt, mtxp_progress>>
threads  == <<pc, arg, gcid>>
vars     == <<registry, gcvars, memory, fds, threads, died, retired>>

Threads == {Main} \cup Creators

\* xports_size: both bit vectors are created for as many ids.
Id == 0 .. NBits - 1

\* The ids that were given to a transport at some time: xprt_id_alloc() never
\* leaves one out.
UsedId == 0 .. xports_maxid

NO_PARENT       == -1
XPRT_ID_INVALID == -1

Kinds     == {"udp", "rendezvous", "connection"}
ReapSteps == {"close", "unregister", "finish"}
Fates     == {"no", "out of ids", "socket not vacant", "lost transport"}

IsClone(x)    == mtxp_parent[x] # NO_PARENT
Registered(x) == x \in live /\ mtxp_id[x] # XPRT_ID_INVALID

-----------------------------------------------------------------------------
(* svc_die() and a fault on BAD_SVCXPRT_PTR both end the service.          *)

SvcDie(why) ==
  /\ died' = why
  /\ UNCHANGED <<registry, gcvars, memory, fds, threads, retired>>

-----------------------------------------------------------------------------
(* Creation: the socket is opened and the SVCXPRT constructed, and only    *)
(* then registered.                                                        *)

Construct(t, x, s, k) ==
  /\ pc[t] = "idle"
  /\ x \notin live
  /\ s \notin fds
  /\ fds' = fds \cup {s}
  /\ live' = live \cup {x}
  /\ kind' = [kind EXCEPT ![x] = k]
  /\ xp_sock' = [xp_sock EXCEPT ![x] = s]
  /\ mtxp_id' = [mtxp_id EXCEPT ![x] = XPRT_ID_INVALID]
  /\ mtxp_parent' = [mtxp_parent EXCEPT ![x] = NO_PARENT]
  /\ mtxp_refcnt' = [mtxp_refcnt EXCEPT ![x] = 0]
  /\ mtxp_progress' = [mtxp_progress EXCEPT ![x] = {}]
  /\ pc' = [pc EXCEPT ![t] = "register"]
  /\ arg' = [arg EXCEPT ![t] = x]
  /\ UNCHANGED <<registry, gcvars, gcid, died, retired>>

SvcudpBufcreate(t, x, s) == Construct(t, x, s, "udp")
SvctcpCreate(t, x, s)    == Construct(t, x, s, "rendezvous")
MakefdXprt(t, x, s)      == Construct(t, x, s, "connection")

\* A slip in the next definition: it takes the largest id for free.
XprtIdAllocShort ==
  CHOOSE id \in 0 .. xports_maxid + 1 :
    /\ id < xports_maxid => ~BitvecGetBit(xports_idset, id)
    /\ \A i \in 0 .. id - 1 : BitvecGetBit(xports_idset, i)

\* The lowest id that is not in use, or the one after the largest so far.
XprtIdAlloc ==
  CHOOSE id \in 0 .. xports_maxid + 1 :
    /\ id <= xports_maxid => ~BitvecGetBit(xports_idset, id)
    /\ \A i \in 0 .. id - 1 : BitvecGetBit(xports_idset, i)

\* A slip in the next definition: one id too many.
OutOfIdsLate(id) == id > NBits

OutOfIds(id) == id >= NBits

\* A slip in the next definition: xports_maxid is not raised.
EnterBelowMaxid(x, id) ==
  /\ UNCHANGED xports_maxid
  /\ xports_idset' = BitvecSetBit(xports_idset, id)
  /\ xports' = [xports EXCEPT ![id] = x]

\* The part of xprt_register_with_lock() that every transport goes through.
Enter(x, id) ==
  /\ xports_maxid' = IF id > xports_maxid THEN id ELSE xports_maxid
  /\ xports_idset' = BitvecSetBit(xports_idset, id)
  /\ xports' = [xports EXCEPT ![id] = x]

SocketXprtIsAvailable(x) == x = BAD \/ "RETURN" \in mtxp_progress[x]

\* init_pollfd: the first unused slot, or a new one at the end.
InitPollfd(s) ==
  LET unused == {i \in DOMAIN xports_pollfd : xports_pollfd[i] = NoFd}
  IN  IF unused = {}
      THEN Append(xports_pollfd, s)
      ELSE [xports_pollfd EXCEPT
              ![CHOOSE i \in unused : \A j \in unused : i <= j] = s]

XprtRegister(t) ==
  LET x  == arg[t]
      s  == xp_sock[x]
      id == XprtIdAlloc
  IN  /\ pc[t] = "register"
      /\ IF OutOfIds(id)
         THEN SvcDie("out of ids")
         ELSE IF ~SocketXprtIsAvailable(sock_xports[s])
         THEN SvcDie("socket not vacant")
         ELSE /\ Enter(x, id)
              /\ sock_xports' = [sock_xports EXCEPT ![s] = x]
              /\ xports_pollfd' = InitPollfd(s)
              /\ mtxp_id' = [mtxp_id EXCEPT ![x] = id]
              /\ pc' = [pc EXCEPT ![t] = "idle"]
              /\ UNCHANGED <<gcvars, live, kind, xp_sock, mtxp_parent, mtxp_refcnt,
                             mtxp_progress, fds, arg, gcid, died, retired>>

\* A clone is allocated, copied from its parent and registered by the main
\* thread; nobody else knows of it before.  When there is no id for it, it does
\* not matter where it was allocated.
SvcudpXprtClone(p, x) ==
  LET id     == XprtIdAlloc
      parent == [xports EXCEPT ![id] = x][mtxp_id[p]]
  IN  /\ pc[Main] = "idle"
      /\ Registered(p)
      /\ kind[p] = "udp"
      /\ ~IsClone(p)
      /\ IF OutOfIds(id)
         THEN SvcDie("out of ids")
         ELSE IF parent = BAD
         THEN SvcDie("lost transport")
         ELSE /\ x \notin live
              /\ Enter(x, id)
              /\ live' = live \cup {x}
              /\ kind' = [kind EXCEPT ![x] = kind[p]]
              /\ xp_sock' = [xp_sock EXCEPT ![x] = xp_sock[p]]
              /\ mtxp_id' = [mtxp_id EXCEPT ![x] = id]
              /\ mtxp_parent' = [mtxp_parent EXCEPT ![x] = mtxp_id[p]]
              /\ mtxp_refcnt' = [mtxp_refcnt EXCEPT ![x] = 0, ![parent] = @ + 1]
              /\ mtxp_progress' = [mtxp_progress EXCEPT ![x] = {}]
              /\ UNCHANGED <<sock_xports, xports_pollfd, gcvars, fds, threads, died, retired>>

-----------------------------------------------------------------------------
(* Use: the milestones of a transport change, and it is marked.            *)

XprtProgress(x, bits) ==
  /\ Registered(x)
  /\ mtxp_progress' = [mtxp_progress EXCEPT ![x] = bits]
  /\ UNCHANGED <<registry, gcvars, live, kind, xp_sock, mtxp_id, mtxp_parent, mtxp_refcnt,
                 fds, threads, died, retired>>

XprtGcMark(x) ==
  /\ pc[Main] \notin ReapSteps
  /\ Registered(x)
  /\ IsClone(x) \/ kind[x] = "connection"
  /\ IF BitvecGetBit(xprtgc_idset, mtxp_id[x])
     THEN UNCHANGED gcvars
     ELSE /\ xprtgc_idset' = BitvecSetBit(xprtgc_idset, mtxp_id[x])
          /\ xprtgc_mark_count' = xprtgc_mark_count + 1
  /\ retired' = retired \cup {x}
  /\ UNCHANGED <<registry, memory, fds, threads, died>>

-----------------------------------------------------------------------------
(* Collection, by the main thread: xprt_gc_reap_one() and the destructors. *)

\* A slip in the next definition: the count is not lowered.
UnmarkUncounted(id) ==
  /\ xprtgc_idset' = BitvecClrBit(xprtgc_idset, id)
  /\ UNCHANGED xprtgc_mark_count

Unmark(id) ==
  /\ xprtgc_idset' = BitvecClrBit(xprtgc_idset, id)
  /\ xprtgc_mark_count' = xprtgc_mark_count - 1

\* xprt_gc_reap_all: look at every id from 0, as long as any is marked.
XprtGcReapAll ==
  /\ pc[Main] = "idle"
  /\ pc' = [pc EXCEPT ![Main] = "scan"]
  /\ gcid' = 0
  /\ UNCHANGED <<registry, gcvars, memory, fds, arg, died, retired>>

\* A slip in the next definition: the largest id is left out.
ReapAllDoneShort == gcid >= xports_maxid \/ xprtgc_mark_count = 0

ReapAllDone == gcid > xports_maxid \/ xprtgc_mark_count = 0

ReapAllReturn ==
  /\ pc[Main] = "scan"
  /\ ReapAllDone
  /\ pc' = [pc EXCEPT ![Main] = "idle"]
  /\ gcid' = 0
  /\ UNCHANGED <<registry, gcvars, memory, fds, arg, died, retired>>

\* A slip in the next definition: the mark is not tested.
ReapableUnmarked(id) == xports[id] # BAD

Reapable(id) == BitvecGetBit(xprtgc_idset, id) /\ xports[id] # BAD

ReapAllSkip ==
  /\ pc[Main] = "scan"
  /\ ~ReapAllDone
  /\ ~Reapable(gcid)
  /\ gcid' = gcid + 1
  /\ UNCHANGED <<registry, gcvars, memory, fds, pc, arg, died, retired>>

\* A marked parent that still has clones only loses its mark.
XprtGcReapOne ==
  LET x == xports[gcid]
  IN  /\ pc[Main] = "scan"
      /\ ~ReapAllDone
      /\ Reapable(gcid)
      /\ IF IsClone(x) \/ mtxp_refcnt[x] = 0
         THEN /\ pc' = [pc EXCEPT ![Main] = IF IsClone(x) THEN "unregister" ELSE "close"]
              /\ arg' = [arg EXCEPT ![Main] = x]
              /\ UNCHANGED <<gcvars, gcid>>
         ELSE /\ Unmark(gcid)
              /\ gcid' = gcid + 1
              /\ UNCHANGED <<pc, arg>>
      /\ UNCHANGED <<registry, memory, fds, died, retired>>

\* The destructors close the socket of a transport that is not a clone
\* before they take xports_lock.
DestroyClose ==
  /\ pc[Main] = "close"
  /\ fds' = fds \ {xp_sock[arg[Main]]}
  /\ pc' = [pc EXCEPT ![Main] = "unregister"]
  /\ UNCHANGED <<registry, gcvars, memory, arg, gcid, died, retired>>

\* A slip in the next definition: the slot keeps its fd.
PollfdRemoveNot(s) == xports_pollfd

PollfdRemove(s) ==
  [i \in DOMAIN xports_pollfd |-> IF xports_pollfd[i] = s THEN NoFd ELSE xports_pollfd[i]]

\* A slip in the next definition: the id stays in use.
UnregisterIdLeaks(id) ==
  /\ xports' = [xports EXCEPT ![id] = BAD]
  /\ UNCHANGED <<xports_idset, xports_maxid>>

UnregisterId(id) ==
  /\ xports' = [xports EXCEPT ![id] = BAD]
  /\ xports_idset' = BitvecClrBit(xports_idset, id)
  /\ UNCHANGED xports_maxid

\* A slip in the next definition: the parent still counts the clone.
DropCloneUncounted(p) == UNCHANGED mtxp_refcnt

DropClone(p) == mtxp_refcnt' = [mtxp_refcnt EXCEPT ![p] = @ - 1]

\* xprt_unregister() and free(), in one section of xports_lock.
DestroyUnregister ==
  LET x  == arg[Main]
      id == mtxp_id[x]
      p  == xports[mtxp_parent[x]]
  IN  /\ pc[Main] = "unregister"
      /\ IF xports[id] # x
         THEN SvcDie("lost transport")
         ELSE IF IsClone(x) /\ p = BAD
         THEN SvcDie("lost transport")
         ELSE /\ IF IsClone(x)
                 THEN /\ DropClone(p)
                      /\ UNCHANGED <<sock_xports, xports_pollfd>>
                 ELSE /\ sock_xports' = [sock_xports EXCEPT ![xp_sock[x]] = BAD]
                      /\ xports_pollfd' = PollfdRemove(xp_sock[x])
                      /\ UNCHANGED mtxp_refcnt
              /\ UnregisterId(id)
              /\ live' = live \ {x}
              /\ retired' = retired \ {x}
              /\ pc' = [pc EXCEPT ![Main] = "finish"]
              /\ UNCHANGED <<gcvars, kind, xp_sock, mtxp_id, mtxp_parent, mtxp_progress,
                             fds, arg, gcid, died>>

\* Back in xprt_gc_reap_one(), after xports_lock was released.
ReapFinish ==
  /\ pc[Main] = "finish"
  /\ xports' = [xports EXCEPT ![gcid] = BAD]
  /\ Unmark(gcid)
  /\ pc' = [pc EXCEPT ![Main] = "scan"]
  /\ gcid' = gcid + 1
  /\ UNCHANGED <<sock_xports, xports_idset, xports_maxid, xports_pollfd, memory, fds,
                 arg, died, retired>>

-----------------------------------------------------------------------------

Init ==
  /\ xports = [id \in Id |-> BAD]
  /\ sock_xports = [s \in Sock |-> BAD]
  /\ xports_idset = EmptyVec
  /\ xports_maxid = -1
  /\ xports_pollfd = <<>>
  /\ xprtgc_idset = EmptyVec
  /\ xprtgc_mark_count = 0
  /\ live = {}
  /\ kind = [x \in Xprt |-> "udp"]
  /\ xp_sock = [x \in Xprt |-> NoFd]
  /\ mtxp_id = [x \in Xprt |-> XPRT_ID_INVALID]
  /\ mtxp_parent = [x \in Xprt |-> NO_PARENT]
  /\ mtxp_refcnt = [x \in Xprt |-> 0]
  /\ mtxp_progress = [x \in Xprt |-> {}]
  /\ fds = {}
  /\ pc = [t \in Threads |-> "idle"]
  /\ arg = [t \in Threads |-> BAD]
  /\ gcid = 0
  /\ died = "no"
  /\ retired = {}

Create(t, x, s) ==
  SvcudpBufcreate(t, x, s) \/ SvctcpCreate(t, x, s) \/ MakefdXprt(t, x, s)

Collect ==
  \/ XprtGcReapAll
  \/ ReapAllReturn
  \/ ReapAllSkip
  \/ XprtGcReapOne
  \/ DestroyClose
  \/ DestroyUnregister
  \/ ReapFinish

Step ==
  \/ \E t \in Threads, x \in Xprt, s \in Sock : Create(t, x, s)
  \/ \E t \in Threads : XprtRegister(t)
  \/ \E p, x \in Xprt : SvcudpXprtClone(p, x)
  \/ \E x \in Xprt, bits \in SUBSET ProgressBits : XprtProgress(x, bits)
  \/ \E x \in Xprt : XprtGcMark(x)
  \/ Collect

Next == died = "no" /\ Step

Spec == Init /\ [][Next]_vars

-----------------------------------------------------------------------------
(* check_xports(): what the code itself takes for a consistent registry.   *)
(* svc_getreq_common_rv() calls it for every request, with xports_lock     *)
(* held, and ignores the answer.                                           *)

IsValidSvcxprt(x) == x # BAD

InXports(x) == \E id \in UsedId : xports[id] = x

CheckXportsDuplicates ==
  \A id1, id2 \in UsedId : xports[id1] # BAD /\ xports[id1] = xports[id2] => id1 = id2

\* mtxp_fsck_refcnt: how many transports name the one with this id as parent.
FsckRefcnt(id) == Cardinality({c \in Xprt : InXports(c) /\ mtxp_parent[c] = id})

CheckXports ==
  /\ CheckXportsDuplicates
  /\ \A id \in UsedId : LET x == xports[id] IN x # BAD =>
       /\ IF IsClone(x)
          THEN IsValidSvcxprt(xports[mtxp_parent[x]])
          ELSE IsValidSvcxprt(sock_xports[xp_sock[x]]) /\ BitvecGetBit(xports_idset, id)
       /\ mtxp_refcnt[x] = FsckRefcnt(id)

-----------------------------------------------------------------------------
(* Properties                                                              *)

TypeOK ==
  /\ xports \in [Id -> Xprt \cup {BAD}]
  /\ sock_xports \in [Sock -> Xprt \cup {BAD}]
  /\ xports_idset \subseteq {Cell(id) : id \in UsedId}
  /\ xports_maxid \in Id \cup {-1}
  /\ xports_pollfd \in Seq(Sock \cup {NoFd})
  /\ xprtgc_idset \subseteq {Cell(id) : id \in UsedId}
  /\ xprtgc_mark_count \in Nat
  /\ live \subseteq Xprt
  /\ kind \in [Xprt -> Kinds]
  /\ xp_sock \in [Xprt -> Sock \cup {NoFd}]
  /\ mtxp_id \in [Xprt -> Id \cup {XPRT_ID_INVALID}]
  /\ mtxp_parent \in [Xprt -> Id \cup {NO_PARENT}]
  /\ mtxp_refcnt \in [Xprt -> Nat]
  /\ mtxp_progress \in [Xprt -> SUBSET ProgressBits]
  /\ fds \subseteq Sock
  /\ pc \in [Threads -> {"idle", "register", "scan"} \cup ReapSteps]
  /\ arg \in [Threads -> Xprt \cup {BAD}]
  /\ gcid \in 0 .. NBits
  /\ died \in Fates
  /\ retired \subseteq Xprt

(***************************************************************************)
(* A transport that is registered is found under its id until it is        *)
(* destroyed: no registration takes the id of a live transport and no      *)
(* collection removes another transport than the one it destroys.          *)
(***************************************************************************)
LiveXprtFound == \A x \in Xprt : Registered(x) => xports[mtxp_id[x]] = x

Clones(p) == {c \in Xprt : Registered(c) /\ mtxp_parent[c] = mtxp_id[p]}

(***************************************************************************)
(* As long as a transport has clones it exists, it is a UDP transport with *)
(* the same socket, and its count is the number of its clones, which is    *)
(* what keeps xprt_gc_reap_one() from destroying it too early.             *)
(***************************************************************************)
ClonesCounted ==
  \A x \in Xprt : Registered(x) =>
    IF IsClone(x)
    THEN LET p == xports[mtxp_parent[x]]
         IN  /\ p # BAD
             /\ kind[p] = "udp"
             /\ ~IsClone(p)
             /\ xp_sock[p] = xp_sock[x]
    ELSE mtxp_refcnt[x] = Cardinality(Clones(x))

(***************************************************************************)
(* check_xports() never has anything to report, whenever xports_lock is    *)
(* free: ids, sockets, parents and reference counts agree through any      *)
(* order of creation, cloning, marking and reaping.                        *)
(***************************************************************************)
FsckClean == CheckXports

PollSlots(s) == {i \in DOMAIN xports_pollfd : xports_pollfd[i] = s}

(***************************************************************************)
(* svc_poll() watches the right sockets: the socket of every registered    *)
(* transport that is not a clone leads back to it through sock_xports and  *)
(* is in exactly one poll slot, and a socket that leads nowhere is in      *)
(* none, although slots and descriptors are reused.                        *)
(***************************************************************************)
SocketsWatched ==
  /\ \A x \in Xprt : Registered(x) /\ ~IsClone(x) => sock_xports[xp_sock[x]] = x
  /\ \A s \in Sock :
       IF sock_xports[s] = BAD
       THEN PollSlots(s) = {}
       ELSE /\ Registered(sock_xports[s])
            /\ xp_sock[sock_xports[s]] = s
            /\ \E i \in DOMAIN xports_pollfd : PollSlots(s) = {i}

(***************************************************************************)
(* The number of marked ids, which stops the scan of xprt_gc_reap_all(),   *)
(* is the number of marks in the bit vector, and every transport waiting   *)
(* to be collected has its mark: none is forgotten.                        *)
(***************************************************************************)
MarksCounted ==
  /\ xprtgc_mark_count = Cardinality({id \in UsedId : BitvecGetBit(xprtgc_idset, id)})
  /\ \A x \in retired : BitvecGetBit(xprtgc_idset, mtxp_id[x])

(***************************************************************************)
(* The collector destroys only what xprt_gc_mark() was called for.         *)
(***************************************************************************)
CollectsOnlyRetired == pc[Main] \in {"close", "unregister"} => arg[Main] \in retired

(***************************************************************************)
(* The service stops only because it ran out of ids, and then every id     *)
(* belongs to a live transport: no id leaks, the vacancy of a socket never *)
(* fails, and no destructor misses its transport or its parent.            *)
(***************************************************************************)
DiesOnlyWhenFull ==
  /\ died \in {"no", "out of ids"}
  /\ died = "out of ids" => \A id \in Id : xports[id] \in live

-----------------------------------------------------------------------------
(***************************************************************************)
(* The inductive invariant, when only the main thread creates transports.  *)
(* It adds to the properties above what ties the parts together.           *)
(***************************************************************************)

\* An id is in use exactly when xports leads to a live transport with that id.
IdsExact ==
  \A id \in Id :
    /\ id \in UsedId => (BitvecGetBit(xports_idset, id) <=> xports[id] # BAD)
    /\ xports[id] # BAD => /\ id \in UsedId
                           /\ xports[id] \in live
                           /\ mtxp_id[xports[id]] = id

\* Only a registered transport can be a clone, and every one has a socket.
XprtShape ==
  \A x \in live :
    /\ xp_sock[x] \in Sock
    /\ mtxp_id[x] = XPRT_ID_INVALID => ~IsClone(x)

\* A socket that belongs to a transport is open until the destructor of the
\* transport has closed it, and its owner is not a clone.
SocketsHeld ==
  \A s \in Sock : sock_xports[s] # BAD =>
    /\ ~IsClone(sock_xports[s])
    /\ s \in fds \/ (pc[Main] = "unregister" /\ arg[Main] = sock_xports[s])

\* The transport that is being created is private and its socket is open and
\* vacant.
CreationPrivate ==
  pc[Main] = "register" =>
    /\ arg[Main] \in live
    /\ mtxp_id[arg[Main]] = XPRT_ID_INVALID
    /\ mtxp_refcnt[arg[Main]] = 0
    /\ sock_xports[xp_sock[arg[Main]]] = BAD
    /\ xp_sock[arg[Main]] \in fds

\* What is retired is a registered clone or connection, and a mark is that of
\* a retired transport, or of the one that has just been destroyed.
MarksExact ==
  /\ \A x \in retired : Registered(x) /\ (IsClone(x) \/ kind[x] = "connection")
  /\ \A id \in UsedId : BitvecGetBit(xprtgc_idset, id) =>
       \/ xports[id] \in retired
       \/ pc[Main] = "finish" /\ gcid = id

\* Where the collector is while it holds xprtgc_lock.
CollectorAt ==
  /\ pc[Main] \in {"close", "unregister"} => mtxp_id[arg[Main]] = gcid
  /\ pc[Main] = "close" => ~IsClone(arg[Main])
  /\ pc[Main] = "finish" => /\ gcid \in UsedId
                            /\ xports[gcid] = BAD
                            /\ BitvecGetBit(xprtgc_idset, gcid)

(***************************************************************************)
(* Everything that holds between two steps of the registry and of the      *)
(* collector, and is kept by each of their steps.                          *)
(***************************************************************************)
RegistryInv ==
  /\ TypeOK
  /\ LiveXprtFound
  /\ ClonesCounted
  /\ SocketsWatched
  /\ MarksCounted
  /\ CollectsOnlyRetired
  /\ DiesOnlyWhenFull
  /\ IdsExact
  /\ XprtShape
  /\ SocketsHeld
  /\ CreationPrivate
  /\ MarksExact
  /\ CollectorAt

=============================================================================
