--------------------------- MODULE UdpServerProofs ---------------------------
(***************************************************************************)
(* A UDP service keeps its promises to the workers for any number of       *)
(* workers, sockets, addresses and datagrams and any mtmode, as long as    *)
(* the ids are small (see XportsProofs).                                   *)
(***************************************************************************)
EXTENDS UdpServer, XportsProofs

-----------------------------------------------------------------------------
(* The service uses the registry as module Xports says it may be used.     *)

\* A transport that is being served is registered, so it has an address.
LEMMA ServedXprt ==
  ASSUME ServiceInv, NEW w \in Serving
  PROVE  handle[w] \in Xprt /\ Registered(handle[w]) /\ handle[w] \notin retired
  BY DEF ServiceInv, OneWorkerPerXprt, RegistryInv, TypeOK, Registered

\* The transport of a socket is a registered original, and not retired.
LEMMA SocketXprt ==
  ASSUME ServiceInv, NEW s \in Sock, sock_xports[s] # BAD
  PROVE  /\ sock_xports[s] \in Xprt
         /\ Registered(sock_xports[s])
         /\ ~IsClone(sock_xports[s])
         /\ sock_xports[s] \notin retired
  <1>1. sock_xports[s] \in Xprt /\ Registered(sock_xports[s]) /\ ~IsClone(sock_xports[s])
    BY DEF ServiceInv, RegistryInv, TypeOK, SocketsWatched, SocketsHeld
  <1>2. \A x \in retired : IsClone(x)
    BY DEF ServiceInv, RegistryInv, TypeOK, MarksExact, UdpOnly
  <1>. QED
    BY <1>1, <1>2

\* Each step of the main thread is one of the registry, or does not touch it.
LEMMA MainStepIsRegistryStep ==
  ASSUME ServiceInv, Running, MainStep
  PROVE  [Next]_vars
  <1>1. died = "no" /\ Main \in Threads
    BY DEF Running, Threads
  <1>2. ASSUME NEW x \in Xprt, NEW s \in Sock, CreateService(x, s)
        PROVE  Next
    BY <1>1, <1>2 DEF CreateService, Next, Step, Create
  <1>3. ASSUME RegisterService
        PROVE  Next
    BY <1>1, <1>3 DEF RegisterService, Next, Step
  <1>4. ASSUME Reap \/ SvcRun
        PROVE  Next
    BY <1>1, <1>4 DEF Reap, SvcRun, Next, Step, Collect
  <1>5. ASSUME ReapIfMultiThreaded
        PROVE  [Next]_vars
    BY <1>1, <1>5 DEF ReapIfMultiThreaded, Next, Step, Collect
  <1>6. ASSUME NEW c \in Xprt, DispatchClone(c)
        PROVE  Next
    <2>1. xprt \in Xprt
      BY <1>6, SocketXprt DEF DispatchClone, ServiceInv, RequestAt, xprt
    <2>. QED
      BY <1>1, <1>6, <2>1 DEF DispatchClone, Next, Step
  <1>7. ASSUME NEW s \in Sock, SvcGetreqCommon(s)
        PROVE  [Next]_vars
    BY <1>5, <1>7 DEF SvcGetreqCommon
  <1>8. ASSUME SvcGetreqPollReturn
        PROVE  [Next]_vars
    BY <1>5, <1>8 DEF SvcGetreqPollReturn
  <1>9. ASSUME NEW r, RecvNothing(r) \/ RecvBadAuth(r) \/ RecvCall(r)
        PROVE  UNCHANGED vars
    BY <1>9 DEF RecvNothing, RecvBadAuth, RecvCall, SvcudpRecv
  <1>10. ASSUME \/ SvcPoll
                \/ DispatchOriginal
                \/ \E w \in Workers : HandOff(w)
                \/ WaitOnReturn
                \/ WaitOnGetargsMutex
                \/ WaitOnGetargsUsleep
                \/ DoNotWait
         PROVE  UNCHANGED vars
    BY <1>10 DEF SvcPoll, DispatchOriginal, HandOff, WaitOnReturn, WaitOnGetargsMutex,
                 WaitOnGetargsUsleep, DoNotWait
  <1>. QED
    BY <1>2, <1>3, <1>4, <1>6, <1>7, <1>8, <1>9, <1>10 DEF MainStep

\* check_svcxprt_exists() always finds the transport of a worker.
LEMMA SendreplyFinds ==
  ASSUME ServiceInv, NEW w \in Workers, SvcSendreply(w)
  PROVE  UNCHANGED vars
  <1>1. w \in Serving
    BY DEF SvcSendreply, Serving
  <1>2. xports[mtxp_id[handle[w]]] = handle[w]
    BY <1>1, ServedXprt DEF ServiceInv, RegistryInv, LiveXprtFound
  <1>. QED
    BY <1>2 DEF SvcSendreply

\* So is each step of a worker.
LEMMA WorkerStepIsRegistryStep ==
  ASSUME ServiceInv, Running, NEW w \in Workers, WorkerStep(w)
  PROVE  [Next]_vars
  <1>1. died = "no"
    BY DEF Running
  <1>2. ASSUME NEW x, NEW bit \in ProgressBits, SetProgress(x, bit)
        PROVE  Next
    <2>1. x \in Xprt /\ mtxp_progress[x] \cup {bit} \in SUBSET ProgressBits
      BY <1>2 DEF SetProgress, XprtProgress, Registered, ServiceInv, RegistryInv, TypeOK
    <2>. QED
      BY <1>1, <1>2, <2>1 DEF SetProgress, Next, Step
  <1>3. ASSUME SvcudpGetargs(w)
        PROVE  [Next]_vars
    BY <1>2, <1>3, ServiceAssumption DEF SvcudpGetargs
  <1>4. ASSUME SvcReturn(w)
        PROVE  [Next]_vars
    BY <1>2, <1>4, ProgressAssumption DEF SvcReturn
  <1>5. ASSUME SvcSendreply(w)
        PROVE  UNCHANGED vars
    BY <1>5, SendreplyFinds
  <1>6. ASSUME SvcReturnMark(w)
        PROVE  Next
    <2>1. handle[w] \in Xprt
      BY <1>6, ServedXprt DEF SvcReturnMark, Serving
    <2>. QED
      BY <1>1, <1>6, <2>1 DEF SvcReturnMark, Next, Step
  <1>7. ASSUME NoArgs(w) \/ SvcReturnEnd(w)
        PROVE  UNCHANGED vars
    BY <1>7 DEF NoArgs, SvcReturnEnd
  <1>. QED
    BY <1>3, <1>4, <1>5, <1>6, <1>7 DEF WorkerStep

\* Every step of the service is a step of the registry or leaves it alone.
LEMMA ServiceStepIsRegistryStep ==
  ASSUME ServiceInv, [ServiceNext]_<<vars, service>>
  PROVE  [Next]_vars
  <1>1. ASSUME NEW s \in Sock, NEW r \in Datagrams, Arrive(s, r)
        PROVE  UNCHANGED vars
    BY <1>1 DEF Arrive
  <1>. QED
    BY <1>1, MainStepIsRegistryStep, WorkerStepIsRegistryStep DEF ServiceNext

-----------------------------------------------------------------------------
(* Frame lemmas.                                                           *)

\* The step leaves every transport alone that is registered and not retired,
\* and the table of sockets.
SparesServed ==
  /\ UNCHANGED <<sock_xports, kind, mtxp_parent, mtxp_progress>>
  /\ \A x \in Xprt : Registered(x) /\ x \notin retired => Registered(x)' /\ x \notin retired'

\* What the main thread and the workers have agreed on, apart from the types.
Agreement ==
  /\ RequestIsPrivate
  /\ OneWorkerPerXprt
  /\ SetupIsSerial
  /\ UdpOnly
  /\ RequestAt
  /\ HandoffReady
  /\ ServesClone
  /\ ReturnTold

\* A step that does not touch the registry spares every transport.
LEMMA UntouchedRegistry ==
  ASSUME UNCHANGED vars
  PROVE  SparesServed /\ UNCHANGED <<died, live, retired, mtxp_id, fds, pc, arg>>
  BY DEF vars, registry, memory, threads, SparesServed, Registered

\* The main thread starts to reap, or does not, and destroys nothing yet.
LEMMA ReapAllSpares ==
  ASSUME XprtGcReapAll \/ ReapIfMultiThreaded
  PROVE  SparesServed /\ UNCHANGED died
  <1>1. CASE UNCHANGED vars
    BY <1>1, UntouchedRegistry
  <1>2. CASE XprtGcReapAll
    BY <1>2 DEF XprtGcReapAll, registry, memory, SparesServed, Registered
  <1>. QED
    BY <1>1, <1>2 DEF ReapIfMultiThreaded

\* The workers do not notice a step that spares their transports and in which
\* the main thread neither stops waiting for them nor comes to a request.
LEMMA WorkersUnaware ==
  ASSUME ServiceInv, Running, SparesServed,
         UNCHANGED <<mtmode, su_xid, mtxp_mtready, wpc, handle, serves>>,
         \/ UNCHANGED <<spc, fd, worker_xprt, worker_return>>
         \/ /\ spc # "wait"
            /\ spc' \in {"setup", "run", "poll", "getreq", "recv"}
            /\ spc' = "recv" => fd' \in Sock
  PROVE  Agreement'
  <1>1. Serving' = Serving
    BY DEF Serving
  <1>2. RequestIsPrivate'
    BY <1>1 DEF ServiceInv, RequestIsPrivate
  <1>3. OneWorkerPerXprt'
    <2>1. \A w \in Serving : handle[w] \in Xprt /\ Registered(handle[w]) /\ handle[w] \notin retired
      BY ServedXprt
    <2>2. \A w \in Serving : Registered(handle[w])' /\ handle[w] \notin retired'
      BY <2>1 DEF SparesServed
    <2>. QED
      BY <1>1, <2>2 DEF ServiceInv, OneWorkerPerXprt, Registered
  <1>4. SetupIsSerial'
    BY <1>1 DEF ServiceInv, SetupIsSerial, Running
  <1>5. UdpOnly' /\ RequestAt'
    BY DEF ServiceInv, UdpOnly, RequestAt, SparesServed, xprt
  <1>6. HandoffReady'
    <2>1. CASE spc' # "handoff"
      BY <2>1 DEF HandoffReady
    <2>2. CASE spc' = "handoff"
      <3>1. UNCHANGED <<spc, fd, worker_xprt, worker_return>> /\ spc = "handoff"
        BY <2>2
      <3>2. Registered(worker_xprt)' /\ worker_xprt' \notin retired'
        BY <3>1 DEF ServiceInv, HandoffReady, SparesServed, RegistryInv, TypeOK, Registered
      <3>. QED
        BY <1>1, <3>1, <3>2 DEF ServiceInv, HandoffReady, SparesServed, Untouched, IsClone, xprt
    <2>. QED
      BY <2>1, <2>2
  <1>7. ServesClone'
    BY <1>1 DEF ServiceInv, ServesClone, SparesServed, IsClone, Untouched
  <1>8. ReturnTold'
    BY <1>1 DEF ServiceInv, ReturnTold
  <1>. QED
    BY <1>2, <1>3, <1>4, <1>5, <1>6, <1>7, <1>8 DEF Agreement

-----------------------------------------------------------------------------
(* Every step of the main thread keeps the agreement and the types.        *)

LEMMA CreateKept ==
  ASSUME ServiceInv, RegistryInv', Running, NEW x \in Xprt, NEW s \in Sock, CreateService(x, s)
  PROVE  ServiceTypeOK' /\ Agreement'
  <1>1. /\ x \notin live
        /\ UNCHANGED <<mtmode, wait_method_udp, inbox, spc, fd, worker_xprt, events, worker_return,
                       su_xid, wpc, handle, serves, sock_xports, retired, died>>
        /\ mtxp_busy' = [mtxp_busy EXCEPT ![x] = 0]
        /\ mtxp_mtready' = [mtxp_mtready EXCEPT ![x] = TRUE]
        /\ spc = "setup"
        /\ live' = live \cup {x}
        /\ kind' = [kind EXCEPT ![x] = "udp"]
        /\ mtxp_id' = [mtxp_id EXCEPT ![x] = XPRT_ID_INVALID]
        /\ mtxp_parent' = [mtxp_parent EXCEPT ![x] = NO_PARENT]
        /\ mtxp_progress' = [mtxp_progress EXCEPT ![x] = {}]
    BY DEF CreateService, SvcudpBufcreate, Construct, config, requests, workers, registry
  <1>2. Serving' = Serving
    BY <1>1 DEF Serving
  <1>3. \A w \in Serving : /\ handle[w] \in Xprt /\ handle[w] # x
                           /\ Registered(handle[w]) /\ handle[w] \notin retired
    BY <1>1, ServedXprt DEF Registered
  <1>4. ServiceTypeOK'
    BY <1>1 DEF ServiceInv, ServiceTypeOK, RegistryInv
  <1>5. OneWorkerPerXprt'
    BY <1>1, <1>2, <1>3 DEF ServiceInv, OneWorkerPerXprt, Registered, RegistryInv, TypeOK
  <1>6. ServesClone'
    BY <1>1, <1>2, <1>3 DEF ServiceInv, ServiceTypeOK, ServesClone, IsClone, Untouched,
                            RegistryInv, TypeOK
  <1>7. RequestIsPrivate' /\ SetupIsSerial' /\ ReturnTold'
    BY <1>1, <1>2 DEF ServiceInv, RequestIsPrivate, SetupIsSerial, ReturnTold, Running
  <1>8. UdpOnly' /\ RequestAt' /\ HandoffReady'
    BY <1>1 DEF ServiceInv, UdpOnly, RequestAt, HandoffReady, RegistryInv, TypeOK
  <1>. QED
    BY <1>4, <1>5, <1>6, <1>7, <1>8 DEF Agreement

LEMMA RegisterKept ==
  ASSUME ServiceInv, RegistryInv', Running, RegisterService
  PROVE  ServiceTypeOK' /\ Agreement'
  <1> DEFINE x == arg[Main]
  <1>1. /\ spc = "setup"
        /\ spc' \in {"run", "setup"}
        /\ UNCHANGED <<mtmode, wait_method_udp, inbox, fd, worker_xprt, events, worker_return,
                       su_xid, mtxp_busy, mtxp_mtready, wpc, handle, serves>>
    BY DEF RegisterService, config, requests, mtxprts, workers
  <1>2. ServiceTypeOK'
    BY <1>1 DEF ServiceInv, ServiceTypeOK, RegistryInv
  <1>3. /\ UNCHANGED <<live, retired, kind, mtxp_parent, mtxp_progress>>
        /\ \/ UNCHANGED mtxp_id
           \/ \E id : mtxp_id' = [mtxp_id EXCEPT ![x] = id]
    BY DEF RegisterService, XprtRegister, SvcDie, memory
  <1>4. x \in live /\ mtxp_id[x] = XPRT_ID_INVALID
    BY DEF RegisterService, XprtRegister, ServiceInv, RegistryInv, CreationPrivate
  <1>5. \A y \in Xprt : y # x => mtxp_id'[y] = mtxp_id[y]
    BY <1>3 DEF ServiceInv, RegistryInv, TypeOK
  <1>6. Serving' = Serving
    BY <1>1 DEF Serving
  <1>7. \A w \in Serving : /\ handle[w] \in Xprt /\ handle[w] # x
                           /\ Registered(handle[w]) /\ handle[w] \notin retired
    BY <1>4, ServedXprt DEF Registered
  <1>8. OneWorkerPerXprt'
    BY <1>1, <1>3, <1>5, <1>6, <1>7 DEF ServiceInv, OneWorkerPerXprt, Registered
  <1>9. ServesClone'
    BY <1>1, <1>3, <1>6 DEF ServiceInv, ServesClone, IsClone, Untouched
  <1>10. RequestIsPrivate' /\ SetupIsSerial' /\ ReturnTold'
    BY <1>1, <1>6 DEF ServiceInv, RequestIsPrivate, SetupIsSerial, ReturnTold, Running
  <1>11. UdpOnly' /\ RequestAt' /\ HandoffReady'
    BY <1>1, <1>3 DEF ServiceInv, UdpOnly, RequestAt, HandoffReady
  <1>. QED
    BY <1>2, <1>8, <1>9, <1>10, <1>11 DEF Agreement

\* The collector destroys a clone that its worker has marked, never a
\* transport that is being served or owns a socket.
LEMMA ReapKept ==
  ASSUME ServiceInv, RegistryInv', Running, Reap
  PROVE  ServiceTypeOK' /\ Agreement'
  <1>1. UNCHANGED <<mtmode, wait_method_udp, inbox, spc, fd, worker_xprt, events, worker_return,
                    su_xid, mtxp_busy, mtxp_mtready, wpc, handle, serves>>
    BY DEF Reap, service, config, requests, mtxprts, workers
  <1>2. ServiceTypeOK'
    BY <1>1 DEF ServiceInv, ServiceTypeOK, RegistryInv
  <1>3. SparesServed
    <2>1. CASE ReapAllReturn \/ ReapAllSkip \/ XprtGcReapOne
      BY <2>1 DEF ReapAllReturn, ReapAllSkip, XprtGcReapOne, registry, memory, SparesServed,
                  Registered
    <2>2. CASE ReapFinish
      BY <2>2 DEF ReapFinish, memory, SparesServed, Registered
    <2>3. CASE DestroyUnregister
      <3> DEFINE x == arg[Main]
      <3>1. x \in retired
        BY <2>3 DEF DestroyUnregister, ServiceInv, RegistryInv, CollectsOnlyRetired
      <3>2. IsClone(x)
        BY <3>1 DEF ServiceInv, RegistryInv, TypeOK, MarksExact, UdpOnly
      <3>3. CASE SvcDie("lost transport")
        BY <3>3 DEF SvcDie, registry, memory, SparesServed, Registered
      <3>4. CASE ~SvcDie("lost transport")
        <4>1. /\ UNCHANGED <<sock_xports, kind, mtxp_id, mtxp_parent, mtxp_progress>>
              /\ live' = live \ {x}
              /\ retired' = retired \ {x}
          BY <2>3, <3>2, <3>4 DEF DestroyUnregister
        <4>. QED
          BY <3>1, <4>1 DEF SparesServed, Registered
      <3>. QED
        BY <3>3, <3>4
    <2>. QED
      BY <2>1, <2>2, <2>3 DEF Reap
  <1>. QED
    BY <1>1, <1>2, <1>3, WorkersUnaware

\* svc_run(), svc_poll() and svc_getreq_poll() choose what is served next.
LEMMA PollKept ==
  ASSUME ServiceInv, RegistryInv', Running,
         SvcRun \/ SvcPoll \/ SvcGetreqPollReturn \/ \E s \in Sock : SvcGetreqCommon(s)
  PROVE  ServiceTypeOK' /\ Agreement'
  <1>1. UNCHANGED <<mtmode, wait_method_udp, inbox, worker_xprt, worker_return,
                    su_xid, mtxp_busy, mtxp_mtready, wpc, handle, serves>>
    BY DEF SvcRun, SvcPoll, SvcGetreqPollReturn, SvcGetreqCommon, config, requests, mtxprts,
           workers
  <1>2. /\ spc # "wait"
        /\ spc' \in {"run", "poll", "getreq", "recv"}
        /\ events' \subseteq Sock
        /\ fd' \in Sock \cup {NoFd}
        /\ spc' = "recv" => fd' \in Sock
    BY DEF SvcRun, SvcPoll, SvcGetreqPollReturn, SvcGetreqCommon, requests, ServiceInv,
           ServiceTypeOK
  <1>3. SparesServed
    BY UntouchedRegistry, ReapAllSpares DEF SvcRun, SvcPoll, SvcGetreqPollReturn, SvcGetreqCommon
  <1>4. ServiceTypeOK'
    BY <1>1, <1>2 DEF ServiceInv, ServiceTypeOK, RegistryInv
  <1>. QED
    BY <1>1, <1>2, <1>3, <1>4, WorkersUnaware

\* A datagram is received into an original.  In mtmode 0 no worker has it at
\* that time, and in the others the workers have clones.
LEMMA RecvKept ==
  ASSUME ServiceInv, RegistryInv', Running, NEW r \in Datagrams,
         RecvNothing(r) \/ RecvBadAuth(r) \/ RecvCall(r)
  PROVE  ServiceTypeOK' /\ Agreement'
  <1>1. /\ UNCHANGED <<mtmode, wait_method_udp, fd, events, worker_return, mtxp_busy,
                       mtxp_mtready, wpc, handle, serves>>
        /\ spc = "recv"
        /\ spc' \in {"getreq", "died", "dispatch"}
        /\ xprt # BAD
        /\ inbox[fd] # <<>>
        /\ inbox' = [inbox EXCEPT ![fd] = Tail(@)]
        /\ worker_xprt' = xprt
        /\ su_xid' = su_xid \/ su_xid' = [su_xid EXCEPT ![xprt] = r]
    BY DEF RecvNothing, RecvBadAuth, RecvCall, SvcudpRecv, config, workers
  <1>2. SparesServed /\ UNCHANGED <<died, live, retired, mtxp_id>>
    BY UntouchedRegistry DEF RecvNothing, RecvBadAuth, RecvCall, SvcudpRecv
  <1>3. fd \in Sock /\ xprt \in Xprt /\ ~IsClone(xprt)
    <2>1. fd \in Sock
      BY <1>1 DEF ServiceInv, RequestAt
    <2>. QED
      BY <1>1, <2>1, SocketXprt DEF xprt
  <1>4. ServiceTypeOK'
    <2>1. inbox' \in [Sock -> Seq(Datagrams)]
      BY <1>1, <1>3 DEF ServiceInv, ServiceTypeOK
    <2>2. ASSUME NEW s \in Sock
          PROVE  Len(inbox'[s]) <= MaxQueue
      BY <1>1, <1>3, ServiceAssumption DEF ServiceInv, ServiceTypeOK
    <2>. QED
      BY <1>1, <1>3, <2>1, <2>2 DEF ServiceInv, ServiceTypeOK, RegistryInv
  <1>5. Serving' = Serving
    BY <1>1 DEF Serving
  <1>6. \A w \in Serving : handle[w] \in Xprt /\ handle[w] # xprt
    BY <1>1, <1>3, ServedXprt DEF ServiceInv, ServesClone, SetupIsSerial
  <1>7. RequestIsPrivate'
    <2>1. \A w \in Serving : su_xid'[handle[w]] = su_xid[handle[w]]
      BY <1>1, <1>6 DEF ServiceInv, ServiceTypeOK
    <2>. QED
      BY <1>1, <1>5, <2>1 DEF ServiceInv, RequestIsPrivate
  <1>8. OneWorkerPerXprt'
    BY <1>1, <1>2, <1>5 DEF ServiceInv, OneWorkerPerXprt, Registered
  <1>9. SetupIsSerial' /\ ReturnTold' /\ HandoffReady'
    BY <1>1, <1>5 DEF ServiceInv, SetupIsSerial, ReturnTold, HandoffReady, Running
  <1>10. UdpOnly' /\ RequestAt' /\ ServesClone'
    BY <1>1, <1>2, <1>3, <1>5 DEF ServiceInv, UdpOnly, RequestAt, ServesClone, SparesServed,
                                  IsClone, Untouched, xprt
  <1>. QED
    BY <1>4, <1>7, <1>8, <1>9, <1>10 DEF Agreement

LEMMA DispatchOriginalKept ==
  ASSUME ServiceInv, RegistryInv', Running, DispatchOriginal
  PROVE  ServiceTypeOK' /\ Agreement'
  <1>1. /\ UNCHANGED <<mtmode, wait_method_udp, inbox, fd, events, su_xid, mtxp_busy,
                       mtxp_mtready, wpc, handle, serves>>
        /\ mtmode = 0
        /\ spc = "dispatch"
        /\ spc' = "handoff"
        /\ worker_xprt' = xprt
        /\ worker_return' = 0
    BY DEF DispatchOriginal, config, mtxprts, workers
  <1>2. SparesServed /\ UNCHANGED <<died, live, retired, mtxp_id>>
    BY UntouchedRegistry DEF DispatchOriginal
  <1>3. /\ fd \in Sock /\ xprt \in Xprt /\ xprt # BAD
        /\ Registered(xprt) /\ xprt \notin retired
    <2>1. fd \in Sock /\ xprt # BAD
      BY <1>1 DEF ServiceInv, RequestAt
    <2>. QED
      BY <2>1, SocketXprt DEF xprt
  <1>4. ServiceTypeOK'
    BY <1>1, <1>3 DEF ServiceInv, ServiceTypeOK, RegistryInv
  <1>5. Serving = {} /\ Serving' = Serving
    BY <1>1 DEF Serving, ServiceInv, SetupIsSerial
  <1>6. xprt' = xprt
    BY <1>1, <1>2 DEF SparesServed, xprt
  <1>7. HandoffReady'
    BY <1>1, <1>2, <1>3, <1>5, <1>6 DEF HandoffReady, Registered
  <1>8. RequestAt' /\ UdpOnly'
    BY <1>1, <1>2, <1>3, <1>6 DEF ServiceInv, RequestAt, UdpOnly, SparesServed
  <1>9. RequestIsPrivate' /\ OneWorkerPerXprt' /\ SetupIsSerial' /\ ServesClone' /\ ReturnTold'
    BY <1>5 DEF RequestIsPrivate, OneWorkerPerXprt, SetupIsSerial, ServesClone, ReturnTold
  <1>. QED
    BY <1>4, <1>7, <1>8, <1>9 DEF Agreement

\* A clone is a new transport, with a copy of the request, that is marked by
\* nobody and has passed no milestone.
LEMMA DispatchCloneKept ==
  ASSUME ServiceInv, RegistryInv', Running, NEW c \in Xprt, DispatchClone(c)
  PROVE  ServiceTypeOK' /\ Agreement'
  <1>1. /\ UNCHANGED <<mtmode, wait_method_udp, inbox, fd, events, worker_return, wpc, handle,
                       serves>>
        /\ mtmode # 0
        /\ spc = "dispatch"
    BY DEF DispatchClone, config, workers
  <1>2. fd \in Sock /\ xprt \in Xprt /\ xprt # BAD /\ Registered(xprt)
    <2>1. fd \in Sock /\ xprt # BAD
      BY <1>1 DEF ServiceInv, RequestAt
    <2>. QED
      BY <2>1, SocketXprt DEF xprt
  <1>3. CASE died' # "no"
    <2>1. UNCHANGED <<worker_xprt, su_xid, mtxp_busy, mtxp_mtready, spc>>
      BY <1>3 DEF DispatchClone, mtxprts
    <2>2. SparesServed
      BY <1>3 DEF DispatchClone, SvcudpXprtClone, SvcDie, SparesServed, Registered, registry,
                  memory, Running
    <2>3. ServiceTypeOK'
      BY <1>1, <2>1 DEF ServiceInv, ServiceTypeOK, RegistryInv
    <2>. QED
      BY <1>1, <2>1, <2>2, <2>3, WorkersUnaware
  <1>4. CASE died' = "no"
    <2> DEFINE id == XprtIdAlloc
    <2>1. /\ c \notin live
          /\ live' = live \cup {c}
          /\ kind' = [kind EXCEPT ![c] = kind[xprt]]
          /\ mtxp_id' = [mtxp_id EXCEPT ![c] = id]
          /\ mtxp_parent' = [mtxp_parent EXCEPT ![c] = mtxp_id[xprt]]
          /\ mtxp_progress' = [mtxp_progress EXCEPT ![c] = {}]
          /\ UNCHANGED <<sock_xports, retired>>
          /\ ~(id >= NBits)
      BY <1>4 DEF DispatchClone, SvcudpXprtClone, SvcDie, OutOfIds
    <2>2. /\ worker_xprt' = c
          /\ su_xid' = [su_xid EXCEPT ![c] = su_xid[xprt]]
          /\ mtxp_busy' = [mtxp_busy EXCEPT ![c] = 0]
          /\ mtxp_mtready' = [mtxp_mtready EXCEPT ![c] = TRUE]
          /\ spc' = "handoff"
      BY <1>4 DEF DispatchClone
    <2>3. id \in Id
      BY <2>1, AllocFresh, NBitsAssumption DEF ServiceInv, RegistryInv
    <2>. HIDE DEF id
    <2>4. id # XPRT_ID_INVALID /\ mtxp_id[xprt] # NO_PARENT /\ xprt # c /\ c \notin retired
      BY <1>2, <2>1, <2>3, NBitsAssumption
         DEF Registered, XPRT_ID_INVALID, NO_PARENT, Id, ServiceInv, RegistryInv, MarksExact
    <2>5. ServiceTypeOK'
      BY <1>1, <1>2, <2>2 DEF ServiceInv, ServiceTypeOK, RegistryInv
    <2>6. Serving' = Serving
      BY <1>1 DEF Serving
    <2>7. \A w \in Serving : /\ handle[w] \in Xprt /\ handle[w] # c
                             /\ Registered(handle[w]) /\ handle[w] \notin retired
      BY <2>1, ServedXprt DEF Registered
    <2>8. RequestIsPrivate'
      BY <1>1, <2>2, <2>6, <2>7 DEF ServiceInv, ServiceTypeOK, RequestIsPrivate
    <2>9. OneWorkerPerXprt'
      BY <1>1, <2>1, <2>6, <2>7 DEF ServiceInv, OneWorkerPerXprt, Registered, RegistryInv, TypeOK
    <2>10. SetupIsSerial' /\ ReturnTold'
      BY <1>1, <2>2, <2>6 DEF ServiceInv, SetupIsSerial, ReturnTold, Running
    <2>11. UdpOnly'
      BY <1>2, <2>1 DEF ServiceInv, UdpOnly, RegistryInv, TypeOK
    <2>12. xprt' = xprt
      BY <1>1, <2>1 DEF xprt
    <2>13. RequestAt'
      BY <1>1, <1>2, <2>2, <2>12 DEF RequestAt
    <2>14. ServesClone'
      BY <1>1, <2>1, <2>2, <2>6, <2>7 DEF ServiceInv, ServiceTypeOK, ServesClone, IsClone, Untouched,
                                          RegistryInv, TypeOK
    <2>15. HandoffReady'
      <3>1. Registered(c)' /\ c \notin retired' /\ IsClone(c)'
        BY <2>1, <2>4 DEF Registered, IsClone, ServiceInv, RegistryInv, TypeOK
      <3>2. su_xid'[c] = su_xid'[xprt] /\ Untouched(c)'
        BY <1>2, <2>1, <2>2, <2>4 DEF Untouched, ServiceInv, ServiceTypeOK, RegistryInv, TypeOK
      <3>. QED
        BY <1>1, <2>2, <2>6, <2>7, <2>12, <3>1, <3>2 DEF HandoffReady
    <2>. QED
      BY <2>5, <2>8, <2>9, <2>10, <2>11, <2>13, <2>14, <2>15 DEF Agreement
  <1>. QED
    BY <1>3, <1>4

LEMMA HandOffKept ==
  ASSUME ServiceInv, RegistryInv', Running, NEW w \in Workers, HandOff(w)
  PROVE  ServiceTypeOK' /\ Agreement'
  <1>1. /\ UNCHANGED <<mtmode, wait_method_udp, inbox, fd, worker_xprt, events, worker_return,
                       su_xid, mtxp_busy, mtxp_mtready>>
        /\ spc = "handoff"
        /\ spc' = "wait"
        /\ wpc[w] = "idle"
        /\ wpc' = [wpc EXCEPT ![w] = "start"]
        /\ handle' = [handle EXCEPT ![w] = worker_xprt]
        /\ serves' = [serves EXCEPT ![w] = su_xid[xprt]]
    BY DEF HandOff, config, requests, mtxprts
  <1>2. SparesServed /\ UNCHANGED <<died, live, retired, mtxp_id>>
    BY UntouchedRegistry DEF HandOff
  <1>3. /\ worker_xprt \in Xprt /\ xprt \in Xprt /\ su_xid[worker_xprt] = su_xid[xprt]
        /\ \A v \in Serving : handle[v] # worker_xprt
    <2>1. fd \in Sock /\ xprt # BAD
      BY <1>1 DEF ServiceInv, RequestAt
    <2>2. xprt \in Xprt
      BY <2>1, SocketXprt DEF xprt
    <2>. QED
      BY <1>1, <2>2 DEF ServiceInv, HandoffReady, RegistryInv, TypeOK, Registered
  <1>4. ServiceTypeOK'
    BY <1>1, <1>3 DEF ServiceInv, ServiceTypeOK, RegistryInv
  <1>5. Serving' = Serving \cup {w} /\ w \notin Serving
    BY <1>1 DEF Serving, ServiceInv, ServiceTypeOK
  <1>6. /\ \A v \in Serving : /\ handle'[v] = handle[v]
                              /\ serves'[v] = serves[v]
                              /\ wpc'[v] = wpc[v]
        /\ handle'[w] = worker_xprt
        /\ serves'[w] = su_xid[xprt]
    BY <1>1, <1>5 DEF Serving, ServiceInv, ServiceTypeOK
  <1>7. RequestIsPrivate'
    BY <1>1, <1>3, <1>5, <1>6 DEF ServiceInv, RequestIsPrivate
  <1>8. OneWorkerPerXprt'
    BY <1>1, <1>2, <1>3, <1>5, <1>6 DEF ServiceInv, OneWorkerPerXprt, HandoffReady, Registered
  <1>9. SetupIsSerial' /\ ReturnTold'
    BY <1>1, <1>5, <1>6 DEF ServiceInv, SetupIsSerial, ReturnTold, HandoffReady
  <1>10. UdpOnly' /\ RequestAt' /\ HandoffReady'
    BY <1>1, <1>2 DEF ServiceInv, UdpOnly, RequestAt, HandoffReady, SparesServed
  <1>11. ServesClone'
    BY <1>1, <1>2, <1>3, <1>5, <1>6 DEF ServiceInv, ServesClone, HandoffReady, SparesServed,
                                        IsClone, Untouched
  <1>. QED
    BY <1>4, <1>7, <1>8, <1>9, <1>10, <1>11 DEF Agreement

\* The main thread goes on when nobody is left whom it must wait for.
LEMMA WaitKept ==
  ASSUME ServiceInv, RegistryInv', Running,
         WaitOnReturn \/ WaitOnGetargsMutex \/ WaitOnGetargsUsleep \/ DoNotWait
  PROVE  ServiceTypeOK' /\ Agreement'
  <1>1. /\ UNCHANGED <<mtmode, wait_method_udp, inbox, fd, worker_xprt, events, worker_return,
                       su_xid, mtxp_busy, wpc, handle, serves>>
        /\ spc = "wait"
        /\ spc' = "getreq"
        /\ mtxp_mtready' = mtxp_mtready \/ mtxp_mtready' = [mtxp_mtready EXCEPT ![worker_xprt] = TRUE]
    BY DEF WaitOnReturn, WaitOnGetargsMutex, WaitOnGetargsUsleep, DoNotWait, config, requests,
           mtxprts, workers
  <1>2. SparesServed /\ UNCHANGED <<died, live, retired, mtxp_id>>
    BY UntouchedRegistry DEF WaitOnReturn, WaitOnGetargsMutex, WaitOnGetargsUsleep, DoNotWait
  <1>3. ServiceTypeOK'
    BY <1>1 DEF ServiceInv, ServiceTypeOK, RegistryInv
  <1>4. Serving' = Serving
    BY <1>1 DEF Serving
  <1>5. \A w \in Serving : ~(mtmode = 0 \/ (mtmode = 1 /\ wpc[w] = "start"))
    <2>1. CASE WaitOnReturn
      BY <2>1 DEF WaitOnReturn, ServiceInv, ReturnTold
    <2>2. CASE WaitOnGetargsMutex \/ WaitOnGetargsUsleep
      <3>1. mtmode = 1 /\ ~Untouched(worker_xprt)
        BY <2>2 DEF WaitOnGetargsMutex, WaitOnGetargsUsleep, Untouched
      <3>. QED
        BY <3>1 DEF ServiceInv, SetupIsSerial, ServesClone
    <2>3. CASE DoNotWait
      BY <2>3 DEF DoNotWait
    <2>. QED
      BY <2>1, <2>2, <2>3
  <1>6. SetupIsSerial'
    BY <1>1, <1>4, <1>5 DEF SetupIsSerial
  <1>7. ServesClone'
    <2>1. \A w \in Serving : handle[w] \in Xprt
      BY ServedXprt
    <2>2. \A x \in Xprt : mtxp_mtready[x] => mtxp_mtready'[x]
      BY <1>1 DEF ServiceInv, ServiceTypeOK
    <2>3. \A x \in Xprt : Untouched(x) => Untouched(x)'
      BY <1>2, <2>2 DEF Untouched, SparesServed
    <2>. QED
      BY <1>1, <1>2, <1>4, <2>1, <2>3 DEF ServiceInv, ServesClone, SparesServed, IsClone
  <1>8. RequestIsPrivate' /\ OneWorkerPerXprt' /\ ReturnTold'
    BY <1>1, <1>2, <1>4 DEF ServiceInv, RequestIsPrivate, OneWorkerPerXprt, ReturnTold, Registered
  <1>9. UdpOnly' /\ RequestAt' /\ HandoffReady'
    BY <1>1, <1>2 DEF ServiceInv, UdpOnly, RequestAt, HandoffReady, SparesServed
  <1>. QED
    BY <1>3, <1>6, <1>7, <1>8, <1>9 DEF Agreement

-----------------------------------------------------------------------------
(* So does every step of a worker, and of the network.                     *)

\* A worker changes its own transport only, and nobody else serves on it.
LEMMA GetargsKept ==
  ASSUME ServiceInv, RegistryInv', Running, NEW w \in Workers, SvcudpGetargs(w) \/ NoArgs(w)
  PROVE  ServiceTypeOK' /\ Agreement'
  <1> DEFINE x == handle[w]
  <1>1. /\ UNCHANGED <<mtmode, wait_method_udp, inbox, spc, fd, worker_xprt, events, worker_return,
                       su_xid, handle, serves>>
        /\ wpc[w] = "start"
        /\ wpc' = [wpc EXCEPT ![w] = "args"]
        /\ mtxp_busy' = mtxp_busy \/ mtxp_busy' = [mtxp_busy EXCEPT ![x] = 1]
        /\ mtxp_mtready' = mtxp_mtready \/ mtxp_mtready' = [mtxp_mtready EXCEPT ![x] = FALSE]
    BY DEF SvcudpGetargs, NoArgs, UnlockMtready, config, requests, mtxprts
  <1>2. /\ UNCHANGED <<sock_xports, kind, mtxp_parent, died, live, retired, mtxp_id>>
        /\ \/ UNCHANGED mtxp_progress
           \/ mtxp_progress' = [mtxp_progress EXCEPT ![x] = @ \cup {"GETARGS"}]
    <2>1. CASE UNCHANGED vars
      BY <2>1, UntouchedRegistry DEF SparesServed
    <2>2. CASE SetProgress(x, "GETARGS")
      BY <2>2 DEF SetProgress, XprtProgress, registry
    <2>. QED
      BY <2>1, <2>2 DEF SvcudpGetargs, NoArgs
  <1>3. w \in Serving /\ Serving' = Serving
    BY <1>1 DEF Serving, ServiceInv, ServiceTypeOK
  <1>4. ServiceTypeOK'
    BY <1>1 DEF ServiceInv, ServiceTypeOK, RegistryInv
  <1>5. RequestIsPrivate' /\ OneWorkerPerXprt'
    BY <1>1, <1>2, <1>3 DEF ServiceInv, RequestIsPrivate, OneWorkerPerXprt, Registered
  <1>6. SetupIsSerial'
    <2>1. \A v \in Serving : wpc'[v] = "start" => wpc[v] = "start"
      BY <1>1, <1>3 DEF Serving, ServiceInv, ServiceTypeOK
    <2>. QED
      BY <1>1, <1>3, <2>1 DEF ServiceInv, SetupIsSerial, Running
  <1>7. UdpOnly' /\ RequestAt' /\ ReturnTold'
    BY <1>1, <1>2, <1>3 DEF ServiceInv, UdpOnly, RequestAt, ReturnTold, xprt
  <1>8. \A y \in Xprt : y # x /\ Untouched(y) => Untouched(y)'
    BY <1>1, <1>2 DEF Untouched, ServiceInv, ServiceTypeOK, RegistryInv, TypeOK
  <1>9. HandoffReady'
    <2>1. SUFFICES ASSUME spc = "handoff"
                   PROVE  HandoffReady'
      BY <1>1 DEF HandoffReady
    <2>2. worker_xprt \in Xprt /\ worker_xprt # x
      BY <1>3, <2>1 DEF ServiceInv, HandoffReady, Registered, RegistryInv, TypeOK
    <2>3. xprt' = xprt
      BY <1>1, <1>2 DEF xprt
    <2>. QED
      BY <1>1, <1>2, <1>3, <1>8, <2>1, <2>2, <2>3 DEF ServiceInv, HandoffReady, Registered, IsClone
  <1>10. ServesClone'
    <2>1. \A v \in Serving : wpc'[v] = "start" => v # w /\ wpc[v] = "start"
      BY <1>1, <1>3 DEF Serving, ServiceInv, ServiceTypeOK
    <2>2. \A v \in Serving : v # w => handle[v] \in Xprt /\ handle[v] # x
      BY <1>3, ServedXprt DEF ServiceInv, OneWorkerPerXprt
    <2>. QED
      BY <1>1, <1>2, <1>3, <1>8, <2>1, <2>2 DEF ServiceInv, ServesClone, IsClone
  <1>. QED
    BY <1>4, <1>5, <1>6, <1>7, <1>9, <1>10 DEF Agreement

LEMMA SendreplyKept ==
  ASSUME ServiceInv, RegistryInv', Running, NEW w \in Workers, SvcSendreply(w), UNCHANGED vars
  PROVE  ServiceTypeOK' /\ Agreement'
  <1>1. /\ UNCHANGED <<mtmode, wait_method_udp, inbox, spc, fd, worker_xprt, events, worker_return,
                       su_xid, mtxp_busy, mtxp_mtready, handle, serves>>
        /\ wpc[w] = "args"
        /\ wpc' = [wpc EXCEPT ![w] = "replied"]
    BY DEF SvcSendreply, config, requests, mtxprts
  <1>2. SparesServed /\ UNCHANGED <<died, live, retired, mtxp_id>>
    BY UntouchedRegistry
  <1>3. /\ Serving' = Serving
        /\ \A v \in Serving : wpc'[v] = "start" => wpc[v] = "start"
    BY <1>1 DEF Serving, ServiceInv, ServiceTypeOK
  <1>4. ServiceTypeOK'
    BY <1>1 DEF ServiceInv, ServiceTypeOK, RegistryInv
  <1>5. RequestIsPrivate' /\ OneWorkerPerXprt' /\ SetupIsSerial' /\ ReturnTold'
    BY <1>1, <1>2, <1>3 DEF ServiceInv, RequestIsPrivate, OneWorkerPerXprt, SetupIsSerial,
                            ReturnTold, Registered, Running
  <1>6. xprt' = xprt
    BY <1>1, <1>2 DEF xprt, SparesServed
  <1>7. UdpOnly' /\ RequestAt' /\ HandoffReady' /\ ServesClone'
    BY <1>1, <1>2, <1>3, <1>6 DEF ServiceInv, UdpOnly, RequestAt, HandoffReady, ServesClone,
                                  SparesServed, Registered, IsClone, Untouched
  <1>. QED
    BY <1>4, <1>5, <1>7 DEF Agreement

\* In mtmode 0 the one worker that serves tells the main thread, which waits
\* for it, and serves no longer.  In the others it sets a milestone of its clone.
LEMMA ReturnKept ==
  ASSUME ServiceInv, RegistryInv', Running, NEW w \in Workers, SvcReturn(w)
  PROVE  ServiceTypeOK' /\ Agreement'
  <1> DEFINE x == handle[w]
  <1>1. /\ UNCHANGED <<mtmode, wait_method_udp, inbox, spc, fd, worker_xprt, events, su_xid,
                       mtxp_mtready, handle, serves>>
        /\ wpc[w] = "replied"
        /\ mtxp_busy' = [mtxp_busy EXCEPT ![x] = 1]
    BY DEF SvcReturn, config, requests
  <1>2. w \in Serving
    BY <1>1 DEF Serving
  <1>3. CASE mtmode = 0
    <2>1. /\ worker_return' = 1
          /\ wpc' = [wpc EXCEPT ![w] = "ending"]
      BY <1>3 DEF SvcReturn
    <2>2. SparesServed /\ UNCHANGED <<died, live, retired, mtxp_id>>
      BY <1>3, UntouchedRegistry DEF SvcReturn
    <2>3. spc = "wait" /\ Serving = {w}
      BY <1>2, <1>3 DEF ServiceInv, SetupIsSerial, OneWorkerPerXprt
    <2>4. Serving' = {}
      BY <2>1, <2>3 DEF Serving, ServiceInv, ServiceTypeOK
    <2>5. ServiceTypeOK'
      BY <1>1, <2>1 DEF ServiceInv, ServiceTypeOK, RegistryInv
    <2>6. RequestIsPrivate' /\ OneWorkerPerXprt' /\ SetupIsSerial' /\ ReturnTold' /\ ServesClone'
      BY <2>4 DEF RequestIsPrivate, OneWorkerPerXprt, SetupIsSerial, ReturnTold, ServesClone
    <2>7. UdpOnly' /\ RequestAt' /\ HandoffReady'
      BY <1>1, <2>2, <2>3 DEF ServiceInv, UdpOnly, RequestAt, HandoffReady, SparesServed
    <2>. QED
      BY <2>5, <2>6, <2>7 DEF Agreement
  <1>4. CASE mtmode # 0
    <2>1. /\ UNCHANGED worker_return
          /\ wpc' = [wpc EXCEPT ![w] = "marking"]
      BY <1>4 DEF SvcReturn
    <2>2. /\ UNCHANGED <<sock_xports, kind, mtxp_parent, died, live, retired, mtxp_id>>
          /\ mtxp_progress' = [mtxp_progress EXCEPT ![x] = @ \cup {"RETURN"}]
      BY <1>4 DEF SvcReturn, SetProgress, XprtProgress, registry
    <2>3. /\ Serving' = Serving
          /\ \A v \in Serving : wpc'[v] = "start" => v # w /\ wpc[v] = "start"
      BY <1>1, <2>1 DEF Serving, ServiceInv, ServiceTypeOK
    <2>4. ServiceTypeOK'
      BY <1>1, <2>1 DEF ServiceInv, ServiceTypeOK, RegistryInv
    <2>5. RequestIsPrivate' /\ OneWorkerPerXprt' /\ SetupIsSerial' /\ ReturnTold'
      BY <1>1, <2>1, <2>2, <2>3 DEF ServiceInv, RequestIsPrivate, OneWorkerPerXprt, SetupIsSerial,
                                    ReturnTold, Registered, Running
    <2>6. xprt' = xprt
      BY <1>1, <2>2 DEF xprt
    <2>7. UdpOnly' /\ RequestAt'
      BY <1>1, <2>2, <2>6 DEF ServiceInv, UdpOnly, RequestAt
    <2>8. \A y \in Xprt : y # x /\ Untouched(y) => Untouched(y)'
      BY <1>1, <2>2 DEF Untouched, ServiceInv, RegistryInv, TypeOK
    <2>9. HandoffReady'
      <3>1. spc = "handoff" => worker_xprt \in Xprt /\ worker_xprt # x
        BY <1>2 DEF ServiceInv, HandoffReady, Registered, RegistryInv, TypeOK
      <3>. QED
        BY <1>1, <1>4, <2>1, <2>2, <2>3, <2>6, <2>8, <3>1 DEF ServiceInv, HandoffReady, Registered, IsClone
    <2>10. ServesClone'
      <3>1. \A v \in Serving : v # w => handle[v] \in Xprt /\ handle[v] # x
        BY <1>2, ServedXprt DEF ServiceInv, OneWorkerPerXprt
      <3>. QED
        BY <1>1, <2>2, <2>3, <2>8, <3>1 DEF ServiceInv, ServesClone, IsClone
    <2>. QED
      BY <2>4, <2>5, <2>7, <2>9, <2>10 DEF Agreement
  <1>. QED
    BY <1>3, <1>4

\* The mark is that of the worker's own clone, which it serves no longer.
LEMMA ReturnMarkKept ==
  ASSUME ServiceInv, RegistryInv', Running, NEW w \in Workers, SvcReturnMark(w)
  PROVE  ServiceTypeOK' /\ Agreement'
  <1> DEFINE x == handle[w]
  <1>1. /\ UNCHANGED <<mtmode, wait_method_udp, inbox, spc, fd, worker_xprt, events, worker_return,
                       su_xid, mtxp_busy, mtxp_mtready, handle, serves>>
        /\ wpc[w] = "marking"
        /\ wpc' = [wpc EXCEPT ![w] = "ending"]
    BY DEF SvcReturnMark, config, requests, mtxprts
  <1>2. /\ UNCHANGED <<sock_xports, kind, mtxp_parent, mtxp_progress, died, live, mtxp_id>>
        /\ retired' = retired \cup {x}
    BY DEF SvcReturnMark, XprtGcMark, registry, memory
  <1>3. /\ w \in Serving
        /\ Serving' = Serving \ {w}
        /\ \A v \in Serving' : wpc'[v] = wpc[v]
    BY <1>1 DEF Serving, ServiceInv, ServiceTypeOK
  <1>4. ServiceTypeOK'
    BY <1>1 DEF ServiceInv, ServiceTypeOK, RegistryInv
  <1>5. OneWorkerPerXprt'
    BY <1>1, <1>2, <1>3 DEF ServiceInv, OneWorkerPerXprt, Registered
  <1>6. RequestIsPrivate' /\ SetupIsSerial' /\ ReturnTold'
    BY <1>1, <1>2, <1>3 DEF ServiceInv, RequestIsPrivate, SetupIsSerial, ReturnTold, Running
  <1>7. xprt' = xprt
    BY <1>1, <1>2 DEF xprt
  <1>8. UdpOnly' /\ RequestAt' /\ ServesClone'
    BY <1>1, <1>2, <1>3, <1>7 DEF ServiceInv, UdpOnly, RequestAt, ServesClone, IsClone, Untouched
  <1>9. HandoffReady'
    BY <1>1, <1>2, <1>3, <1>7 DEF ServiceInv, HandoffReady, Registered, IsClone, Untouched
  <1>. QED
    BY <1>4, <1>5, <1>6, <1>8, <1>9 DEF Agreement

\* The end of svc_return() concerns a worker that serves no longer.
LEMMA ReturnEndKept ==
  ASSUME ServiceInv, RegistryInv', Running, NEW w \in Workers, SvcReturnEnd(w)
  PROVE  ServiceTypeOK' /\ Agreement'
  <1>1. /\ UNCHANGED <<mtmode, wait_method_udp, inbox, fd, worker_xprt, events, worker_return,
                       su_xid, mtxp_mtready>>
        /\ wpc[w] = "ending"
        /\ wpc' = [wpc EXCEPT ![w] = "idle"]
        /\ handle' = [handle EXCEPT ![w] = BAD]
        /\ serves' = [serves EXCEPT ![w] = BAD]
        /\ mtxp_busy' = [mtxp_busy EXCEPT ![handle[w]] = 0]
        /\ spc' = spc \/ spc' = "crashed"
    BY DEF SvcReturnEnd, config, requests
  <1>2. SparesServed /\ UNCHANGED <<died, live, retired, mtxp_id>>
    BY UntouchedRegistry DEF SvcReturnEnd
  <1>3. /\ Serving' = Serving
        /\ \A v \in Serving : wpc'[v] = wpc[v] /\ handle'[v] = handle[v] /\ serves'[v] = serves[v]
    BY <1>1 DEF Serving, ServiceInv, ServiceTypeOK
  <1>4. ServiceTypeOK'
    BY <1>1 DEF ServiceInv, ServiceTypeOK, RegistryInv
  <1>5. RequestIsPrivate' /\ OneWorkerPerXprt' /\ SetupIsSerial' /\ ReturnTold'
    BY <1>1, <1>2, <1>3 DEF ServiceInv, RequestIsPrivate, OneWorkerPerXprt, SetupIsSerial,
                            ReturnTold, Registered, Running
  <1>6. xprt' = xprt
    BY <1>1, <1>2 DEF xprt, SparesServed
  <1>7. UdpOnly' /\ RequestAt' /\ HandoffReady' /\ ServesClone'
    BY <1>1, <1>2, <1>3, <1>6 DEF ServiceInv, UdpOnly, RequestAt, HandoffReady, ServesClone,
                                  SparesServed, Registered, IsClone, Untouched
  <1>. QED
    BY <1>4, <1>5, <1>7 DEF Agreement

LEMMA ArriveKept ==
  ASSUME ServiceInv, RegistryInv', Running, NEW s \in Sock, NEW r \in Datagrams, Arrive(s, r)
  PROVE  ServiceTypeOK' /\ Agreement'
  <1>1. /\ UNCHANGED <<mtmode, wait_method_udp, spc, fd, worker_xprt, events, worker_return,
                       su_xid, mtxp_busy, mtxp_mtready, wpc, handle, serves>>
        /\ Len(inbox[s]) < MaxQueue
        /\ inbox' = [inbox EXCEPT ![s] = Append(@, r)]
    BY DEF Arrive, config, requests, mtxprts, workers
  <1>2. SparesServed
    BY UntouchedRegistry DEF Arrive
  <1>3. ServiceTypeOK'
    <2>1. inbox' \in [Sock -> Seq(Datagrams)]
      BY <1>1 DEF ServiceInv, ServiceTypeOK
    <2>2. ASSUME NEW t \in Sock
          PROVE  Len(inbox'[t]) <= MaxQueue
      BY <1>1, ServiceAssumption DEF ServiceInv, ServiceTypeOK
    <2>. QED
      BY <1>1, <2>1, <2>2 DEF ServiceInv, ServiceTypeOK, RegistryInv
  <1>. QED
    BY <1>1, <1>2, <1>3, WorkersUnaware

-----------------------------------------------------------------------------
(* The service                                                             *)

LEMMA ServiceInitEstablishes ==
  ASSUME ServiceInit
  PROVE  ServiceInv
  <1>1. RegistryInv
    BY InitEstablishes DEF ServiceInit
  <1>2. Serving = {}
    BY DEF ServiceInit, Serving
  <1>3. ServiceTypeOK
    <2>1. inbox \in [Sock -> Seq(Datagrams)] /\ \A s \in Sock : Len(inbox[s]) <= MaxQueue
      BY ServiceAssumption DEF ServiceInit
    <2>2. wait_method_udp \in WaitMethods \cup {"MUTEX"}
      BY DEF ServiceInit
    <2>. QED
      BY <1>1, <2>1, <2>2 DEF ServiceInit, ServiceTypeOK, RegistryInv
  <1>4. UdpOnly /\ RequestAt /\ HandoffReady
    BY DEF ServiceInit, Init, UdpOnly, RequestAt, HandoffReady
  <1>5. RequestIsPrivate /\ OneWorkerPerXprt /\ SetupIsSerial /\ ServesClone /\ ReturnTold
    BY <1>2 DEF RequestIsPrivate, OneWorkerPerXprt, SetupIsSerial, ServesClone, ReturnTold
  <1>. QED
    BY <1>1, <1>3, <1>4, <1>5 DEF ServiceInv

\* xports_maxid never falls, whatever else may have happened.
LEMMA ServiceMaxidGrows ==
  ASSUME xports_maxid \in Id \cup {-1}, [ServiceNext]_<<vars, service>>
  PROVE  xports_maxid' \in Id \cup {-1} /\ xports_maxid <= xports_maxid'
  <1>1. CASE UNCHANGED xports_maxid
    BY <1>1, NBitsAssumption DEF Id
  <1>2. ASSUME [Next]_vars
        PROVE  xports_maxid' \in Id \cup {-1} /\ xports_maxid <= xports_maxid'
    BY <1>2, MaxidGrows
  <1>3. CASE UNCHANGED vars
    BY <1>2, <1>3
  <1>4. ASSUME NEW c, DispatchClone(c)
        PROVE  xports_maxid' \in Id \cup {-1} /\ xports_maxid <= xports_maxid'
    BY <1>1, <1>4, EnterGrows DEF DispatchClone, SvcudpXprtClone, SvcDie, registry
  <1>5. ASSUME RegisterService
        PROVE  xports_maxid' \in Id \cup {-1} /\ xports_maxid <= xports_maxid'
    BY <1>1, <1>5, EnterGrows DEF RegisterService, XprtRegister, SvcDie, registry
  <1>6. ASSUME \/ Reap \/ SvcRun \/ SvcPoll \/ SvcGetreqPollReturn
               \/ \E x \in Xprt, s \in Sock : CreateService(x, s)
               \/ \E s \in Sock : SvcGetreqCommon(s)
        PROVE  UNCHANGED xports_maxid
    BY <1>6 DEF Reap, SvcRun, SvcPoll, SvcGetreqPollReturn, CreateService, SvcGetreqCommon,
                ReapIfMultiThreaded, XprtGcReapAll, ReapAllReturn, ReapAllSkip, XprtGcReapOne,
                DestroyUnregister, UnregisterId, ReapFinish, SvcDie, SvcudpBufcreate, Construct,
                registry, vars
  <1>7. ASSUME \/ \E r \in Datagrams : RecvNothing(r) \/ RecvBadAuth(r) \/ RecvCall(r)
               \/ DispatchOriginal
               \/ \E w \in Workers : HandOff(w)
               \/ WaitOnReturn \/ WaitOnGetargsMutex \/ WaitOnGetargsUsleep \/ DoNotWait
        PROVE  UNCHANGED vars
    BY <1>7 DEF RecvNothing, RecvBadAuth, RecvCall, SvcudpRecv, DispatchOriginal, HandOff,
                WaitOnReturn, WaitOnGetargsMutex, WaitOnGetargsUsleep, DoNotWait
  <1>8. ASSUME NEW w \in Workers, WorkerStep(w)
        PROVE  UNCHANGED xports_maxid
    BY <1>8 DEF WorkerStep, SvcudpGetargs, NoArgs, SvcSendreply, SvcReturn, SvcReturnMark,
                SvcReturnEnd, SetProgress, XprtProgress, XprtGcMark, SvcDie, registry, vars
  <1>9. ASSUME NEW s, NEW r, Arrive(s, r)
        PROVE  UNCHANGED vars
    BY <1>9 DEF Arrive
  <1>. QED
    BY <1>1, <1>3, <1>4, <1>5, <1>6, <1>7, <1>8, <1>9 DEF ServiceNext, MainStep

LEMMA ServiceNextKeeps ==
  ASSUME Scope, SmallIds, SmallIds', ServiceInv, [ServiceNext]_<<vars, service>>
  PROVE  ServiceInv'
  <1>1. RegistryInv'
    BY ServiceStepIsRegistryStep, NextKeeps DEF ServiceInv
  <1>2. ASSUME UNCHANGED <<vars, service>>
        PROVE  ServiceTypeOK' /\ Agreement'
    <2>1. UNCHANGED <<mtmode, wait_method_udp, inbox, spc, fd, worker_xprt, events, worker_return,
                      su_xid, mtxp_busy, mtxp_mtready, wpc, handle, serves>>
      BY <1>2 DEF service, config, requests, mtxprts, workers
    <2>2. SparesServed /\ UNCHANGED <<died, live, retired, mtxp_id>>
      BY <1>2, UntouchedRegistry
    <2>3. ServiceTypeOK'
      BY <1>1, <2>1 DEF ServiceInv, ServiceTypeOK, RegistryInv
    <2>4. Serving' = Serving /\ xprt' = xprt
      BY <2>1, <2>2 DEF Serving, xprt, SparesServed
    <2>5. Agreement'
      BY <2>1, <2>2, <2>4 DEF Agreement, ServiceInv, RequestIsPrivate, OneWorkerPerXprt,
         SetupIsSerial, ReturnTold, UdpOnly, RequestAt, HandoffReady, ServesClone, SparesServed,
         Registered, IsClone, Untouched, Running
    <2>. QED
      BY <2>3, <2>5
  <1>3. ASSUME Running, MainStep
        PROVE  ServiceTypeOK' /\ Agreement'
    <2>1. CASE (\E x \in Xprt, s \in Sock : CreateService(x, s)) \/ RegisterService
      BY <1>1, <1>3, <2>1, CreateKept, RegisterKept
    <2>2. CASE Reap
      BY <1>1, <1>3, <2>2, ReapKept
    <2>3. CASE SvcRun \/ SvcPoll \/ SvcGetreqPollReturn \/ \E s \in Sock : SvcGetreqCommon(s)
      BY <1>1, <1>3, <2>3, PollKept
    <2>4. CASE \E r \in Datagrams : RecvNothing(r) \/ RecvBadAuth(r) \/ RecvCall(r)
      BY <1>1, <1>3, <2>4, RecvKept
    <2>5. CASE DispatchOriginal \/ \E c \in Xprt : DispatchClone(c)
      BY <1>1, <1>3, <2>5, DispatchOriginalKept, DispatchCloneKept
    <2>6. CASE \E w \in Workers : HandOff(w)
      BY <1>1, <1>3, <2>6, HandOffKept
    <2>7. CASE WaitOnReturn \/ WaitOnGetargsMutex \/ WaitOnGetargsUsleep \/ DoNotWait
      BY <1>1, <1>3, <2>7, WaitKept
    <2>. QED
      BY <1>3, <2>1, <2>2, <2>3, <2>4, <2>5, <2>6, <2>7 DEF MainStep
  <1>4. ASSUME Running, NEW w \in Workers, WorkerStep(w)
        PROVE  ServiceTypeOK' /\ Agreement'
    <2>1. SvcSendreply(w) => UNCHANGED vars
      BY <1>4, SendreplyFinds
    <2>2. CASE SvcudpGetargs(w) \/ NoArgs(w)
      BY <1>1, <1>4, <2>2, GetargsKept
    <2>3. CASE SvcSendreply(w)
      BY <1>1, <1>4, <2>1, <2>3, SendreplyKept
    <2>4. CASE SvcReturn(w) \/ SvcReturnMark(w) \/ SvcReturnEnd(w)
      BY <1>1, <1>4, <2>4, ReturnKept, ReturnMarkKept, ReturnEndKept
    <2>. QED
      BY <1>4, <2>2, <2>3, <2>4 DEF WorkerStep
  <1>5. ASSUME Running, NEW s \in Sock, NEW r \in Datagrams, Arrive(s, r)
        PROVE  ServiceTypeOK' /\ Agreement'
    BY <1>1, <1>5, ArriveKept
  <1>6. ServiceTypeOK' /\ Agreement'
    BY <1>2, <1>3, <1>4, <1>5 DEF ServiceNext
  <1>. QED
    BY <1>1, <1>6 DEF ServiceInv, Agreement

(***************************************************************************)
(* Whatever the order of the steps of the main thread, the workers and the *)
(* network, all that ties them together holds between the steps, for any   *)
(* number of workers and in every mtmode.                                  *)
(***************************************************************************)
THEOREM ServiceCorrect ==
  ASSUME Scope
  PROVE  ServiceSpec => [](SmallIds => ServiceInv)
  <1> DEFINE Inv == xports_maxid \in Id \cup {-1} /\ (SmallIds => ServiceInv)
  <1>1. ServiceInit => Inv
    BY ServiceInitEstablishes DEF ServiceInit, Init
  <1>2. Inv /\ [ServiceNext]_<<vars, service>> => Inv'
    <2>1. SUFFICES ASSUME Inv, [ServiceNext]_<<vars, service>>
                   PROVE  Inv'
      OBVIOUS
    <2>2. xports_maxid' \in Id \cup {-1} /\ xports_maxid <= xports_maxid'
      BY <2>1, ServiceMaxidGrows
    <2>3. SmallIds' => SmallIds
      BY <2>1, <2>2, NBitsAssumption, WordBytesAssumption DEF SmallIds, Id
    <2>. QED
      BY <2>1, <2>2, <2>3, ServiceNextKeeps
  <1>3. Inv => (SmallIds => ServiceInv)
    OBVIOUS
  <1>. QED
    BY <1>1, <1>2, <1>3, PTL DEF ServiceSpec

(***************************************************************************)
(* The service is a user of the registry that keeps to its rules: as long  *)
(* as the ids are small, every behaviour of the service is one that module *)
(* Xports allows, so that all its theorems hold of the service.            *)
(***************************************************************************)
THEOREM ServiceUsesRegistry ==
  ASSUME Scope
  PROVE  ServiceSpec /\ []SmallIds => Spec
  <1>1. ServiceInit => Init
    BY DEF ServiceInit
  <1>2. ServiceInv /\ [ServiceNext]_<<vars, service>> => [Next]_vars
    BY ServiceStepIsRegistryStep
  <1>. QED
    BY <1>1, <1>2, ServiceCorrect, PTL DEF ServiceSpec, Spec

(***************************************************************************)
(* The variables of the service keep their types; the queue of a socket    *)
(* never exceeds its limit.                                                *)
(***************************************************************************)
THEOREM ServiceTypesCorrect ==
  ASSUME Scope
  PROVE  ServiceSpec => [](SmallIds => ServiceTypeOK)
  <1>1. ServiceInv => ServiceTypeOK
    BY DEF ServiceInv
  <1>. QED
    BY <1>1, ServiceCorrect, PTL

(***************************************************************************)
(* The request that a worker serves stays in its transport until the       *)
(* worker is done: no datagram received meanwhile changes its arguments or *)
(* the xid of its reply, for any number of workers and datagrams.          *)
(***************************************************************************)
THEOREM RequestStaysPrivate ==
  ASSUME Scope
  PROVE  ServiceSpec => [](SmallIds => RequestIsPrivate)
  <1>1. ServiceInv => RequestIsPrivate
    BY DEF ServiceInv
  <1>. QED
    BY <1>1, ServiceCorrect, PTL

(***************************************************************************)
(* No two workers serve on one transport, and the collector takes none     *)
(* away from its worker.                                                   *)
(***************************************************************************)
THEOREM OneWorkerServesXprt ==
  ASSUME Scope
  PROVE  ServiceSpec => [](SmallIds => OneWorkerPerXprt)
  <1>1. ServiceInv => OneWorkerPerXprt
    BY DEF ServiceInv
  <1>. QED
    BY <1>1, ServiceCorrect, PTL

(***************************************************************************)
(* In mtmode 0 requests are served one at a time, and in mtmode 1 workers  *)
(* fetch their arguments one at a time, whichever way the main thread      *)
(* waits.                                                                  *)
(***************************************************************************)
THEOREM SetupStaysSerial ==
  ASSUME Scope
  PROVE  ServiceSpec => [](SmallIds => SetupIsSerial)
  <1>1. ServiceInv => SetupIsSerial
    BY DEF ServiceInv
  <1>. QED
    BY <1>1, ServiceCorrect, PTL

=============================================================================
