------------------------------ MODULE UdpServer ------------------------------
(***************************************************************************)
(* A UDP service of RPC-MT: svc_run() and the functions it calls for each  *)
(* request (src/librpc/svc_run.c, svc.c, svc_udp.c), the worker threads of *)
(* the application, and the registry and collector of module Xports below  *)
(* them.                                                                   *)
(*                                                                         *)
(* The main thread receives a datagram into the transport of its socket.   *)
(* In mtmode 0 it hands that transport to a worker and waits for           *)
(* svc_return(); in mtmode 1 and 2 it hands over a clone, and in mtmode 1  *)
(* waits until the worker has fetched its arguments.                       *)
(*                                                                         *)
(* pc[Main] is where the main thread is inside xprt_gc_reap_all() or a     *)
(* constructor, and spc where it is in svc_run(): a step of spc waits for  *)
(* pc[Main] = "idle", that is, for the call to return.                     *)
(*                                                                         *)
(* The application is external: its dispatch function hands the transport  *)
(* to a worker that is idle, and every worker calls svc_getargs(), except  *)
(* for a procedure without arguments, svc_sendreply() and svc_return().    *)
(***************************************************************************)
EXTENDS Xports

CONSTANTS
  Workers,      (* the threads of the application                          *)
  Calls,        (* datagrams that call a registered program                *)
  Malformed,    (* datagrams that are too short or cannot be decoded       *)
  Unknown,      (* calls of a program or version nobody has registered     *)
  BadAuth,      (* calls whose credentials are not accepted                *)
  Modes,        (* the values of mtmode                                    *)
  WaitMethods,  (* the values of wait_method_udp: "MUTEX", "USLEEP"        *)
  MaxQueue      (* the datagrams a socket holds; further ones are lost     *)

ASSUME ServiceAssumption ==
  /\ Modes \subseteq 0 .. 2
  /\ WaitMethods \subseteq {"MUTEX", "USLEEP"}
  /\ MaxQueue \in Nat
  /\ "GETARGS" \in ProgressBits

VARIABLES
  mtmode,           (* how much is multi-threaded                          *)
  wait_method_udp,  (* how the main thread waits in mtmode 1; its default  *)
                    (* where it is not used                                *)
  inbox,            (* the datagrams queued at each socket                 *)
  spc,              (* where the main thread is in svc_run()               *)
  events,           (* the sockets poll() found ready, still to be served  *)
  fd,               (* the socket that is served                           *)
  worker_xprt,      (* the transport handed to a worker                    *)
  worker_return,    (* 1 when the worker of mtmode 0 has returned          *)
  su_xid,           (* the request in the buffer of each transport, whose  *)
                    (* xid the reply will carry                            *)
  mtxp_busy,        (* whether a transport has unfinished business         *)
  mtxp_mtready,     (* whether that mutex of a transport is locked         *)
  wpc,              (* where each worker is                                *)
  handle,           (* the transport each worker was given                 *)
  serves            (* history: the request each worker was given it for   *)

config   == <<mtmode, wait_method_udp>>
requests == <<fd, worker_xprt, events>>
mtxprts  == <<su_xid, mtxp_busy, mtxp_mtready>>
workers  == <<wpc, handle, serves>>
service  == <<config, inbox, spc, requests, worker_return, mtxprts, workers>>

Datagrams == Calls \cup Malformed \cup Unknown \cup BadAuth

\* The transport that svc_getreq_common_rv() works on.
xprt == sock_xports[fd]

Running == died = "no" /\ spc \notin {"died", "crashed"}

-----------------------------------------------------------------------------
(* The main thread                                                         *)

\* Before svc_run(), the application creates its transports.
CreateService(x, s) ==
  /\ spc = "setup"
  /\ SvcudpBufcreate(Main, x, s)
  /\ mtxp_busy' = [mtxp_busy EXCEPT ![x] = 0]
  /\ mtxp_mtready' = [mtxp_mtready EXCEPT ![x] = TRUE]
  /\ UNCHANGED <<config, inbox, spc, requests, worker_return, su_xid, workers>>

RegisterService ==
  /\ spc = "setup"
  /\ XprtRegister(Main)
  /\ spc' = IF fds = Sock THEN "run" ELSE "setup"
  /\ UNCHANGED <<config, inbox, requests, worker_return, mtxprts, workers>>

\* The rest of xprt_gc_reap_all(), up to its return.
Reap ==
  /\ \/ ReapAllReturn
     \/ ReapAllSkip
     \/ XprtGcReapOne
     \/ DestroyUnregister
     \/ ReapFinish
  /\ UNCHANGED service

SvcRun ==
  /\ spc = "run"
  /\ XprtGcReapAll
  /\ spc' = "poll"
  /\ UNCHANGED <<config, inbox, requests, worker_return, mtxprts, workers>>

Polled(s) ==
  /\ PollSlots(s) # {}
  /\ sock_xports[s] # BAD
  /\ mtmode = 0 \/ mtxp_busy[sock_xports[s]] = 0

\* poll() returns the sockets with input, or none after 10 milliseconds.
SvcPoll ==
  /\ spc = "poll"
  /\ pc[Main] = "idle"
  /\ events' = {s \in Sock : Polled(s) /\ inbox[s] # <<>>}
  /\ spc' = IF events' = {} THEN "run" ELSE "getreq"
  /\ UNCHANGED <<vars, config, inbox, fd, worker_xprt, worker_return, mtxprts, workers>>

\* xprt_gc_reap_all() is called only in the multi-threaded modes.
ReapIfMultiThreaded ==
  IF mtmode = 0 THEN UNCHANGED vars ELSE XprtGcReapAll

SvcGetreqCommon(s) ==
  /\ spc = "getreq"
  /\ pc[Main] = "idle"
  /\ s \in events
  /\ \A r \in events : \A i \in PollSlots(s), j \in PollSlots(r) : i <= j
  /\ ReapIfMultiThreaded
  /\ fd' = s
  /\ events' = events \ {s}
  /\ spc' = "recv"
  /\ UNCHANGED <<config, inbox, worker_xprt, worker_return, mtxprts, workers>>

SvcGetreqPollReturn ==
  /\ spc = "getreq"
  /\ pc[Main] = "idle"
  /\ events = {}
  /\ ReapIfMultiThreaded
  /\ spc' = "run"
  /\ UNCHANGED <<config, inbox, requests, worker_return, mtxprts, workers>>

\* svcudp_recv takes the first datagram; one that it cannot decode leaves the
\* xid of the transport alone.
SvcudpRecv(r) ==
  /\ spc = "recv"
  /\ pc[Main] = "idle"
  /\ xprt # BAD
  /\ inbox[fd] # <<>>
  /\ r = Head(inbox[fd])
  /\ inbox' = [inbox EXCEPT ![fd] = Tail(@)]
  /\ worker_xprt' = xprt
  /\ su_xid' = IF r \in Malformed THEN su_xid ELSE [su_xid EXCEPT ![xprt] = r]
  /\ UNCHANGED <<vars, config, fd, events, worker_return, mtxp_busy, mtxp_mtready, workers>>

\* Nothing to dispatch: dropped, or answered with svcerr_noprog() or
\* svcerr_progvers() on the transport itself.
RecvNothing(r) ==
  /\ r \in Malformed \cup Unknown
  /\ SvcudpRecv(r)
  /\ spc' = "getreq"

\* request_lookup() returns an error after svcerr_auth(), and
\* svc_getreq_common() dies of any error.
RecvBadAuth(r) ==
  /\ r \in BadAuth
  /\ SvcudpRecv(r)
  /\ spc' = "died"

RecvCall(r) ==
  /\ r \in Calls
  /\ SvcudpRecv(r)
  /\ spc' = "dispatch"

\* A slip in the next definition: the original is dispatched in every mode.
DispatchUncloned ==
  /\ spc = "dispatch"
  /\ worker_xprt' = xprt
  /\ worker_return' = 0
  /\ spc' = "handoff"
  /\ UNCHANGED <<vars, config, inbox, fd, events, mtxprts, workers>>

\* request_dispatch() in mtmode 0: the worker gets the original.
DispatchOriginal ==
  /\ spc = "dispatch"
  /\ mtmode = 0
  /\ worker_xprt' = xprt
  /\ worker_return' = 0
  /\ spc' = "handoff"
  /\ UNCHANGED <<vars, config, inbox, fd, events, mtxprts, workers>>

\* request_dispatch() in mtmode 1 and 2: the clone has its own copy of the
\* request, and its mtxp_mtready starts off locked.
DispatchClone(c) ==
  /\ spc = "dispatch"
  /\ mtmode # 0
  /\ SvcudpXprtClone(xprt, c)
  /\ IF died' # "no"
     THEN UNCHANGED <<worker_xprt, mtxprts, spc>>
     ELSE /\ worker_xprt' = c
          /\ su_xid' = [su_xid EXCEPT ![c] = su_xid[xprt]]
          /\ mtxp_busy' = [mtxp_busy EXCEPT ![c] = 0]
          /\ mtxp_mtready' = [mtxp_mtready EXCEPT ![c] = TRUE]
          /\ spc' = "handoff"
  /\ UNCHANGED <<config, inbox, fd, events, worker_return, workers>>

\* (*s->sc_dispatch)(): the worker finds a transport that has not returned.
HandOff(w) ==
  /\ spc = "handoff"
  /\ "RETURN" \notin mtxp_progress[worker_xprt]
  /\ wpc[w] = "idle"
  /\ wpc' = [wpc EXCEPT ![w] = "start"]
  /\ handle' = [handle EXCEPT ![w] = worker_xprt]
  /\ serves' = [serves EXCEPT ![w] = su_xid[xprt]]
  /\ spc' = "wait"
  /\ UNCHANGED <<vars, config, inbox, requests, worker_return, mtxprts>>

\* A slip in the next definition: worker_return is not tested.
WaitOnReturnNot ==
  /\ spc = "wait"
  /\ mtmode = 0
  /\ spc' = "getreq"
  /\ UNCHANGED <<vars, config, inbox, requests, worker_return, mtxprts, workers>>

\* The main thread goes on to SVC_STAT() and the next socket.  It always
\* answers XPRT_IDLE for UDP.
WaitOnReturn ==
  /\ spc = "wait"
  /\ mtmode = 0
  /\ worker_return = 1
  /\ spc' = "getreq"
  /\ UNCHANGED <<vars, config, inbox, requests, worker_return, mtxprts, workers>>

WaitOnGetargsMutex ==
  /\ spc = "wait"
  /\ mtmode = 1
  /\ wait_method_udp = "MUTEX"
  /\ ~mtxp_mtready[worker_xprt]
  /\ mtxp_mtready' = [mtxp_mtready EXCEPT ![worker_xprt] = TRUE]
  /\ spc' = "getreq"
  /\ UNCHANGED <<vars, config, inbox, requests, worker_return, su_xid, mtxp_busy, workers>>

\* A slip in the next definition: XPRT_RETURN is not tested.
WaitOnGetargsOnly ==
  /\ spc = "wait"
  /\ mtmode = 1
  /\ wait_method_udp = "USLEEP"
  /\ "GETARGS" \in mtxp_progress[worker_xprt]
  /\ spc' = "getreq"
  /\ UNCHANGED <<vars, config, inbox, requests, worker_return, mtxprts, workers>>

WaitOnGetargsUsleep ==
  /\ spc = "wait"
  /\ mtmode = 1
  /\ wait_method_udp = "USLEEP"
  /\ mtxp_progress[worker_xprt] \cap {"GETARGS", "RETURN"} # {}
  /\ spc' = "getreq"
  /\ UNCHANGED <<vars, config, inbox, requests, worker_return, mtxprts, workers>>

\* A slip in the next definition: mtmode 1 does not wait either.
DoNotWaitInMode1 ==
  /\ spc = "wait"
  /\ mtmode \in {1, 2}
  /\ spc' = "getreq"
  /\ UNCHANGED <<vars, config, inbox, requests, worker_return, mtxprts, workers>>

DoNotWait ==
  /\ spc = "wait"
  /\ mtmode = 2
  /\ spc' = "getreq"
  /\ UNCHANGED <<vars, config, inbox, requests, worker_return, mtxprts, workers>>

-----------------------------------------------------------------------------
(* The workers                                                             *)

SetProgress(x, bit) == XprtProgress(x, mtxp_progress[x] \cup {bit})

UnlockMtready(x) == mtxp_mtready' = [mtxp_mtready EXCEPT ![x] = FALSE]

SvcudpGetargs(w) ==
  LET x == handle[w]
  IN  /\ wpc[w] = "start"
      /\ IF "RETURN" \in mtxp_progress[x]
         THEN UNCHANGED <<vars, mtxp_busy, mtxp_mtready>>
         ELSE /\ SetProgress(x, "GETARGS")
              /\ mtxp_busy' = [mtxp_busy EXCEPT ![x] = 1]
              /\ UnlockMtready(x)
      /\ wpc' = [wpc EXCEPT ![w] = "args"]
      /\ UNCHANGED <<config, inbox, spc, requests, worker_return, su_xid, handle, serves>>

\* A procedure without arguments goes straight to its reply; nothing unlocks
\* mtxp_mtready then.
NoArgs(w) ==
  /\ wpc[w] = "start"
  /\ wpc' = [wpc EXCEPT ![w] = "args"]
  /\ UNCHANGED <<vars, config, inbox, spc, requests, worker_return, mtxprts, handle, serves>>

\* check_svcxprt_exists(), then the reply with the xid of the transport.
SvcSendreply(w) ==
  /\ wpc[w] = "args"
  /\ IF xports[mtxp_id[handle[w]]] # handle[w]
     THEN SvcDie("lost transport")
     ELSE UNCHANGED vars
  /\ wpc' = [wpc EXCEPT ![w] = "replied"]
  /\ UNCHANGED <<config, inbox, spc, requests, worker_return, mtxprts, handle, serves>>

\* svc_return() up to the notice that the worker is done: worker_return in
\* mtmode 0, and else XPRT_RETURN.
SvcReturn(w) ==
  /\ wpc[w] = "replied"
  /\ mtxp_busy' = [mtxp_busy EXCEPT ![handle[w]] = 1]
  /\ IF mtmode = 0
     THEN /\ worker_return' = 1
          /\ wpc' = [wpc EXCEPT ![w] = "ending"]
          /\ UNCHANGED vars
     ELSE /\ SetProgress(handle[w], "RETURN")
          /\ wpc' = [wpc EXCEPT ![w] = "marking"]
          /\ UNCHANGED worker_return
  /\ UNCHANGED <<config, inbox, spc, requests, su_xid, mtxp_mtready, handle, serves>>

SvcReturnMark(w) ==
  /\ wpc[w] = "marking"
  /\ XprtGcMark(handle[w])
  /\ wpc' = [wpc EXCEPT ![w] = "ending"]
  /\ UNCHANGED <<config, inbox, spc, requests, worker_return, mtxprts, handle, serves>>

\* The last statement that uses the transport.  If it has been freed since,
\* the write goes to whatever is there now, or stops the process.
SvcReturnEnd(w) ==
  /\ wpc[w] = "ending"
  /\ mtxp_busy' = [mtxp_busy EXCEPT ![handle[w]] = 0]
  /\ wpc' = [wpc EXCEPT ![w] = "idle"]
  /\ handle' = [handle EXCEPT ![w] = BAD]
  /\ serves' = [serves EXCEPT ![w] = BAD]
  /\ \/ UNCHANGED spc
     \/ handle[w] \notin live /\ spc' = "crashed"
  /\ UNCHANGED <<vars, config, inbox, requests, worker_return, su_xid, mtxp_mtready>>

-----------------------------------------------------------------------------
(* The network                                                             *)

\* A datagram arrives, for the first time or again.
Arrive(s, r) ==
  /\ s \in fds
  /\ Len(inbox[s]) < MaxQueue
  /\ inbox' = [inbox EXCEPT ![s] = Append(@, r)]
  /\ UNCHANGED <<vars, config, spc, requests, worker_return, mtxprts, workers>>

-----------------------------------------------------------------------------

ServiceInit ==
  /\ Init
  /\ mtmode \in Modes
  /\ wait_method_udp \in IF mtmode = 1 THEN WaitMethods ELSE {"MUTEX"}
  /\ inbox = [s \in Sock |-> <<>>]
  /\ spc = "setup"
  /\ events = {}
  /\ fd = NoFd
  /\ worker_xprt = BAD
  /\ worker_return = 0
  /\ su_xid = [x \in Xprt |-> BAD]
  /\ mtxp_busy = [x \in Xprt |-> 0]
  /\ mtxp_mtready = [x \in Xprt |-> FALSE]
  /\ wpc = [w \in Workers |-> "idle"]
  /\ handle = [w \in Workers |-> BAD]
  /\ serves = [w \in Workers |-> BAD]

MainStep ==
  \/ \E x \in Xprt, s \in Sock : CreateService(x, s)
  \/ RegisterService
  \/ Reap
  \/ SvcRun
  \/ SvcPoll
  \/ \E s \in Sock : SvcGetreqCommon(s)
  \/ SvcGetreqPollReturn
  \/ \E r \in Datagrams : RecvNothing(r) \/ RecvBadAuth(r) \/ RecvCall(r)
  \/ DispatchOriginal
  \/ \E c \in Xprt : DispatchClone(c)
  \/ \E w \in Workers : HandOff(w)
  \/ WaitOnReturn
  \/ WaitOnGetargsMutex
  \/ WaitOnGetargsUsleep
  \/ DoNotWait

WorkerStep(w) ==
  \/ SvcudpGetargs(w)
  \/ NoArgs(w)
  \/ SvcSendreply(w)
  \/ SvcReturn(w)
  \/ SvcReturnMark(w)
  \/ SvcReturnEnd(w)

ServiceNext ==
  /\ Running
  /\ \/ MainStep
     \/ \E w \in Workers : WorkerStep(w)
     \/ \E s \in Sock, r \in Datagrams : Arrive(s, r)

ServiceSpec == ServiceInit /\ [][ServiceNext]_<<vars, service>>

(***************************************************************************)
(* Every thread that can go on does, and a worker that waits for           *)
(* xprtgc_lock gets it: the main thread holds it only while it reaps, and  *)
(* never during poll().                                                    *)
(***************************************************************************)
Fairness ==
  /\ WF_<<vars, service>>(Running /\ MainStep)
  /\ \A w \in Workers : /\ WF_<<vars, service>>(Running /\ WorkerStep(w))
                        /\ SF_<<vars, service>>(Running /\ SvcReturnMark(w))

FairServiceSpec == ServiceSpec /\ Fairness

-----------------------------------------------------------------------------
(* Properties                                                              *)

ServiceTypeOK ==
  /\ TypeOK
  /\ mtmode \in Modes
  /\ wait_method_udp \in WaitMethods \cup {"MUTEX"}
  /\ inbox \in [Sock -> Seq(Datagrams)]
  /\ \A s \in Sock : Len(inbox[s]) <= MaxQueue
  /\ spc \in {"setup", "run", "poll", "getreq", "recv", "dispatch", "handoff", "wait",
              "died", "crashed"}
  /\ events \subseteq Sock
  /\ fd \in Sock \cup {NoFd}
  /\ worker_xprt \in Xprt \cup {BAD}
  /\ worker_return \in {0, 1}
  /\ su_xid \in [Xprt -> Datagrams \cup {BAD}]
  /\ mtxp_busy \in [Xprt -> {0, 1}]
  /\ mtxp_mtready \in [Xprt -> BOOLEAN]
  /\ wpc \in [Workers -> {"idle", "start", "args", "replied", "marking", "ending"}]
  /\ handle \in [Workers -> Xprt \cup {BAD}]
  /\ serves \in [Workers -> Datagrams \cup {BAD}]

\* The workers that have been given a request and have not yet said that
\* they are done with it.
Serving == {w \in Workers : wpc[w] \in {"start", "args", "replied", "marking"}}

(***************************************************************************)
(* As long as a worker serves a request, its transport holds that request: *)
(* a later datagram, or one that comes again, changes neither the          *)
(* arguments nor the xid of the reply.  In mtmode 0 because the main       *)
(* thread waits, else because svcudp_xprt_clone() makes a copy.            *)
(***************************************************************************)
RequestIsPrivate == \A w \in Serving : su_xid[handle[w]] = serves[w]

(***************************************************************************)
(* The comment at xprt_lock(): once a SVCXPRT has been cloned it is used   *)
(* exclusively by one worker thread.  No two workers serve on the same     *)
(* transport, and it stays registered and unmarked until its worker has    *)
(* marked it itself.                                                       *)
(***************************************************************************)
OneWorkerPerXprt ==
  /\ \A v, w \in Serving : handle[v] = handle[w] => v = w
  /\ \A w \in Serving : Registered(handle[w]) /\ handle[w] \notin retired

(***************************************************************************)
(* What the comment at mtmode promises: in mode 0 one request is served at *)
(* a time, and in mode 1 only one worker at a time is before its           *)
(* svc_getargs(), the "single-threaded setup".  In either case it is the   *)
(* worker that the main thread waits for.                                  *)
(***************************************************************************)
SetupIsSerial ==
  Running => \A w \in Serving :
    mtmode = 0 \/ (mtmode = 1 /\ wpc[w] = "start") =>
      spc = "wait" /\ handle[w] = worker_xprt

(***************************************************************************)
(* What svc_return() promises: when it has told the main thread that it is *)
(* safe to destroy the transport, the worker no longer uses it.            *)
(***************************************************************************)
SafeToDestroy == \A w \in Workers : wpc[w] = "ending" => handle[w] \in live

(***************************************************************************)
(* What svc_run() says of itself: it keeps polling active connections.  The*)
(* main thread always comes back to poll(), unless the process has stopped.*)
(* The code does not keep this for a procedure without arguments.          *)
(***************************************************************************)
AlwaysPollsAgain == []<>(spc = "poll" \/ ~Running)

\* wait_on_getargs_mutex() waits for an unlock that cannot come any more: the
\* worker it waits for is past the point where it would call svc_getargs().
WaitsInVain ==
  /\ spc = "wait" /\ mtmode = 1 /\ wait_method_udp = "MUTEX"
  /\ mtxp_mtready[worker_xprt]
  /\ \A w \in Workers : handle[w] = worker_xprt => wpc[w] # "start"

(***************************************************************************)
(* The main thread always comes back to poll(), unless the process has     *)
(* stopped or the wait for svc_getargs() is in vain: nothing else that     *)
(* workers do, and neither of the other two ways to wait, keeps it away.   *)
(***************************************************************************)
MainKeepsPolling == []<>(spc = "poll" \/ ~Running \/ WaitsInVain)

(***************************************************************************)
(* A transport that a worker has returned is destroyed, also when no       *)
(* further request arrives, unless the process has stopped or the main     *)
(* thread waits in vain.                                                   *)
(***************************************************************************)
RetiredIsDestroyed ==
  \A x \in Xprt : x \in retired ~> (x \notin retired \/ ~Running \/ WaitsInVain)

-----------------------------------------------------------------------------
(***************************************************************************)
(* The inductive invariant.  It adds to RegistryInv and to the properties  *)
(* above what ties the main thread to the workers.                         *)
(***************************************************************************)

\* All transports are UDP transports, so that only clones are collected.
UdpOnly == \A x \in Xprt : kind[x] = "udp"

\* The socket that is served has its transport.
RequestAt ==
  /\ spc = "recv" => fd \in Sock
  /\ spc \in {"dispatch", "handoff"} => fd \in Sock /\ xprt # BAD

\* Its worker, if it has one yet, has neither fetched arguments nor returned.
Untouched(x) == mtxp_mtready[x] /\ mtxp_progress[x] \cap {"GETARGS", "RETURN"} = {}

\* What request_dispatch() passes on holds the request and is nobody else's.
HandoffReady ==
  spc = "handoff" =>
    /\ Registered(worker_xprt) /\ worker_xprt \notin retired
    /\ su_xid[worker_xprt] = su_xid[xprt]
    /\ \A w \in Serving : handle[w] # worker_xprt
    /\ IF mtmode = 0
       THEN worker_return = 0
       ELSE IsClone(worker_xprt) /\ Untouched(worker_xprt)

\* A worker of mtmode 1 or 2 has a clone, and is the one that changes it.
ServesClone ==
  mtmode # 0 =>
    \A w \in Serving : /\ IsClone(handle[w])
                       /\ wpc[w] = "start" => Untouched(handle[w])

\* worker_return is news of the worker that the main thread waits for.
ReturnTold == mtmode = 0 /\ spc = "wait" /\ worker_return = 1 => Serving = {}

(***************************************************************************)
(* Everything that holds between two steps of the main thread and the      *)
(* workers, and is kept by each of their steps.                            *)
(***************************************************************************)
ServiceInv ==
  /\ RegistryInv
  /\ ServiceTypeOK
  /\ RequestIsPrivate
  /\ OneWorkerPerXprt
  /\ SetupIsSerial
  /\ UdpOnly
  /\ RequestAt
  /\ HandoffReady
  /\ ServesClone
  /\ ReturnTold

=============================================================================
