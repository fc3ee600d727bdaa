----------------------------- MODULE TcpServer ------------------------------
(***************************************************************************)
(* A TCP service of RPC-MT in mtmode 0 (src/librpc/svc_tcp.c, svc_run.c,   *)
(* svc.c): the rendezvous transport that accepts connections, the          *)
(* connections with their record streams, the workers, and the registry of *)
(* module Xports below them.                                               *)
(*                                                                         *)
(* The main thread receives a call, has a worker serve it and waits for    *)
(* svc_return().  One read may bring several calls, which are served       *)
(* before the next poll().  A connection that has died is destroyed by the *)
(* main thread, at once and without the collector.                         *)
(*                                                                         *)
(* A record is one step of input here; how it is cut into fragments and    *)
(* reads is the subject of module XdrRec.  The milestones of a transport,  *)
(* mtxp_busy and mtxp_mtready are left out: in mtmode 0 no step depends on *)
(* them.  Only the main thread opens and closes descriptors.               *)
(***************************************************************************)
EXTENDS Xports

CONSTANTS
  Workers,    (* the threads of the application                            *)
  Peers,      (* the clients, each of which connects once                  *)
  Calls,      (* records that call a registered program                    *)
  Malformed,  (* records that xdr_callmsg() cannot decode, or whose rest   *)
              (* does not arrive within 35 seconds                         *)
  Unknown,    (* calls of a program or version nobody has registered       *)
  BadAuth,    (* calls whose credentials are not accepted                  *)
  Split,      (* the calls whose arguments are not read together with the  *)
              (* message in front of them                                  *)
  lo, hi,     (* socket_fd_region: where descriptors are moved to          *)
  Orders,     (* the values of its third member                            *)
  Says,       (* the records each peer may send                            *)
  MaxSent     (* bound: how many it sends                                  *)

ASSUME TcpAssumption ==
  /\ Sock \subseteq Nat /\ Sock # {} /\ Xprt # {}
  /\ Orders \subseteq {-1, 0, 1}
  /\ {lo, hi} \subseteq Nat /\ lo .. hi \subseteq Sock
  /\ Split \subseteq Calls
  /\ Says \in [Peers -> SUBSET (Calls \cup Malformed \cup Unknown \cup BadAuth)]
  /\ MaxSent \in [Peers -> Nat]
  /\ BAD \notin Peers

VARIABLES
  order,          (* of socket_fd_region: descriptors are moved to the     *)
                  (* lowest (1) or the highest (-1) free one of the range, *)
                  (* or left where they are (0)                            *)
  peer,           (* "off", "open", or "gone": it has closed its end       *)
  sent,           (* history: the records each peer has sent               *)
  stream,         (* those that the server has not read                    *)
  backlog,        (* the peers waiting to be accepted                      *)
  peer_of,        (* the peer at the other end of each descriptor, or BAD  *)
  spc,            (* where the main thread is in svc_run()                 *)
  events,         (* the sockets poll() found ready, still to be served    *)
  fd,             (* the socket that is served                             *)
  accept_sock,    (* the descriptor of a connection under construction     *)
  worker_return,  (* 1 when the worker has returned                        *)
  inbuf,          (* the records in the input buffer of each connection    *)
  x_id,           (* the call it received last, whose xid replies carry    *)
  strm_stat,      (* "IDLE" or "DIED"                                      *)
  wpc,            (* where each worker is                                  *)
  handle,         (* the transport each worker was given                   *)
  serves,         (* history: the peer and the call it was given it for    *)
  handled         (* history: the records received from each peer          *)

network == <<peer, sent, stream, backlog, peer_of>>
conns   == <<inbuf, x_id, strm_stat>>
workers == <<wpc, handle, serves>>
tcp     == <<order, network, spc, events, fd, accept_sock, worker_return, conns, workers,
             handled>>

Records == Calls \cup Malformed \cup Unknown \cup BadAuth

Nobody == [peer |-> BAD, call |-> BAD]

\* The transport that svc_getreq_common_rv() works on, and its client.
xprt == sock_xports[fd]
client == peer_of[fd]

Stopped == {"bad credentials", "no descriptor", "crashed"}
Running == died = "no" /\ spc \notin Stopped

Lowest(s)  == CHOOSE n \in s : \A k \in s : n <= k
Highest(s) == CHOOSE n \in s : \A k \in s : n >= k

\* The kernel gives out the lowest descriptor that is not open.
Unopened == Sock \ fds

-----------------------------------------------------------------------------
(* The main thread: svc_run() and svc_poll()                               *)

\* Addresses are interchangeable: nothing is lost by fixing the first one.
CreateService ==
  /\ spc = "setup"
  /\ SvctcpCreate(Main, CHOOSE x \in Xprt : TRUE, Lowest(Unopened))
  /\ UNCHANGED tcp

RegisterService ==
  /\ spc = "setup"
  /\ XprtRegister(Main)
  /\ spc' = "run"
  /\ UNCHANGED <<order, network, events, fd, accept_sock, worker_return, conns, workers,
                 handled>>

SvcRun ==
  /\ spc = "run"
  /\ XprtGcReapAll
  /\ spc' = "poll"
  /\ UNCHANGED <<order, network, events, fd, accept_sock, worker_return, conns, workers,
                 handled>>

\* Nothing is ever marked in mtmode 0.
Reap ==
  /\ ReapAllReturn
  /\ UNCHANGED tcp

Readable(s) ==
  IF kind[sock_xports[s]] = "rendezvous"
  THEN backlog # <<>>
  ELSE stream[peer_of[s]] # <<>> \/ peer[peer_of[s]] = "gone"

SvcPoll ==
  /\ spc = "poll"
  /\ pc[Main] = "idle"
  /\ events' = {s \in Sock : PollSlots(s) # {} /\ sock_xports[s] # BAD /\ Readable(s)}
  /\ spc' = IF events' = {} THEN "run" ELSE "getreq"
  /\ UNCHANGED <<vars, order, network, fd, accept_sock, worker_return, conns, workers,
                 handled>>

\* svc_getreq_poll_mt() goes through the slots in order.
SvcGetreqCommon(s) ==
  /\ spc = "getreq"
  /\ s \in events
  /\ \A r \in events : \A i \in PollSlots(s), j \in PollSlots(r) : i <= j
  /\ fd' = s
  /\ events' = events \ {s}
  /\ spc' = "recv"
  /\ UNCHANGED <<vars, order, network, accept_sock, worker_return, conns, workers,
                 handled>>

SvcGetreqPollReturn ==
  /\ spc = "getreq"
  /\ events = {}
  /\ spc' = "run"
  /\ UNCHANGED <<vars, order, network, events, fd, accept_sock, worker_return, conns,
                 workers, handled>>

-----------------------------------------------------------------------------
(* The rendezvous: accept(), move_fd(), makefd_xprt()                      *)

AtRendezvous == spc = "recv" /\ kind[xprt] = "rendezvous" /\ backlog # <<>>

RendezvousRequest ==
  LET s == Lowest(Unopened)
  IN  /\ AtRendezvous
      /\ Unopened # {}
      /\ accept_sock' = s
      /\ fds' = fds \cup {s}
      /\ peer_of' = [peer_of EXCEPT ![s] = Head(backlog)]
      /\ backlog' = Tail(backlog)
      /\ spc' = "move"
      /\ UNCHANGED <<registry, gcvars, memory, threads, died, retired, order, peer, sent,
                     stream, events, fd, worker_return, conns, workers, handled>>

\* EMFILE, or ENFILE at any time, leaves the connection in the backlog;
\* ECONNABORTED does not.
SvcAcceptFailed ==
  /\ AtRendezvous
  /\ \/ UNCHANGED backlog
     \/ peer[Head(backlog)] = "gone" /\ backlog' = Tail(backlog)
  /\ spc' = "getreq"
  /\ UNCHANGED <<vars, order, peer, sent, stream, peer_of, events, fd, accept_sock,
                 worker_return, conns, workers, handled>>

\* A slip in the next definition: it goes one descriptor too far.
VacantBeyond == {s \in lo .. hi + 1 : s \notin fds}

\* accept_sock is open while move_fd() looks for another one.
Vacant == {s \in lo .. hi : s \notin fds}

\* A slip in the next definition: the accepted descriptor is not closed.
CloseMovedNot == UNCHANGED fds

\* The copy is in fds again once it belongs to a transport.
CloseMoved == fds' = fds \ {accept_sock}

MoveFd ==
  LET s == CASE order = 0  -> accept_sock
             [] order = 1  -> Lowest(Vacant)
             [] order = -1 -> Highest(Vacant)
  IN  /\ spc = "move"
      /\ IF order # 0 /\ Vacant = {}
         THEN /\ spc' = "no descriptor"
              /\ UNCHANGED <<vars, accept_sock, peer_of>>
         ELSE /\ CloseMoved
              /\ accept_sock' = s
              /\ peer_of' = [peer_of EXCEPT ![accept_sock] = BAD,
                                         ![s] = peer_of[accept_sock]]
              /\ spc' = "make"
              /\ UNCHANGED <<registry, gcvars, memory, threads, died, retired>>
      /\ UNCHANGED <<order, peer, sent, stream, backlog, events, fd, worker_return, conns,
                     workers, handled>>

MakeConnection(x) ==
  /\ spc = "make"
  /\ MakefdXprt(Main, x, accept_sock)
  /\ inbuf' = [inbuf EXCEPT ![x] = <<>>]
  /\ strm_stat' = [strm_stat EXCEPT ![x] = "IDLE"]
  /\ UNCHANGED <<order, network, spc, events, fd, accept_sock, worker_return, x_id,
                 workers, handled>>

\* rendezvous_request() returns FALSE, and rendezvous_stat() XPRT_IDLE.
RegisterConnection ==
  /\ spc = "make"
  /\ XprtRegister(Main)
  /\ accept_sock' = NoFd
  /\ spc' = "getreq"
  /\ UNCHANGED <<order, network, events, fd, worker_return, conns, workers, handled>>

-----------------------------------------------------------------------------
(* A connection: svctcp_recv(), request_lookup(), request_dispatch()       *)

AtConnection == spc = "recv" /\ kind[xprt] = "connection"

\* A slip in the next definition: the last record read is lost.
TakenShort(k) == SubSeq(stream[client], 1, k - 1)

\* What one read() of the k records brings.
Taken(k) == SubSeq(stream[client], 1, k)

Readtcp(k) ==
  /\ AtConnection
  /\ inbuf[xprt] = <<>>
  /\ k \in 1 .. Len(stream[client])
  /\ inbuf' = [inbuf EXCEPT ![xprt] = Taken(k)]
  /\ stream' = [stream EXCEPT ![client] = SubSeq(@, k + 1, Len(@))]
  /\ UNCHANGED <<vars, order, peer, sent, backlog, peer_of, spc, events, fd, accept_sock,
                 worker_return, x_id, strm_stat, workers, handled>>

\* A read of zero bytes.
ReadtcpFails ==
  /\ AtConnection
  /\ inbuf[xprt] = <<>>
  /\ stream[client] = <<>>
  /\ peer[client] = "gone"
  /\ strm_stat' = [strm_stat EXCEPT ![xprt] = "DIED"]
  /\ spc' = "stat"
  /\ UNCHANGED <<vars, order, network, events, fd, accept_sock, worker_return, inbuf,
                 x_id, workers, handled>>

SvctcpRecv(r) ==
  /\ AtConnection
  /\ inbuf[xprt] # <<>>
  /\ r = Head(inbuf[xprt])
  /\ inbuf' = [inbuf EXCEPT ![xprt] = Tail(@)]
  /\ handled' = [handled EXCEPT ![client] = Append(@, r)]
  /\ x_id' = IF r \in Malformed THEN x_id ELSE [x_id EXCEPT ![xprt] = r]
  /\ UNCHANGED <<vars, order, network, events, fd, accept_sock, worker_return, workers>>

\* writetcp(): the connection dies if the peer is found to be gone.
Write(x) ==
  \/ UNCHANGED strm_stat
  \/ /\ peer[peer_of[xp_sock[x]]] = "gone"
     /\ strm_stat' = [strm_stat EXCEPT ![x] = "DIED"]

RecvMalformed(r) ==
  /\ r \in Malformed
  /\ SvctcpRecv(r)
  /\ strm_stat' = [strm_stat EXCEPT ![xprt] = "DIED"]
  /\ spc' = "stat"

\* svcerr_noprog() or svcerr_progvers().
RecvUnknown(r) ==
  /\ r \in Unknown
  /\ SvctcpRecv(r)
  /\ Write(xprt)
  /\ spc' = "stat"

\* svcerr_auth(), and svc_getreq_common() dies of the error.
RecvBadAuth(r) ==
  /\ r \in BadAuth
  /\ SvctcpRecv(r)
  /\ Write(xprt)
  /\ spc' = "bad credentials"

RecvCall(r) ==
  /\ r \in Calls
  /\ SvctcpRecv(r)
  /\ UNCHANGED strm_stat
  /\ spc' = "dispatch"

RequestDispatch(w) ==
  /\ spc = "dispatch"
  /\ wpc[w] = "idle"
  /\ worker_return' = 0
  /\ wpc' = [wpc EXCEPT ![w] = "start"]
  /\ handle' = [handle EXCEPT ![w] = xprt]
  /\ serves' = [serves EXCEPT ![w] = [peer |-> client, call |-> x_id[xprt]]]
  /\ spc' = "wait"
  /\ UNCHANGED <<vars, order, network, events, fd, accept_sock, conns, handled>>

\* A slip in the next definition: worker_return is not tested.
WaitOnReturnNot ==
  /\ spc = "wait"
  /\ spc' = "stat"
  /\ UNCHANGED <<vars, order, network, events, fd, accept_sock, worker_return, conns,
                 workers, handled>>

WaitOnReturn ==
  /\ spc = "wait"
  /\ worker_return = 1
  /\ spc' = "stat"
  /\ UNCHANGED <<vars, order, network, events, fd, accept_sock, worker_return, conns,
                 workers, handled>>

\* A slip in the next definition: a connection never dies.
HasDiedNever(x) == FALSE

HasDied(x) == strm_stat[x] = "DIED"

\* A slip in the next definition: what is in the buffer is left for poll().
MoreReqsNever(x) == FALSE

\* xdrrec_eof() is FALSE.
MoreReqs(x) == inbuf[x] # <<>>

SvctcpStat ==
  /\ spc = "stat"
  /\ IF HasDied(xprt)
     THEN /\ spc' = "destroy"
          /\ pc' = [pc EXCEPT ![Main] = "close"]
          /\ arg' = [arg EXCEPT ![Main] = xprt]
     ELSE /\ spc' = IF MoreReqs(xprt) THEN "recv" ELSE "getreq"
          /\ UNCHANGED <<pc, arg>>
  /\ UNCHANGED <<registry, gcvars, memory, fds, gcid, died, retired, order, network,
                 events, fd, accept_sock, worker_return, conns, workers, handled>>

\* SVC_DESTROY(), up to its return.
SvctcpDestroyClose ==
  /\ spc = "destroy"
  /\ DestroyClose
  /\ peer_of' = [peer_of EXCEPT ![xp_sock[arg[Main]]] = BAD]
  /\ UNCHANGED <<order, peer, sent, stream, backlog, spc, events, fd, accept_sock,
                 worker_return, conns, workers, handled>>

SvctcpDestroyUnregister ==
  /\ spc = "destroy"
  /\ DestroyUnregister
  /\ UNCHANGED tcp

SvctcpDestroyReturn ==
  /\ spc = "destroy"
  /\ pc[Main] = "finish"
  /\ pc' = [pc EXCEPT ![Main] = "idle"]
  /\ spc' = "getreq"
  /\ UNCHANGED <<registry, gcvars, memory, fds, arg, gcid, died, retired, order, network,
                 events, fd, accept_sock, worker_return, conns, workers, handled>>

-----------------------------------------------------------------------------
(* The workers                                                             *)

\* svctcp_getargs() holds poll_lock while it decodes.  If it has to read, it
\* calls readtcp(), which waits for poll_lock.
SvctcpGetargs(w) ==
  /\ wpc[w] = "start"
  /\ wpc' = [wpc EXCEPT ![w] = IF serves[w].call \in Split THEN "stuck" ELSE "args"]
  /\ UNCHANGED <<vars, order, network, spc, events, fd, accept_sock, worker_return, conns,
                 handle, serves, handled>>

\* check_svcxprt_exists(), then the reply with x_id.
SvctcpReply(w) ==
  /\ wpc[w] = "args"
  /\ IF xports[mtxp_id[handle[w]]] # handle[w]
     THEN SvcDie("lost transport") /\ UNCHANGED strm_stat
     ELSE UNCHANGED vars /\ Write(handle[w])
  /\ wpc' = [wpc EXCEPT ![w] = "replied"]
  /\ UNCHANGED <<order, network, spc, events, fd, accept_sock, worker_return, inbuf, x_id,
                 handle, serves, handled>>

SvcReturn(w) ==
  /\ wpc[w] = "replied"
  /\ worker_return' = 1
  /\ wpc' = [wpc EXCEPT ![w] = "ending"]
  /\ UNCHANGED <<vars, order, network, spc, events, fd, accept_sock, conns, handle,
                 serves, handled>>

\* xprt_set_busy(xprt, 0), which may stop the process if the main thread has
\* freed the transport since.
SvcReturnEnd(w) ==
  /\ wpc[w] = "ending"
  /\ wpc' = [wpc EXCEPT ![w] = "idle"]
  /\ handle' = [handle EXCEPT ![w] = BAD]
  /\ serves' = [serves EXCEPT ![w] = Nobody]
  /\ \/ UNCHANGED spc
     \/ handle[w] \notin live /\ spc' = "crashed"
  /\ UNCHANGED <<vars, order, network, events, fd, accept_sock, worker_return, conns,
                 handled>>

-----------------------------------------------------------------------------
(* The clients                                                             *)

Connect(p) ==
  /\ spc # "setup"
  /\ peer[p] = "off"
  /\ peer' = [peer EXCEPT ![p] = "open"]
  /\ backlog' = Append(backlog, p)
  /\ UNCHANGED <<vars, order, sent, stream, peer_of, spc, events, fd, accept_sock,
                 worker_return, conns, workers, handled>>

Send(p, r) ==
  /\ peer[p] = "open"
  /\ Len(sent[p]) < MaxSent[p]
  /\ sent' = [sent EXCEPT ![p] = Append(@, r)]
  /\ stream' = [stream EXCEPT ![p] = Append(@, r)]
  /\ UNCHANGED <<vars, order, peer, backlog, peer_of, spc, events, fd, accept_sock,
                 worker_return, conns, workers, handled>>

Close(p) ==
  /\ peer[p] = "open"
  /\ peer' = [peer EXCEPT ![p] = "gone"]
  /\ UNCHANGED <<vars, order, sent, stream, backlog, peer_of, spc, events, fd,
                 accept_sock, worker_return, conns, workers, handled>>

-----------------------------------------------------------------------------

TcpInit ==
  /\ Init
  /\ order \in Orders
  /\ peer = [p \in Peers |-> "off"]
  /\ sent = [p \in Peers |-> <<>>]
  /\ stream = [p \in Peers |-> <<>>]
  /\ backlog = <<>>
  /\ peer_of = [s \in Sock |-> BAD]
  /\ spc = "setup"
  /\ events = {}
  /\ fd = NoFd
  /\ accept_sock = NoFd
  /\ worker_return = 0
  /\ inbuf = [x \in Xprt |-> <<>>]
  /\ x_id = [x \in Xprt |-> BAD]
  /\ strm_stat = [x \in Xprt |-> "IDLE"]
  /\ wpc = [w \in Workers |-> "idle"]
  /\ handle = [w \in Workers |-> BAD]
  /\ serves = [w \in Workers |-> Nobody]
  /\ handled = [p \in Peers |-> <<>>]

MainStep ==
  \/ CreateService
  \/ \E x \in Xprt : MakeConnection(x)
  \/ RegisterService
  \/ SvcRun
  \/ Reap
  \/ SvcPoll
  \/ \E s \in Sock : SvcGetreqCommon(s)
  \/ SvcGetreqPollReturn
  \/ RendezvousRequest
  \/ SvcAcceptFailed
  \/ MoveFd
  \/ RegisterConnection
  \/ \E p \in Peers : \E k \in 1 .. MaxSent[p] : Readtcp(k)
  \/ ReadtcpFails
  \/ \E r \in Records : RecvMalformed(r) \/ RecvUnknown(r) \/ RecvBadAuth(r) \/ RecvCall(r)
  \/ \E w \in Workers : RequestDispatch(w)
  \/ WaitOnReturn
  \/ SvctcpStat
  \/ SvctcpDestroyClose
  \/ SvctcpDestroyUnregister
  \/ SvctcpDestroyReturn

WorkerStep(w) == SvctcpGetargs(w) \/ SvctcpReply(w) \/ SvcReturn(w) \/ SvcReturnEnd(w)

PeerStep(p) == Connect(p) \/ Close(p) \/ \E r \in Says[p] : Send(p, r)

TcpNext ==
  /\ Running
  /\ \/ MainStep
     \/ \E w \in Workers : WorkerStep(w)
     \/ \E p \in Peers : PeerStep(p)

(***************************************************************************)
(* Every thread of the server that can go on does; the clients need not.   *)
(***************************************************************************)
TcpSpec ==
  /\ TcpInit
  /\ [][TcpNext]_<<vars, tcp>>
  /\ WF_<<vars, tcp>>(Running /\ MainStep)
  /\ \A w \in Workers : WF_<<vars, tcp>>(Running /\ WorkerStep(w))

-----------------------------------------------------------------------------
(* Properties                                                              *)

TcpTypeOK ==
  /\ TypeOK
  /\ order \in Orders
  /\ peer \in [Peers -> {"off", "open", "gone"}]
  /\ \A p \in Peers : /\ {sent[p], stream[p], handled[p]} \subseteq Seq(Records)
                      /\ Len(sent[p]) <= MaxSent[p]
  /\ backlog \in Seq(Peers)
  /\ peer_of \in [Sock -> Peers \cup {BAD}]
  /\ spc \in {"setup", "run", "poll", "getreq", "recv", "move", "make", "dispatch", "wait",
              "stat", "destroy"} \cup Stopped
  /\ events \subseteq Sock
  /\ {fd, accept_sock} \subseteq Sock \cup {NoFd}
  /\ worker_return \in {0, 1}
  /\ \A x \in Xprt : inbuf[x] \in Seq(Records)
  /\ x_id \in [Xprt -> Records \cup {BAD}]
  /\ strm_stat \in [Xprt -> {"IDLE", "DIED"}]
  /\ wpc \in [Workers -> {"idle", "start", "stuck", "args", "replied", "ending"}]
  /\ handle \in [Workers -> Xprt \cup {BAD}]

\* The workers that have been given a call and have not yet returned it.
Serving == {w \in Workers : wpc[w] \in {"start", "stuck", "args", "replied"}}

(***************************************************************************)
(* The reply carries the xid of the call that the worker serves, and goes  *)
(* to the peer that sent it: while a worker serves a call, its connection  *)
(* is neither destroyed nor used for the next call of a batch, and its     *)
(* descriptor is not that of another peer.                                 *)
(***************************************************************************)
RepliesToCaller ==
  \A w \in Serving :
    /\ Registered(handle[w])
    /\ serves[w] = [peer |-> peer_of[xp_sock[handle[w]]], call |-> x_id[handle[w]]]

(***************************************************************************)
(* While its connection lasts, what a peer has sent is received once and   *)
(* in order, however many records a read() brings, and what has not been   *)
(* received is in the buffer of its own connection or still to be read.    *)
(***************************************************************************)
ReceivedInOrder ==
  \A x \in Xprt :
    LET p == peer_of[xp_sock[x]]
    IN  Registered(x) /\ kind[x] = "connection" /\ p # BAD =>
          handled[p] \o inbuf[x] \o stream[p] = sent[p]

(***************************************************************************)
(* Descriptors are accounted for.  Between two rounds of serving, exactly  *)
(* the sockets of the registered transports are open, one for each; and    *)
(* move_fd() ends the service for want of descriptors only if each one of  *)
(* the range belongs to a transport, or is the one that accept() returned. *)
(***************************************************************************)
DescriptorsOwned ==
  /\ spc \in {"run", "poll"} =>
       /\ \A x \in live : Registered(x)
       /\ fds = {xp_sock[x] : x \in live}
       /\ \A x, y \in live : xp_sock[x] = xp_sock[y] => x = y
  /\ spc = "no descriptor" =>
       lo .. hi \subseteq {accept_sock} \cup {xp_sock[x] : x \in live}

Accepted(p) == \E x \in Xprt : Registered(x) /\ peer_of[xp_sock[x]] = p

(***************************************************************************)
(* A record sent on an accepted connection is received, also one that came *)
(* with others in one read(), unless the connection or the service ends.   *)
(***************************************************************************)
SentIsReceived ==
  \A p \in Peers : \A n \in 1 .. MaxSent[p] :
    (Accepted(p) /\ Len(sent[p]) >= n) ~> (Len(handled[p]) >= n \/ ~Accepted(p) \/ ~Running)

(***************************************************************************)
(* The comment at readtcp(): "Any error is fatal and the connection is     *)
(* closed.  (And a read of zero bytes is a half closed stream => error.)"  *)
(***************************************************************************)
GoneIsClosed ==
  \A p \in Peers : (Accepted(p) /\ peer[p] = "gone") ~> (~Accepted(p) \/ ~Running)

(***************************************************************************)
(* The comment at svc_run(): "Keep polling active connections".            *)
(***************************************************************************)
KeepsPolling == []<>(spc = "poll" \/ ~Running)

-----------------------------------------------------------------------------
(***************************************************************************)
(* The inductive invariant.  It adds to the safety properties above what   *)
(* ties the registry, the descriptors, the peers and the worker together.  *)
(***************************************************************************)

\* Nothing is cloned or marked in mtmode 0.
NothingCollected ==
  /\ retired = {} /\ xprtgc_idset = EmptyVec /\ xprtgc_mark_count = 0
  /\ \A x \in Xprt : ~IsClone(x) /\ mtxp_refcnt[x] = 0

\* The parts of the invariant of the registry that do not speak of the
\* collector: here destructors run outside it.
TcpRegistry ==
  /\ TypeOK
  /\ LiveXprtFound
  /\ SocketsWatched
  /\ DiesOnlyWhenFull
  /\ IdsExact
  /\ XprtShape
  /\ SocketsHeld
  /\ CreationPrivate
  /\ NothingCollected

\* The functions of the registry that the main thread is in, and where it dies:
\* when the registry has no id for a connection.
MainAt ==
  /\ died # "no" => spc = "getreq"
  /\ Running => /\ pc[Main] = "register" => spc \in {"setup", "make"}
                /\ pc[Main] = "scan" => spc = "poll"
                /\ pc[Main] \in ReapSteps <=> spc = "destroy"

\* The first transport finds an id and its socket.
SetupAt ==
  spc = "setup" =>
    /\ xports_maxid = -1
    /\ \A s \in Sock : sock_xports[s] = BAD
    /\ pc[Main] = "idle" => live = {}
    /\ pc[Main] = "register" => kind[arg[Main]] = "rendezvous"

\* The transport that is served, and those that poll() has found ready.
ServedAt ==
  /\ \A s \in events : sock_xports[s] # BAD
  /\ spc \in {"recv", "dispatch", "wait", "stat"} =>
       /\ fd \in Sock \ events
       /\ sock_xports[fd] # BAD
       /\ spc # "recv" => kind[sock_xports[fd]] = "connection"
  /\ spc = "destroy" /\ pc[Main] \in {"close", "unregister"} =>
       fd \in Sock \ events /\ arg[Main] # BAD /\ sock_xports[fd] = arg[Main]

\* The destructor closes the descriptor before the transport is gone.
Closed == IF pc[Main] = "unregister" THEN {arg[Main]} ELSE {}

\* What accept() returned, until it belongs to a transport.
Accepting == IF spc \in {"move", "no descriptor"} THEN {accept_sock} ELSE {}

\* Every transport is registered, or about to be, and has its descriptor; no
\* other is open.
FdsExact ==
  /\ \A x \in live : Registered(x) \/ (pc[Main] = "register" /\ x = arg[Main])
  /\ spc # "crashed" => fds = {xp_sock[x] : x \in live \ Closed} \cup Accepting
  /\ spc = "no descriptor" => lo .. hi \subseteq fds

\* Nothing of the peer has been read.
Fresh(p) == handled[p] = <<>> /\ stream[p] = sent[p]

\* A connection between accept() and its registration.
AcceptAt ==
  spc \in {"move", "make"} =>
    /\ accept_sock \in Sock
    /\ peer_of[accept_sock] # BAD
    /\ Fresh(peer_of[accept_sock])
    /\ spc = "move" => \A x \in live : xp_sock[x] # accept_sock
    /\ spc = "make" =>
         IF pc[Main] = "register"
         THEN /\ xp_sock[arg[Main]] = accept_sock
              /\ kind[arg[Main]] = "connection"
              /\ inbuf[arg[Main]] = <<>>
         ELSE accept_sock \notin fds

\* A peer in the backlog is there once and has no descriptor.
BacklogAt ==
  /\ \A p \in Peers : peer[p] = "off" => Fresh(p)
  /\ \A i, j \in DOMAIN backlog : backlog[i] = backlog[j] => i = j
  /\ \A i \in DOMAIN backlog :
       /\ peer[backlog[i]] # "off"
       /\ Fresh(backlog[i])
       /\ \A s \in Sock : peer_of[s] # backlog[i]

\* No two descriptors lead to one peer, and that of a connection leads to one.
PeersApart ==
  /\ \A s \in Sock : peer_of[s] # BAD => peer[peer_of[s]] # "off"
  /\ \A s, r \in Sock : peer_of[s] # BAD /\ peer_of[s] = peer_of[r] => s = r
  /\ \A x \in Xprt : Registered(x) /\ kind[x] = "connection" /\ x \notin Closed =>
       peer_of[xp_sock[x]] # BAD

\* One worker at a time has a call, that of the transport served, and the main
\* thread waits for it.
WorkerAt ==
  /\ \A w \in Serving :
       /\ spc \in {"wait", "crashed"}
       /\ handle[w] = sock_xports[fd]
       /\ worker_return = 0
  /\ \A v, w \in Serving : v = w

\* The types of what TcpTypeOK only gives the elements of.
TcpFunctions ==
  /\ {sent, stream, handled} \subseteq [Peers -> Seq(Records)]
  /\ inbuf \in [Xprt -> Seq(Records)]
  /\ serves \in [Workers -> [peer : Peers \cup {BAD}, call : Records \cup {BAD}]]

(***************************************************************************)
(* Everything that holds between two steps of the service, and is kept by  *)
(* each of them.                                                           *)
(***************************************************************************)
TcpInv ==
  /\ TcpRegistry
  /\ TcpTypeOK
  /\ TcpFunctions
  /\ MainAt
  /\ SetupAt
  /\ ServedAt
  /\ FdsExact
  /\ AcceptAt
  /\ BacklogAt
  /\ PeersApart
  /\ WorkerAt
  /\ RepliesToCaller
  /\ ReceivedInOrder

=============================================================================
