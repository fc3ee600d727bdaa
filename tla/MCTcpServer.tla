---------------------------- MODULE MCTcpServer -----------------------------
(***************************************************************************)
(* Instances of TcpServer for TLC.                                         *)
(***************************************************************************)
EXTENDS TcpServer, TLC

CONSTANTS p1, p2, r1, r2, bad, unknown, badauth

\* A batch from one peer, a single record from the other.
SomeSent == p1 :> 2 @@ p2 :> 1
SomeSays == p1 :> {r1, r2, bad} @@ p2 :> {unknown, badauth}

\* Descending, which is the default, and "none".
SomeOrders == {-1, 0}

\* States that differ only in the contents of freed memory are the same state:
\* no step reads it, nor the argument of a call that has returned.
Allocated(f) == [x \in live |-> f[x]]

TcpView ==
  <<registry, gcvars, live, fds, pc, gcid, died, retired,
    IF pc[Main] = "idle" THEN BAD ELSE arg[Main],
    Allocated(kind), Allocated(xp_sock), Allocated(mtxp_id),
    order, network, spc, events, fd, accept_sock, worker_return,
    Allocated(inbuf), Allocated(x_id), Allocated(strm_stat), workers, handled>>

=============================================================================
