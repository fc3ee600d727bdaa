---------------------------- MODULE MCUdpServer -----------------------------
(***************************************************************************)
(* Instances of UdpServer for TLC.                                         *)
(***************************************************************************)
EXTENDS UdpServer, TLC

\* Addresses, workers and calls are interchangeable; ids and slots are not.
ServiceSym == Permutations(Xprt) \cup Permutations(Workers) \cup Permutations(Calls)

\* States that differ only in the contents of freed memory are the same state:
\* no step reads it, nor the argument of a call that has returned.
Allocated(f) == [x \in live |-> f[x]]

ServiceView ==
  <<registry, gcvars, live, fds, pc, gcid, died, retired,
    IF pc[Main] = "idle" THEN BAD ELSE arg[Main],
    Allocated(kind), Allocated(xp_sock), Allocated(mtxp_id), Allocated(mtxp_parent),
    Allocated(mtxp_refcnt), Allocated(mtxp_progress),
    config, inbox, spc, requests, worker_return,
    Allocated(su_xid), Allocated(mtxp_busy), Allocated(mtxp_mtready), workers>>

=============================================================================
