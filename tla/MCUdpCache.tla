----------------------------- MODULE MCUdpCache -----------------------------
(***************************************************************************)
(* An instance of UdpCache for TLC.                                        *)
(***************************************************************************)
EXTENDS UdpCache, TLC

CONSTANTS c1, c2

\* Two callers with the same xid, each with a second call; the xids 1 and 13
\* share a chain of the 12 of Size = 3.
SharedXids == {[xid |-> 1, caller |-> c1], [xid |-> 1, caller |-> c2],
               [xid |-> 13, caller |-> c1], [xid |-> 2, caller |-> c2]}

CacheSym == Permutations(Nodes) \cup Permutations(Buffers)

=============================================================================
