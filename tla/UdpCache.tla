------------------------------ MODULE UdpCache ------------------------------
(***************************************************************************)
(* The reply cache of a UDP transport (the second part of                  *)
(* src/librpc/svc_udp.c) and its use by svcudp_recv() and svcudp_reply(),  *)
(* in mtmode 0: the main thread waits while a request is served, so that   *)
(* one request at a time uses the transport.                               *)
(*                                                                         *)
(* The cache does not copy replies: it takes the buffer a reply was built  *)
(* in and gives the transport another, the one of the entry it replaces or *)
(* a new one.                                                              *)
(***************************************************************************)
EXTENDS Naturals, Sequences, FiniteSets, SequencesExt

CONSTANTS
  Calls,      (* the requests, records of an xid and a caller: program,    *)
              (* version, procedure and the address it comes from          *)
  Size,       (* the size given to svcudp_enablecache()                    *)
  Nodes,      (* addresses of cache nodes and                              *)
  Buffers,    (* of reply buffers                                          *)
  NULL

ASSUME CacheAssumption ==
  /\ Size \in Nat \ {0}
  /\ \A r \in Calls : DOMAIN r = {"xid", "caller"} /\ r.xid \in Nat
  /\ Buffers # {}
  /\ NULL \notin Calls \cup Nodes \cup Buffers
  /\ Nodes \cap Buffers = {}

VARIABLES
  su_cache,       (* whether the cache is enabled                          *)
  uc_entries,     (* the chains of the hash table, each a sequence of nodes*)
  uc_fifo,        (* the nodes in the order of their use, a ring           *)
  uc_nextvictim,  (* the place in uc_fifo that is used next                *)
  uc_saved,       (* uc_prog, uc_vers, uc_proc and uc_addr                 *)
  node,           (* cache_xid, cache_reply and the saved fields of a node *)
  rpc_buffer,     (* the buffer of the transport                           *)
  su_xid,         (* the xid of the request last received                  *)
  heap,           (* the nodes and buffers allocated                       *)
  content,        (* what each buffer holds: a request, or the reply to it *)
  serving,        (* the request that is served, or NULL                   *)
  resent          (* the reply that the last step sent from the cache      *)

ucvars == <<uc_entries, uc_fifo, uc_nextvictim, uc_saved, node>>
vars == <<su_cache, ucvars, rpc_buffer, su_xid, heap, content, serving, resent>>

Xids    == {r.xid : r \in Calls}
Callers == {r.caller : r \in Calls}
Places  == 0 .. Size - 1

\* A message in a buffer: the request itself, or the reply with its xid.
Message == [of : Calls, xid : Xids, is : {"call", "reply"}]

SPARSENESS == 4
CACHE_LOC(xid) == xid % (SPARSENESS * Size)

Chains == 0 .. SPARSENESS * Size - 1

-----------------------------------------------------------------------------

\* svcudp_enablecache(): all three allocations succeed, or what was allocated
\* is freed again and the cache stays off.  The application enables it while
\* no request is served: the saved caller is not initialized.
SvcudpEnablecache ==
  /\ ~su_cache
  /\ serving = NULL
  /\ su_cache' = TRUE
  /\ uc_entries' = [c \in Chains |-> <<>>]
  /\ uc_fifo' = [i \in Places |-> NULL]
  /\ uc_nextvictim' = 0
  /\ resent' = NULL
  /\ UNCHANGED <<uc_saved, node, rpc_buffer, su_xid, heap, content, serving>>

\* A slip in the next definition: the xid is not compared.
CacheMatchCaller(n, xid) == node[n].saved = uc_saved

CacheMatch(n, xid) == node[n].xid = xid /\ node[n].saved = uc_saved

\* Where in the chain of an xid there is an entry that matches.
Matching(xid) ==
  LET chain == uc_entries[CACHE_LOC(xid)]
  IN  {i \in DOMAIN chain : CacheMatch(chain[i], xid)}

\* cache_get(): the reply of the first of them is sent.
CacheGet(xid) ==
  \E i \in Matching(xid) :
    /\ \A j \in Matching(xid) : i <= j
    /\ resent' = content'[node[uc_entries[CACHE_LOC(xid)][i]].reply]

\* svcudp_recv(): the datagram goes into the transport's buffer.  If the cache
\* has a reply it is sent, else the call is remembered for cache_set(); in
\* both cases svcudp_recv() returns TRUE and the request is dispatched.
SvcudpRecv(r) ==
  /\ serving = NULL
  /\ content' = [content EXCEPT ![rpc_buffer] = [of |-> r, xid |-> r.xid, is |-> "call"]]
  /\ su_xid' = r.xid
  /\ serving' = r
  /\ IF su_cache /\ Matching(r.xid) # {}
     THEN CacheGet(r.xid) /\ UNCHANGED uc_saved
     ELSE /\ resent' = NULL
          /\ uc_saved' = IF su_cache THEN r.caller ELSE uc_saved
  /\ UNCHANGED <<su_cache, uc_entries, uc_fifo, uc_nextvictim, node, rpc_buffer, heap>>

\* A slip in the next definition: the node stays in its chain.
UnlinkNot(n) == uc_entries

\* The chains without the node n, where it is in the chain of its xid.
Unlink(n) ==
  LET loc == CACHE_LOC(node[n].xid)
      at  == CHOOSE i \in DOMAIN uc_entries[loc] : uc_entries[loc][i] = n
  IN  [uc_entries EXCEPT ![loc] = RemoveAt(@, at)]

\* A slip in the next definition: the transport keeps its buffer.
GiveBufferNot(newbuf) == rpc_buffer' = rpc_buffer

\* rpc_buffer(xprt) = newbuf.
GiveBuffer(newbuf) == rpc_buffer' = newbuf

\* A slip in the next definition: the ring does not wrap.
NextVictimOverrun == uc_nextvictim + 1

NextVictim == (uc_nextvictim + 1) % Size

\* "Store it away": the entry takes the transport's buffer and gets the xid of
\* the transport, but the caller that the last miss has saved.
StoreAway(victim, chains, newbuf) ==
  LET loc == CACHE_LOC(su_xid)
  IN  /\ node' = [node EXCEPT ![victim] =
                    [xid |-> su_xid, saved |-> uc_saved, reply |-> rpc_buffer]]
      /\ GiveBuffer(newbuf)
      /\ uc_entries' = [chains EXCEPT ![loc] = <<victim>> \o @]
      /\ uc_fifo' = [uc_fifo EXCEPT ![uc_nextvictim] = victim]
      /\ uc_nextvictim' = NextVictim
      /\ UNCHANGED <<su_cache, uc_saved, su_xid>>

\* The oldest entry is replaced; nothing is cached if it is not in its chain
\* ("cache_set: victim not found").
CacheSetReuse ==
  LET victim == uc_fifo[uc_nextvictim]
      chain  == uc_entries[CACHE_LOC(node[victim].xid)]
  IN  /\ victim # NULL
      /\ IF victim \in ToSet(chain)
         THEN StoreAway(victim, Unlink(victim), node[victim].reply)
         ELSE UNCHANGED <<su_cache, ucvars, rpc_buffer, su_xid>>
      /\ UNCHANGED heap

CacheSetAlloc(victim, newbuf) ==
  /\ uc_fifo[uc_nextvictim] = NULL
  /\ {victim, newbuf} \cap heap = {}
  /\ heap' = heap \cup {victim, newbuf}
  /\ StoreAway(victim, uc_entries, newbuf)

\* One of the two allocations fails; the node is freed if it is the second.
CacheSetAllocFailed ==
  /\ uc_fifo[uc_nextvictim] = NULL
  /\ UNCHANGED <<su_cache, ucvars, rpc_buffer, su_xid, heap>>

CacheSet ==
  \/ CacheSetReuse
  \/ \E n \in Nodes, b \in Buffers : CacheSetAlloc(n, b)
  \/ CacheSetAllocFailed

\* svcudp_reply(): the reply is built in the buffer of the transport, over the
\* request; it is cached if all of it was sent.
SvcudpReply(sent) ==
  /\ serving # NULL
  /\ content' = [content EXCEPT ![rpc_buffer] = [of |-> serving, xid |-> su_xid, is |-> "reply"]]
  /\ serving' = NULL
  /\ resent' = NULL
  /\ IF sent /\ su_cache
     THEN CacheSet
     ELSE UNCHANGED <<su_cache, ucvars, rpc_buffer, su_xid, heap>>

\* The worker returns without a reply, for a procedure that has none.
NoAnswer ==
  /\ serving # NULL
  /\ serving' = NULL
  /\ resent' = NULL
  /\ UNCHANGED <<su_cache, ucvars, rpc_buffer, su_xid, heap, content>>

-----------------------------------------------------------------------------

Init ==
  /\ su_cache = FALSE
  /\ uc_entries = [c \in Chains |-> <<>>]
  /\ uc_fifo = [i \in Places |-> NULL]
  /\ uc_nextvictim = 0
  /\ uc_saved = NULL
  /\ node = [n \in Nodes |-> NULL]
  /\ \E b \in Buffers : rpc_buffer = b /\ heap = {b}
  /\ su_xid \in Xids
  /\ content = [b \in Buffers |-> NULL]
  /\ serving = NULL
  /\ resent = NULL

Next ==
  \/ SvcudpEnablecache
  \/ \E r \in Calls : SvcudpRecv(r)
  \/ \E sent \in BOOLEAN : SvcudpReply(sent)
  \/ NoAnswer

Spec == Init /\ [][Next]_vars

-----------------------------------------------------------------------------
(* Properties                                                              *)

Cached == {n \in Nodes : \E i \in Places : uc_fifo[i] = n}

Entry == [xid : Xids, saved : Callers, reply : Buffers]

CacheTypeOK ==
  /\ su_cache \in BOOLEAN
  /\ uc_entries \in [Chains -> Seq(Nodes)]
  /\ uc_fifo \in [Places -> Nodes \cup {NULL}]
  /\ uc_nextvictim \in Places
  /\ uc_saved \in Callers \cup {NULL}
  /\ node \in [Nodes -> Entry \cup {NULL}]
  /\ \A n \in Cached : node[n] \in Entry
  /\ rpc_buffer \in Buffers
  /\ su_xid \in Xids
  /\ heap \subseteq Nodes \cup Buffers
  /\ content \in [Buffers -> Message \cup {NULL}]
  /\ serving \in Calls \cup {NULL}
  /\ resent \in Message \cup {NULL}

(***************************************************************************)
(* cache_set() hands buffers to and fro between the transport and the      *)
(* cache.  After any sequence of requests, lost replies and failed         *)
(* allocations, every buffer and node allocated has exactly one owner,     *)
(* the transport or an entry, and every entry is at one place of the ring  *)
(* and in one chain, the chain of its xid: none is leaked, none is written *)
(* by the next request while the cache still holds it.                     *)
(***************************************************************************)
BuffersOwnedOnce ==
  /\ heap = Cached \cup {node[n].reply : n \in Cached} \cup {rpc_buffer}
  /\ \A n \in Cached : /\ node[n].reply # rpc_buffer
                       /\ \A m \in Cached : node[m].reply = node[n].reply => m = n
  /\ \A i, j \in Places : uc_fifo[i] = uc_fifo[j] /\ uc_fifo[i] # NULL => i = j
  /\ \A n \in Cached : n \in ToSet(uc_entries[CACHE_LOC(node[n].xid)])
  /\ \A c \in Chains : \A i \in DOMAIN uc_entries[c] :
       LET n == uc_entries[c][i]
       IN  /\ n \in Cached
           /\ CACHE_LOC(node[n].xid) = c
           /\ \A j \in DOMAIN uc_entries[c] : uc_entries[c][j] = n => j = i

\* The entries from the oldest to the newest.  The next place of the ring is
\* that of the oldest, or it has not been used yet.
FifoOrder ==
  LET entry(n) == [xid |-> node[n].xid, caller |-> node[n].saved,
                   reply |-> content[node[n].reply]]
  IN  IF uc_fifo[uc_nextvictim] = NULL
      THEN [i \in 1 .. uc_nextvictim |-> entry(uc_fifo[i - 1])]
      ELSE [i \in 1 .. Size |-> entry(uc_fifo[(uc_nextvictim + i - 1) % Size])]

Store == INSTANCE ReplyStore WITH
  Replies <- Message, NoCaller <- NULL, NoReply <- NULL,
  store <- FifoOrder, saved <- uc_saved, resent <- resent

(***************************************************************************)
(* "Fifo cache for udp server": hash chains, ring and buffers implement a  *)
(* store of the last Size replies, unchanged since they were sent, and     *)
(* cache_get() finds the newest one of the index it looks for.             *)
(***************************************************************************)
KeepsNewest == Store!Spec

(***************************************************************************)
(* What is sent from the cache is a reply, whole and not overwritten by a  *)
(* later request, and it carries the xid of the request just received, so  *)
(* that its client takes it for an answer: after any sequence of requests, *)
(* of other callers with the same xids too, and of replaced entries.       *)
(***************************************************************************)
ResentHasItsXid ==
  resent # NULL => resent.is = "reply" /\ resent.of.xid = serving.xid

(***************************************************************************)
(* "Index into cache is xid, proc, vers, prog and address": a reply is sent*)
(* from the cache only to the very call it was made for.  The code does not*)
(* keep this where two callers use the same xid: cache_match() compares    *)
(* the entry with the caller of the last miss.                             *)
(***************************************************************************)
ResentIsRetransmission == resent # NULL => resent.is = "reply" /\ resent.of = serving

-----------------------------------------------------------------------------
(***************************************************************************)
(* The inductive invariant.  It adds to the properties above how the ring  *)
(* and the chains are ordered and what the cached buffers hold.            *)
(***************************************************************************)

\* The ring is used from its first place on, and then all of it.
RingFilled ==
  IF uc_fifo[uc_nextvictim] = NULL
  THEN \A i \in Places : uc_fifo[i] # NULL <=> i < uc_nextvictim
  ELSE \A i \in Places : uc_fifo[i] # NULL

\* The order in which the places of the ring were used.
UsedAt(i) == IF i < uc_nextvictim THEN i + Size ELSE i

\* Every chain has its newest entry first.
NewestFirst ==
  \A c \in Chains : \A i, j \in DOMAIN uc_entries[c] : \A p, q \in Places :
    i < j /\ uc_fifo[p] = uc_entries[c][i] /\ uc_fifo[q] = uc_entries[c][j] =>
      UsedAt(q) < UsedAt(p)

\* A cached buffer holds a reply to a call with the xid of the entry.
RepliesKept ==
  \A n \in Cached : LET reply == content[node[n].reply]
                    IN  /\ reply \in Message
                        /\ reply.is = "reply"
                        /\ reply.of.xid = node[n].xid

\* While a request is served, the transport has its xid, and a caller to file
\* the reply under.
RequestKnown ==
  serving # NULL => su_xid = serving.xid /\ (su_cache => uc_saved \in Callers)

\* Nothing is cached before svcudp_enablecache().
EmptyUntilEnabled == ~su_cache => Cached = {}

(***************************************************************************)
(* Everything that holds between two steps of the transport, and is kept   *)
(* by each of its steps.                                                   *)
(***************************************************************************)
CacheInv ==
  /\ CacheTypeOK
  /\ BuffersOwnedOnce
  /\ RingFilled
  /\ NewestFirst
  /\ RepliesKept
  /\ RequestKnown
  /\ EmptyUntilEnabled

=============================================================================
