--------------------------- MODULE UdpCacheProofs ---------------------------
(***************************************************************************)
(* The reply cache owns every buffer once and implements the store of the  *)
(* last Size replies, for any size and any number of calls, nodes and      *)
(* buffers.                                                                *)
(***************************************************************************)
EXTENDS UdpCache, ListLemmas, TLAPS

-----------------------------------------------------------------------------
(* The hash function and the ring.                                         *)

LEMMA LocInChains ==
  ASSUME NEW xid \in Nat
  PROVE  CACHE_LOC(xid) \in Chains
  <1>1. SPARSENESS * Size \in Nat \ {0}
    BY CacheAssumption DEF SPARSENESS
  <1> DEFINE m == SPARSENESS * Size
  <1>. HIDE DEF m
  <1>2. xid % m \in 0 .. m - 1
    BY <1>1 DEF m
  <1>. QED
    BY <1>2 DEF CACHE_LOC, Chains, m

\* A number that is less than twice around the ring.
LEMMA AroundTheRing ==
  ASSUME NEW a \in 0 .. 2 * Size - 1
  PROVE  a % Size = IF a < Size THEN a ELSE a - Size
  <1>1. Size \in Nat /\ Size > 0 /\ a \in Nat
    BY CacheAssumption
  <1>2. CASE a < Size
    BY <1>1, <1>2
  <1>3. CASE ~(a < Size)
    BY <1>1, <1>3
  <1>. QED
    BY <1>2, <1>3

LEMMA NextPlace ==
  ASSUME uc_nextvictim \in Places
  PROVE  /\ NextVictim \in Places
         /\ NextVictim = IF uc_nextvictim + 1 = Size THEN 0 ELSE uc_nextvictim + 1
  <1>1. uc_nextvictim + 1 \in 0 .. 2 * Size - 1
    BY CacheAssumption DEF Places
  <1>. QED
    BY <1>1, AroundTheRing, CacheAssumption DEF NextVictim, Places

-----------------------------------------------------------------------------
(* cache_set(), first half: a victim, its buffer and chains without it.    *)

\* The chains are those of the cache without the victim.
ReadyChains(chains, victim) ==
  /\ chains \in [Chains -> Seq(Nodes)]
  /\ \A n \in Cached \ {victim} : \E i \in DOMAIN chains[CACHE_LOC(node[n].xid)] :
       chains[CACHE_LOC(node[n].xid)][i] = n
  /\ \A c \in Chains : \A i \in DOMAIN chains[c] :
       /\ chains[c][i] \in Cached \ {victim}
       /\ CACHE_LOC(node[chains[c][i]].xid) = c
       /\ \A j \in DOMAIN chains[c] : chains[c][j] = chains[c][i] => j = i
  /\ \A c \in Chains : \A i, j \in DOMAIN chains[c] : \A p, q \in Places :
       i < j /\ uc_fifo[p] = chains[c][i] /\ uc_fifo[q] = chains[c][j] =>
         UsedAt(q) < UsedAt(p)

\* An entry of the cache has its fields, its place and its chain.
LEMMA CachedEntry ==
  ASSUME CacheInv, NEW n \in Cached
  PROVE  /\ n \in Nodes /\ n # NULL
         /\ node[n] \in Entry
         /\ CACHE_LOC(node[n].xid) \in Chains
         /\ \E i \in DOMAIN uc_entries[CACHE_LOC(node[n].xid)] :
              uc_entries[CACHE_LOC(node[n].xid)][i] = n
  <1>1. n \in Nodes /\ n # NULL /\ node[n] \in Entry
    BY CacheAssumption DEF CacheInv, CacheTypeOK, Cached
  <1>2. node[n].xid \in Nat
    BY <1>1, CacheAssumption DEF Entry, Xids
  <1>3. CACHE_LOC(node[n].xid) \in Chains
    BY <1>2, LocInChains
  <1>. QED
    BY <1>1, <1>3 DEF CacheInv, BuffersOwnedOnce, ToSet

\* A new node is in no chain.
LEMMA AllocReady ==
  ASSUME CacheInv, NEW victim, victim \notin heap
  PROVE  ReadyChains(uc_entries, victim)
  <1>1. victim \notin Cached
    BY DEF CacheInv, BuffersOwnedOnce
  <1>2. \A c \in Chains : \A i \in DOMAIN uc_entries[c] :
          /\ uc_entries[c][i] \in Cached \ {victim}
          /\ CACHE_LOC(node[uc_entries[c][i]].xid) = c
          /\ \A j \in DOMAIN uc_entries[c] : uc_entries[c][j] = uc_entries[c][i] => j = i
    BY <1>1 DEF CacheInv, BuffersOwnedOnce
  <1>. QED
    BY <1>2, CachedEntry DEF ReadyChains, CacheInv, CacheTypeOK, NewestFirst

\* The oldest entry is found in its chain, and Unlink() takes it out.
LEMMA UnlinkReady ==
  ASSUME CacheInv, uc_fifo[uc_nextvictim] # NULL
  PROVE  LET victim == uc_fifo[uc_nextvictim]
         IN  /\ victim \in ToSet(uc_entries[CACHE_LOC(node[victim].xid)])
             /\ ReadyChains(Unlink(victim), victim)
  <1> DEFINE victim == uc_fifo[uc_nextvictim]
             loc    == CACHE_LOC(node[victim].xid)
             chain  == uc_entries[loc]
             at     == CHOOSE i \in DOMAIN chain : chain[i] = victim
             chains == Unlink(victim)
  <1>1. victim \in Cached
    BY DEF CacheInv, CacheTypeOK, Cached
  <1>2. loc \in Chains /\ \E i \in DOMAIN chain : chain[i] = victim
    BY <1>1, CachedEntry
  <1>3. at \in DOMAIN chain /\ chain[at] = victim
    BY <1>2
  <1>4. chain \in Seq(Nodes) /\ uc_entries \in [Chains -> Seq(Nodes)]
    BY <1>2 DEF CacheInv, CacheTypeOK
  <1>5. Len(chain) \in Nat /\ DOMAIN chain = 1 .. Len(chain)
    BY <1>4, LenProperties
  <1>6. chains = [uc_entries EXCEPT ![loc] = RemoveAt(chain, at)]
    BY DEF Unlink
  <1> DEFINE cut == RemoveAt(chain, at)
  <1>. HIDE DEF victim, loc, chain, at, chains, cut
  <1>7. victim \in ToSet(chain)
    BY ONLY <1>2, Zenon DEF ToSet
  <1>8. /\ cut \in Seq(Nodes)
        /\ Len(cut) = Len(chain) - 1
        /\ \A j \in 1 .. Len(chain) - 1 : cut[j] = IF j < at THEN chain[j] ELSE chain[j + 1]
    BY <1>3, <1>4, <1>5, RemoveAtProperties DEF cut
  <1>9. DOMAIN cut = 1 .. Len(chain) - 1
    BY <1>8, LenProperties
  <1> DEFINE from(j) == IF j < at THEN j ELSE j + 1
  <1>10. ASSUME NEW j \in DOMAIN cut
         PROVE  from(j) \in DOMAIN chain /\ from(j) # at /\ cut[j] = chain[from(j)]
    BY <1>3, <1>5, <1>8, <1>9
  <1>11. \A i, j \in DOMAIN cut : i < j <=> from(i) < from(j)
    BY <1>3, <1>5, <1>9
  <1>12. ASSUME NEW k \in DOMAIN chain, k # at
         PROVE  \E j \in DOMAIN cut : cut[j] = chain[k]
    <2>1. CASE k < at
      BY <1>3, <1>5, <1>8, <1>9, <1>12, <2>1
    <2>2. CASE k > at
      <3>1. k - 1 \in DOMAIN cut /\ ~(k - 1 < at) /\ (k - 1) + 1 = k
        BY <1>3, <1>5, <1>9, <2>2
      <3>. QED
        BY <1>8, <1>9, <3>1
    <2>. QED
      BY <1>3, <1>5, <1>12, <2>1, <2>2
  <1>13. /\ chains \in [Chains -> Seq(Nodes)]
         /\ chains[loc] = cut
         /\ \A c \in Chains : c # loc => chains[c] = uc_entries[c]
    BY <1>2, <1>4, <1>6, <1>8 DEF cut
  <1>14. ASSUME NEW i \in DOMAIN chain, NEW j \in DOMAIN chain, chain[i] = chain[j]
         PROVE  i = j
    BY <1>2, <1>14 DEF CacheInv, BuffersOwnedOnce, chain
  <1>15. ASSUME NEW n \in Cached \ {victim}
         PROVE  \E i \in DOMAIN chains[CACHE_LOC(node[n].xid)] :
                  chains[CACHE_LOC(node[n].xid)][i] = n
    <2>1. CACHE_LOC(node[n].xid) \in Chains
      BY CachedEntry
    <2>2. PICK k \in DOMAIN uc_entries[CACHE_LOC(node[n].xid)] :
                 uc_entries[CACHE_LOC(node[n].xid)][k] = n
      BY CachedEntry
    <2>3. CASE CACHE_LOC(node[n].xid) # loc
      BY <1>13, <2>1, <2>2, <2>3
    <2>4. CASE CACHE_LOC(node[n].xid) = loc
      <3>1. k \in DOMAIN chain /\ chain[k] = n /\ k # at
        BY <1>3, <2>2, <2>4 DEF chain
      <3>. QED
        BY <1>12, <1>13, <2>4, <3>1
    <2>. QED
      BY <2>3, <2>4
  <1>16. ASSUME NEW c \in Chains, NEW i \in DOMAIN chains[c]
         PROVE  /\ chains[c][i] \in Cached \ {victim}
                /\ CACHE_LOC(node[chains[c][i]].xid) = c
                /\ \A j \in DOMAIN chains[c] : chains[c][j] = chains[c][i] => j = i
    <2>1. CASE c # loc
      <3>1. /\ chains[c] = uc_entries[c]
            /\ uc_entries[c][i] \in Cached
            /\ CACHE_LOC(node[uc_entries[c][i]].xid) = c
            /\ \A j \in DOMAIN uc_entries[c] : uc_entries[c][j] = uc_entries[c][i] => j = i
        BY <1>13, <1>16, <2>1 DEF CacheInv, BuffersOwnedOnce
      <3>. QED
        BY <2>1, <3>1 DEF loc
    <2>2. CASE c = loc
      <3>1. i \in DOMAIN cut /\ chains[c] = cut
        BY <1>13, <1>16, <2>2
      <3>2. from(i) \in DOMAIN chain /\ from(i) # at /\ cut[i] = chain[from(i)]
        BY <1>10, <3>1
      <3>3. cut[i] \in Cached /\ CACHE_LOC(node[cut[i]].xid) = c
        BY <1>2, <2>2, <3>2 DEF CacheInv, BuffersOwnedOnce, chain
      <3>4. cut[i] # victim
        BY <1>3, <1>14, <3>2
      <3>5. ASSUME NEW j \in DOMAIN cut, cut[j] = cut[i]
            PROVE  j = i
        <4>1. from(j) = from(i)
          BY <1>10, <1>14, <3>1, <3>5
        <4>. QED
          BY <1>3, <1>5, <1>9, <3>1, <4>1
      <3>. QED
        BY <3>1, <3>3, <3>4, <3>5
    <2>. QED
      BY <2>1, <2>2
  <1>17. ASSUME NEW c \in Chains, NEW i \in DOMAIN chains[c], NEW j \in DOMAIN chains[c],
                NEW p \in Places, NEW q \in Places,
                i < j, uc_fifo[p] = chains[c][i], uc_fifo[q] = chains[c][j]
         PROVE  UsedAt(q) < UsedAt(p)
    <2>1. CASE c # loc
      BY <1>13, <1>17, <2>1 DEF CacheInv, NewestFirst
    <2>2. CASE c = loc
      <3>1. i \in DOMAIN cut /\ j \in DOMAIN cut /\ chains[c] = cut
        BY <1>13, <1>17, <2>2
      <3>2. /\ from(i) \in DOMAIN chain /\ from(j) \in DOMAIN chain /\ from(i) < from(j)
            /\ uc_fifo[p] = chain[from(i)] /\ uc_fifo[q] = chain[from(j)]
        BY <1>10, <1>11, <1>17, <3>1
      <3>. QED
        BY <1>2, <3>2 DEF CacheInv, NewestFirst, chain
    <2>. QED
      BY <2>1, <2>2
  <1>18. ReadyChains(chains, victim)
    BY <1>13, <1>15, <1>16, <1>17 DEF ReadyChains
  <1>. QED
    BY <1>7, <1>18 DEF victim, chain, loc, chains

-----------------------------------------------------------------------------
(* cache_set(), second half: "Store it away".                              *)

\* What StoreAway() finds: a victim that is new or the oldest entry, a buffer
\* that nobody else owns, and the reply in the buffer of the transport.
ReadyToStore(victim, chains, newbuf) ==
  /\ su_cache /\ serving # NULL
  /\ ReadyChains(chains, victim)
  /\ \A i \in Places : uc_fifo[i] = victim => i = uc_nextvictim
  /\ uc_fifo[uc_nextvictim] \in {victim, NULL}
  /\ newbuf # rpc_buffer
  /\ \A n \in Cached \ {victim} : node[n].reply # newbuf
  /\ heap' = Cached \cup {victim} \cup {node[n].reply : n \in Cached \ {victim}}
                \cup {rpc_buffer, newbuf}
  /\ content' = [content EXCEPT ![rpc_buffer] =
                   [of |-> serving, xid |-> su_xid, is |-> "reply"]]
  /\ serving' = NULL
  /\ resent' = NULL

\* What changes in the nodes, the ring and the buffers.
LEMMA StoreFacts ==
  ASSUME CacheInv, NEW victim \in Nodes, NEW chains, NEW newbuf \in Buffers,
         ReadyToStore(victim, chains, newbuf), StoreAway(victim, chains, newbuf)
  PROVE  /\ UNCHANGED <<su_cache, uc_saved, su_xid>>
         /\ rpc_buffer' = newbuf
         /\ Cached' = Cached \cup {victim}
         /\ uc_fifo'[uc_nextvictim] = victim
         /\ \A i \in Places : i # uc_nextvictim => uc_fifo'[i] = uc_fifo[i] /\ uc_fifo[i] # victim
         /\ uc_nextvictim' = IF uc_nextvictim + 1 = Size THEN 0 ELSE uc_nextvictim + 1
         /\ node'[victim] = [xid |-> su_xid, saved |-> uc_saved, reply |-> rpc_buffer]
         /\ node'[victim] \in Entry
         /\ \A n \in Nodes : n # victim => node'[n] = node[n]
         /\ content'[rpc_buffer] = [of |-> serving, xid |-> su_xid, is |-> "reply"]
         /\ content'[rpc_buffer] \in Message
         /\ \A n \in Cached : content'[node[n].reply] = content[node[n].reply]
  <1>1. /\ UNCHANGED <<su_cache, uc_saved, su_xid>>
        /\ rpc_buffer' = newbuf
        /\ uc_fifo' = [uc_fifo EXCEPT ![uc_nextvictim] = victim]
        /\ uc_nextvictim' = NextVictim
        /\ node' = [node EXCEPT ![victim] =
                      [xid |-> su_xid, saved |-> uc_saved, reply |-> rpc_buffer]]
    BY DEF StoreAway, GiveBuffer
  <1>2. /\ uc_fifo'[uc_nextvictim] = victim
        /\ \A i \in Places : i # uc_nextvictim => uc_fifo'[i] = uc_fifo[i] /\ uc_fifo[i] # victim
        /\ uc_nextvictim \in Places
    BY <1>1 DEF CacheInv, CacheTypeOK, ReadyToStore
  <1>3. Cached' = Cached \cup {victim}
    <2>1. ASSUME NEW n \in Nodes, n # victim
          PROVE  n \in Cached' <=> n \in Cached
      BY <1>2, <2>1, CacheAssumption DEF Cached, ReadyToStore
    <2>2. victim \in Cached'
      BY <1>2 DEF Cached
    <2>. QED
      BY <2>1, <2>2 DEF Cached
  <1>4. uc_nextvictim' = IF uc_nextvictim + 1 = Size THEN 0 ELSE uc_nextvictim + 1
    BY <1>1, <1>2, NextPlace
  <1>5. /\ node'[victim] = [xid |-> su_xid, saved |-> uc_saved, reply |-> rpc_buffer]
        /\ \A n \in Nodes : n # victim => node'[n] = node[n]
    BY <1>1 DEF CacheInv, CacheTypeOK
  <1>6. su_xid \in Xids /\ uc_saved \in Callers /\ rpc_buffer \in Buffers /\ serving \in Calls
    BY DEF ReadyToStore, CacheInv, CacheTypeOK, RequestKnown
  <1>7. node'[victim] \in Entry
    BY <1>5, <1>6 DEF Entry
  <1>8. /\ content'[rpc_buffer] = [of |-> serving, xid |-> su_xid, is |-> "reply"]
        /\ \A b \in Buffers : b # rpc_buffer => content'[b] = content[b]
    BY <1>6 DEF ReadyToStore, CacheInv, CacheTypeOK
  <1>9. content'[rpc_buffer] \in Message
    BY <1>6, <1>8 DEF Message
  <1>10. ASSUME NEW n \in Cached
         PROVE  content'[node[n].reply] = content[node[n].reply]
    <2>1. node[n].reply \in Buffers
      BY CachedEntry DEF Entry
    <2>2. node[n].reply # rpc_buffer
      BY DEF CacheInv, BuffersOwnedOnce
    <2>. QED
      BY <1>8, <2>1, <2>2
  <1>. QED
    BY <1>1, <1>2, <1>3, <1>4, <1>5, <1>7, <1>8, <1>9, <1>10

\* The victim becomes the first of the chain of its new xid.
LEMMA StoreChains ==
  ASSUME CacheInv, NEW victim \in Nodes, NEW chains, NEW newbuf \in Buffers,
         ReadyToStore(victim, chains, newbuf), StoreAway(victim, chains, newbuf)
  PROVE  LET loc == CACHE_LOC(su_xid)
         IN  /\ loc \in Chains
             /\ uc_entries' \in [Chains -> Seq(Nodes)]
             /\ \A c \in Chains : c # loc => uc_entries'[c] = chains[c]
             /\ DOMAIN uc_entries'[loc] = 1 .. Len(chains[loc]) + 1
             /\ DOMAIN chains[loc] = 1 .. Len(chains[loc])
             /\ Len(chains[loc]) \in Nat
             /\ uc_entries'[loc][1] = victim
             /\ \A i \in DOMAIN chains[loc] : uc_entries'[loc][i + 1] = chains[loc][i]
  <1> DEFINE loc == CACHE_LOC(su_xid)
             new == <<victim>> \o chains[loc]
  <1>1. uc_entries' = [chains EXCEPT ![loc] = new]
    BY DEF StoreAway
  <1>2. su_xid \in Nat
    BY CacheAssumption DEF CacheInv, CacheTypeOK, Xids
  <1>3. loc \in Chains
    BY <1>2, LocInChains
  <1>4. chains \in [Chains -> Seq(Nodes)]
    BY DEF ReadyToStore, ReadyChains
  <1>5. chains[loc] \in Seq(Nodes) /\ <<victim>> \in Seq(Nodes) /\ Len(<<victim>>) = 1
    BY <1>3, <1>4
  <1>6. Len(chains[loc]) \in Nat /\ DOMAIN chains[loc] = 1 .. Len(chains[loc])
    BY <1>5, LenProperties
  <1>7. /\ new \in Seq(Nodes)
        /\ Len(new) = 1 + Len(chains[loc])
        /\ \A i \in 1 .. 1 + Len(chains[loc]) :
             new[i] = IF i <= 1 THEN <<victim>>[i] ELSE chains[loc][i - 1]
    BY <1>5, ConcatProperties
  <1>. HIDE DEF loc, new
  <1>8. DOMAIN new = 1 .. Len(chains[loc]) + 1
    BY <1>6, <1>7, LenProperties
  <1>9. new[1] = victim /\ \A i \in DOMAIN chains[loc] : new[i + 1] = chains[loc][i]
    BY <1>6, <1>7
  <1>10. /\ uc_entries' \in [Chains -> Seq(Nodes)]
         /\ uc_entries'[loc] = new
         /\ \A c \in Chains : c # loc => uc_entries'[c] = chains[c]
    BY <1>1, <1>3, <1>4, <1>7
  <1>. QED
    BY <1>3, <1>6, <1>8, <1>9, <1>10 DEF loc

\* The order of the places of the ring, before and after place v is used.
LEMMA StoreOrder ==
  ASSUME NEW v \in Places, NEW w, w = IF v + 1 = Size THEN 0 ELSE v + 1,
         NEW p \in Places, NEW q \in Places
  PROVE  LET old(i) == IF i < v THEN i + Size ELSE i
             new(i) == IF i < w THEN i + Size ELSE i
         IN  /\ q # v => new(q) < new(v)
             /\ p # v /\ q # v => (new(q) < new(p) <=> old(q) < old(p))
  BY CacheAssumption DEF Places

\* The invariant holds again when the reply has been stored.
LEMMA StoreKeeps ==
  ASSUME CacheInv, NEW victim \in Nodes, NEW chains, NEW newbuf \in Buffers,
         ReadyToStore(victim, chains, newbuf), StoreAway(victim, chains, newbuf)
  PROVE  CacheInv'
  <1> DEFINE loc == CACHE_LOC(su_xid)
             v   == uc_nextvictim
  <1>1. /\ UNCHANGED <<su_cache, uc_saved, su_xid>>
        /\ rpc_buffer' = newbuf
        /\ Cached' = Cached \cup {victim}
        /\ uc_fifo'[v] = victim
        /\ \A i \in Places : i # v => uc_fifo'[i] = uc_fifo[i] /\ uc_fifo[i] # victim
        /\ uc_nextvictim' = IF v + 1 = Size THEN 0 ELSE v + 1
        /\ node'[victim] = [xid |-> su_xid, saved |-> uc_saved, reply |-> rpc_buffer]
        /\ node'[victim] \in Entry
        /\ \A n \in Nodes : n # victim => node'[n] = node[n]
        /\ content'[rpc_buffer] = [of |-> serving, xid |-> su_xid, is |-> "reply"]
        /\ content'[rpc_buffer] \in Message
        /\ \A n \in Cached : content'[node[n].reply] = content[node[n].reply]
    BY StoreFacts
  <1>2. /\ loc \in Chains
        /\ uc_entries' \in [Chains -> Seq(Nodes)]
        /\ \A c \in Chains : c # loc => uc_entries'[c] = chains[c]
        /\ DOMAIN uc_entries'[loc] = 1 .. Len(chains[loc]) + 1
        /\ DOMAIN chains[loc] = 1 .. Len(chains[loc])
        /\ Len(chains[loc]) \in Nat
        /\ uc_entries'[loc][1] = victim
        /\ \A i \in DOMAIN chains[loc] : uc_entries'[loc][i + 1] = chains[loc][i]
    BY StoreChains
  <1>3. v \in Places /\ serving \in Calls /\ Cached \subseteq Nodes
    BY DEF CacheInv, CacheTypeOK, ReadyToStore, Cached
  <1>4. /\ \A n \in Cached \ {victim} : \E i \in DOMAIN chains[CACHE_LOC(node[n].xid)] :
             chains[CACHE_LOC(node[n].xid)][i] = n
        /\ \A c \in Chains : \A i \in DOMAIN chains[c] :
             /\ chains[c][i] \in Cached \ {victim}
             /\ CACHE_LOC(node[chains[c][i]].xid) = c
             /\ \A j \in DOMAIN chains[c] : chains[c][j] = chains[c][i] => j = i
        /\ \A c \in Chains : \A i, j \in DOMAIN chains[c] : \A p, q \in Places :
             i < j /\ uc_fifo[p] = chains[c][i] /\ uc_fifo[q] = chains[c][j] =>
               UsedAt(q) < UsedAt(p)
    BY DEF ReadyToStore, ReadyChains
  <1>5. ASSUME NEW k \in DOMAIN uc_entries'[loc], k # 1
        PROVE  k - 1 \in DOMAIN chains[loc] /\ uc_entries'[loc][k] = chains[loc][k - 1]
    <2>1. k - 1 \in DOMAIN chains[loc] /\ (k - 1) + 1 = k
      BY <1>2, <1>5
    <2>. QED
      BY <1>2, <2>1
  <1>6. CacheTypeOK'
    <2>1. uc_fifo' \in [Places -> Nodes \cup {NULL}] /\ node' \in [Nodes -> Entry \cup {NULL}]
      BY <1>1 DEF StoreAway, CacheInv, CacheTypeOK
    <2>2. uc_nextvictim' \in Places
      BY <1>1, <1>3, CacheAssumption DEF Places
    <2>3. \A n \in Cached' : node'[n] \in Entry
      BY <1>1, <1>3 DEF CacheInv, CacheTypeOK
    <2>4. heap' \subseteq Nodes \cup Buffers
      <3>1. \A n \in Cached : node[n].reply \in Buffers
        BY CachedEntry DEF Entry
      <3>2. rpc_buffer \in Buffers
        BY DEF CacheInv, CacheTypeOK
      <3>. QED
        BY <1>3, <3>1, <3>2 DEF ReadyToStore
    <2>5. content' \in [Buffers -> Message \cup {NULL}]
      <3>1. content' = [content EXCEPT ![rpc_buffer] = content'[rpc_buffer]]
        BY <1>1 DEF ReadyToStore
      <3>. QED
        BY <1>1, <3>1 DEF CacheInv, CacheTypeOK
    <2>6. serving' = NULL /\ resent' = NULL
      BY DEF ReadyToStore
    <2>. QED
      BY <1>1, <1>2, <2>1, <2>2, <2>3, <2>4, <2>5, <2>6 DEF CacheInv, CacheTypeOK
  <1>7. BuffersOwnedOnce'
    <2>1. heap' = Cached' \cup {node'[n].reply : n \in Cached'} \cup {rpc_buffer'}
      <3>1. heap' = Cached \cup {victim} \cup {node[n].reply : n \in Cached \ {victim}}
                       \cup {rpc_buffer, newbuf}
        BY DEF ReadyToStore
      <3>2. {node'[n].reply : n \in Cached'} = {node[n].reply : n \in Cached \ {victim}}
                                                 \cup {rpc_buffer}
        <4>1. \A n \in Cached \ {victim} : node'[n].reply = node[n].reply
          BY <1>1, <1>3
        <4>2. node'[victim].reply = rpc_buffer
          BY <1>1
        <4>. QED
          BY <1>1, <4>1, <4>2
      <3>. QED
        BY <1>1, <3>1, <3>2
    <2>2. ASSUME NEW n \in Cached'
          PROVE  /\ node'[n].reply # rpc_buffer'
                 /\ \A m \in Cached' : node'[m].reply = node'[n].reply => m = n
      <3>1. /\ newbuf # rpc_buffer
            /\ \A m \in Cached \ {victim} : node[m].reply # newbuf
        BY DEF ReadyToStore
      <3>2. node'[victim].reply = rpc_buffer
        BY <1>1
      <3>3. \A m \in Cached \ {victim} : node'[m].reply = node[m].reply
        BY <1>1, <1>3
      <3>4. \A m \in Cached : /\ node[m].reply # rpc_buffer
                              /\ \A k \in Cached : node[k].reply = node[m].reply => k = m
        BY DEF CacheInv, BuffersOwnedOnce
      <3>. QED
        BY <1>1, <3>1, <3>2, <3>3, <3>4
    <2>3. \A i, j \in Places : uc_fifo'[i] = uc_fifo'[j] /\ uc_fifo'[i] # NULL => i = j
      BY <1>1, <1>3 DEF CacheInv, BuffersOwnedOnce
    <2>4. ASSUME NEW n \in Cached'
          PROVE  n \in ToSet(uc_entries'[CACHE_LOC(node'[n].xid)])
      <3>1. CASE n = victim
        <4>1. CACHE_LOC(node'[n].xid) = loc
          BY <1>1, <3>1
        <4>2. 1 \in DOMAIN uc_entries'[loc]
          BY <1>2
        <4>. QED
          BY <1>2, <3>1, <4>1, <4>2 DEF ToSet
      <3>2. CASE n # victim
        <4>1. n \in Cached \ {victim} /\ node'[n] = node[n]
          BY <1>1, <1>3, <3>2
        <4> DEFINE c == CACHE_LOC(node[n].xid)
        <4>2. c \in Chains
          BY <4>1, CachedEntry
        <4>3. PICK i \in DOMAIN chains[c] : chains[c][i] = n
          BY <1>4, <4>1
        <4>. HIDE DEF c
        <4>4. CASE c # loc
          BY <1>2, <4>1, <4>2, <4>3, <4>4 DEF ToSet, c
        <4>5. CASE c = loc
          <5>1. i + 1 \in DOMAIN uc_entries'[loc] /\ uc_entries'[loc][i + 1] = n
            BY <1>2, <4>3, <4>5
          <5>. QED
            BY <4>1, <4>5, <5>1 DEF ToSet, c
        <4>. QED
          BY <4>4, <4>5
      <3>. QED
        BY <3>1, <3>2
    <2>5. ASSUME NEW c \in Chains, NEW i \in DOMAIN uc_entries'[c]
          PROVE  /\ uc_entries'[c][i] \in Cached'
                 /\ CACHE_LOC(node'[uc_entries'[c][i]].xid) = c
                 /\ \A j \in DOMAIN uc_entries'[c] : uc_entries'[c][j] = uc_entries'[c][i] => j = i
      <3>1. CASE c # loc
        <4>1. /\ uc_entries'[c] = chains[c]
              /\ chains[c][i] \in Cached \ {victim}
              /\ CACHE_LOC(node[chains[c][i]].xid) = c
              /\ \A j \in DOMAIN chains[c] : chains[c][j] = chains[c][i] => j = i
          BY <1>2, <1>4, <2>5, <3>1
        <4>2. node'[chains[c][i]] = node[chains[c][i]]
          BY <1>1, <1>3, <4>1
        <4>. QED
          BY <1>1, <4>1, <4>2
      <3>2. CASE c = loc /\ i = 1
        <4>1. uc_entries'[c][i] = victim /\ CACHE_LOC(node'[victim].xid) = loc
          BY <1>1, <1>2, <3>2
        <4>2. ASSUME NEW j \in DOMAIN uc_entries'[c], j # i
              PROVE  uc_entries'[c][j] # victim
          BY <1>2, <1>4, <1>5, <3>2, <4>2
        <4>. QED
          BY <1>1, <3>2, <4>1, <4>2
      <3>3. CASE c = loc /\ i # 1
        <4>1. i - 1 \in DOMAIN chains[loc] /\ uc_entries'[c][i] = chains[loc][i - 1]
          BY <1>5, <2>5, <3>3
        <4>2. /\ chains[loc][i - 1] \in Cached \ {victim}
              /\ CACHE_LOC(node[chains[loc][i - 1]].xid) = loc
          BY <1>2, <1>4, <4>1
        <4>3. node'[chains[loc][i - 1]] = node[chains[loc][i - 1]]
          BY <1>1, <1>3, <4>2
        <4>4. ASSUME NEW j \in DOMAIN uc_entries'[c], uc_entries'[c][j] = uc_entries'[c][i]
              PROVE  j = i
          <5>1. j # 1
            BY <1>2, <3>3, <4>1, <4>2, <4>4
          <5>2. j - 1 \in DOMAIN chains[loc] /\ uc_entries'[c][j] = chains[loc][j - 1]
            BY <1>5, <3>3, <5>1
          <5>3. chains[loc][j - 1] = chains[loc][i - 1]
            BY <4>1, <4>4, <5>2
          <5>4. \A a, b \in DOMAIN chains[loc] : chains[loc][a] = chains[loc][b] => a = b
            BY <1>2, <1>4
          <5>5. j - 1 = i - 1
            BY <4>1, <5>2, <5>3, <5>4
          <5>. QED
            BY <1>2, <2>5, <3>3, <5>5
        <4>. QED
          BY <1>1, <3>3, <4>1, <4>2, <4>3, <4>4
      <3>. QED
        BY <3>1, <3>2, <3>3
    <2>. QED
      BY <2>1, <2>2, <2>3, <2>4, <2>5 DEF BuffersOwnedOnce
  <1>8. RingFilled'
    <2>1. victim # NULL
      BY CacheAssumption
    <2>2. uc_nextvictim' \in Places
      BY <1>1, <1>3, CacheAssumption DEF Places
    <2>. QED
      BY <1>1, <1>3, <2>1, <2>2, CacheAssumption DEF CacheInv, RingFilled, Places
  <1>9. NewestFirst'
    <2>1. SUFFICES ASSUME NEW c \in Chains, NEW i \in DOMAIN uc_entries'[c],
                          NEW j \in DOMAIN uc_entries'[c], NEW p \in Places, NEW q \in Places,
                          i < j, uc_fifo'[p] = uc_entries'[c][i], uc_fifo'[q] = uc_entries'[c][j]
                   PROVE  UsedAt(q)' < UsedAt(p)'
      BY DEF NewestFirst
    <2>2. /\ q # v => UsedAt(q)' < (IF v < uc_nextvictim' THEN v + Size ELSE v)
          /\ p # v /\ q # v /\ UsedAt(q) < UsedAt(p) => UsedAt(q)' < UsedAt(p)'
      BY <1>1, <1>3, StoreOrder DEF UsedAt
    <2>3. CASE c # loc
      <3>1. uc_entries'[c] = chains[c] /\ chains[c][i] # victim /\ chains[c][j] # victim
        BY <1>2, <1>4, <2>1, <2>3
      <3>2. p # v /\ q # v /\ uc_fifo[p] = chains[c][i] /\ uc_fifo[q] = chains[c][j]
        BY <1>1, <2>1, <3>1
      <3>. QED
        BY <1>4, <2>1, <2>2, <3>1, <3>2
    <2>4. CASE c = loc
      <3>1. i \in Nat /\ j \in Nat /\ i >= 1 /\ j # 1
        BY <1>2, <2>1, <2>4
      <3>2. j - 1 \in DOMAIN chains[loc] /\ uc_entries'[loc][j] = chains[loc][j - 1]
        BY <1>5, <2>1, <2>4, <3>1
      <3>3. q # v /\ uc_fifo[q] = chains[loc][j - 1]
        BY <1>1, <1>2, <1>4, <2>1, <2>4, <3>2
      <3>4. CASE i = 1
        <4>1. p = v
          BY <1>1, <1>2, <2>1, <2>4, <3>4
        <4>. QED
          BY <2>2, <3>3, <4>1 DEF UsedAt
      <3>5. CASE i # 1
        <4>1. i - 1 \in DOMAIN chains[loc] /\ uc_entries'[loc][i] = chains[loc][i - 1]
          BY <1>5, <2>1, <2>4, <3>5
        <4>2. p # v /\ uc_fifo[p] = chains[loc][i - 1]
          BY <1>1, <1>2, <1>4, <2>1, <2>4, <4>1
        <4>3. i - 1 < j - 1
          BY <2>1, <3>1
        <4>. QED
          BY <1>2, <1>4, <2>2, <3>2, <3>3, <4>1, <4>2, <4>3
      <3>. QED
        BY <3>4, <3>5
    <2>. QED
      BY <2>3, <2>4
  <1>10. RepliesKept'
    <2>1. SUFFICES ASSUME NEW n \in Cached'
                   PROVE  /\ content'[node'[n].reply] \in Message
                          /\ content'[node'[n].reply].is = "reply"
                          /\ content'[node'[n].reply].of.xid = node'[n].xid
      BY DEF RepliesKept
    <2>2. CASE n = victim
      <3>1. su_xid = serving.xid
        BY DEF ReadyToStore, CacheInv, RequestKnown
      <3>. QED
        BY <1>1, <2>2, <3>1
    <2>3. CASE n # victim
      <3>1. n \in Cached /\ node'[n] = node[n]
        BY <1>1, <1>3, <2>3
      <3>. QED
        BY <1>1, <3>1 DEF CacheInv, RepliesKept
    <2>. QED
      BY <2>2, <2>3
  <1>11. RequestKnown' /\ EmptyUntilEnabled'
    BY <1>1 DEF RequestKnown, EmptyUntilEnabled, ReadyToStore
  <1>. QED
    BY <1>6, <1>7, <1>8, <1>9, <1>10, <1>11 DEF CacheInv

-----------------------------------------------------------------------------
(* The other steps.                                                        *)

\* A message that is written to the transport's own buffer changes no reply
\* in the cache.
LEMMA QuietContent ==
  ASSUME CacheInv, NEW m, content' = [content EXCEPT ![rpc_buffer] = m]
  PROVE  \A n \in Cached : content'[node[n].reply] = content[node[n].reply]
  <1>1. SUFFICES ASSUME NEW n \in Cached
                 PROVE  content'[node[n].reply] = content[node[n].reply]
    OBVIOUS
  <1>2. node[n].reply \in Buffers /\ node[n].reply # rpc_buffer
    BY CachedEntry DEF Entry, CacheInv, BuffersOwnedOnce
  <1>. QED
    BY <1>2 DEF CacheInv, CacheTypeOK

\* A step that leaves the cache alone.
LEMMA QuietKeeps ==
  ASSUME CacheInv, UNCHANGED <<su_cache, uc_entries, uc_fifo, uc_nextvictim, node, rpc_buffer, heap>>,
         content' \in [Buffers -> Message \cup {NULL}],
         \A n \in Cached : content'[node[n].reply] = content[node[n].reply],
         su_xid' \in Xids, uc_saved' \in Callers \cup {NULL}, serving' \in Calls \cup {NULL},
         resent' \in Message \cup {NULL}, RequestKnown'
  PROVE  CacheInv'
  <1>1. Cached' = Cached
    BY DEF Cached
  <1>2. CacheTypeOK'
    BY <1>1 DEF CacheInv, CacheTypeOK
  <1>3. BuffersOwnedOnce'
    BY <1>1 DEF CacheInv, BuffersOwnedOnce
  <1>4. RingFilled' /\ NewestFirst'
    BY DEF CacheInv, RingFilled, NewestFirst, UsedAt
  <1>5. RepliesKept' /\ EmptyUntilEnabled'
    BY <1>1 DEF CacheInv, RepliesKept, EmptyUntilEnabled
  <1>. QED
    BY <1>2, <1>3, <1>4, <1>5 DEF CacheInv

\* A datagram fills the transport's own buffer.
LEMMA RecvFacts ==
  ASSUME CacheInv, NEW r \in Calls, SvcudpRecv(r)
  PROVE  /\ content' \in [Buffers -> Message \cup {NULL}]
         /\ \A n \in Cached : content'[node[n].reply] = content[node[n].reply]
         /\ \A i \in Matching(r.xid) :
              LET n == uc_entries[CACHE_LOC(r.xid)][i]
              IN  /\ n \in Cached
                  /\ node[n].xid = r.xid /\ node[n].saved = uc_saved
                  /\ content'[node[n].reply] = content[node[n].reply]
                  /\ content[node[n].reply] \in Message
  <1> DEFINE m == [of |-> r, xid |-> r.xid, is |-> "call"]
  <1>1. content' = [content EXCEPT ![rpc_buffer] = m] /\ m \in Message
    BY DEF SvcudpRecv, Message, Xids
  <1>. HIDE DEF m
  <1>2. content' \in [Buffers -> Message \cup {NULL}]
    BY <1>1 DEF CacheInv, CacheTypeOK
  <1>3. \A n \in Cached : content'[node[n].reply] = content[node[n].reply]
    BY <1>1, QuietContent
  <1>4. CACHE_LOC(r.xid) \in Chains
    BY LocInChains, CacheAssumption
  <1>5. ASSUME NEW i \in Matching(r.xid)
        PROVE  LET n == uc_entries[CACHE_LOC(r.xid)][i]
               IN  n \in Cached /\ node[n].xid = r.xid /\ node[n].saved = uc_saved
    BY <1>4 DEF Matching, CacheMatch, CacheInv, BuffersOwnedOnce
  <1>. QED
    BY <1>2, <1>3, <1>5 DEF CacheInv, RepliesKept

LEMMA RecvKeeps ==
  ASSUME CacheInv, NEW r \in Calls, SvcudpRecv(r)
  PROVE  CacheInv'
  <1>1. /\ UNCHANGED <<su_cache, uc_entries, uc_fifo, uc_nextvictim, node, rpc_buffer, heap>>
        /\ su_xid' = r.xid
        /\ serving' = r
    BY DEF SvcudpRecv
  <1>2. /\ content' \in [Buffers -> Message \cup {NULL}]
        /\ \A n \in Cached : content'[node[n].reply] = content[node[n].reply]
    BY RecvFacts
  <1>3. CASE su_cache /\ Matching(r.xid) # {}
    <2>1. UNCHANGED uc_saved /\ CacheGet(r.xid)
      BY <1>3 DEF SvcudpRecv
    <2>2. PICK i \in Matching(r.xid) : resent' = content'[node[uc_entries[CACHE_LOC(r.xid)][i]].reply]
      BY <2>1 DEF CacheGet
    <2>3. resent' \in Message
      BY <2>2, RecvFacts
    <2>4. uc_saved \in Callers
      <3>1. /\ uc_entries[CACHE_LOC(r.xid)][i] \in Cached
            /\ node[uc_entries[CACHE_LOC(r.xid)][i]].saved = uc_saved
        BY RecvFacts
      <3>. QED
        BY <3>1, CachedEntry DEF Entry
    <2>5. RequestKnown'
      BY <1>1, <2>1, <2>4 DEF RequestKnown
    <2>. QED
      BY <1>1, <1>2, <2>1, <2>3, <2>4, <2>5, QuietKeeps DEF Xids
  <1>4. CASE ~(su_cache /\ Matching(r.xid) # {})
    <2>1. resent' = NULL /\ uc_saved' = IF su_cache THEN r.caller ELSE uc_saved
      BY <1>4 DEF SvcudpRecv
    <2>2. RequestKnown' /\ uc_saved' \in Callers \cup {NULL}
      BY <1>1, <2>1 DEF RequestKnown, Callers, CacheInv, CacheTypeOK
    <2>. QED
      BY <1>1, <1>2, <2>1, <2>2, QuietKeeps DEF Xids
  <1>. QED
    BY <1>3, <1>4

\* cache_set() stores the reply, or changes nothing when memory is short.
LEMMA SetStores ==
  ASSUME CacheInv, NEW sent \in BOOLEAN, SvcudpReply(sent)
  PROVE  \/ \E victim \in Nodes, newbuf \in Buffers, chains \in [Chains -> Seq(Nodes)] :
              ReadyToStore(victim, chains, newbuf) /\ StoreAway(victim, chains, newbuf)
         \/ UNCHANGED <<su_cache, ucvars, rpc_buffer, su_xid, heap>>
  <1>1. CASE ~(sent /\ su_cache)
    BY <1>1 DEF SvcudpReply
  <1>2. CASE sent /\ su_cache /\ CacheSetReuse
    <2> DEFINE victim == uc_fifo[uc_nextvictim]
               newbuf == node[victim].reply
    <2>1. victim # NULL /\ heap' = heap
      BY <1>2 DEF CacheSetReuse
    <2>2. victim \in Cached
      BY <2>1 DEF CacheInv, CacheTypeOK, Cached
    <2>3. victim \in Nodes /\ newbuf \in Buffers
      BY <2>2, CachedEntry DEF Entry
    <2>4. /\ victim \in ToSet(uc_entries[CACHE_LOC(node[victim].xid)])
          /\ ReadyChains(Unlink(victim), victim)
      BY <2>1, UnlinkReady
    <2>5. StoreAway(victim, Unlink(victim), newbuf)
      BY <1>2, <2>4 DEF CacheSetReuse
    <2>6. /\ newbuf # rpc_buffer
          /\ \A n \in Cached \ {victim} : node[n].reply # newbuf
          /\ heap = Cached \cup {node[n].reply : n \in Cached} \cup {rpc_buffer}
      BY <2>2 DEF CacheInv, BuffersOwnedOnce
    <2>7. {node[n].reply : n \in Cached} = {node[n].reply : n \in Cached \ {victim}} \cup {newbuf}
      BY <2>2
    <2>8. heap' = Cached \cup {victim} \cup {node[n].reply : n \in Cached \ {victim}}
                     \cup {rpc_buffer, newbuf}
      BY <2>1, <2>2, <2>6, <2>7
    <2>9. \A i \in Places : uc_fifo[i] = victim => i = uc_nextvictim
      BY <2>1 DEF CacheInv, CacheTypeOK, BuffersOwnedOnce
    <2>10. ReadyToStore(victim, Unlink(victim), newbuf)
      BY <1>2, <2>4, <2>6, <2>8, <2>9 DEF ReadyToStore, SvcudpReply
    <2>11. Unlink(victim) \in [Chains -> Seq(Nodes)]
      BY <2>4 DEF ReadyChains
    <2>. QED
      BY <2>3, <2>5, <2>10, <2>11
  <1>3. ASSUME sent /\ su_cache, NEW victim \in Nodes, NEW newbuf \in Buffers,
               CacheSetAlloc(victim, newbuf)
        PROVE  /\ ReadyToStore(victim, uc_entries, newbuf)
               /\ StoreAway(victim, uc_entries, newbuf)
               /\ uc_entries \in [Chains -> Seq(Nodes)]
    <2>1. /\ uc_fifo[uc_nextvictim] = NULL
          /\ victim \notin heap /\ newbuf \notin heap
          /\ heap' = heap \cup {victim, newbuf}
          /\ StoreAway(victim, uc_entries, newbuf)
      BY <1>3 DEF CacheSetAlloc
    <2>2. /\ victim \notin Cached
          /\ newbuf # rpc_buffer
          /\ \A n \in Cached : node[n].reply # newbuf
          /\ heap = Cached \cup {node[n].reply : n \in Cached} \cup {rpc_buffer}
      BY <2>1 DEF CacheInv, BuffersOwnedOnce
    <2>3. Cached \ {victim} = Cached
      BY <2>2
    <2>4. heap' = Cached \cup {victim} \cup {node[n].reply : n \in Cached \ {victim}}
                     \cup {rpc_buffer, newbuf}
      BY <2>1, <2>2, <2>3
    <2>5. \A i \in Places : uc_fifo[i] # victim
      BY <2>2 DEF Cached
    <2>6. ReadyChains(uc_entries, victim)
      BY <2>1, AllocReady
    <2>. QED
      BY <1>3, <2>1, <2>2, <2>4, <2>5, <2>6 DEF ReadyToStore, SvcudpReply, ReadyChains
  <1>4. CASE sent /\ su_cache /\ CacheSetAllocFailed
    BY <1>4 DEF CacheSetAllocFailed
  <1>. QED
    BY <1>1, <1>2, <1>3, <1>4 DEF SvcudpReply, CacheSet

LEMMA ReplyKeeps ==
  ASSUME CacheInv, NEW sent \in BOOLEAN, SvcudpReply(sent)
  PROVE  CacheInv'
  <1>1. CASE UNCHANGED <<su_cache, ucvars, rpc_buffer, su_xid, heap>>
    <2> DEFINE m == [of |-> serving, xid |-> su_xid, is |-> "reply"]
    <2>1. /\ content' = [content EXCEPT ![rpc_buffer] = m]
          /\ serving' = NULL
          /\ resent' = NULL
          /\ serving # NULL
      BY DEF SvcudpReply
    <2>2. m \in Message
      BY <2>1 DEF CacheInv, CacheTypeOK, Message
    <2>. HIDE DEF m
    <2>3. content' \in [Buffers -> Message \cup {NULL}]
      BY <2>1, <2>2 DEF CacheInv, CacheTypeOK
    <2>4. \A n \in Cached : content'[node[n].reply] = content[node[n].reply]
      BY <2>1, QuietContent
    <2>5. RequestKnown'
      BY <2>1 DEF RequestKnown
    <2>6. su_xid \in Xids /\ uc_saved \in Callers \cup {NULL}
      BY DEF CacheInv, CacheTypeOK
    <2>. QED
      BY <1>1, <2>1, <2>3, <2>4, <2>5, <2>6, QuietKeeps DEF ucvars
  <1>. QED
    BY <1>1, SetStores, StoreKeeps

LEMMA NoAnswerKeeps ==
  ASSUME CacheInv, NoAnswer \/ UNCHANGED vars
  PROVE  CacheInv'
  <1>1. /\ UNCHANGED <<su_cache, uc_entries, uc_fifo, uc_nextvictim, uc_saved, node, rpc_buffer,
                       su_xid, heap, content>>
        /\ \/ serving' = NULL /\ resent' = NULL
           \/ UNCHANGED <<serving, resent>>
    BY DEF NoAnswer, vars, ucvars
  <1>2. RequestKnown'
    BY <1>1 DEF CacheInv, RequestKnown
  <1>. QED
    BY <1>1, <1>2, QuietKeeps DEF CacheInv, CacheTypeOK

\* The cache is empty before it is enabled, and afterwards.
LEMMA EnableKeeps ==
  ASSUME CacheInv, SvcudpEnablecache
  PROVE  CacheInv' /\ Cached = {} /\ UNCHANGED <<uc_fifo, uc_nextvictim>>
  <1>1. /\ su_cache' = TRUE
        /\ uc_entries' = [c \in Chains |-> <<>>]
        /\ uc_fifo' = [i \in Places |-> NULL]
        /\ uc_nextvictim' = 0
        /\ resent' = NULL
        /\ serving = NULL
        /\ UNCHANGED <<uc_saved, node, rpc_buffer, su_xid, heap, content, serving>>
    BY DEF SvcudpEnablecache
  <1>2. Cached = {} /\ Cached' = {}
    BY <1>1, CacheAssumption DEF SvcudpEnablecache, CacheInv, EmptyUntilEnabled, Cached
  <1>3. \A i \in Places : uc_fifo[i] = NULL
    BY <1>2 DEF CacheInv, CacheTypeOK, Cached
  <1>4. uc_fifo' = uc_fifo
    BY <1>1, <1>3 DEF CacheInv, CacheTypeOK
  <1>5. 0 \in Places
    BY CacheAssumption DEF Places
  <1>6. uc_nextvictim' = uc_nextvictim
    <2>1. uc_nextvictim \in Places /\ ~(0 < uc_nextvictim)
      BY <1>3, <1>5 DEF CacheInv, CacheTypeOK, RingFilled
    <2>. QED
      BY <1>1, <2>1, CacheAssumption DEF Places
  <1>7. CacheTypeOK'
    <2>1. uc_entries' \in [Chains -> Seq(Nodes)]
      BY <1>1
    <2>. QED
      BY <1>1, <1>2, <1>4, <1>6, <2>1 DEF CacheInv, CacheTypeOK
  <1>8. \A c \in Chains : DOMAIN uc_entries'[c] = {}
    BY <1>1
  <1>9. BuffersOwnedOnce'
    <2>1. heap' = Cached' \cup {node'[n].reply : n \in Cached'} \cup {rpc_buffer'}
      BY <1>1, <1>2 DEF CacheInv, BuffersOwnedOnce
    <2>. QED
      BY <1>2, <1>3, <1>4, <1>8, <2>1 DEF BuffersOwnedOnce
  <1>10. RingFilled' /\ NewestFirst' /\ RepliesKept' /\ EmptyUntilEnabled' /\ RequestKnown'
    BY <1>1, <1>2, <1>4, <1>6, <1>8 DEF CacheInv, RingFilled, NewestFirst, RepliesKept, EmptyUntilEnabled,
                                        RequestKnown
  <1>. QED
    BY <1>2, <1>4, <1>6, <1>7, <1>9, <1>10 DEF CacheInv

LEMMA CacheInitEstablishes ==
  ASSUME Init
  PROVE  CacheInv
  <1>1. Cached = {}
    BY CacheAssumption DEF Init, Cached
  <1>2. 0 \in Places
    BY CacheAssumption DEF Places
  <1>3. CacheTypeOK
    <2>1. uc_entries \in [Chains -> Seq(Nodes)] /\ node \in [Nodes -> Entry \cup {NULL}]
      BY DEF Init
    <2>2. rpc_buffer \in Buffers /\ heap \subseteq Nodes \cup Buffers
      BY DEF Init
    <2>3. /\ uc_fifo \in [Places -> Nodes \cup {NULL}]
          /\ content \in [Buffers -> Message \cup {NULL}]
      BY DEF Init
    <2>. QED
      BY <1>1, <1>2, <2>1, <2>2, <2>3 DEF Init, CacheTypeOK
  <1>4. \A c \in Chains : DOMAIN uc_entries[c] = {}
    BY DEF Init
  <1>5. BuffersOwnedOnce
    <2>1. heap = Cached \cup {node[n].reply : n \in Cached} \cup {rpc_buffer}
      BY <1>1 DEF Init
    <2>2. \A i \in Places : uc_fifo[i] = NULL
      BY DEF Init
    <2>. QED
      BY <1>1, <1>4, <2>1, <2>2 DEF BuffersOwnedOnce
  <1>6. RingFilled
    BY <1>2, CacheAssumption DEF Init, RingFilled, Places
  <1>7. NewestFirst /\ RepliesKept /\ EmptyUntilEnabled /\ RequestKnown
    BY <1>1, <1>4 DEF Init, NewestFirst, RepliesKept, EmptyUntilEnabled, RequestKnown
  <1>. QED
    BY <1>3, <1>5, <1>6, <1>7 DEF CacheInv

(***************************************************************************)
(* Ring, chains and buffers agree after any sequence of requests, lost     *)
(* replies and failed allocations, for any size of the cache.              *)
(***************************************************************************)
THEOREM CacheCorrect == Spec => []CacheInv
  <1>1. CacheInv /\ [Next]_vars => CacheInv'
    BY EnableKeeps, RecvKeeps, ReplyKeeps, NoAnswerKeeps DEF Next
  <1>. QED
    BY <1>1, CacheInitEstablishes, PTL DEF Spec

(***************************************************************************)
(* The variables keep their types; every entry of the ring has its fields, *)
(* and the next place never leaves the ring.                               *)
(***************************************************************************)
THEOREM CacheTypesCorrect == Spec => []CacheTypeOK
  <1>1. CacheInv => CacheTypeOK
    BY DEF CacheInv
  <1>. QED
    BY <1>1, CacheCorrect, PTL

(***************************************************************************)
(* Every buffer and node has exactly one owner: cache_set() neither leaks  *)
(* nor shares a buffer, and every entry can be unlinked.                   *)
(***************************************************************************)
THEOREM BuffersAreOwnedOnce == Spec => []BuffersOwnedOnce
  <1>1. CacheInv => BuffersOwnedOnce
    BY DEF CacheInv
  <1>. QED
    BY <1>1, CacheCorrect, PTL

-----------------------------------------------------------------------------
(* Retransmissions.                                                        *)

(***************************************************************************)
(* What is sent from the cache is an undamaged reply to a call with the xid*)
(* that was received, whichever callers share xids.                        *)
(***************************************************************************)
THEOREM ResentCarriesXid == Spec => []ResentHasItsXid
  <1>1. Init => ResentHasItsXid
    BY DEF Init, ResentHasItsXid
  <1>2. ASSUME CacheInv, ResentHasItsXid, [Next]_vars
        PROVE  ResentHasItsXid'
    <2>1. CASE resent' = NULL
      BY <2>1 DEF ResentHasItsXid
    <2>2. CASE UNCHANGED vars
      BY <1>2, <2>2 DEF vars, ResentHasItsXid
    <2>3. ASSUME NEW r \in Calls, SvcudpRecv(r), resent' # NULL
          PROVE  ResentHasItsXid'
      <3>1. CacheGet(r.xid) /\ serving' = r
        BY <2>3 DEF SvcudpRecv
      <3>2. PICK i \in Matching(r.xid) :
                   resent' = content'[node[uc_entries[CACHE_LOC(r.xid)][i]].reply]
        BY <3>1 DEF CacheGet
      <3> DEFINE n == uc_entries[CACHE_LOC(r.xid)][i]
      <3>3. /\ n \in Cached
            /\ node[n].xid = r.xid
            /\ resent' = content[node[n].reply]
            /\ resent' \in Message
        BY <1>2, <2>3, <3>2, RecvFacts
      <3>4. resent'.is = "reply" /\ resent'.of.xid = r.xid
        BY <1>2, <3>3 DEF CacheInv, RepliesKept
      <3>. QED
        BY <3>1, <3>4 DEF ResentHasItsXid
    <2>4. ASSUME NEW sent, SvcudpReply(sent)
          PROVE  resent' = NULL
      BY <2>4 DEF SvcudpReply
    <2>5. ASSUME SvcudpEnablecache \/ NoAnswer
          PROVE  resent' = NULL
      BY <2>5 DEF SvcudpEnablecache, NoAnswer
    <2>. QED
      BY <1>2, <2>1, <2>2, <2>3, <2>4, <2>5 DEF Next
  <1>. QED
    BY <1>1, <1>2, CacheCorrect, PTL DEF Spec

-----------------------------------------------------------------------------
(* The cache implements the store of the last Size replies.                *)

\* How many entries there are, and the place of the i-th oldest.
OrderLen == IF uc_fifo[uc_nextvictim] = NULL THEN uc_nextvictim ELSE Size

PlaceAt(i) ==
  IF uc_fifo[uc_nextvictim] = NULL
  THEN i - 1
  ELSE IF uc_nextvictim + i - 1 < Size THEN uc_nextvictim + i - 1
                                       ELSE uc_nextvictim + i - 1 - Size

EntryOf(n) == [xid |-> node[n].xid, caller |-> node[n].saved, reply |-> content[node[n].reply]]

\* The i-th place from a place on.
LEMMA RingPlace ==
  ASSUME NEW v \in Places, NEW i \in 1 .. Size
  PROVE  (v + i - 1) % Size = IF v + i - 1 < Size THEN v + i - 1 ELSE v + i - 1 - Size
  <1> DEFINE a == v + i - 1
  <1>1. a \in 0 .. 2 * Size - 1
    BY CacheAssumption DEF Places
  <1>. HIDE DEF a
  <1>2. a % Size = IF a < Size THEN a ELSE a - Size
    BY <1>1, AroundTheRing
  <1>. QED
    BY <1>2, CacheAssumption DEF a, Places

\* FifoOrder without %, in a state and in the next.
LEMMA OrderIs ==
  ASSUME uc_nextvictim \in Places
  PROVE  FifoOrder = [i \in 1 .. OrderLen |-> EntryOf(uc_fifo[PlaceAt(i)])]
  BY RingPlace DEF FifoOrder, OrderLen, PlaceAt, EntryOf

LEMMA OrderIsNext ==
  ASSUME uc_nextvictim' \in Places
  PROVE  FifoOrder' = [i \in 1 .. OrderLen' |-> EntryOf(uc_fifo[PlaceAt(i)])']
  BY RingPlace DEF FifoOrder, OrderLen, PlaceAt, EntryOf

\* The places are used in this order, and no entry is left out.
LEMMA OrderFacts ==
  ASSUME CacheInv
  PROVE  /\ OrderLen \in 0 .. Size
         /\ \A i \in 1 .. OrderLen : PlaceAt(i) \in Places /\ uc_fifo[PlaceAt(i)] \in Cached
         /\ \A i, j \in 1 .. OrderLen : UsedAt(PlaceAt(i)) < UsedAt(PlaceAt(j)) <=> i < j
         /\ \A n \in Cached : \E i \in 1 .. OrderLen : uc_fifo[PlaceAt(i)] = n
  <1>1. uc_nextvictim \in Places
    BY DEF CacheInv, CacheTypeOK
  <1>2. OrderLen \in 0 .. Size
    BY <1>1, CacheAssumption DEF OrderLen, Places
  <1>3. ASSUME NEW i \in 1 .. OrderLen
        PROVE  PlaceAt(i) \in Places /\ uc_fifo[PlaceAt(i)] \in Cached
    <2>1. PlaceAt(i) \in Places /\ (uc_fifo[uc_nextvictim] = NULL => PlaceAt(i) < uc_nextvictim)
      BY <1>1, CacheAssumption DEF OrderLen, PlaceAt, Places
    <2>2. uc_fifo[PlaceAt(i)] # NULL
      BY <2>1 DEF CacheInv, RingFilled
    <2>. QED
      BY <2>1, <2>2 DEF CacheInv, CacheTypeOK, Cached
  <1>4. \A i, j \in 1 .. OrderLen : UsedAt(PlaceAt(i)) < UsedAt(PlaceAt(j)) <=> i < j
    BY <1>1, CacheAssumption DEF OrderLen, PlaceAt, Places, UsedAt
  <1>5. ASSUME NEW n \in Cached
        PROVE  \E i \in 1 .. OrderLen : uc_fifo[PlaceAt(i)] = n
    <2>1. PICK p \in Places : uc_fifo[p] = n
      BY DEF Cached
    <2>2. uc_fifo[p] # NULL
      BY <2>1, CacheAssumption DEF Cached
    <2>3. CASE uc_fifo[uc_nextvictim] = NULL
      <3>1. p < uc_nextvictim
        BY <2>2, <2>3 DEF CacheInv, RingFilled
      <3>2. p + 1 \in 1 .. OrderLen /\ PlaceAt(p + 1) = p
        BY <1>1, <2>3, <3>1, CacheAssumption DEF OrderLen, PlaceAt, Places
      <3>. QED
        BY <2>1, <3>2
    <2>4. CASE uc_fifo[uc_nextvictim] # NULL
      <3> DEFINE i == IF p < uc_nextvictim THEN p + Size - uc_nextvictim + 1
                                           ELSE p - uc_nextvictim + 1
      <3>1. i \in 1 .. OrderLen /\ PlaceAt(i) = p
        BY <1>1, <2>4, CacheAssumption DEF OrderLen, PlaceAt, Places
      <3>. QED
        BY <2>1, <3>1
    <2>. QED
      BY <2>3, <2>4
  <1>. QED
    BY <1>2, <1>3, <1>4, <1>5

\* A step that leaves the cache alone leaves the order alone.
LEMMA QuietOrder ==
  ASSUME CacheInv, UNCHANGED <<uc_fifo, uc_nextvictim, node>>,
         \A n \in Cached : content'[node[n].reply] = content[node[n].reply]
  PROVE  FifoOrder' = FifoOrder
  <1>1. uc_nextvictim \in Places /\ uc_nextvictim' \in Places
    BY DEF CacheInv, CacheTypeOK
  <1>2. /\ FifoOrder = [i \in 1 .. OrderLen |-> EntryOf(uc_fifo[PlaceAt(i)])]
        /\ FifoOrder' = [i \in 1 .. OrderLen' |-> EntryOf(uc_fifo[PlaceAt(i)])']
    BY <1>1, OrderIs, OrderIsNext
  <1>3. OrderLen' = OrderLen /\ \A i \in 1 .. OrderLen : PlaceAt(i)' = PlaceAt(i)
    BY DEF OrderLen, PlaceAt
  <1>4. \A i \in 1 .. OrderLen : EntryOf(uc_fifo[PlaceAt(i)])' = EntryOf(uc_fifo[PlaceAt(i)])
    BY <1>3, OrderFacts DEF EntryOf
  <1>. QED
    BY <1>2, <1>3, <1>4

\* The abstract store has entries.
LEMMA OrderType ==
  ASSUME CacheInv
  PROVE  /\ FifoOrder \in Seq(Store!Entries)
         /\ Len(FifoOrder) = OrderLen
         /\ \A i \in 1 .. OrderLen : FifoOrder[i] = EntryOf(uc_fifo[PlaceAt(i)])
  <1>1. FifoOrder = [i \in 1 .. OrderLen |-> EntryOf(uc_fifo[PlaceAt(i)])]
    BY OrderIs DEF CacheInv, CacheTypeOK
  <1>2. OrderLen \in Nat
    BY OrderFacts, CacheAssumption
  <1>3. ASSUME NEW n \in Cached
        PROVE  EntryOf(n) \in Store!Entries
    BY CachedEntry DEF EntryOf, Entry, Store!Entries, CacheInv, RepliesKept
  <1>4. \A i \in 1 .. OrderLen : EntryOf(uc_fifo[PlaceAt(i)]) \in Store!Entries
    BY <1>3, OrderFacts
  <1>. QED
    BY <1>1, <1>2, <1>4, IsASeq

\* cache_get() finds the newest reply of the store, or none if there is none.
LEMMA ChainFindsNewest ==
  ASSUME CacheInv, NEW xid \in Xids
  PROVE  /\ \A i \in Matching(xid) : \E k \in Store!Matches(xid) :
               uc_entries[CACHE_LOC(xid)][i] = uc_fifo[PlaceAt(k)]
         /\ \A k \in Store!Matches(xid) : \E i \in Matching(xid) :
               uc_entries[CACHE_LOC(xid)][i] = uc_fifo[PlaceAt(k)]
         /\ \A i, j \in Matching(xid), k, l \in Store!Matches(xid) :
               /\ uc_entries[CACHE_LOC(xid)][i] = uc_fifo[PlaceAt(k)]
               /\ uc_entries[CACHE_LOC(xid)][j] = uc_fifo[PlaceAt(l)]
               /\ i <= j
               => l <= k
  <1> DEFINE chain == uc_entries[CACHE_LOC(xid)]
  <1>1. CACHE_LOC(xid) \in Chains
    BY LocInChains, CacheAssumption DEF Xids
  <1>2. chain \in Seq(Nodes)
    BY <1>1 DEF CacheInv, CacheTypeOK
  <1>3. DOMAIN chain = 1 .. Len(chain) /\ Len(chain) \in Nat
    BY <1>2, LenProperties
  <1>4. /\ DOMAIN FifoOrder = 1 .. OrderLen
        /\ OrderLen \in Nat
        /\ \A k \in 1 .. OrderLen : FifoOrder[k] = EntryOf(uc_fifo[PlaceAt(k)])
    BY OrderType, OrderFacts, CacheAssumption, LenProperties
  <1>5. \A k : k \in Store!Matches(xid) <=>
                 /\ k \in 1 .. OrderLen
                 /\ node[uc_fifo[PlaceAt(k)]].xid = xid
                 /\ node[uc_fifo[PlaceAt(k)]].saved = uc_saved
    BY <1>4 DEF Store!Matches, EntryOf
  <1>6. \A i : i \in Matching(xid) <=>
                 /\ i \in DOMAIN chain
                 /\ node[chain[i]].xid = xid
                 /\ node[chain[i]].saved = uc_saved
    BY DEF Matching, CacheMatch
  <1>7. ASSUME NEW i \in Matching(xid)
        PROVE  \E k \in Store!Matches(xid) : chain[i] = uc_fifo[PlaceAt(k)]
    <2>1. chain[i] \in Cached
      BY <1>1, <1>6 DEF CacheInv, BuffersOwnedOnce
    <2>2. PICK k \in 1 .. OrderLen : uc_fifo[PlaceAt(k)] = chain[i]
      BY <2>1, OrderFacts
    <2>. QED
      BY <1>5, <1>6, <2>2
  <1>8. ASSUME NEW k \in Store!Matches(xid)
        PROVE  \E i \in Matching(xid) : chain[i] = uc_fifo[PlaceAt(k)]
    <2> DEFINE n == uc_fifo[PlaceAt(k)]
    <2>1. n \in Cached /\ node[n].xid = xid /\ node[n].saved = uc_saved
      BY <1>5, OrderFacts
    <2>2. PICK i \in DOMAIN chain : chain[i] = n
      BY <2>1, CachedEntry
    <2>. QED
      BY <1>6, <2>1, <2>2
  <1>9. ASSUME NEW i \in Matching(xid), NEW j \in Matching(xid),
               NEW k \in Store!Matches(xid), NEW l \in Store!Matches(xid),
               chain[i] = uc_fifo[PlaceAt(k)], chain[j] = uc_fifo[PlaceAt(l)], i <= j
        PROVE  l <= k
    <2>1. /\ i \in DOMAIN chain /\ j \in DOMAIN chain
          /\ k \in 1 .. OrderLen /\ l \in 1 .. OrderLen
      BY <1>5, <1>6
    <2>2. PlaceAt(k) \in Places /\ PlaceAt(l) \in Places
      BY <2>1, OrderFacts
    <2>3. CASE i = j
      <3>1. uc_fifo[PlaceAt(k)] = uc_fifo[PlaceAt(l)] /\ uc_fifo[PlaceAt(k)] # NULL
        BY <1>9, <2>1, <2>3, OrderFacts, CachedEntry
      <3>2. PlaceAt(k) = PlaceAt(l)
        BY <2>2, <3>1 DEF CacheInv, BuffersOwnedOnce
      <3>3. UsedAt(PlaceAt(k)) \in Int
        BY <2>2, CacheAssumption DEF UsedAt, Places
      <3>4. ~(UsedAt(PlaceAt(k)) < UsedAt(PlaceAt(l)))
        BY <3>2, <3>3
      <3>. QED
        BY <1>4, <2>1, <3>4, OrderFacts
    <2>4. CASE i # j
      <3>1. i < j
        BY <1>3, <1>9, <2>1, <2>4
      <3>2. UsedAt(PlaceAt(l)) < UsedAt(PlaceAt(k))
        BY <1>1, <1>9, <2>1, <2>2, <3>1 DEF CacheInv, NewestFirst
      <3>3. l < k
        BY <2>1, <3>2, OrderFacts
      <3>. QED
        BY <1>4, <2>1, <3>3
    <2>. QED
      BY <2>3, <2>4
  <1>. QED
    BY <1>7, <1>8, <1>9

\* Where the entries are after a step that has stored one: one place is used
\* for the new entry, the first of the old ones is gone if the ring was full.
LEMMA StorePlaces ==
  ASSUME CacheInv, NEW victim \in Nodes, NEW chains, NEW newbuf \in Buffers,
         ReadyToStore(victim, chains, newbuf), StoreAway(victim, chains, newbuf)
  PROVE  LET d == IF OrderLen < Size THEN 0 ELSE 1
         IN  /\ OrderLen' = OrderLen + 1 - d
             /\ PlaceAt(OrderLen)' = uc_nextvictim
             /\ \A i \in 1 .. OrderLen - d :
                  PlaceAt(i)' = PlaceAt(i + d) /\ PlaceAt(i + d) # uc_nextvictim
  <1> DEFINE v == uc_nextvictim
  <1>1. /\ uc_fifo'[v] = victim
        /\ \A i \in Places : i # v => uc_fifo'[i] = uc_fifo[i]
        /\ uc_nextvictim' = IF v + 1 = Size THEN 0 ELSE v + 1
    BY StoreFacts
  <1>2. v \in Places /\ victim # NULL /\ Size \in Nat \ {0}
    BY CacheAssumption DEF CacheInv, CacheTypeOK
  <1>3. CASE uc_fifo[v] = NULL
    <2>1. \A i \in Places : uc_fifo[i] # NULL <=> i < v
      BY <1>3 DEF CacheInv, RingFilled
    <2>2. OrderLen = v /\ OrderLen < Size
      BY <1>2, <1>3 DEF OrderLen, Places
    <2>3. CASE v + 1 = Size
      <3>1. uc_nextvictim' = 0 /\ uc_fifo'[0] # NULL
        BY <1>1, <1>2, <2>1, <2>3 DEF Places
      <3>. QED
        BY <1>2, <1>3, <2>2, <2>3, <3>1 DEF OrderLen, PlaceAt, Places
    <2>4. CASE v + 1 # Size
      <3>1. uc_nextvictim' = v + 1 /\ uc_fifo'[v + 1] = NULL
        BY <1>1, <1>2, <2>1, <2>4 DEF Places
      <3>. QED
        BY <1>2, <1>3, <2>2, <2>4, <3>1 DEF OrderLen, PlaceAt, Places
    <2>. QED
      BY <2>3, <2>4
  <1>4. CASE uc_fifo[v] # NULL
    <2>1. \A i \in Places : uc_fifo[i] # NULL
      BY <1>4 DEF CacheInv, RingFilled
    <2>2. uc_nextvictim' \in Places /\ uc_fifo'[uc_nextvictim'] # NULL
      BY <1>1, <1>2, <2>1 DEF Places
    <2>3. OrderLen = Size /\ OrderLen' = Size
      BY <1>4, <2>2 DEF OrderLen
    <2>. QED
      BY <1>1, <1>2, <1>4, <2>2, <2>3 DEF PlaceAt, Places
  <1>. QED
    BY <1>3, <1>4

\* cache_set() files the reply, and the oldest entry makes room for it.
LEMMA StoreFiles ==
  ASSUME CacheInv, NEW victim \in Nodes, NEW chains, NEW newbuf \in Buffers,
         ReadyToStore(victim, chains, newbuf), StoreAway(victim, chains, newbuf)
  PROVE  Store!File(su_xid, content'[rpc_buffer])
  <1> DEFINE e    == [xid |-> su_xid, caller |-> uc_saved, reply |-> content'[rpc_buffer]]
             d    == IF OrderLen < Size THEN 0 ELSE 1
             base == IF Len(FifoOrder) < Size THEN FifoOrder ELSE Tail(FifoOrder)
             T    == Store!Entries
  <1>1. /\ FifoOrder \in Seq(T)
        /\ Len(FifoOrder) = OrderLen
        /\ \A i \in 1 .. OrderLen : FifoOrder[i] = EntryOf(uc_fifo[PlaceAt(i)])
        /\ OrderLen \in 0 .. Size
        /\ Size \in Nat \ {0}
    BY OrderType, OrderFacts, CacheAssumption
  <1>2. /\ OrderLen' = OrderLen + 1 - d
        /\ PlaceAt(OrderLen)' = uc_nextvictim
        /\ \A i \in 1 .. OrderLen - d :
             PlaceAt(i)' = PlaceAt(i + d) /\ PlaceAt(i + d) # uc_nextvictim
    BY StorePlaces
  <1>3. /\ base \in Seq(T)
        /\ Len(base) = OrderLen - d
        /\ \A i \in 1 .. OrderLen - d : base[i] = FifoOrder[i + d]
    <2>1. CASE OrderLen < Size
      BY <1>1, <2>1
    <2>2. CASE ~(OrderLen < Size)
      <3>1. FifoOrder # <<>>
        BY <1>1, <2>2
      <3>2. /\ Tail(FifoOrder) \in Seq(T)
            /\ Len(Tail(FifoOrder)) = Len(FifoOrder) - 1
            /\ \A i \in 1 .. Len(Tail(FifoOrder)) : Tail(FifoOrder)[i] = FifoOrder[i + 1]
        BY <1>1, <3>1, HeadTailProperties
      <3>. QED
        BY <1>1, <2>2, <3>2
    <2>. QED
      BY <2>1, <2>2
  <1>4. e \in T
    <2>1. su_xid \in Xids /\ uc_saved \in Callers /\ content'[rpc_buffer] \in Message
      BY StoreFacts DEF CacheInv, CacheTypeOK, RequestKnown, ReadyToStore
    <2>. QED
      BY <2>1 DEF Store!Entries
  <1>5. FifoOrder' = [i \in 1 .. OrderLen' |-> EntryOf(uc_fifo[PlaceAt(i)])']
    <2>1. uc_nextvictim' \in Places
      BY StoreKeeps DEF CacheInv, CacheTypeOK
    <2>. QED
      BY <2>1, OrderIsNext
  <1>6. EntryOf(uc_fifo[PlaceAt(OrderLen)])' = e
    BY <1>2, StoreFacts DEF EntryOf
  <1>7. ASSUME NEW i \in 1 .. OrderLen - d
        PROVE  EntryOf(uc_fifo[PlaceAt(i)])' = base[i]
    <2> DEFINE p == PlaceAt(i + d)
    <2>1. i + d \in 1 .. OrderLen
      BY <1>1
    <2>2. p \in Places /\ uc_fifo[p] \in Cached
      BY <2>1, OrderFacts
    <2>3. PlaceAt(i)' = p /\ p # uc_nextvictim
      BY <1>2
    <2>. HIDE DEF p
    <2>4. uc_fifo'[p] = uc_fifo[p] /\ uc_fifo[p] # victim
      BY <2>2, <2>3, StoreFacts
    <2>5. /\ node'[uc_fifo[p]] = node[uc_fifo[p]]
          /\ content'[node[uc_fifo[p]].reply] = content[node[uc_fifo[p]].reply]
      BY <2>2, <2>4, StoreFacts, CachedEntry
    <2>6. EntryOf(uc_fifo[PlaceAt(i)])' = EntryOf(uc_fifo[p])
      BY <2>3, <2>4, <2>5 DEF EntryOf
    <2>7. base[i] = EntryOf(uc_fifo[p])
      BY <1>1, <1>3, <2>1 DEF p
    <2>. QED
      BY <2>6, <2>7
  <1>. HIDE DEF e, base, T
  <1>8. /\ Append(base, e) \in Seq(T)
        /\ Len(Append(base, e)) = OrderLen'
        /\ \A i \in 1 .. OrderLen - d : Append(base, e)[i] = base[i]
        /\ Append(base, e)[OrderLen'] = e
    BY <1>1, <1>2, <1>3, <1>4, AppendProperties
  <1>9. \A i \in 1 .. OrderLen' : EntryOf(uc_fifo[PlaceAt(i)])' = Append(base, e)[i]
    <2>1. \A i \in 1 .. OrderLen' : i \in 1 .. OrderLen - d \/ i = OrderLen'
      BY <1>1, <1>2
    <2>. QED
      BY <1>6, <1>7, <1>8, <2>1
  <1>10. FifoOrder' = Append(base, e)
    <2>1. Append(base, e) \in [1 .. OrderLen' -> T]
      BY <1>8, LenProperties
    <2>. QED
      BY <1>5, <1>9, <2>1
  <1>. QED
    BY <1>10, StoreFacts DEF Store!File, base, e, ReadyToStore

\* A request is looked up: the newest reply is sent, or the store has none.
LEMMA RecvLooksUp ==
  ASSUME CacheInv, NEW r \in Calls, SvcudpRecv(r)
  PROVE  Store!Next
  <1>1. r.xid \in Xids /\ r.caller \in Callers
    BY DEF Xids, Callers
  <1>2. FifoOrder' = FifoOrder
    BY RecvFacts, QuietOrder DEF SvcudpRecv
  <1>3. CASE su_cache /\ Matching(r.xid) # {}
    <2> DEFINE chain == uc_entries[CACHE_LOC(r.xid)]
    <2>1. CacheGet(r.xid) /\ uc_saved' = uc_saved
      BY <1>3 DEF SvcudpRecv
    <2>2. PICK i \in Matching(r.xid) :
            /\ \A j \in Matching(r.xid) : i <= j
            /\ resent' = content'[node[chain[i]].reply]
      BY <2>1 DEF CacheGet
    <2>3. PICK k \in Store!Matches(r.xid) : chain[i] = uc_fifo[PlaceAt(k)]
      BY <1>1, ChainFindsNewest
    <2>4. resent' = FifoOrder[k].reply
      <3>1. resent' = content[node[uc_fifo[PlaceAt(k)]].reply]
        BY <2>2, <2>3, RecvFacts
      <3>2. k \in 1 .. OrderLen
        BY OrderType, LenProperties DEF Store!Matches
      <3>. QED
        BY <3>1, <3>2, OrderType DEF EntryOf
    <2>5. ASSUME NEW l \in Store!Matches(r.xid)
          PROVE  l <= k
      <3>1. PICK j \in Matching(r.xid) : chain[j] = uc_fifo[PlaceAt(l)]
        BY <1>1, ChainFindsNewest
      <3>2. i <= j
        BY <2>2
      <3>. QED
        BY <1>1, <2>3, <3>1, <3>2, ChainFindsNewest
    <2>6. Store!Hit(r.xid)
      BY <1>2, <2>1, <2>4, <2>5 DEF Store!Hit
    <2>. QED
      BY <1>1, <2>6 DEF Store!Next
  <1>4. CASE su_cache /\ Matching(r.xid) = {}
    <2>1. Store!Matches(r.xid) = {}
      BY <1>1, <1>4, ChainFindsNewest
    <2>2. Store!Miss(r.xid, r.caller)
      BY <1>2, <1>4, <2>1 DEF SvcudpRecv, Store!Miss
    <2>. QED
      BY <1>1, <2>2 DEF Store!Next
  <1>5. CASE ~su_cache
    BY <1>2, <1>5 DEF SvcudpRecv, Store!Next, Store!Forget
  <1>. QED
    BY <1>3, <1>4, <1>5

\* A reply is filed, or the store stays as it is.
LEMMA ReplyFiles ==
  ASSUME CacheInv, NEW sent \in BOOLEAN, SvcudpReply(sent)
  PROVE  Store!Next
  <1>1. CASE UNCHANGED <<su_cache, ucvars, rpc_buffer, su_xid, heap>>
    <2>1. FifoOrder' = FifoOrder
      BY <1>1, QuietContent, QuietOrder DEF SvcudpReply, ucvars
    <2>. QED
      BY <1>1, <2>1 DEF SvcudpReply, ucvars, Store!Next, Store!Forget
  <1>2. ASSUME NEW victim \in Nodes, NEW newbuf \in Buffers, NEW chains \in [Chains -> Seq(Nodes)],
               ReadyToStore(victim, chains, newbuf), StoreAway(victim, chains, newbuf)
        PROVE  Store!Next
    <2>1. Store!File(su_xid, content'[rpc_buffer])
      BY <1>2, StoreFiles
    <2>2. su_xid \in Xids /\ content'[rpc_buffer] \in Message
      BY <1>2, StoreFacts DEF CacheInv, CacheTypeOK
    <2>. QED
      BY <2>1, <2>2 DEF Store!Next
  <1>. QED
    BY <1>1, <1>2, SetStores

(***************************************************************************)
(* Hash chains, ring and buffers implement a store of the last Size        *)
(* replies: cache_get() sends the newest one filed under its index, as it  *)
(* was when it was sent first, and cache_set() drops the oldest.           *)
(***************************************************************************)
THEOREM CacheKeepsNewest == Spec => KeepsNewest
  <1> DEFINE svars == <<FifoOrder, uc_saved, resent>>
  <1>1. Init => Store!Init
    <2>1. SUFFICES ASSUME Init
                   PROVE  FifoOrder = <<>>
      BY DEF Init, Store!Init
    <2>2. 0 \in Places
      BY CacheAssumption DEF Places
    <2>3. uc_nextvictim = 0 /\ uc_fifo[uc_nextvictim] = NULL
      BY <2>1, <2>2 DEF Init
    <2>4. OrderLen = 0
      BY <2>3 DEF OrderLen
    <2>5. FifoOrder \in Seq(Store!Entries) /\ Len(FifoOrder) = 0
      BY <2>1, <2>4, CacheInitEstablishes, OrderType
    <2>. QED
      BY <2>5, EmptySeq
  <1>2. ASSUME CacheInv, [Next]_vars
        PROVE  [Store!Next]_svars
    <2>1. CASE SvcudpEnablecache
      <3>1. FifoOrder' = FifoOrder
        BY <1>2, <2>1, EnableKeeps, QuietOrder DEF SvcudpEnablecache
      <3>. QED
        BY <2>1, <3>1 DEF SvcudpEnablecache, Store!Next, Store!Forget
    <2>2. CASE NoAnswer
      <3>1. FifoOrder' = FifoOrder
        BY <1>2, <2>2, QuietOrder DEF NoAnswer, ucvars
      <3>. QED
        BY <2>2, <3>1 DEF NoAnswer, ucvars, Store!Next, Store!Forget
    <2>3. CASE UNCHANGED vars
      <3>1. FifoOrder' = FifoOrder
        BY <1>2, <2>3, QuietOrder DEF vars, ucvars
      <3>. QED
        BY <2>3, <3>1 DEF vars, ucvars
    <2>. QED
      BY <1>2, <2>1, <2>2, <2>3, RecvLooksUp, ReplyFiles DEF Next
  <1>. QED
    BY <1>1, <1>2, CacheCorrect, PTL DEF Spec, KeepsNewest, Store!Spec

=============================================================================
