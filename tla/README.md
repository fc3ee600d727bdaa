# RPC-MT in TLA+

RPC-MT is a Sun RPC server library (`src/librpc`, derived from glibc) in which
the requests that one main thread receives are served by worker threads of the
application. This directory models it: the registry of transports and its
garbage collector, the main loop, the hand-over of requests to workers, the UDP
and the TCP transport, the reply cache, the list of programs, and XDR: the
filters, the streams and record marking. TLC checks the models on small
instances. TLAPS proves the invariants of the registry, of the UDP and the TCP
service, of the reply cache and of the callout list for every value of their
constants: tables, addresses, sockets, workers, clients and calls of any number.

All paths below are relative to `src/` of the repository unless they start with
`src/`; `PROJECT.json` maps every definition to the lines it models.

## 1. The system

| Component | State | Operations | Interacts with |
|---|---|---|---|
| Bit vectors (`librpc/bitvec.c`) | words of bits | set, clear, get | the ids in use and the marks of the registry |
| Transport registry and collector (`librpc/svc.c`) | `xports`, `sock_xports`, `xports_idset`, `xports_maxid`, `xports_pollfd`, `xprtgc_idset`, `xprtgc_mark_count`; in each transport `mtxp_id`, `mtxp_parent`, `mtxp_refcnt`, `mtxp_progress`, `mtxp_busy` | register, unregister, mark, reap | every transport; main thread and workers, through `xports_lock` and `xprtgc_lock` |
| Main loop (`librpc/svc_run.c`) | the poll vector, `poll_lock` | `svc_run`, `svc_poll`, `svc_exit` | collector, dispatch |
| Lookup, dispatch, waiting (`librpc/svc.c`) | `mtmode`, `worker_return`, `mtxp_mtready` | `svc_getreq_common`, `request_lookup`, `request_dispatch`, `wait_on_*`, `svc_return` | calls the application; waits for its workers |
| UDP transport (`librpc/svc_udp.c`) | buffer and `su_xid` of each transport | create, clone, receive, getargs, reply, destroy | registry, network |
| UDP reply cache (`librpc/svc_udp.c`) | a table and a ring of replies, shared by all clones | `cache_get`, `cache_set` | receive, reply |
| TCP transport (`librpc/svc_tcp.c`) | connection, record stream, `x_id` | rendezvous, receive, getargs, reply, destroy | registry, network, `poll_lock` |
| Callout list (`librpc/svc.c`, `svc_debug.c`) | list of programs; vector of level-1 memory | register, unregister, find | dispatch, portmapper |
| Shutdown (`librpc/svc_debug.c`) | `svc_quit` | `svc_die`, `svc_shutdown` | everything |
| Configuration (`librpc/svc_config.c`) | `mtmode`, `wait_method_*`, descriptor range | `svc_config` | dispatch, TCP |
| XDR streams (`librpc/xdr_rec.c`, `xdr_mem.c`, `xdr_stdio.c`; same files in `libxdr`) | buffers, fragments, files | get, put, skip record | transports, filters |
| XDR filters (`librpc/xdr.c`, `xdr_array.c`, `xdr_ref.c`, `xdr_intXX_t.c`, `xdr_sizeof.c`) | none; the memory of decoded objects | encode, decode, free | streams, application |
| Decoders (`libdecode`) | thread-local buffers | formatting | tracing only |

What is hard in it: the collector destroys transports that workers hold
pointers to; ids, descriptors and memory are reused; the main thread waits for
workers in three different ways; several locks protect parts of one structure;
errors in one request travel up to a function that ends the process. The
repository has no tests. `PROJECT.json` lists each hazard at its line.

What makes each component correct:

- bit vectors: an operation on an index affects that index only, in memory
  that was allocated;
- registry: a live transport is found under its id, its socket is polled once,
  parents count their clones, and the service ends itself only when it is full;
- collector: it destroys what was retired, all of it, and nothing else;
- dispatch: a request and its reply stay together, one worker uses a clone, and
  mode 1 is serial up to `svc_getargs()`;
- main loop: it keeps polling;
- TCP: every record is received once, in order, and answered on its own
  connection, however records and reads are cut; a dead connection is destroyed;
- reply cache: it holds the newest replies, in memory nobody else writes, and
  resends a reply to its own request only;
- callout list: every call gets the right function or the right error, and the
  portmapper knows the same versions;
- XDR: what is encoded is decoded again, a decoded object fits its type whatever
  the bytes are, and everything decoding allocates is freed, once.

## 2. The modules

| Module | Models |
|---|---|
| `Bitvec` | the addresses of bits and the three operations, exactly as computed |
| `BitvecSet` | a client of one vector, with the set it should be as history |
| `Xports` | registry and collector; extends `Bitvec` |
| `UdpServer` | a UDP service: main loop, dispatch, workers; extends `Xports` |
| `TcpServer` | a TCP service in mtmode 0: accept, connections, batches of records, workers; extends `Xports` |
| `UdpCache` | the reply cache with its ring, hash chains and buffers |
| `ReplyStore` | abstract: a store of the last replies |
| `Callouts` | `svc_register()`, `svc_unregister()`, `request_lookup()`, the level-1 allocator |
| `XdrRec` | the record stream, byte by byte, between a sender and the server |
| `RecordChannel` | abstract: records arrive whole and in order |
| `Xdr` | the filters over buffers, files and the counting stream |
| `BitvecProofs` | theorems about bit vectors |
| `XportsProofs` | theorems about registry and collector |
| `UdpServerProofs`, `TcpServerProofs` | theorems about the two services; they extend `XportsProofs` |
| `UdpCacheProofs`, `CalloutsProofs` | theorems about the reply cache and the callout list |
| `XdrRecProofs` | theorems about the record stream |
| `ListLemmas` | facts about lists and the loops over them, used by these three |
| `MCBitvec`, `MCXports`, ... | instances for TLC |

`UdpServer` and `TcpServer` compose the service with the registry below it: they
extend `Xports` and take its actions. `UdpCache`, `Callouts`, `XdrRec` and `Xdr`
stand alone: their code shares no state with the registry, and they are used by
one thread at a time in the modes modelled.

A definition whose comment begins "A slip in the next definition" is a faulty variant of the definition below it. No specification uses
it: it is there to show that the property it is paired with in `PROJECT.json`
notices the fault.

### Bitvec

A vector is the set of its cells that hold 1, a cell being a word number and a
bit number. `Wpos` and `Bpos` are the two expressions of the code:
the word number rounds *up*, and the bit number keeps `idx & (sizeof - 1)`, as
many values as a word has bytes. The consequences are the theorems
`CellInjective` and `CellsCollide`: with 8-byte words the vector is a set of
indices up to index 8 and no further. For the largest indices (961 to 1023 of
1024) `bitvec_set_bit()` addresses one word more than `bitvec_init()` allocates
(theorem `LastIndicesOverrun`, `MCBitvecEnd.cfg`). `BitvecSet` is a client of the
indices `Idx`, all below the size of the vector; the code calls `svc_die()` for
others and no caller passes one.

### Xports

One variable per global of `svc.c` and per field of a transport that the
properties tell apart. `live` is the allocated memory and `fds` the open
descriptors, both reusable. Threads are at the places the locks define:

- A section under `xports_lock` is one step: `XprtRegister` (with the id
  allocation, the vacancy test and the poll slot), `SvcudpXprtClone`,
  `DestroyUnregister` (with `free()`).
- Steps outside it are separate: `Construct` (socket and transport exist,
  nobody knows them), `DestroyClose` (the socket is closed before the lock is
  taken), `ReapFinish` (the last write of `xprt_gc_reap_one()`).
- `xprtgc_lock` is held while `pc[Main]` is in `ReapSteps`; `XprtGcMark` waits.
  The scan for marked ids reads without it, step by step, so marks arrive in
  front of it and behind it.
- `svc_die()` and a fault on `BAD_SVCXPRT_PTR` are final: `died` says why.

`Creators` are other threads that create transports while the service runs.
With one, the unlocked write of `ReapFinish` can remove a transport that was
registered under the id just released (`MCXportsCreators.cfg`); the runs and the
theorems are about services whose transports are created
by the main thread, as the rendezvous of TCP and the set-up before `svc_run()`
do. `retired` is a history variable: the transports that `xprt_gc_mark()` was
called for, whatever the bits say.

`CheckXports` is `check_xports()`, the library's own "fsck" of the registry, which
`svc_getreq_common_rv()` calls for every request without looking at the answer.
`FsckClean` says that the answer is always good.

Left out: `xports_version`, `xports_count` and `xports_view` (only printed), the
guard words, `xports_global_lock()`'s record of its owner, the vector's growth
limit in `init_pollfd()` (a slot per descriptor is allocated), and
`sfr_track_xprt_socket()`'s time stamps: `SFR_SOCKET` is defined in `svc.c:129`,
and the function's write to `sock_xports` is modelled.

### UdpServer

The main thread's place in `svc_run()` is `spc`; when it calls
`xprt_gc_reap_all()`, the steps of the call are those of `Xports`, and `spc`
goes on when `pc[Main]` is `"idle"` again. A request goes through `SvcPoll`,
`SvcGetreqCommon`, `RecvCall` / `RecvNothing` / `RecvBadAuth`,
`DispatchOriginal` or `DispatchClone`, `HandOff`, and one of the waits. A worker
goes through `SvcudpGetargs` (or `NoArgs`), `SvcSendreply` and the three parts
of `svc_return()`: the notice, the mark, and the last `xprt_set_busy()`.

- `su_xid[x]` stands for all of the request in the buffer of transport x: the
  code copies buffer, xid and argument stream together when it clones.
- The application is external. Its dispatch function hands the transport to an
  idle worker, as `README.md` describes: a worker calls `svc_return()` at the end.
- Progress bits other than `GETARGS` and `RETURN` are set and cleared and never
  decide anything for UDP. `request_dispatch()`'s branch for a transport that
  has already returned is not reached: a clone is new, and in mode 0 nothing
  sets `XPRT_RETURN`, for which reason `svc_poll()`'s reset of it has no effect
  either.
- `rate_limit()` only delays: it stops as soon as the number of busy transports
  does not change. `fsck_busy()` dies only for a busy transport whose descriptor
  is closed, which for a UDP service is never the case.
- A write through a pointer to freed memory (`SvcReturnEnd`) goes to whatever is
  there now, or ends the process.
- Datagrams come in any number and repeatedly; a full socket queue loses them.
- A worker may reply without `svc_getargs()` (`NoArgs`), whatever the wait. With
  `WAIT_MUTEX` in mode 1 it leaves the main thread waiting for ever, as nothing else
  unlocks `mtxp_mtready`: run `udp_noargs`. `WaitsInVain` names this state, and
  `MainKeepsPolling` and `RetiredIsDestroyed` say that the main thread is never kept
  from `poll()`, nor a transport from its end, in any other way.
- A call with bad credentials ends the service (`svc.c:2751`, 2890), although
  `svc_config.c:108` says that `failfast` 0 means to just return the status.

### TcpServer

mtmode 0, in which the main thread waits for `svc_return()`. In the other modes a
connection, its stream and its `x_id` are shared by main thread and worker, and
with the default wait method nobody unlocks `mtxp_mtready` (`svc_tcp.c:848`): there
is no protocol left to check.

Clients connect, send records and close, at any time. `RendezvousRequest` and the
steps after it are `accept()`, `move_fd()` to a free descriptor of
`socket_fd_region`, and the registration of the connection. A connection is served
as in `get_single_request()`: a read brings any number of the records sent
(`Taken`), one call is received and dispatched, and `svctcp_stat()` decides
whether to go on (`MoreReqs`), to poll again, or to destroy it (`HasDied`). A
record that cannot be decoded, or whose rest does not come within 35 seconds, is
in `Malformed`. `Split` are the calls whose arguments arrive in another read than
their head: with any, `svctcp_getargs()` locks `poll_lock` twice (run `tcp_split`).
A worker that has called `svc_return()` may still write to the transport
(`svc.c:2947`); the write has no effect on what the properties see.

### UdpCache and ReplyStore

`svcudp_enablecache()`, `cache_get()` and `cache_set()`, and the parts of
`svcudp_recv()` and `svcudp_reply()` that call them. Buffers and nodes are addresses;
`content` is what each buffer holds, so that a buffer with two owners shows as a
reply that changes. Every allocation may fail, every reply may be lost, and a
request may come again at any time; one found in the cache is answered from it and
served all the same, as in the code. `KeepsNewest` is the refinement: with the ring
read from `uc_nextvictim` on (`FifoOrder`), every step is a step of `ReplyStore`.
Only the xid is compared with the request; procedure, version, program and address
are compared with those saved at the last miss (`svc_udp.c:966-970`). The calls of
the instance share xids between callers. What is resent has the xid of the request
(`ResentHasItsXid`), so that it is the right one where no other call has that xid, but
else may be the reply to another caller's (`MCUdpCacheXid.cfg`).

### Callouts

The list as a sequence, the portmapper's bindings (external: it may refuse to set
them and to drop them), and the vector of `svc_l1_alloc()` with the size it really
has. `l1_size` is never raised: `MaxAlloc` keeps the passing run within the one
enlargement there is memory for (102 allocations in the code), and `MCCalloutsL1.cfg`
goes one further. Histories: `table` is what the application has asked for, and
`RequestLookup` is compared with it for every call; `left` are the versions whose last
`pmap_unset()` was refused, a result that `svc_unregister()` ignores; `unregistered`
says whether a callout was ever freed by `svc_unregister()`. Such a callout stays in
`l1_vec`, and `svc_l1_cleanup()`, which may come at any time, frees it again:
`CalloutsFreed` says that this is the only way to a double free and that it always
is one. `FreedOnce` (`MCCalloutsFree.cfg`) is what the comment in `svc_debug.c` expects.
`rpc_thread_svc_cleanup()` is a sequence of `svc_unregister()`.

### XdrRec and RecordChannel

Both halves of a record stream, buffers and bytes included. The sender writes
units, counted bytes or inline, and ends records at once or later; `fill_input_buf`
brings any number of bytes up to the free part of the buffer; the server runs
`xdrrec_skiprecord()`, some gets, and `svctcp_stat()` with `xdrrec_eof()`, as
`svc_tcp.c` does. `recs` and `got` are histories of what was written and read, and
`RecordsIntact` says that they evolve as in `RecordChannel`. A read fails when the
peer is gone or silent for 35 seconds (`TimesOutIn` says where the silence may
fall). A silence inside `xdrrec_eof()` is taken for the end of the input, and
`svctcp_stat()` reports an idle connection; `fbtbc` still counts the bytes that were
skipped before, and the next record is read from the wrong place (`MCXdrRecEof.cfg`).

`SizeAssumption` says that the output buffer is below 2^31 bytes (`LAST_FRAG`): the
length of a fragment shares its word with the bit that marks the last one. The code
leaves this to its callers, and its own default is 4000. `Base` and `Unit` are the
numbers of values of a byte and of bytes of an XDR unit, 256 and 4 in the code; a
header is really written as bytes and put together again from whatever reads bring
them.

### Xdr

A filter is an operator on operation, stream and object. Numbers have their
widths, scaled: `Base` values to a byte, `Unit` bytes to a unit. Pointers are NULL,
`Dangling`, or hold what they point to; `mem` allocations succeed, `live` blocks are
allocated, `wild` records the use of a pointer to nowhere. A case is encoded into a
buffer or file of some size, delivered whole, cut off or with one byte changed,
decoded into zeroed memory, and freed, twice. `xdr_failfast`, 1 by default, makes an
overflow or a failed allocation abort the process; both values are checked.
`Filter` is recursive over types, so that no theorem is possible here. `LongsOnFile`
says whether a `long` goes over a file, where `xdrstdio_getlong()` does not extend its
sign: not in run `xdr`, and in `MCXdrFile.cfg`. A count above `INT_MAX` is made a huge
size by the cast in `xdr_stdio.c:135` and fails; a damaged count can be one, an object
of that length does not occur.

## 3. The runs

| Run | Shows | Instance |
|---|---|---|
| `xports` | the invariants of registry and collector | 3 ids, 4 addresses, 2 sockets |
| `xports_alias` | violation when ids share bits | 4-byte words, 6 addresses |
| `udp` | the safety of the service | 3 ids, 3 addresses, 2 workers, modes 0 to 2, both waits, 2 calls and one datagram of each other class |
| `udp_live` | the main thread keeps polling, every retired clone is destroyed | the same with calls only, modes 0 and 1 |
| `udp_noargs` | violation: the main thread waits for ever | mode 1, `WAIT_MUTEX` |
| `udp_return` | violation: a transport is used after it was given up | small |
| `tcp` | replies, batches, descriptors, dead connections | 2 clients with up to 2 and 1 records, 3 descriptors, 3 ids, descriptors moved or not |
| `tcp_split` | violation: a worker blocks itself and the main thread | the same, with arguments in a second read |
| `udpcache` | buffers, retransmissions, refinement of `ReplyStore` | 3 entries, 4 calls of 2 callers, 3 of them in one chain, 2 with the same xid |
| `callouts` | answers, bindings, memory | 2 programs, 3 versions (0 and the largest included), 2 functions, 3 allocations |
| `xdrrec` | refinement of `RecordChannel`, alignment, liveness | 2 records of up to 4 units, buffers of 6 and 7 bytes, units of 2 bytes, 1 silence while skipping to a record or reading it |
| `xdr` | round trip, sizes, bad input, memory | 126 objects of all types, buffers and files up to 20 bytes, up to 5 allocations |

Bounds. `NBits` is the size of the tables: 3 ids are enough for a parent and two
clones, and with more addresses than ids the table overflows. Two sockets let a
slot and a descriptor be reused for the other transport. Two workers give every
pair of interleavings; a third could only find the table full. `MaxQueue` = 1
bounds what waits at the socket, not what arrives in total. `MaxSent` of 2 gives
a batch; the other client's record comes in between. Three descriptors of which
one is in the range to move to make the range run out. Three cache entries and
four calls force replacement at every place of a chain of two or three. The
buffers of `xdrrec` are not multiples of a unit, too small for a record, and cut at
every byte; records of four units need several fragments. In `xdr` every type
occurs with the ends of its range and with values outside; five allocations are
what the largest object needs, and with fewer each of them fails in turn. No counter of the models grows without
bound. Addresses, sockets, workers and calls are
interchangeable, and `SYMMETRY` is used in runs of safety properties only.
`ServiceView` and `TcpView` identify states that differ in the contents of freed memory, or in the
argument of a call that has returned: nothing reads either before it is written
again, and no property mentions it.

Deadlock is checked in `udpcache`, where there is always a next call.
It is not checked in the others: a service that has died is at rest, a server whose
clients have nothing more to say waits in `poll()`, in the registry alone so
does one whose creators have nothing left to create, an application that has shut
down makes no more calls, and a case of `xdr` is over when its object is freed. That
the main thread is not
stuck is what `MainKeepsPolling`, `SentIsReceived` and `KeepsPolling` say.

Fairness (`FairServiceSpec`): the main thread and each worker go on when they
can (the scheduler runs every thread), and a worker that wants `xprtgc_lock`
gets it (strong fairness for `SvcReturnMark`): the main thread holds the lock
for short sections only and is outside it for the whole of each `poll()`. Nothing
is assumed about arrivals. `TcpSpec` has weak fairness of the main thread and of
each worker, and none of the clients; `XdrRec` weak fairness of the server's
thread, which runs on as long as there is input, and none of the sender.

### What the violations show

1. `xports_alias`: ids above `sizeof (bvword_t)` share bits with smaller ones
   (theorem `CellsCollide`), and so the collector can destroy a transport that
   is in use.
2. `udp_return`: `svc_return()` uses a transport after it has given it up.
3. `udp_noargs`: with the default wait, a procedure that fetches no arguments stops
   the service.
4. `tcp_split`: a call whose arguments are not all there when its head is decoded
   stops the service: `svctcp_getargs()` waits in `readtcp()` for `poll_lock`, which
   it holds.

### Further configurations

These show, each with one property that TLC finds violated, where the code does not
do what a comment of it says; the passing runs keep clear of the case by the constant
named, or name it in the property.

| Configuration | Property | Shows | In the passing runs |
|---|---|---|---|
| `MCBitvecEnd.cfg` | `WithinAllocation` | the vector cannot handle the number of bits it was made for (`bitvec.h:49`): the word of the last ones is not allocated | small ids; theorem `LastIndicesOverrun` |
| `MCXportsCreators.cfg` | `LiveXprtFound` | the collector writes to `xports` without the lock (`svc.c:215`) and removes what another thread has registered | `Creators` |
| `MCUdpCacheXid.cfg` | `ResentIsRetransmission` | a client is sent the reply to another client's request of the same xid (`svc_udp.c:815`) | `ResentHasItsXid`, with shared xids |
| `MCCalloutsFree.cfg` | `FreedOnce` | unregistering and shutting down frees a callout twice (`svc_debug.c:101`) | `CalloutsFreed`, exactly in this case |
| `MCCalloutsL1.cfg` | `L1Within` | the vector of level-1 memory is enlarged once only (`svc_debug.c:99`) | `MaxAlloc` |
| `MCXdrRecEof.cfg` | `RecordsIntact` | a silence inside `xdrrec_eof()` puts the stream out of step (`xdr_rec.c:477`) | `TimesOutIn` |
| `MCXdrFile.cfg` | `RoundTrip` | a negative `long` is not read back from a file (`xdr_stdio.c:34`) | `LongsOnFile` |

`MCBitvec.cfg` checks `GetsWhatWasSet` and `WithinAllocation` on indices at both ends
of what the vector can do; both are theorems.

## 4. The proofs

`tlapm` checks every proof to the last leaf, with SMT, Zenon and, for the
temporal steps, LS4.

**Bit vectors.** `BitvecProofs` computes the cells of the indices 0 to
`WordBytes`, for every word size: index 0 is alone in word 0, the others are in
word 1 under different bit numbers (`CellInjective`); the next index has the cell
of index 1 (`CellsCollide`), so the bound is sharp. It follows that a client that
keeps to indices up to `WordBytes` reads what it has set (`BitvecIsASet`), and one
that keeps `WordBits` below the size stays in its memory (`BitvecStaysWithin`). That
bound is sharp, too: in a vector of full words, every index above it has its bit in
the word behind the last one (`LastIndicesOverrun`).

**Registry and collector.** `RegistryCorrect` is
`Spec => [](SmallIds => RegistryInv)`, for every size of the tables (the code's
1024 included) and any number of addresses and sockets, under

- `Scope`: no thread but the main one creates transports (`Creators = {}`).
  Necessary: `MCXportsCreators.cfg`;
- `SmallIds`, a condition on the state: no id above `WordBytes` has been used so
  far, that is, no more than `WordBytes + 1` transports (9 on a 64-bit build) were
  registered at the same time. Necessary: run `xports_alias`. `xports_maxid` never
  falls (`MaxidGrows`), so that the implication is inductive.

The theorems `TypesCorrect`, `LiveXprtIsFound`, `ClonesAreCounted`,
`SocketsAreWatched`, `MarksAreCounted`, `OnlyRetiredIsCollected` and
`StopsOnlyWhenFull` are its consequences for the properties of run `xports`.
`FsckFindsNothing` is about `check_xports()`: it needs one fact more,
`ClonesAreLeaves` (nothing is cloned from a clone), which is inductive relative to
`RegistryInv`; each test of the function then follows from a part of the invariant.

`RegistryInv` is the conjunction of these properties, none of which is inductive,
and of what ties them together:

| Part | Without it |
|---|---|
| `IdsExact`: bits of ids in use and entries of `xports` agree | the id returned by `xprt_id_alloc()` could be one that `xports` still uses |
| `XprtShape`, `CreationPrivate`: a transport under construction has no id, no clones and a socket of its own | registering it could take a socket from another |
| `SocketsHeld`: a socket in `sock_xports` is open until its destructor closes it | a socket just opened could still belong to a transport |
| `MarksExact`: marks belong to retired transports | the collector could destroy something else |
| `CollectorAt`: where the collector is while it holds `xprtgc_lock` | the destructor could miss the transport the scan found |

`UsedId`, the ids up to `xports_maxid`, bounds every statement about bits: of
larger ids the vectors say nothing that could be relied upon. There is one lemma
for each action (`RegisterKeeps`, `CloneKeeps`, ...), and a frame lemma for each
part of the invariant that says which variables it depends on. The two facts
about cardinalities, that `xprtgc_mark_count` counts marks and `mtxp_refcnt`
clones, follow from the library's theorems on adding and removing one element.
`AllocLowest` shows that the `CHOOSE` of `XprtIdAlloc` has a value, from the
well-foundedness of the natural numbers.

**UDP service.** `ServiceCorrect` is `ServiceSpec => [](SmallIds => ServiceInv)`
under `Scope`, in every mtmode and with either wait, for any number of workers and
datagrams. `ServiceInv` is `RegistryInv`, the properties of run `udp` and five parts
that tie the main thread to the workers:

| Part | Without it |
|---|---|
| `UdpOnly`: all transports are UDP transports | what the collector destroys need not be a clone |
| `RequestAt`: the socket served has its transport | `request_dispatch()` could clone nothing |
| `HandoffReady`: what is handed over is registered, not retired, nobody else's and holds the request | a worker could start with another's request |
| `ServesClone`: a worker of mode 1 or 2 has a clone, and before `svc_getargs()` nothing has touched its `mtxp_mtready` and progress | the wait of mode 1 could end too early |
| `ReturnTold`: in mode 0, `worker_return` = 1 means that nobody serves | the main thread could take an old notice for that of its worker |

`ServiceTypesCorrect`, `RequestStaysPrivate`, `OneWorkerServesXprt` and
`SetupStaysSerial` follow. Steps that belong to the registry need no second proof:
`ServiceUsesRegistry` shows that every step of the service is a step of `Xports` or
leaves the registry's variables alone (the refinement that makes `Xports` an
environment for the service), and the lemmas of `XportsProofs` keep `RegistryInv`.
The write of `SvcReturnEnd` through a pointer that may be stale is covered too: it
changes `mtxp_busy` of whatever is there now, or ends the service.

**TCP service.** `TcpCorrect` is `TcpSpec => [](SmallIds => TcpInv)` under `Scope`,
for any number of clients, records, workers and connections, any range of
descriptors and any set of malformed records. `RegistryInv` does not serve here:
`svctcp_stat()` destroys a connection at once, without a mark and outside the
collector. `TcpRegistry` has the parts of it that do not speak of the collector,
and `NothingCollected` says that there is nothing to collect. The rest:

| Part | Without it |
|---|---|
| `MainAt`, `SetupAt`: which function of the registry the main thread is in | the steps of `Xports` could be taken anywhere |
| `ServedAt`: the transport served and the sockets still to serve are registered | a destructor could leave an event of a closed socket |
| `FdsExact`: the open descriptors, at every step of `accept()`, `move_fd()` and the destructor | `DescriptorsOwned`, which is about the moments in between, is not inductive |
| `AcceptAt`: an accepted connection is fresh until it is registered | bytes of an earlier user of the descriptor could count as its own |
| `BacklogAt`, `PeersApart`: one descriptor for a client, none while it is in the backlog | two connections could read one stream |
| `WorkerAt`: at most one worker has a call, that of the transport served | `x_id` could change under it |

`TcpTypesCorrect`, `ReplyGoesToCaller`, `RecordsStayInOrder`, `DescriptorsStayOwned`
and `TcpKeepsRegistry` follow. That a read of any length, a receive and a send keep
`handled \o inbuf \o stream = sent` are the lemmas `ReadMovesFront`,
`RecvMovesHead` and `SendAppends` on sequences.

**Reply cache.** `CacheCorrect` is `Spec => []CacheInv`, for every size of the
cache, number of chains, calls and buffers. `CacheInv` adds to `BuffersOwnedOnce`
how the ring fills (`RingFilled`), that each chain has its newest entry first
(`NewestFirst`, by the order in which the places of the ring were used), and that a
cached buffer holds a reply to its own xid (`RepliesKept`). The results are
`CacheTypesCorrect`, `BuffersAreOwnedOnce`, `ResentCarriesXid` and
`CacheKeepsNewest`, the refinement `Spec => Store!Spec`: the ring read from
`uc_nextvictim` on is the abstract store, a replacement drops its oldest entry, and
the first match in a chain is the newest of the store. `ResentCarriesXid` is about
calls that may share xids in any way: what is resent is a whole reply with the xid of
the request. It rests on `RepliesKept`: a buffer in the cache is not written to while
the transport receives into another one.

**Callout list.** `CalloutsCorrect` is `Spec => []CalloutInv`, for any number of
programs, versions, functions and registrations. The list has one callout for every
version registered and no other (`KeysUnique`, `ListRight`), and the level-1 vector
names what is allocated, and something that is not, or something twice, exactly from
the first `svc_unregister()` on (`L1KnowsHeap`; a block that was freed may be handed out
and entered again). `AnswersAreRight` is about the loop of
`request_lookup()` that walks the list and keeps the lowest and the highest version:
the loop is a recursive function, and what it computes is proved by an induction
written with sets (`LoopInduction` in `ListLemmas`: a set of step numbers that has 0
and with each number the next one is all of them; from the library's
well-foundedness of the natural numbers). `BindingsAreRight` and `CalloutsAreFreed`
are parts of the invariant. `CalloutTypesCorrect` assumes `FewCallouts`, no more
registrations than the enlarged `l1_vec` has memory for: `l1_size` is never raised,
so that with the 64 of the code the 103rd registration writes outside it
(`MCCalloutsL1.cfg`).

**Record stream.** The theorems hold for every size of the two buffers, of units
and of bytes, any number and length of records and any division into reads.

`RecInvHolds` is `Spec => []RecInv`, without further hypotheses. `RecInv` has the
types, what is in the output buffer (`OutputRight`) and which calls of the reader
are in progress (`InputRight`). `RecTypesCorrect` and `NoFragmentIsEmpty` follow. The
second needs that `xdrrec_endofrecord()` begins a new fragment in a buffer only if a
header and one unit still fit (`frag_header + 2 * Unit <= SendSize`), and that all
lengths are multiples of a unit.

What the reader finds depends on every byte under way, and this is `Framed`: the
bytes in the input buffer, on the wire and in the complete fragments of the output
buffer can be labelled, each with the byte of which header or of which record it is,
such that

| Part | Without it |
|---|---|
| `Holds`: a byte is what its label says | a label would say nothing of what is read |
| `Follows`: each label follows from the one before; a header is followed by as many bytes of data as it counts | the reader, which knows no boundaries but those the headers give it, could take data for a header |
| `ReaderAt`: the first label is what the reader expects, in whatever call it is and however many bytes of a header it has | a step of the reader could take a byte of another record |
| `WriterAt`: behind the last label the open fragment goes on | the next flush would not continue the labels |
| `Legal`: fragments are whole units, only a last one may be empty, and lengths leave the bit of `LAST_FRAG` free | `set_input_fragment()` could fail or misread a header |
| the labels and the position in the buffer agree modulo a unit | `fill_input_buf()` could lose the alignment |

The labels exist until the connection is over (`Over`). `FramedHolds` is the
induction: a flush appends the labels of a fragment (`FlushKeepsLabels`), a byte read
moves on to the next label, everything else leaves them alone. That the reader puts
together the number that the sender has cut into bytes is proved for every number
(`Number` and `Bytes` are recursive functions, and the argument is the induction with
sets of `ListLemmas`). `WordsStayAligned` is then a consequence, and
`RecordsStayIntact` the refinement `Spec => Channel!Spec`: `ChannelStep` goes through
the steps and shows that each is a step of `RecordChannel` or leaves `recs` and `got`
alone; what a read takes is the data its labels name.

These two assume `"eof" \notin TimesOutIn`, that the peer is not silent for 35
seconds inside `xdrrec_eof()`. Necessary: the function reports the failed read
as the end of the input, the service goes back to `poll()` in the middle of a record, and
`xdrrec_skiprecord()` then takes data for a header (`MCXdrRecEof.cfg`). A silence anywhere else ends the connection and is
covered.

What the theorems assume is thus `Scope`, `SmallIds`, `FewCallouts`,
`"eof" \notin TimesOutIn` and the range of indices in `BitvecProofs`, each in the
theorems that need it, and the assumptions on constants that TLC evaluates in every
run. The instances of the passing runs satisfy them; `xports_alias` and the
configurations `MCXportsCreators`, `MCCalloutsL1`, `MCXdrRecEof` and `MCBitvecEnd` show
what happens without each.

**Only model-checked**:

- liveness (`MainKeepsPolling`, `RetiredIsDestroyed`, `SentIsReceived`,
  `GoneIsClosed`, `EveryRecordBegun`), as it depends on fairness;
- `Xdr` (`XdrTypeOK`, `RoundTrip`, `SizeofExact`, `DecodedIsLegal`,
  `FreeReleasesAll`): its filters recur over nested types, with recursive operators
  that are out of the prover's reach, and what they compute is an induction over data;
- the violations, which are counterexamples.

## 5. Not modelled, and the plan

Next, in this order:

1. The order of locks in modes 1 and 2 of TCP: `poll_lock` against the lock of a
   transport (`svc_tcp.c:821`, 869, 902) and the second unlock in `svc_run()`.
2. Shutdown: `svc_die()` and `svc_exit()` against running threads, and the
   application's own `svc_destroy()`.

Left out, and why:

- TCP in modes 1 and 2, beyond point 1: see `TcpServer`.
- `xdrrec_getpos()`, `xdrrec_setpos()` and `xdrmem_inline()`: nothing in the library
  calls them on these streams.
- `xdr_float.c`: bytes of the machine's own format are copied.
- The parser of the configuration: its results are constants or initial choices.
- `fsck_busy()`, `count_busy()` and `rate_limit()`: they read, print and delay.
- Trace output, decoders and their thread-local buffers: no state of the service
  depends on them.
- The portmapper, the network, `fread()` and `fwrite()` are external.
- `SIGPIPE` on a write to a connection whose peer is gone (`svc_tcp.c:717`): whether
  the process ignores it is up to the application.
