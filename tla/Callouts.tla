------------------------------ MODULE Callouts ------------------------------
(***************************************************************************)
(* The callout list (src/librpc/svc.c): which dispatch function serves a   *)
(* version of a program, the answer to a call that no function serves, the *)
(* bindings at the local portmapper, and the memory of the list, which the *)
(* level-1 allocator of src/librpc/svc_debug.c hands out.                  *)
(*                                                                         *)
(* The portmapper is external: it accepts a binding or refuses it, and     *)
(* removes every binding of a version on request, or refuses that.         *)
(***************************************************************************)
EXTENDS Naturals, Sequences, FiniteSets, SequencesExt, FiniteSetsExt

CONSTANTS
  Progs,         (* program numbers                                        *)
  Vers,          (* version numbers                                        *)
  MaxVers,       (* the largest value of rpcvers_t                         *)
  Functions,     (* dispatch functions                                     *)
  Protocols,     (* IPPROTO_UDP and IPPROTO_TCP                            *)
  Block,         (* addresses of callouts                                  *)
  None,
  L1_INIT_SIZE,  (* the first size of l1_vec, 64 in the code               *)
  MaxAlloc       (* bound: how many callouts are allocated                 *)

ASSUME CalloutAssumption ==
  /\ MaxVers \in Nat /\ Vers \subseteq 0 .. MaxVers
  /\ L1_INIT_SIZE \in Nat \ {0}
  /\ MaxAlloc \in Nat
  /\ None \notin Block \cup Functions \cup Protocols

VARIABLES
  svc_head,   (* the callouts in the order of the list                     *)
  callout,    (* the fields of each callout                                *)
  pmap,       (* the protocols bound for each program and version          *)
  heap,       (* the callouts allocated and not freed                      *)
  l1_vec,     (* the blocks that svc_l1_alloc() has handed out             *)
  l1_cap,     (* how many entries l1_vec has memory for; 0: not allocated  *)
  twice,      (* whether a block was freed that was not allocated          *)
  running,    (* FALSE after svc_shutdown()                                *)
  table,      (* history: the function registered for each version         *)
  unregistered, (* history: whether a callout was freed by svc_unregister()*)
  left        (* history: the versions whose last pmap_unset() was refused *)

l1vars == <<l1_vec, l1_cap>>
unreg == <<unregistered, left>>
vars == <<svc_head, callout, pmap, heap, l1vars, twice, running, table, unreg>>

Key == Progs \X Vers

-----------------------------------------------------------------------------
(* Registration                                                            *)

KeyOf(s) == <<callout[s].prog, callout[s].vers>>

\* svc_find(): the first callout of the list that matches, or None.
SvcFind(k) ==
  LET matching == {i \in DOMAIN svc_head : KeyOf(svc_head[i]) = k}
  IN  IF matching = {} THEN None ELSE svc_head[Min(matching)]

SvcIsMapped(k) == SvcFind(k) # None /\ callout[SvcFind(k)].mapped

\* A slip in the next definition: l1_vec is not enlarged.
Enlarged0 == IF l1_cap = 0 THEN L1_INIT_SIZE ELSE l1_cap

\* The memory of l1_vec when another block has been added.  l1_size, which
\* stays L1_INIT_SIZE, decides whether it is enlarged, and to what.
Enlarged ==
  IF l1_cap = 0
  THEN L1_INIT_SIZE
  ELSE IF Len(l1_vec) >= L1_INIT_SIZE THEN (L1_INIT_SIZE * 16) \div 10 ELSE l1_cap

SvcL1Alloc(p) ==
  /\ p \in Block \ heap
  /\ Len(l1_vec) < MaxAlloc
  /\ l1_cap' = Enlarged
  /\ l1_vec' = Append(l1_vec, p)
  /\ heap' = heap \cup {p}

\* pmap_it: without a protocol, nothing; else the portmapper is asked, and the
\* callout is marked if it agrees.  If not, svc_register() returns FALSE and
\* leaves the callout in the list.
PmapIt(s, c, protocol, agrees) ==
  IF protocol # None /\ agrees
  THEN /\ pmap' = [pmap EXCEPT ![<<c.prog, c.vers>>] = @ \cup {protocol}]
       /\ callout' = [callout EXCEPT ![s] = [c EXCEPT !.mapped = TRUE]]
  ELSE /\ callout' = [callout EXCEPT ![s] = c]
       /\ UNCHANGED pmap

SvcRegisterNew(k, f, protocol, agrees) ==
  /\ running
  /\ SvcFind(k) = None
  /\ \E s \in Block :
       /\ SvcL1Alloc(s)
       /\ svc_head' = <<s>> \o svc_head
       /\ PmapIt(s, [prog |-> k[1], vers |-> k[2], dispatch |-> f, mapped |-> FALSE],
                 protocol, agrees)
  /\ table' = [table EXCEPT ![k] = f]
  /\ UNCHANGED <<twice, running, unreg>>

\* Another transport for the same function; svc_register() refuses another
\* function.
SvcRegisterAgain(k, f, protocol, agrees) ==
  /\ running
  /\ SvcFind(k) # None
  /\ LET s == SvcFind(k)
     IN  /\ callout[s].dispatch = f
         /\ PmapIt(s, callout[s], protocol, agrees)
  /\ UNCHANGED <<svc_head, heap, l1vars, twice, running, table, unreg>>

\* A slip in the next definition: a version that is not mapped any more keeps
\* its bindings.
PmapUnsetIfMapped(k, mapped, agrees) ==
  IF mapped /\ agrees THEN [pmap EXCEPT ![k] = {}] ELSE pmap

\* svc_unregister() asks svc_is_mapped() when the callout is no longer in the
\* list, and ignores the answer of pmap_unset().
PmapUnset(k, mapped, agrees) ==
  IF ~mapped /\ agrees THEN [pmap EXCEPT ![k] = {}] ELSE pmap

\* A slip in the next definition: what is before the callout is dropped too.
UnlinkedWithPrev(s) ==
  SubSeq(svc_head, 1 + CHOOSE i \in DOMAIN svc_head : svc_head[i] = s, Len(svc_head))

Unlinked(s) == RemoveAt(svc_head, CHOOSE i \in DOMAIN svc_head : svc_head[i] = s)

SvcUnregister(k, agrees) ==
  /\ running
  /\ SvcFind(k) # None
  /\ LET s == SvcFind(k)
     IN  /\ svc_head' = Unlinked(s)
         /\ callout' = [callout EXCEPT ![s] = None]
         /\ heap' = heap \ {s}
         /\ twice' = (twice \/ s \notin heap)
         /\ pmap' = PmapUnset(k, SvcIsMapped(k)', agrees)
  /\ table' = [table EXCEPT ![k] = None]
  /\ unregistered' = TRUE
  /\ left' = IF agrees THEN left \ {k} ELSE left \cup {k}
  /\ UNCHANGED <<l1vars, running>>

-----------------------------------------------------------------------------
(* Requests                                                                *)

Accepted(stat) == [rp_stat |-> "MSG_ACCEPTED", ar_stat |-> stat]

svcerr_noprog == Accepted("PROG_UNAVAIL")

svcerr_progvers(low_vers, high_vers) ==
  [rp_stat |-> "MSG_ACCEPTED", ar_stat |-> "PROG_MISMATCH", low |-> low_vers, high |-> high_vers]

svcerr_auth(why) == [rp_stat |-> "MSG_DENIED", rj_stat |-> "AUTH_ERROR", rj_why |-> why]

\* What a dispatch function calls: svc_sendreply(), svcerr_noproc(),
\* svcerr_decode(), svcerr_systemerr(), svcerr_weakauth().
Answers == {Accepted("SUCCESS"), Accepted("PROC_UNAVAIL"), Accepted("GARBAGE_ARGS"),
            Accepted("SYSTEM_ERR"), svcerr_auth("AUTH_TOOWEAK")}

By(f, answer) == [by |-> f, answer |-> answer]

\* The loop over the list: low_vers when the first i callouts have been met.
low_vers(prog) ==
  LET low[i \in 0 .. Len(svc_head)] ==
        IF i = 0 THEN MaxVers
        ELSE IF callout[svc_head[i]].prog = prog /\ callout[svc_head[i]].vers < low[i - 1]
             THEN callout[svc_head[i]].vers ELSE low[i - 1]
  IN  low[Len(svc_head)]

\* A slip in the next definition: the first version met is the bound.
FirstVers(prog) ==
  callout[svc_head[Min({i \in DOMAIN svc_head : callout[svc_head[i]].prog = prog})]].vers

high_vers(prog) ==
  LET high[i \in 0 .. Len(svc_head)] ==
        IF i = 0 THEN 0
        ELSE IF callout[svc_head[i]].prog = prog /\ callout[svc_head[i]].vers > high[i - 1]
             THEN callout[svc_head[i]].vers ELSE high[i - 1]
  IN  high[Len(svc_head)]

prog_found(prog) == \E i \in DOMAIN svc_head : callout[svc_head[i]].prog = prog

\* request_match_prog_version(): what the function found answers, or an error.
RequestMatchProgVersion(k, answer) ==
  IF SvcFind(k) # None
  THEN By(callout[SvcFind(k)].dispatch, answer)
  ELSE IF prog_found(k[1])
       THEN By(None, svcerr_progvers(low_vers(k[1]), high_vers(k[1])))
       ELSE By(None, svcerr_noprog)

\* request_lookup(): _authenticate() comes before the list.
RequestLookup(k, auth, answer) ==
  IF auth # "AUTH_OK"
  THEN By(None, svcerr_auth(auth))
  ELSE RequestMatchProgVersion(k, answer)

-----------------------------------------------------------------------------
(* Shutdown                                                                *)

\* Among the blocks of l1_vec is one that is not allocated, or is twice in it.
L1Stale == ~(ToSet(l1_vec) \subseteq heap) \/ ~IsInjective(l1_vec)

\* svc_l1_cleanup(), at svc_shutdown() or svc_die(), frees the blocks of l1_vec
\* one by one, then l1_vec.
SvcL1Cleanup ==
  /\ running
  /\ running' = FALSE
  /\ twice' = (twice \/ L1Stale)
  /\ heap' = heap \ ToSet(l1_vec)
  /\ l1_cap' = 0
  /\ UNCHANGED <<svc_head, callout, pmap, l1_vec, table, unreg>>

-----------------------------------------------------------------------------

Init ==
  /\ svc_head = <<>>
  /\ callout = [s \in Block |-> None]
  /\ pmap = [k \in Key |-> {}]
  /\ heap = {}
  /\ l1_vec = <<>>
  /\ l1_cap = 0
  /\ twice = FALSE
  /\ running = TRUE
  /\ table = [k \in Key |-> None]
  /\ unregistered = FALSE
  /\ left = {}

Next ==
  \/ \E k \in Key, f \in Functions, protocol \in Protocols \cup {None}, agrees \in BOOLEAN :
       SvcRegisterNew(k, f, protocol, agrees) \/ SvcRegisterAgain(k, f, protocol, agrees)
  \/ \E k \in Key, agrees \in BOOLEAN : SvcUnregister(k, agrees)
  \/ SvcL1Cleanup

Spec == Init /\ [][Next]_vars

-----------------------------------------------------------------------------
(* Properties                                                              *)

Callout == [prog : Progs, vers : Vers, dispatch : Functions, mapped : BOOLEAN]

CalloutTypes ==
  /\ svc_head \in Seq(Block)
  /\ callout \in [Block -> Callout \cup {None}]
  /\ \A s \in ToSet(svc_head) : callout[s] \in Callout
  /\ pmap \in [Key -> SUBSET Protocols]
  /\ heap \subseteq Block
  /\ l1_vec \in Seq(Block) /\ l1_cap \in Nat
  /\ {twice, running, unregistered} \subseteq BOOLEAN
  /\ left \subseteq Key
  /\ table \in [Key -> Functions \cup {None}]

(***************************************************************************)
(* "svc_l1_alloc() adds to the list of top-level objects": l1_vec has the  *)
(* memory for every entry that is written to it.  The code does not keep   *)
(* this beyond the one enlargement that l1_size allows.                    *)
(***************************************************************************)
L1Within == running => Len(l1_vec) <= l1_cap

\* The types, and the memory of l1_vec up to its one enlargement.
CalloutTypeOK == CalloutTypes /\ L1Within

Versions(prog) == {v \in Vers : table[<<prog, v>>] # None}

(***************************************************************************)
(* Every call is answered by the function registered for its program and   *)
(* version.  Without one, the client learns that the program is not there  *)
(* only if no version of it is registered, and else the lowest and the     *)
(* highest version that are, whatever the order in which they were         *)
(* registered and unregistered.  A call that is not authenticated never    *)
(* reaches a function, nor does it learn what is registered.               *)
(***************************************************************************)
AnswersRight ==
  running =>
    \A k \in Key, auth \in {"AUTH_OK", "AUTH_BADCRED"}, answer \in Answers :
      RequestLookup(k, auth, answer) =
        IF auth # "AUTH_OK" THEN By(None, svcerr_auth(auth))
        ELSE IF table[k] # None THEN By(table[k], answer)
        ELSE IF Versions(k[1]) = {} THEN By(None, svcerr_noprog)
        ELSE By(None, svcerr_progvers(Min(Versions(k[1])), Max(Versions(k[1]))))

(***************************************************************************)
(* The portmapper sends clients here for every version that is in the list *)
(* and marked as mapped, and for no other, but where it has refused the    *)
(* last pmap_unset() of that version: svc_unregister() leaves no other     *)
(* binding behind, and a refused pmap_set() does not hide an earlier one.  *)
(***************************************************************************)
BindingsRight ==
  \A k \in Key : /\ SvcIsMapped(k) => pmap[k] # {}
                 /\ pmap[k] # {} => SvcIsMapped(k) \/ k \in left

(***************************************************************************)
(* While the service runs, the callouts allocated are those of the list,   *)
(* each in it once, and svc_unregister() frees none twice.  After          *)
(* svc_shutdown() none is left, and a callout was freed a second time if   *)
(* and only if svc_unregister() has ever freed one, even if its memory was *)
(* handed out again since.                                                 *)
(***************************************************************************)
CalloutsFreed ==
  IF running
  THEN ~twice /\ IsInjective(svc_head) /\ heap = ToSet(svc_head)
  ELSE (twice <=> unregistered) /\ IsInjective(svc_head) /\ heap = {}

(***************************************************************************)
(* "it is expected that svc_l1_cleanup() will leave the service completely *)
(* clean, so that, even if a long-running program were to start svc_run(), *)
(* then shut it down", it may go about its business: no callout is freed   *)
(* twice.  The code does not keep this: svc_l1_cleanup() does not know what*)
(* svc_unregister() has freed.                                             *)
(***************************************************************************)
FreedOnce == ~twice

-----------------------------------------------------------------------------
(***************************************************************************)
(* The inductive invariant.  It adds to the properties above what ties the *)
(* list to what was registered and to the allocator.                       *)
(***************************************************************************)

\* svc_find() has at most one callout to find.
KeysUnique == \A s, t \in ToSet(svc_head) : KeyOf(s) = KeyOf(t) => s = t

\* The list holds what was registered and not unregistered.
ListRight ==
  /\ \A s \in ToSet(svc_head) : table[KeyOf(s)] = callout[s].dispatch
  /\ \A k \in Key : table[k] # None => \E s \in ToSet(svc_head) : KeyOf(s) = k

\* l1_vec has every callout that is allocated, and one that is not, or one
\* twice, from the first svc_unregister() on.
L1KnowsHeap ==
  running => heap \subseteq ToSet(l1_vec) /\ (unregistered <=> L1Stale)

(***************************************************************************)
(* Everything that holds between two calls of the application, and is kept *)
(* by each of them.                                                        *)
(***************************************************************************)
CalloutInv ==
  /\ CalloutTypes
  /\ KeysUnique
  /\ ListRight
  /\ BindingsRight
  /\ CalloutsFreed
  /\ L1KnowsHeap

\* How much memory l1_vec has: what it had first, or what it was enlarged to.
L1Enlarged ==
  running =>
    \/ l1_cap = 0 /\ l1_vec = <<>>
    \/ l1_cap = L1_INIT_SIZE /\ Len(l1_vec) <= L1_INIT_SIZE
    \/ l1_cap = (L1_INIT_SIZE * 16) \div 10 /\ L1_INIT_SIZE < Len(l1_vec) /\ Len(l1_vec) <= l1_cap

=============================================================================
