----------------------------- MODULE ReplyStore -----------------------------
(***************************************************************************)
(* What the reply cache of a UDP transport promises, without hash chains,  *)
(* nodes and buffers: it keeps the last Size replies that were sent, each  *)
(* with the index it was filed under, and sends the newest one that is     *)
(* filed under the index a request is looked up with.                      *)
(***************************************************************************)
EXTENDS Naturals, Sequences

CONSTANTS
  Size,     (* how many replies are kept                                   *)
  Xids,     (* the transaction ids                                         *)
  Callers,  (* what else is in an index: program, version, procedure and   *)
            (* the caller's address                                        *)
  Replies,  (* the replies                                                 *)
  NoCaller,
  NoReply

VARIABLES
  store,    (* the entries, the oldest first                               *)
  saved,    (* the caller that lookups are made for and replies are filed  *)
            (* under                                                       *)
  resent    (* the reply that was sent again by the last step, or NoReply  *)

Entries == [xid : Xids, caller : Callers, reply : Replies]

Matches(x) == {i \in DOMAIN store : store[i].xid = x /\ store[i].caller = saved}

Hit(x) ==
  \E i \in Matches(x) :
    /\ \A j \in Matches(x) : j <= i
    /\ resent' = store[i].reply
    /\ UNCHANGED <<store, saved>>

Miss(x, c) ==
  /\ Matches(x) = {}
  /\ saved' = c
  /\ resent' = NoReply
  /\ UNCHANGED store

File(x, r) ==
  LET e == [xid |-> x, caller |-> saved, reply |-> r]
  IN  /\ store' = Append(IF Len(store) < Size THEN store ELSE Tail(store), e)
      /\ resent' = NoReply
      /\ UNCHANGED saved

Forget ==
  /\ resent' = NoReply
  /\ UNCHANGED <<store, saved>>

Init ==
  /\ store = <<>>
  /\ saved = NoCaller
  /\ resent = NoReply

Next ==
  \/ \E x \in Xids : Hit(x) \/ \E c \in Callers : Miss(x, c)
  \/ \E x \in Xids, r \in Replies : File(x, r)
  \/ Forget

Spec == Init /\ [][Next]_<<store, saved, resent>>

=============================================================================
