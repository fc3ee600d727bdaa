------------------------------- MODULE XdrRec -------------------------------
(***************************************************************************)
(* The XDR record stream (src/librpc/xdr_rec.c) between two ends of a TCP  *)
(* connection: the output half of one end, the bytes under way, and the    *)
(* input half of the other, which the server drives as svc_tcp.c does:     *)
(* poll(), xdrrec_skiprecord(), some reads, xdrrec_eof().                  *)
(*                                                                         *)
(* A record is sent as fragments, each behind a header of one XDR unit     *)
(* that holds its length and, in its highest bit, whether it is the last.  *)
(* Buffers are sequences of bytes; positions in them are counted from the  *)
(* base of the buffer, which xdrrec_create() aligns.                       *)
(***************************************************************************)
EXTENDS Integers, Sequences, SequencesExt, FiniteSetsExt

CONSTANTS
  Unit,        (* BYTES_PER_XDR_UNIT                                       *)
  Base,        (* the number of values of a byte                           *)
  sendsize,    (* the sizes asked for of xdrrec_create()                   *)
  recvsize,
  MinBuf,      (* below MinBuf, fix_buf_size() takes DefaultBuf instead:   *)
  DefaultBuf,  (* 100 and 4000 in the code                                 *)
  MaxRecords,  (* bounds: the records sent, the units of a single call to  *)
  MaxUnits,    (* put or get bytes, and of a record                        *)
  MaxRecord,
  MaxTimeouts, (* how often the peer may fall silent for 35 seconds, and   *)
  TimesOutIn   (* what the server is doing then: "skip", "get" or "eof"    *)

ASSUME RecAssumption ==
  /\ Unit \in Nat \ {0}
  /\ Base \in Nat \ {0, 1}
  /\ {sendsize, recvsize, MinBuf, DefaultBuf} \subseteq Nat
  /\ MinBuf > 2 * Unit /\ DefaultBuf >= MinBuf
  /\ MaxRecords \in Nat /\ MaxUnits \in Nat /\ MaxRecord \in Nat /\ MaxTimeouts \in Nat
  /\ TimesOutIn \subseteq {"skip", "get", "eof"}

VARIABLES
  out,         (* the bytes from out_base to out_finger                    *)
  frag_header, (* the position of the header of the current fragment       *)
  frag_sent,   (* part of the current record has been sent                 *)
  pending,     (* the bytes that xdrrec_putbytes() has still to store      *)
  wire,        (* the bytes sent and not yet read                          *)
  peer,        (* "open", or "closed": the sender has gone                 *)
  inbuf,       (* the bytes from in_finger to in_boundry                   *)
  in_boundry,  (* its position modulo Unit                                 *)
  fbtbc,       (* fragment bytes to be consumed                            *)
  last_frag,   (* the current fragment is the last of its record           *)
  rpc,         (* where the server is                                      *)
  len,         (* the bytes the caller still wants                         *)
  current,     (* the length of the call to get_input_bytes(), or          *)
  left,        (* skip_input_bytes(), in progress, and what is left of it  *)
  header,      (* the bytes of a header read so far, or NoHeader           *)
  strm_stat,   (* "IDLE", or "DIED" after an error                         *)
  timeouts,    (* how often a read has timed out                           *)
  recs,        (* history: the records written, the last one still open    *)
  got          (* history: what the server has read of each record         *)

outvars == <<out, frag_header, frag_sent, pending>>
invars  == <<inbuf, in_boundry, fbtbc, last_frag, rpc, len, current, left, header,
             strm_stat, timeouts>>
vars == <<outvars, wire, peer, invars, recs, got>>

-----------------------------------------------------------------------------
(* Bytes                                                                   *)

RNDUP(n) == ((n + Unit - 1) \div Unit) * Unit

fix_buf_size(s) == RNDUP(IF s < MinBuf THEN DefaultBuf ELSE s)

SendSize == fix_buf_size(sendsize)
in_size  == fix_buf_size(recvsize)

\* How many numbers k bytes can hold.
Power[k \in 0 .. Unit] == IF k = 0 THEN 1 ELSE Base * Power[k - 1]

\* htonl() and ntohl(): a number as Unit bytes, the most significant first.
Bytes(n) == [i \in 1 .. Unit |-> (n \div Power[Unit - i]) % Base]
Number(b) == LET value[i \in 0 .. Unit] == IF i = 0 THEN 0 ELSE value[i - 1] * Base + b[i]
             IN  value[Unit]

LAST_FRAG == Power[Unit] \div 2

\* The length of a fragment shares its word with the bit of LAST_FRAG: buffers
\* are below 2^31 bytes, which fix_buf_size() leaves to its callers.
ASSUME SizeAssumption == SendSize <= LAST_FRAG

NoHeader == <<-1>>

\* The n-th byte the application ever writes: neighbours differ, and none is
\* zero, so that a byte lost, repeated or taken for a header shows.
Data(n) == 1 + (n % (Base - 1))

Written == LET sum[i \in 0 .. Len(recs)] == IF i = 0 THEN 0 ELSE sum[i - 1] + Len(recs[i])
           IN  sum[Len(recs)]

-----------------------------------------------------------------------------
(* Output                                                                  *)

\* The buffer with the header of the current fragment filled in.
WithHeader(b, eor) ==
  LET n == Len(b) - frag_header - Unit + (IF eor THEN LAST_FRAG ELSE 0)
  IN  [i \in DOMAIN b |-> IF i - frag_header \in 1 .. Unit
                          THEN Bytes(n)[i - frag_header] ELSE b[i]]

EmptyOut == [i \in 1 .. Unit |-> 0]

\* flush_out() of the buffer b, after which the new buffer holds d behind a
\* header.  The connection may break: nothing is sent, now or later.
flush_out(b, eor, d) ==
  \/ /\ wire' = wire \o WithHeader(b, eor)
     /\ out' = EmptyOut \o d
     /\ frag_header' = 0
     /\ UNCHANGED peer
  \/ /\ peer' = "closed"
     /\ out' = b
     /\ UNCHANGED <<frag_header, wire>>

CanWrite == peer = "open" /\ pending = <<>>

Extend(b) == recs' = [recs EXCEPT ![Len(recs)] = @ \o b]

\* A unit or a sequence of units of the application's data.
Fresh(units) == [i \in 1 .. units * Unit |-> Data(Written + i)]

RoomFor(units) ==
  /\ Len(recs) <= MaxRecords
  /\ Len(recs[Len(recs)]) + units * Unit <= MaxRecord * Unit

xdrrec_putlong ==
  /\ CanWrite
  /\ RoomFor(1)
  /\ IF Len(out) + Unit > SendSize
     THEN frag_sent' = TRUE /\ flush_out(out, FALSE, Fresh(1))
     ELSE /\ out' = out \o Fresh(1)
          /\ UNCHANGED <<frag_header, frag_sent, wire, peer>>
  /\ Extend(Fresh(1))
  /\ UNCHANGED <<pending, invars, got>>

xdrrec_putint32 == xdrrec_putlong

\* xdrrec_inline() reserves space only if it is there.
xdrrec_inline_encode(units) ==
  /\ CanWrite
  /\ RoomFor(units)
  /\ Len(out) + units * Unit <= SendSize
  /\ out' = out \o Fresh(units)
  /\ Extend(Fresh(units))
  /\ UNCHANGED <<frag_header, frag_sent, pending, wire, peer, invars, got>>

xdrrec_putbytes(units) ==
  /\ CanWrite
  /\ RoomFor(units)
  /\ pending' = Fresh(units)
  /\ Extend(Fresh(units))
  /\ UNCHANGED <<out, frag_header, frag_sent, wire, peer, invars, got>>

\* One round of its loop: fill the buffer, and flush it if there is more.
PutbytesRound ==
  LET n    == Min({SendSize - Len(out), Len(pending)})
      full == out \o SubSeq(pending, 1, n)
  IN  /\ peer = "open"
      /\ pending # <<>>
      /\ IF n < Len(pending)
         THEN frag_sent' = TRUE /\ flush_out(full, FALSE, <<>>)
         ELSE out' = full /\ UNCHANGED <<frag_header, frag_sent, wire, peer>>
      /\ pending' = SubSeq(pending, n + 1, Len(pending))
      /\ UNCHANGED <<invars, recs, got>>

\* A slip in the next definition: the last free unit is used for a header.
TooFullLate == Len(out) + Unit > SendSize

TooFull == Len(out) + Unit >= SendSize

xdrrec_endofrecord(sendnow) ==
  /\ CanWrite
  /\ Len(recs) <= MaxRecords
  /\ IF sendnow \/ frag_sent \/ TooFull
     THEN frag_sent' = FALSE /\ flush_out(out, TRUE, <<>>)
     ELSE /\ out' = WithHeader(out, TRUE) \o EmptyOut
          /\ frag_header' = Len(out)
          /\ UNCHANGED <<frag_sent, wire, peer>>
  /\ recs' = Append(recs, <<>>)
  /\ UNCHANGED <<pending, invars, got>>

Close ==
  /\ peer = "open"
  /\ peer' = "closed"
  /\ UNCHANGED <<outvars, wire, invars, recs, got>>

-----------------------------------------------------------------------------
(* Input                                                                   *)

\* The server is inside get_input_bytes(), for a header or for data, or
\* inside skip_input_bytes(), and needs this many bytes more.
Need == IF header # NoHeader THEN Unit - Len(header) ELSE left

\* A slip in the next definition: the buffer is always filled from its base.
PhaseOfBase == 0

\* Where fill_input_buf() starts: where the last input ended, modulo Unit.
Phase == in_boundry

fill_input_buf(k) ==
  /\ Need > 0
  /\ inbuf = <<>>
  /\ k <= Min({Len(wire), in_size - Phase})
  /\ inbuf' = SubSeq(wire, 1, k)
  /\ wire' = SubSeq(wire, k + 1, Len(wire))
  /\ in_boundry' = (Phase + k) % Unit
  /\ UNCHANGED <<outvars, peer, fbtbc, last_frag, rpc, len, current, left, header,
                 strm_stat, timeouts, recs, got>>

\* The server goes on to decode a message, at the start of a record or not:
\* svctcp_recv() ignores what xdrrec_skiprecord() returns.
BeginMessage == rpc' = "msg" /\ got' = Append(got, <<>>)

\* xdrrec_skiprecord(), xdrrec_getbytes() or xdrrec_eof() returns because its
\* input failed.  xdrrec_eof() says that there is no more input.
InputFailed ==
  /\ \/ rpc = "skip" /\ BeginMessage
     \/ rpc = "get" /\ rpc' = "stat" /\ UNCHANGED got
     \/ rpc = "eof" /\ rpc' = "poll" /\ UNCHANGED got
  /\ header' = NoHeader
  /\ left' = 0
  /\ current' = 0
  /\ len' = 0

\* readtcp(): the peer has closed the connection, or nothing arrives for too
\* long, even if it has been sent.
ReadFails ==
  /\ Need > 0
  /\ inbuf = <<>>
  /\ \/ peer = "closed" /\ wire = <<>> /\ UNCHANGED timeouts
     \/ rpc \in TimesOutIn /\ timeouts < MaxTimeouts /\ timeouts' = timeouts + 1
  /\ strm_stat' = "DIED"
  /\ InputFailed
  /\ UNCHANGED <<outvars, wire, peer, inbuf, in_boundry, fbtbc, last_frag, recs>>

Taken == SubSeq(inbuf, 1, Min({Need, Len(inbuf)}))

Consume(n) == inbuf' = SubSeq(inbuf, n + 1, Len(inbuf))

Deliver(b) == got' = [got EXCEPT ![Len(got)] = @ \o b]

\* The last statement of set_input_fragment(), and of the loop that called
\* get_input_bytes() or skip_input_bytes(), once all bytes are there.
set_input_fragment ==
  LET h == Number(header \o Taken)
  IN  /\ header # NoHeader
      /\ inbuf # <<>>
      /\ Consume(Len(Taken))
      /\ IF Len(header \o Taken) < Unit
         THEN /\ header' = header \o Taken
              /\ UNCHANGED <<fbtbc, last_frag, rpc, len, current, left, got>>
         ELSE /\ last_frag' = (h >= LAST_FRAG)
              /\ IF h = 0
                 THEN InputFailed /\ UNCHANGED fbtbc
                 ELSE /\ fbtbc' = h % LAST_FRAG
                      /\ header' = NoHeader
                      /\ UNCHANGED <<rpc, len, current, left, got>>
      /\ UNCHANGED <<outvars, wire, peer, in_boundry, strm_stat, timeouts, recs>>

get_input_bytes ==
  /\ rpc = "get"
  /\ left > 0
  /\ inbuf # <<>>
  /\ Consume(Len(Taken))
  /\ Deliver(Taken)
  /\ left' = left - Len(Taken)
  /\ fbtbc' = IF left' = 0 THEN fbtbc - current ELSE fbtbc
  /\ len' = IF left' = 0 THEN len - current ELSE len
  /\ current' = IF left' = 0 THEN 0 ELSE current
  /\ UNCHANGED <<outvars, wire, peer, in_boundry, last_frag, rpc, header,
                 strm_stat, timeouts, recs>>

skip_input_bytes ==
  /\ rpc \in {"skip", "eof"}
  /\ left > 0
  /\ inbuf # <<>>
  /\ Consume(Len(Taken))
  /\ left' = left - Len(Taken)
  /\ fbtbc' = IF left' = 0 THEN 0 ELSE fbtbc
  /\ current' = IF left' = 0 THEN 0 ELSE current
  /\ UNCHANGED <<outvars, wire, peer, in_boundry, last_frag, rpc, len, header,
                 strm_stat, timeouts, recs, got>>

\* The next round of the loop of xdrrec_skiprecord(), xdrrec_eof() or
\* xdrrec_getbytes(): the rest of the fragment, or the next header.
NextRound ==
  /\ rpc \in {"skip", "eof", "get"}
  /\ Need = 0
  /\ rpc = "get" => len > 0
  /\ \/ /\ fbtbc > 0
        /\ current' = IF rpc = "get" THEN Min({len, fbtbc}) ELSE fbtbc
        /\ left' = current'
        /\ UNCHANGED header
     \/ /\ fbtbc = 0
        /\ ~last_frag
        /\ header' = <<>>
        /\ UNCHANGED <<current, left>>
  /\ UNCHANGED <<outvars, wire, peer, inbuf, in_boundry, fbtbc, last_frag, rpc, len,
                 strm_stat, timeouts, recs, got>>

\* A slip in the next definition: the end of one fragment is taken for the
\* end of the record.
AtEndOfFragment == Need = 0 /\ fbtbc = 0

AtEndOfRecord == Need = 0 /\ fbtbc = 0 /\ last_frag

xdrrec_skiprecord ==
  /\ rpc = "skip"
  /\ AtEndOfRecord
  /\ last_frag' = FALSE
  /\ BeginMessage
  /\ UNCHANGED <<outvars, wire, peer, inbuf, in_boundry, fbtbc, len, current, left, header,
                 strm_stat, timeouts, recs>>

\* A slip in the next definition: what is left in the buffer is forgotten.
MoreReqsNever == FALSE

MoreReqs == inbuf # <<>>

\* FALSE means XPRT_MOREREQS, and the next request is received at once.
xdrrec_eof ==
  /\ rpc = "eof"
  /\ AtEndOfRecord
  /\ rpc' = IF MoreReqs THEN "skip" ELSE "poll"
  /\ UNCHANGED <<outvars, wire, peer, inbuf, in_boundry, fbtbc, last_frag, len, current, left,
                 header, strm_stat, timeouts, recs, got>>

\* xdr_callmsg() or the filter of the arguments reads some units.
xdrrec_getbytes(units) ==
  /\ rpc = "msg"
  /\ rpc' = "get"
  /\ len' = units * Unit
  /\ UNCHANGED <<outvars, wire, peer, inbuf, in_boundry, fbtbc, last_frag, current, left, header,
                 strm_stat, timeouts, recs, got>>

\* It has all of them, or the record has ended before: then the message is
\* bad, and the connection with it, or only its arguments are.
GetbytesReturn ==
  /\ rpc = "get"
  /\ Need = 0
  /\ \/ len = 0 /\ rpc' = "msg" /\ UNCHANGED strm_stat
     \/ len > 0 /\ AtEndOfRecord /\ rpc' = "stat" /\ strm_stat' \in {strm_stat, "DIED"}
  /\ len' = 0
  /\ UNCHANGED <<outvars, wire, peer, inbuf, in_boundry, fbtbc, last_frag, current, left,
                 header, timeouts, recs, got>>

\* A slip in the next definition: only the buffer is looked at.
InBuffer(n) == Len(inbuf) >= n

\* n bytes of the current fragment are in the buffer.
AtHand(n) == fbtbc >= n /\ Len(inbuf) >= n

\* xdrrec_inline() gives access to what is in the buffer.
xdrrec_inline_decode(units) ==
  LET n == units * Unit
  IN  /\ rpc = "msg"
      /\ AtHand(n)
      /\ Deliver(SubSeq(inbuf, 1, n))
      /\ Consume(n)
      /\ fbtbc' = fbtbc - n
      /\ UNCHANGED <<outvars, wire, peer, in_boundry, last_frag, rpc, len, current, left, header,
                     strm_stat, timeouts, recs>>

\* "First try the inline, fast case".
xdrrec_getlong ==
  \/ xdrrec_inline_decode(1)
  \/ ~AtHand(Unit) /\ xdrrec_getbytes(1)

xdrrec_getint32 == xdrrec_getlong

\* poll() reports input, or the end of it.
SvcPoll ==
  /\ rpc = "poll"
  /\ wire # <<>> \/ peer = "closed"
  /\ rpc' = "skip"
  /\ UNCHANGED <<outvars, wire, peer, inbuf, in_boundry, fbtbc, last_frag, len, current, left,
                 header, strm_stat, timeouts, recs, got>>

\* There is no message of no bytes.
MessageDone ==
  /\ rpc = "msg"
  /\ got[Len(got)] # <<>>
  /\ rpc' = "stat"
  /\ UNCHANGED <<outvars, wire, peer, inbuf, in_boundry, fbtbc, last_frag, len, current, left,
                 header, strm_stat, timeouts, recs, got>>

svctcp_stat ==
  /\ rpc = "stat"
  /\ rpc' = IF strm_stat = "DIED" THEN "destroyed" ELSE "eof"
  /\ UNCHANGED <<outvars, wire, peer, inbuf, in_boundry, fbtbc, last_frag, len, current, left,
                 header, strm_stat, timeouts, recs, got>>

-----------------------------------------------------------------------------

\* xdrrec_create() at both ends.
Init ==
  /\ out = EmptyOut
  /\ frag_header = 0
  /\ frag_sent = FALSE
  /\ pending = <<>>
  /\ wire = <<>>
  /\ peer = "open"
  /\ inbuf = <<>>
  /\ in_boundry = in_size % Unit
  /\ fbtbc = 0
  /\ last_frag = TRUE
  /\ rpc = "poll"
  /\ len = 0
  /\ current = 0
  /\ left = 0
  /\ header = NoHeader
  /\ strm_stat = "IDLE"
  /\ timeouts = 0
  /\ recs = << <<>> >>
  /\ got = <<>>

Sender ==
  \/ xdrrec_putlong \/ xdrrec_putint32
  \/ \E n \in 1 .. MaxUnits : xdrrec_inline_encode(n) \/ xdrrec_putbytes(n)
  \/ PutbytesRound
  \/ \E sendnow \in BOOLEAN : xdrrec_endofrecord(sendnow)
  \/ Close

Receiver ==
  \/ \E k \in 1 .. in_size : fill_input_buf(k)
  \/ ReadFails
  \/ set_input_fragment
  \/ get_input_bytes
  \/ skip_input_bytes
  \/ NextRound
  \/ xdrrec_skiprecord
  \/ xdrrec_eof
  \/ \E n \in 1 .. MaxUnits : xdrrec_getbytes(n) \/ xdrrec_inline_decode(n)
  \/ xdrrec_getlong \/ xdrrec_getint32
  \/ GetbytesReturn
  \/ SvcPoll
  \/ MessageDone
  \/ svctcp_stat

Next == Sender \/ Receiver

\* The server's thread runs on whenever there is input.
Spec == Init /\ [][Next]_vars /\ WF_vars(Receiver)

-----------------------------------------------------------------------------
(* Properties                                                              *)

RecTypeOK ==
  /\ Len(out) \in Unit .. SendSize /\ frag_header \in 0 .. Len(out) - Unit
  /\ frag_sent \in BOOLEAN /\ last_frag \in BOOLEAN
  /\ peer \in {"open", "closed"} /\ strm_stat \in {"IDLE", "DIED"}
  /\ Len(inbuf) <= in_size /\ in_boundry \in 0 .. Unit - 1
  /\ \A s \in {out, pending, wire, inbuf} : s \in Seq(0 .. Base - 1)
  /\ fbtbc \in 0 .. LAST_FRAG - 1
  /\ rpc \in {"poll", "skip", "msg", "get", "stat", "eof", "destroyed"}
  /\ len \in Nat /\ current \in Nat /\ left \in 0 .. current
  /\ header = NoHeader \/ Len(header) < Unit
  /\ timeouts \in 0 .. MaxTimeouts

Channel == INSTANCE RecordChannel WITH recs <- recs, got <- got

(***************************************************************************)
(* The comment at xdrrec_skiprecord(): it is to be called before reading   *)
(* "to guarantee proper record alignment".  However the bytes are split    *)
(* into fragments, buffers and reads, the server reads what was written    *)
(* into each record, and one record after the other.                       *)
(***************************************************************************)
RecordsIntact == Channel!Spec

(***************************************************************************)
(* xdrrec_create() and fill_input_buf() keep the input aligned: the fast   *)
(* case of xdrrec_getlong() reads a unit at a multiple of its size.        *)
(***************************************************************************)
WordsAligned == rpc = "msg" /\ AtHand(Unit) => (in_boundry - Len(inbuf)) % Unit = 0

(***************************************************************************)
(* set_input_fragment() takes an empty fragment that is not the last for   *)
(* an error.  The sender never writes one: if its next unit does not fit,  *)
(* there is data in the fragment that it sends first.                      *)
(***************************************************************************)
NoEmptyFragment ==
  CanWrite /\ Len(out) + Unit > SendSize => Len(out) > frag_header + Unit

(***************************************************************************)
(* What xdrrec_eof() is for: a record that has been sent is received, also *)
(* one that shares a read with its neighbours and waits in the input       *)
(* buffer, where poll() does not see it.                                   *)
(***************************************************************************)
EveryRecordBegun ==
  \A i \in 1 .. MaxRecords :
    (peer = "open" /\ Len(recs) > i /\ Len(out) = Unit) ~> (Len(got) >= i \/ rpc = "destroyed")

-----------------------------------------------------------------------------
(***************************************************************************)
(* The inductive invariant.  What makes the input right is that the bytes  *)
(* under way are fragments: each can be given a label that says which byte *)
(* of which header or record it is, such that the labels of neighbours     *)
(* follow each other, the first is what the reader expects next, and the   *)
(* one after the last is where the writer goes on.                         *)
(***************************************************************************)

Byte == 0 .. Base - 1

Whole(n) == n % Unit = 0

\* h: which byte of a header it is, or 0 for data;  rec: the record;  at: which
\* byte of the record it is, or is the first behind the header;  n: the bytes
\* of the fragment, from this one on if it is data;  last: of the fragment.
Label == [h : 0 .. Unit, rec : Nat, at : Nat, n : Nat, last : BOOLEAN]

\* Fragments hold whole units, and only the last of a record may be empty.
Legal(l) ==
  /\ l.n < LAST_FRAG
  /\ IF l.h > 0 THEN Whole(l.at - 1) /\ Whole(l.n) /\ (l.last \/ l.n > 0)
                ELSE Whole(l.at - 1 + l.n) /\ l.n > 0

HeaderByte(l, i) == Bytes(l.n + (IF l.last THEN LAST_FRAG ELSE 0))[i]

\* The byte is what its label says.
Holds(l, b) ==
  IF l.h > 0 THEN b = HeaderByte(l, l.h)
  ELSE l.rec \in DOMAIN recs /\ l.at \in DOMAIN recs[l.rec] /\ b = recs[l.rec][l.at]

\* The header of the next fragment, at the end of one of record rec.
Heads(m, rec, at, last) ==
  /\ m.h = 1
  /\ IF last THEN m.rec = rec + 1 /\ m.at = 1 ELSE m.rec = rec /\ m.at = at

Follows(l, m) ==
  \/ l.h \in 1 .. Unit - 1 /\ m = [l EXCEPT !.h = @ + 1]
  \/ l.h = Unit /\ l.n > 0 /\ m = [l EXCEPT !.h = 0]
  \/ l.h = Unit /\ l.n = 0 /\ Heads(m, l.rec, l.at, l.last)
  \/ l.h = 0 /\ l.n > 1 /\ m = [l EXCEPT !.at = @ + 1, !.n = @ - 1]
  \/ l.h = 0 /\ l.n = 1 /\ Heads(m, l.rec, l.at + 1, l.last)

\* The bytes of complete fragments that are before the reader.
Ahead == inbuf \o wire \o (IF peer = "open" THEN SubSeq(out, 1, frag_header) ELSE <<>>)

\* What the reader has still to consume of the fragment it is in.
Rest == fbtbc - (current - left)

Reading == rpc \in {"msg", "get"}

\* The reader expects the byte labelled l.
ReaderAt(l) ==
  /\ IF header # NoHeader
     THEN /\ l.h = Len(header) + 1 /\ l.rec = Len(got)
          /\ \A i \in 1 .. Len(header) : header[i] = HeaderByte(l, i)
     ELSE IF Rest > 0
     THEN l.h = 0 /\ l.rec = Len(got) /\ l.n = Rest /\ l.last = last_frag
     ELSE l.h = 1 /\ IF last_frag THEN l.rec = Len(got) + 1 /\ l.at = 1 ELSE l.rec = Len(got)
  /\ Reading /\ l.rec = Len(got) => l.at = Len(got[Len(got)]) + 1
  /\ rpc \in {"poll", "skip"} => fbtbc = 0 /\ last_frag

\* How much of the open record is in complete fragments.
OpenAt == Len(recs[Len(recs)]) - Len(pending) - (Len(out) - frag_header - Unit)

WriterAt(l) == l.h = 1 /\ l.rec = Len(recs) /\ l.at = OpenAt + 1

Labels(L) ==
  /\ \A p \in 1 .. Len(Ahead) + 1 :
       Legal(L[p]) /\ Whole(in_boundry - Len(inbuf) + p - (IF L[p].h > 0 THEN L[p].h ELSE L[p].at))
  /\ \A p \in 1 .. Len(Ahead) : Holds(L[p], Ahead[p]) /\ Follows(L[p], L[p + 1])
  /\ ReaderAt(L[1])
  /\ peer = "open" => WriterAt(L[Len(Ahead) + 1])

\* No byte will be read any more.
Over ==
  \/ peer = "closed" /\ wire = <<>> /\ inbuf = <<>>
  \/ rpc = "destroyed"
  \/ rpc = "stat" /\ strm_stat = "DIED"

Framed == Over \/ \E L \in [1 .. Len(Ahead) + 1 -> Label] : Labels(L)

\* The output buffer: the current fragment, and what is to follow it, are the
\* end of the open record, and there is room for data behind every header.
OutputRight ==
  /\ Whole(Len(out)) /\ Whole(frag_header) /\ Whole(Len(pending)) /\ Whole(Len(recs[Len(recs)]))
  /\ frag_header + 2 * Unit <= SendSize
  /\ peer = "open" =>
       /\ OpenAt >= 0
       /\ \A i \in 1 .. Len(out) - frag_header - Unit :
            out[frag_header + Unit + i] = recs[Len(recs)][OpenAt + i]
       /\ \A i \in 1 .. Len(pending) :
            pending[i] = recs[Len(recs)][Len(recs[Len(recs)]) - Len(pending) + i]

\* The calls of the reader that are in progress.
InputRight ==
  /\ rpc \notin {"poll", "skip"} => got # <<>>
  /\ rpc # "get" => len = 0
  /\ rpc \notin {"skip", "eof", "get"} => current = 0 /\ header = NoHeader
  /\ left = 0 => current = 0
  /\ current <= fbtbc
  /\ IF rpc = "get" THEN current <= len ELSE current \in {0, fbtbc}
  /\ header # NoHeader => fbtbc = 0 /\ ~last_frag /\ header \in Seq(Byte)
  /\ Reading => Whole(Len(got[Len(got)]) + len - (current - left))

RecTypes ==
  /\ RecTypeOK
  /\ recs \in Seq(Seq(Byte)) /\ recs # <<>>
  /\ got \in Seq(Seq(Byte))

RecInv == RecTypes /\ OutputRight /\ InputRight

=============================================================================
