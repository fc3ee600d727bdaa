--------------------------- MODULE RecordChannel ----------------------------
(***************************************************************************)
(* What record marking promises over a byte stream: the receiver gets the  *)
(* records in the order in which they were written, and the bytes it takes *)
(* of each are the ones that were written into it, from the first one on.  *)
(***************************************************************************)
EXTENDS Naturals, Sequences, SequencesExt

VARIABLES
  recs,   (* the records written; the last one is still open               *)
  got     (* the bytes taken so far of each record the receiver has begun  *)

Init == recs = << <<>> >> /\ got = <<>>

\* The sender extends the open record.
Write ==
  /\ IsPrefix(recs[Len(recs)], recs'[Len(recs)])
  /\ recs' = [recs EXCEPT ![Len(recs)] = recs'[Len(recs)]]
  /\ UNCHANGED got

EndRecord ==
  /\ recs' = Append(recs, <<>>)
  /\ UNCHANGED got

\* The receiver turns to the next record, which need not be there yet.
BeginRecord ==
  /\ got' = Append(got, <<>>)
  /\ UNCHANGED recs

\* The next n bytes of the record the receiver is at.
Take(n) ==
  LET from == recs[Len(got)]
      at   == Len(got[Len(got)])
  IN  /\ at + n <= Len(from)
      /\ got' = [got EXCEPT ![Len(got)] = @ \o SubSeq(from, at + 1, at + n)]
      /\ UNCHANGED recs

TakeSome ==
  /\ Len(got) \in DOMAIN recs
  /\ \E n \in 1 .. Len(recs[Len(got)]) : Take(n)

Next == Write \/ EndRecord \/ BeginRecord \/ TakeSome

Spec == Init /\ [][Next]_<<recs, got>>

=============================================================================
