-------------------------------- MODULE Xdr ---------------------------------
(***************************************************************************)
(* The XDR filters (src/librpc/xdr.c, xdr_array.c, xdr_ref.c,              *)
(* xdr_intXX_t.c) over a memory stream (xdr_mem.c), over a file of the     *)
(* standard i/o library (xdr_stdio.c) and over the counting stream of      *)
(* xdr_sizeof() (xdr_sizeof.c).                                            *)
(*                                                                         *)
(* A filter is one function for three operations: XDR_ENCODE and           *)
(* XDR_DECODE between an object and a stream, and XDR_FREE, which frees    *)
(* what XDR_DECODE has allocated.  Here it is an operator that takes the   *)
(* operation, the stream and the object, and returns the outcome: ok, the  *)
(* stream and the object afterwards.                                       *)
(*                                                                         *)
(* An object is an integer, a record with a count, or a sequence of        *)
(* objects; a pointer is NULL, Dangling, or holds what it points to: every *)
(* allocated block has one pointer to it.  Sizes are scaled: a byte has    *)
(* Base values, an XDR unit and an int have Unit bytes, a long and a quad  *)
(* two units, a short and a char one byte.                                 *)
(***************************************************************************)
EXTENDS Integers, Sequences, FiniteSets, SequencesExt, FiniteSetsExt

CONSTANTS
  Unit,      (* BYTES_PER_XDR_UNIT                                         *)
  Base,      (* the number of values of a byte                             *)
  NULL,      (* the null pointer                                           *)
  Dangling,  (* a pointer to a block that has been freed                   *)
  MaxNetobj, (* MAX_NETOBJ_SZ                                              *)
  Cases,     (* a sequence of types and objects to be sent                 *)
  LongsOnFile, (* whether longs are sent over a file, too                  *)
  MaxBuf,    (* bound: the size of the sender's buffer or file             *)
  MaxMem     (* bound: how many allocations succeed                        *)

ASSUME XdrAssumption ==
  /\ Unit \in Nat \ {0} /\ Base \in Nat \ {0, 1}
  /\ MaxNetobj \in Nat /\ MaxBuf \in Nat /\ MaxMem \in Nat
  /\ LongsOnFile \in BOOLEAN
  /\ NULL # Dangling

VARIABLES
  xdr_failfast, (* whether an error aborts the process                     *)
  phase,        (* what has been done so far                               *)
  case,         (* the type and the object that are sent                   *)
  x,            (* the stream in use                                       *)
  obj,          (* the receiver's object                                   *)
  ok,           (* what the last call of a filter has returned             *)
  wire,         (* the bytes sent                                          *)
  intact        (* whether they have arrived as they were sent             *)

vars == <<xdr_failfast, phase, case, x, obj, ok, wire, intact>>

-----------------------------------------------------------------------------
(* Numbers                                                                 *)

\* A cast to an unsigned or a signed type of w bytes.
Unsigned(n, w) == n % Base^w
Signed(n, w) == LET half == Base^w \div 2 IN ((n + half) % Base^w) - half

\* htonl() and ntohl(): a number as Unit bytes, the most significant first.
Bytes(n) == [i \in 1 .. Unit |-> (Unsigned(n, Unit) \div Base^(Unit - i)) % Base]
Number(b) == FoldFunction(LAMBDA m, n : m + n, 0, [i \in 1 .. Unit |-> b[i] * Base^(Unit - i)])

UINT_MAX == Base^Unit - 1
LASTUNSIGNED == UINT_MAX

-----------------------------------------------------------------------------
(* Streams                                                                 *)

Result(b, s, o) == [ok |-> b, x |-> s, o |-> o]

\* What is done with an outcome: in any case, if it is a success, and with the
\* object alone, which is put into n if it is a success.
With(r, f(_)) == f(r)
Then(r, f(_)) == IF r.ok THEN f(r) ELSE r
Into(n, r, dec(_)) == [r EXCEPT !.o = IF r.ok THEN dec(@) ELSE n]

\* base is the buffer or the file, x_private the position in it, and room the
\* number of bytes the file can still grow by; mem counts the allocations that
\* will still succeed, live the blocks allocated, and wild is TRUE when a
\* pointer was used that leads nowhere.
Stream(ops, base, handy, room, mem) ==
  [ops |-> ops, base |-> base, private |-> 0, handy |-> handy, room |-> room,
   mem |-> mem, live |-> 0, wild |-> FALSE, aborted |-> FALSE]

xdrmem_create(addr, mem) == Stream("mem", addr, Len(addr), 0, mem)
xdrstdio_create(file, room, mem) == Stream("stdio", file, 0, room, mem)

\* xdr_overflow(), xdr_bad_op() and xdr_out_of_memory() end in xdr_abort().
xdr_abort(s) == [s EXCEPT !.aborted = xdr_failfast]

\* A slip in the next definition: one byte more is taken to fit.
FitsAlmost(s, len) == s.handy + 1 >= len

\* x_handy counts the bytes that are left.
Fits(s, len) == s.handy >= len

xdrmem_getbytes(s, len) ==
  IF ~Fits(s, len)
  THEN Result(FALSE, xdr_abort(s), <<>>)
  ELSE Result(TRUE, [s EXCEPT !.handy = @ - len, !.private = @ + len],
              SubSeq(s.base, s.private + 1, s.private + len))

xdrmem_putbytes(s, bytes) ==
  IF ~Fits(s, Len(bytes))
  THEN Result(FALSE, xdr_abort(s), bytes)
  ELSE Result(TRUE, [s EXCEPT !.handy = @ - Len(bytes), !.private = @ + Len(bytes),
                              !.base = SubSeq(@, 1, s.private) \o bytes \o
                                       SubSeq(@, s.private + Len(bytes) + 1, Len(@))], bytes)

xdrmem_getlong(s) ==
  Into(0, xdrmem_getbytes(s, Unit), LAMBDA b : Signed(Number(b), Unit))

xdrmem_putlong(s, n) == xdrmem_putbytes(s, Bytes(n))

xdrmem_getint32(s) == xdrmem_getlong(s)
xdrmem_putint32(s, n) == xdrmem_putbytes(s, Bytes(n))

xdrmem_getpos(s) == s.private

xdrmem_setpos(s, pos) ==
  LET last == s.private + s.handy
  IN  IF pos > last
      THEN Result(FALSE, xdr_abort(s), pos)
      ELSE Result(TRUE, [s EXCEPT !.private = pos, !.handy = last - pos], pos)

\* A file, read and written at its position: when there is too little to read,
\* or too little room, what there is is read or written all the same.
fread(s, len) ==
  IF s.private + len > Len(s.base)
  THEN Result(FALSE, [s EXCEPT !.private = Len(s.base)],
              SubSeq(s.base, s.private + 1, Len(s.base)))
  ELSE Result(TRUE, [s EXCEPT !.private = @ + len],
              SubSeq(s.base, s.private + 1, s.private + len))

\* The position is the end of the file: nothing is written twice.
fwrite(s, bytes) ==
  IF Len(bytes) > s.room
  THEN Result(FALSE, [s EXCEPT !.private = @ + s.room, !.room = 0,
                               !.base = @ \o SubSeq(bytes, 1, s.room)], bytes)
  ELSE Result(TRUE, [s EXCEPT !.private = @ + Len(bytes), !.room = @ - Len(bytes),
                              !.base = @ \o bytes], bytes)

\* The cast (int)len: a count above INT_MAX is a size that no file has or takes.
\* What there is, or what there is room for, is read or written, and the call
\* fails.
BeyondInt(len) == Signed(len, Unit) < 0

xdrstdio_getbytes(s, len) ==
  CASE len = 0 -> Result(TRUE, s, <<>>)
    [] BeyondInt(len) -> [fread(s, Len(s.base)) EXCEPT !.ok = FALSE]
    [] OTHER -> fread(s, len)

xdrstdio_putbytes(s, bytes) ==
  CASE bytes = <<>> -> Result(TRUE, s, bytes)
    [] BeyondInt(Len(bytes)) -> [fwrite(s, bytes) EXCEPT !.ok = FALSE]
    [] OTHER -> fwrite(s, bytes)

\* ntohl() is unsigned, and a long is wider: the sign is not extended.
xdrstdio_getlong(s) == Into(0, fread(s, Unit), Number)

xdrstdio_putlong(s, n) == fwrite(s, Bytes(n))

xdrstdio_getint32(s) == Into(0, fread(s, Unit), LAMBDA b : Signed(Number(b), Unit))

xdrstdio_putint32(s, n) == fwrite(s, Bytes(n))

xdrstdio_getpos(s) == s.private

\* The file is seekable, and an unsigned position is never before its start:
\* fseek() succeeds.
xdrstdio_setpos(s, pos) == Result(TRUE, [s EXCEPT !.private = pos], pos)

\* The stream of xdr_sizeof() counts in x_handy.
SizeStream == Stream("size", <<>>, 0, 0, 0)

x_putbytes(s, bytes) == Result(TRUE, [s EXCEPT !.handy = @ + Len(bytes)], bytes)
x_putlong(s, n) == Result(TRUE, [s EXCEPT !.handy = @ + Unit], n)
x_putint32(s, n) == Result(TRUE, [s EXCEPT !.handy = @ + Unit], n)

\* The operations of struct xdr_ops.
XDR_PUTLONG(s, n) ==
  CASE s.ops = "mem" -> xdrmem_putlong(s, n)
    [] s.ops = "stdio" -> xdrstdio_putlong(s, n)
    [] s.ops = "size" -> x_putlong(s, n)

XDR_PUTINT32(s, n) ==
  CASE s.ops = "mem" -> xdrmem_putint32(s, n)
    [] s.ops = "stdio" -> xdrstdio_putint32(s, n)
    [] s.ops = "size" -> x_putint32(s, n)

XDR_PUTBYTES(s, b) ==
  CASE s.ops = "mem" -> xdrmem_putbytes(s, b)
    [] s.ops = "stdio" -> xdrstdio_putbytes(s, b)
    [] s.ops = "size" -> x_putbytes(s, b)

XDR_GETLONG(s) == IF s.ops = "mem" THEN xdrmem_getlong(s) ELSE xdrstdio_getlong(s)
XDR_GETINT32(s) == IF s.ops = "mem" THEN xdrmem_getint32(s) ELSE xdrstdio_getint32(s)
XDR_GETBYTES(s, len) == IF s.ops = "mem" THEN xdrmem_getbytes(s, len) ELSE xdrstdio_getbytes(s, len)
XDR_GETPOS(s) == IF s.ops = "mem" THEN xdrmem_getpos(s) ELSE xdrstdio_getpos(s)
XDR_SETPOS(s, pos) == IF s.ops = "mem" THEN xdrmem_setpos(s, pos) ELSE xdrstdio_setpos(s, pos)

-----------------------------------------------------------------------------
(* Numbers of one unit, or of two                                          *)

\* The switch on x_op in the filters of numbers: what is put for the number n,
\* and what is made of the number got.
ViaLong(op, s, n, put, dec(_)) ==
  CASE op = "ENCODE" -> [XDR_PUTLONG(s, put) EXCEPT !.o = n]
    [] op = "DECODE" -> Into(n, XDR_GETLONG(s), dec)
    [] op = "FREE" -> Result(TRUE, s, n)

ViaInt32(op, s, n, dec(_)) ==
  CASE op = "ENCODE" -> [XDR_PUTINT32(s, n) EXCEPT !.o = n]
    [] op = "DECODE" -> Into(n, XDR_GETINT32(s), dec)
    [] op = "FREE" -> Result(TRUE, s, n)

\* The upper half, then the lower; n is left alone unless both are got.
Halves(op, s, n, half(_, _, _), dec(_, _)) ==
  With(half(op, s, n \div Base^Unit), LAMBDA r1 :
    IF op = "FREE" \/ ~r1.ok
    THEN [r1 EXCEPT !.o = n]
    ELSE Into(n, half(op, r1.x, n), LAMBDA t2 : IF op = "DECODE" THEN dec(r1.o, t2) ELSE n))

PutLong(op, s, n) == ViaLong(op, s, n, n, LAMBDA l : l)
PutInt32(op, s, n) == ViaInt32(op, s, n, LAMBDA l : l)

\* The halves put together: the upper one is shifted into the sign, the lower
\* one does not extend its own.
Joined(t1, t2) == Signed(t1 * Base^Unit, 2 * Unit) + Unsigned(t2, Unit)

\* A slip in the next definition: the sign of the lower half is extended.
HyperSigned(op, s, n) ==
  Halves(op, s, n, PutLong, LAMBDA t1, t2 : Signed(t1 * Base^Unit + t2, 2 * Unit))

xdr_hyper(op, s, n) == Halves(op, s, n, PutLong, Joined)

xdr_u_hyper(op, s, n) ==
  Halves(op, s, n, PutLong, LAMBDA t1, t2 : Unsigned(Joined(t1, t2), 2 * Unit))

xdr_longlong_t(op, s, n) == xdr_hyper(op, s, n)
xdr_u_longlong_t(op, s, n) == xdr_u_hyper(op, s, n)

xdr_int64_t(op, s, n) == Halves(op, s, n, PutInt32, Joined)

xdr_uint64_t(op, s, n) ==
  Halves(op, s, n, PutInt32, LAMBDA t1, t2 : Unsigned(Joined(t1, t2), 2 * Unit))

xdr_int(op, s, n) == ViaLong(op, s, n, n, LAMBDA l : Signed(l, Unit))
xdr_u_int(op, s, n) == ViaLong(op, s, n, n, LAMBDA l : Unsigned(l, Unit))

\* A long has two units and is sent in one: a number that does not fit is
\* refused.
xdr_long(op, s, n) ==
  IF op = "ENCODE" /\ Signed(n, Unit) # n
  THEN Result(FALSE, s, n)
  ELSE ViaLong(op, s, n, n, LAMBDA l : l)

xdr_u_long(op, s, n) ==
  IF op = "ENCODE" /\ Unsigned(n, Unit) # n
  THEN Result(FALSE, s, n)
  ELSE ViaLong(op, s, n, n, LAMBDA l : Unsigned(l, Unit))

xdr_short(op, s, n) == ViaLong(op, s, n, n, LAMBDA l : Signed(l, 1))
xdr_u_short(op, s, n) == ViaLong(op, s, n, n, LAMBDA l : Unsigned(l, 1))

xdr_char(op, s, n) == [xdr_int(op, s, n) EXCEPT !.o = Signed(@, 1)]
xdr_u_char(op, s, n) == [xdr_u_int(op, s, n) EXCEPT !.o = Unsigned(@, 1)]

xdr_bool(op, s, n) ==
  ViaLong(op, s, n, IF n # 0 THEN 1 ELSE 0, LAMBDA l : IF l = 0 THEN 0 ELSE 1)

xdr_enum(op, s, n) == ViaLong(op, s, n, n, LAMBDA l : Signed(l, Unit))

xdr_int32_t(op, s, n) == ViaInt32(op, s, n, LAMBDA l : l)
xdr_uint32_t(op, s, n) == ViaInt32(op, s, n, LAMBDA l : Unsigned(l, Unit))
xdr_int16_t(op, s, n) == ViaInt32(op, s, n, LAMBDA l : Signed(l, 1))
xdr_uint16_t(op, s, n) == ViaInt32(op, s, n, LAMBDA l : Unsigned(l, 1))
xdr_int8_t(op, s, n) == ViaInt32(op, s, n, LAMBDA l : Signed(l, 1))
xdr_uint8_t(op, s, n) == ViaInt32(op, s, n, LAMBDA l : Unsigned(l, 1))

-----------------------------------------------------------------------------
(* Bytes                                                                   *)

\* A slip in the next definition: the bytes are not padded.
RndupNever(cnt) == 0

rndup(cnt) == IF cnt % Unit = 0 THEN 0 ELSE Unit - (cnt % Unit)

\* o is the memory for the bytes.  What is got before an error stays in it.
xdr_opaque(op, s, o, cnt) ==
  CASE cnt = 0 \/ op = "FREE" -> Result(TRUE, s, o)
    [] op = "ENCODE" -> Then(XDR_PUTBYTES(s, o), LAMBDA r :
         IF rndup(cnt) = 0 THEN r
         ELSE [XDR_PUTBYTES(r.x, [i \in 1 .. rndup(cnt) |-> 0]) EXCEPT !.o = o])
    [] op = "DECODE" -> With(XDR_GETBYTES(s, cnt), LAMBDA r :
         IF ~r.ok THEN [r EXCEPT !.o = @ \o SubSeq(o, Len(@) + 1, Len(o))]
         ELSE IF rndup(cnt) = 0 THEN r
         ELSE [XDR_GETBYTES(r.x, rndup(cnt)) EXCEPT !.o = r.o])

Pointer(o) == [to |-> o]

\* mem_alloc() or calloc(): a pointer to memory that holds o, or NULL.
Alloc(s, o) ==
  IF s.mem = 0
  THEN Result(FALSE, xdr_abort(s), NULL)
  ELSE Result(TRUE, [s EXCEPT !.mem = @ - 1, !.live = @ + 1], Pointer(o))

\* mem_free().
Free(s, p) == IF p = Dangling THEN [s EXCEPT !.wild = TRUE] ELSE [s EXCEPT !.live = @ - 1]

\* A slip in the next definition: the pointer is not reset.
FreedNot(p) == IF p = NULL THEN NULL ELSE Dangling

\* *cpp = NULL after mem_free(*cpp).
Freed(p) == NULL

\* The bytes of a pointer, with fresh memory if it is NULL.  Fresh memory is
\* not initialized, but nothing looks at it before it is filled or freed.
IntoBytes(op, s, p, size, cnt) ==
  Then(IF op = "DECODE" /\ p = NULL THEN Alloc(s, [i \in 1 .. size |-> 0])
       ELSE Result(TRUE, s, p),
       LAMBDA a : [xdr_opaque(op, a.x, a.o.to, cnt) EXCEPT !.o = Pointer(@)])

\* A slip in the next definition: any count will do.
TooLongNot(cnt, maxsize) == FALSE

TooLong(cnt, maxsize) == cnt > maxsize

\* *sizep is set before it is compared with maxsize.
xdr_bytes(op, s, o, maxsize) ==
  With(xdr_u_int(op, s, o.len), LAMBDA r :
    IF op = "FREE"
    THEN Result(TRUE, IF o.data = NULL THEN s ELSE Free(s, o.data), [o EXCEPT !.data = Freed(@)])
    ELSE IF ~r.ok \/ TooLong(r.o, maxsize) THEN Result(FALSE, r.x, [o EXCEPT !.len = r.o])
    ELSE IF r.o = 0 THEN [r EXCEPT !.o = [o EXCEPT !.len = 0]]
    ELSE With(IntoBytes(op, r.x, o.data, r.o, r.o), LAMBDA b :
           [b EXCEPT !.o = [len |-> r.o, data |-> @]]))

xdr_netobj(op, s, o) == xdr_bytes(op, s, o, MaxNetobj)

\* A string is a pointer to its bytes, the terminating zero not counted.
strlen(p) == LET zeros == {i \in DOMAIN p.to : p.to[i] = 0}
             IN  IF zeros = {} THEN Len(p.to) ELSE Min(zeros) - 1

xdr_string(op, s, p, maxsize) ==
  IF op # "DECODE" /\ p = NULL THEN Result(op = "FREE", s, p)
  ELSE IF op = "FREE" /\ p = Dangling THEN Result(TRUE, Free(s, p), p)
  ELSE With(xdr_u_int(op, s, IF op = "DECODE" THEN 0 ELSE strlen(p)), LAMBDA size :
         IF ~size.ok \/ TooLong(size.o, maxsize) \/ size.o = UINT_MAX
         THEN Result(FALSE, size.x, p)
         ELSE IF op = "FREE" THEN Result(TRUE, Free(s, p), Freed(p))
         ELSE IntoBytes(op, size.x, p, size.o, size.o))

xdr_wrapstring(op, s, p) == xdr_string(op, s, p, LASTUNSIGNED)

-----------------------------------------------------------------------------
(* Compound objects                                                        *)

(***************************************************************************)
(* A type is a sequence of the name of its filter and the parameters:      *)
(*   <<"int">>, <<"bytes", maxsize>>, <<"string", maxsize>>,               *)
(*   <<"array", maxsize, elsize, T>>, <<"vector", nelem, T>>,              *)
(*   <<"reference", T>>, <<"pointer", T>>, <<"union", arms, dfault>>,      *)
(*   <<"struct", T, ...>>, <<"list">>.                                     *)
(* A struct stands for the code that rpcgen generates: its fields in       *)
(* order, up to the first that fails.  A list is a struct of a short and a *)
(* pointer to another list.                                                *)
(***************************************************************************)
RECURSIVE Filter(_, _, _, _)

List == <<"struct", <<"short">>, <<"pointer", <<"list">> >> >>

\* The object that zeroed memory is.  The arm of a union that has not been
\* selected yet is NULL.
RECURSIVE Zeroed(_)
Zeroed(T) ==
  CASE T[1] \in {"bytes", "netobj", "array"} -> [len |-> 0, data |-> NULL]
    [] T[1] \in {"string", "wrapstring", "reference", "pointer"} -> NULL
    [] T[1] = "vector" -> [i \in 1 .. T[2] |-> Zeroed(T[3])]
    [] T[1] = "union" -> [disc |-> 0, arm |-> NULL]
    [] T[1] = "struct" -> [i \in 1 .. Len(T) - 1 |-> Zeroed(T[i + 1])]
    [] T[1] = "list" -> Zeroed(List)
    [] OTHER -> 0

\* Objects o[i], o[i + 1], ... one after the other, as long as all is well.
RECURSIVE Each(_, _, _, _, _)
Each(Types, op, s, o, i) ==
  IF i > Len(o)
  THEN Result(TRUE, s, o)
  ELSE Then(With(Filter(Types[i], op, s, o[i]), LAMBDA r : [r EXCEPT !.o = [o EXCEPT ![i] = r.o]]),
            LAMBDA r : Each(Types, op, r.x, r.o, i + 1))

\* Elements of the same type.
Elements(T, op, s, o) == Each([i \in DOMAIN o |-> T], op, s, o, 1)

xdr_vector(op, s, o, T) == Elements(T, op, s, o)

\* The count of an object is the number of elements it has memory for: memory
\* comes zeroed from calloc(), also to the first XDR_DECODE.  Elements after
\* one that fails are not touched, by XDR_FREE neither.
xdr_array(op, s, o, maxsize, elsize, T) ==
  With(xdr_u_int(op, s, o.len), LAMBDA c :
    IF ~c.ok \/ (op # "FREE" /\ (TooLong(c.o, maxsize) \/ c.o > UINT_MAX \div elsize))
    THEN Result(FALSE, c.x, [o EXCEPT !.len = c.o])
    ELSE IF o.data = NULL /\ (op = "FREE" \/ c.o = 0)
    THEN Result(TRUE, c.x, [o EXCEPT !.len = c.o])
    ELSE IF op = "FREE" /\ o.data = Dangling THEN Result(TRUE, Free(s, o.data), o)
    ELSE With(IF o.data = NULL THEN Alloc(c.x, [i \in 1 .. c.o |-> Zeroed(T)])
              ELSE Result(TRUE, c.x, o.data), LAMBDA a :
      IF ~a.ok THEN Result(FALSE, a.x, [o EXCEPT !.len = c.o])
      ELSE With(Elements(T, op, a.x, a.o.to), LAMBDA r :
        IF op = "FREE"
        THEN Result(r.ok, Free(r.x, o.data), [o EXCEPT !.data = Freed(@)])
        ELSE [r EXCEPT !.o = [len |-> c.o, data |-> Pointer(@)]])))

xdr_reference(op, s, p, T) ==
  IF p = NULL /\ op = "FREE" THEN Result(TRUE, s, p)
  ELSE IF p = NULL /\ op = "ENCODE" THEN Result(FALSE, xdr_abort(s), p)
  ELSE IF op = "FREE" /\ p = Dangling THEN Result(TRUE, Free(s, p), p)
  ELSE Then(IF p = NULL THEN Alloc(s, Zeroed(T)) ELSE Result(TRUE, s, p), LAMBDA a :
         With(Filter(T, op, a.x, a.o.to), LAMBDA r :
           IF op = "FREE" THEN Result(r.ok, Free(r.x, p), Freed(p))
           ELSE [r EXCEPT !.o = Pointer(@)]))

xdr_pointer(op, s, p, T) ==
  With(xdr_bool(op, s, IF p # NULL THEN 1 ELSE 0), LAMBDA more_data :
    IF ~more_data.ok THEN [more_data EXCEPT !.o = p]
    ELSE IF more_data.o = 0 THEN Result(TRUE, more_data.x, NULL)
    ELSE xdr_reference(op, more_data.x, p, T))

\* arms gives the type for each value of the discriminant in choices, dfault the
\* one for the others, or NULL if there is none.
xdr_union(op, s, o, arms, dfault) ==
  With(xdr_enum(op, s, o.disc), LAMBDA d :
    LET T == IF d.o \in DOMAIN arms THEN arms[d.o] ELSE dfault
    IN  IF ~d.ok \/ T = NULL
        THEN Result(FALSE, d.x, [o EXCEPT !.disc = d.o])
        ELSE With(Filter(T, op, d.x, IF o.arm = NULL THEN Zeroed(T) ELSE o.arm),
                  LAMBDA r : [r EXCEPT !.o = [disc |-> d.o, arm |-> @]]))

Filter(T, op, s, o) ==
  CASE T[1] = "void" -> Result(TRUE, s, o)
    [] T[1] = "int" -> xdr_int(op, s, o)
    [] T[1] = "u_int" -> xdr_u_int(op, s, o)
    [] T[1] = "long" -> xdr_long(op, s, o)
    [] T[1] = "u_long" -> xdr_u_long(op, s, o)
    [] T[1] = "hyper" -> xdr_hyper(op, s, o)
    [] T[1] = "u_hyper" -> xdr_u_hyper(op, s, o)
    [] T[1] = "longlong_t" -> xdr_longlong_t(op, s, o)
    [] T[1] = "u_longlong_t" -> xdr_u_longlong_t(op, s, o)
    [] T[1] = "short" -> xdr_short(op, s, o)
    [] T[1] = "u_short" -> xdr_u_short(op, s, o)
    [] T[1] = "char" -> xdr_char(op, s, o)
    [] T[1] = "u_char" -> xdr_u_char(op, s, o)
    [] T[1] = "bool" -> xdr_bool(op, s, o)
    [] T[1] = "enum" -> xdr_enum(op, s, o)
    [] T[1] = "int64_t" -> xdr_int64_t(op, s, o)
    [] T[1] = "uint64_t" -> xdr_uint64_t(op, s, o)
    [] T[1] = "int32_t" -> xdr_int32_t(op, s, o)
    [] T[1] = "uint32_t" -> xdr_uint32_t(op, s, o)
    [] T[1] = "int16_t" -> xdr_int16_t(op, s, o)
    [] T[1] = "uint16_t" -> xdr_uint16_t(op, s, o)
    [] T[1] = "int8_t" -> xdr_int8_t(op, s, o)
    [] T[1] = "uint8_t" -> xdr_uint8_t(op, s, o)
    [] T[1] = "bytes" -> xdr_bytes(op, s, o, T[2])
    [] T[1] = "netobj" -> xdr_netobj(op, s, o)
    [] T[1] = "string" -> xdr_string(op, s, o, T[2])
    [] T[1] = "wrapstring" -> xdr_wrapstring(op, s, o)
    [] T[1] = "array" -> xdr_array(op, s, o, T[2], T[3], T[4])
    [] T[1] = "vector" -> xdr_vector(op, s, o, T[3])
    [] T[1] = "reference" -> xdr_reference(op, s, o, T[2])
    [] T[1] = "pointer" -> xdr_pointer(op, s, o, T[2])
    [] T[1] = "union" -> xdr_union(op, s, o, T[2], T[3])
    [] T[1] = "struct" -> Each(Tail(T), op, s, o, 1)
    [] T[1] = "list" -> Filter(List, op, s, o)

xdr_free(T, s, o) == Filter(T, "FREE", s, o)

xdr_sizeof(T, o) ==
  With(Filter(T, "ENCODE", SizeStream, o), LAMBDA r : IF r.ok THEN r.x.handy ELSE 0)

-----------------------------------------------------------------------------
(* A message: encoded, delivered whole, in part or damaged, decoded into   *)
(* zeroed memory, and freed                                                *)

Type == Cases[case].type
Sent == Cases[case].object

Outcome(r, next) ==
  /\ x' = r.x
  /\ ok' = r.ok
  /\ phase' = IF r.x.aborted THEN "aborted" ELSE next

\* XDR_SETPOS(xdrs, 0), the filter, and XDR_GETPOS(xdrs) for the length.
Encode ==
  /\ phase = "idle"
  /\ \E r \in {Filter(Type, "ENCODE", XDR_SETPOS(x, 0).x, Sent)} :
       /\ Outcome(r, IF r.ok THEN "encoded" ELSE "refused")
       /\ wire' = SubSeq(r.x.base, 1, XDR_GETPOS(r.x))
  /\ UNCHANGED <<xdr_failfast, case, obj, intact>>

\* The receiver has a stream of the same kind; mem of its allocations will
\* succeed.
Deliver(bytes, mem) ==
  /\ phase = "encoded"
  /\ phase' = "delivered"
  /\ x' = IF x.ops = "mem" THEN xdrmem_create(bytes, mem) ELSE xdrstdio_create(bytes, 0, mem)
  /\ intact' = (bytes = wire)
  /\ obj' = Zeroed(Type)
  /\ UNCHANGED <<xdr_failfast, case, ok, wire>>

DeliverWhole(mem) == Deliver(wire, mem)
DeliverPart(len, mem) == Deliver(SubSeq(wire, 1, len), mem)
DeliverDamaged(i, byte, mem) == Deliver([wire EXCEPT ![i] = byte], mem)

Decode ==
  /\ phase = "delivered"
  /\ \E r \in {Filter(Type, "DECODE", x, obj)} : Outcome(r, "decoded") /\ obj' = r.o
  /\ UNCHANGED <<xdr_failfast, case, wire, intact>>

\* SVC_FREEARGS() or xdr_free(); a second time must be harmless.
FreeObject ==
  /\ phase \in {"decoded", "freed"}
  /\ \E r \in {xdr_free(Type, x, obj)} : Outcome(r, "freed") /\ obj' = r.o
  /\ UNCHANGED <<xdr_failfast, case, wire, intact>>

\* What xdrstdio_getlong() makes of a negative long is positive: whether longs go
\* through a file is a parameter.
Init ==
  /\ xdr_failfast \in BOOLEAN
  /\ phase = "idle"
  /\ case \in DOMAIN Cases
  /\ \E n \in 0 .. MaxBuf :
       \/ x = xdrmem_create([i \in 1 .. n |-> 0], 0)
       \/ (Type[1] = "long" => LongsOnFile) /\ x = xdrstdio_create(<<>>, n, 0)
  /\ obj = NULL
  /\ ok = TRUE
  /\ wire = <<>>
  /\ intact = TRUE

Next ==
  \/ Encode
  \/ \E mem \in 0 .. MaxMem :
       \/ DeliverWhole(mem)
       \/ \E len \in 0 .. Len(wire) - 1 : DeliverPart(len, mem)
       \/ \E i \in DOMAIN wire, byte \in 0 .. Base - 1 : DeliverDamaged(i, byte, mem)
  \/ Decode
  \/ FreeObject

Spec == Init /\ [][Next]_vars

-----------------------------------------------------------------------------
(* Properties                                                              *)

\* The stream is at a byte of its buffer or file, or at the end, and x_handy is
\* what is left of a buffer.
XdrTypeOK ==
  /\ {xdr_failfast, ok, intact} \subseteq BOOLEAN
  /\ phase \in {"idle", "encoded", "refused", "delivered", "decoded", "freed", "aborted"}
  /\ case \in DOMAIN Cases
  /\ wire \in Seq(0 .. Base - 1)
  /\ x.base \in Seq(0 .. Base - 1)
  /\ x.private \in 0 .. Len(x.base) /\ x.room \in 0 .. MaxBuf
  /\ x.handy = IF x.ops = "mem" THEN Len(x.base) - x.private ELSE 0
  /\ x.mem \in 0 .. MaxMem /\ x.live \in 0 .. MaxMem

SignedRange(w) == -(Base^w \div 2) .. Base^w \div 2 - 1
UnsignedRange(w) == 0 .. Base^w - 1

\* The objects that can be sent as a T.
RECURSIVE Legal(_, _)
Legal(T, o) ==
  CASE T[1] = "void" -> TRUE
    [] T[1] \in {"int", "long", "enum", "int32_t"} -> o \in SignedRange(Unit)
    [] T[1] \in {"u_int", "u_long", "uint32_t"} -> o \in UnsignedRange(Unit)
    [] T[1] \in {"hyper", "longlong_t", "int64_t"} -> o \in SignedRange(2 * Unit)
    [] T[1] \in {"u_hyper", "u_longlong_t", "uint64_t"} -> o \in UnsignedRange(2 * Unit)
    [] T[1] \in {"short", "char", "int16_t", "int8_t"} -> o \in SignedRange(1)
    [] T[1] \in {"u_short", "u_char", "uint16_t", "uint8_t"} -> o \in UnsignedRange(1)
    [] T[1] = "bool" -> o \in {0, 1}
    [] T[1] \in {"bytes", "netobj"} ->
         /\ o.len <= IF T[1] = "bytes" THEN T[2] ELSE MaxNetobj
         /\ o.len # 0 => Len(o.data.to) = o.len
    [] T[1] \in {"string", "wrapstring"} ->
         o # NULL /\ strlen(o) <= IF T[1] = "string" THEN T[2] ELSE UINT_MAX - 1
    [] T[1] = "array" ->
         /\ o.len <= T[2] /\ o.len * T[3] <= UINT_MAX
         /\ o.len # 0 => Len(o.data.to) = o.len /\ \A i \in 1 .. o.len : Legal(T[4], o.data.to[i])
    [] T[1] = "vector" -> \A i \in 1 .. T[2] : Legal(T[3], o[i])
    [] T[1] = "reference" -> o # NULL /\ Legal(T[2], o.to)
    [] T[1] = "pointer" -> o = NULL \/ Legal(T[2], o.to)
    [] T[1] = "union" ->
         /\ o.disc \in SignedRange(Unit)
         /\ IF o.disc \in DOMAIN T[2] THEN Legal(T[2][o.disc], o.arm)
            ELSE T[3] # NULL /\ Legal(T[3], o.arm)
    [] T[1] = "struct" -> \A i \in 1 .. Len(T) - 1 : Legal(T[i + 1], o[i])
    [] T[1] = "list" -> Legal(List, o)

(***************************************************************************)
(* What is encoded and arrives whole is decoded to the same object, with   *)
(* nothing left over, unless an allocation fails.  This is what makes the  *)
(* ENCODE and the DECODE branch of each filter one format: widths, signs,  *)
(* padding, counts and the order of the fields.                            *)
(***************************************************************************)
RoundTrip ==
  phase = "decoded" /\ intact =>
    IF ok THEN obj = Sent /\ x.private = Len(x.base) ELSE x.mem = 0

(***************************************************************************)
(* xdr_sizeof() is the number of bytes that encoding takes, a multiple of  *)
(* the unit: a buffer or a file of that size is enough, and a smaller one  *)
(* is not overrun but refused.  An object that its type does not allow is  *)
(* refused by both.                                                        *)
(***************************************************************************)
SizeofExact ==
  phase \in {"encoded", "refused"} =>
    \E size \in {xdr_sizeof(Type, Sent)} :
      IF Legal(Type, Sent)
      THEN /\ ok <=> size <= Len(x.base) + x.room
           /\ ok => Len(wire) = size /\ size % Unit = 0
      ELSE ~ok /\ size = 0

(***************************************************************************)
(* Whatever the bytes are, a decoded object is one that its type allows:   *)
(* counts within maxsize and with memory for as many elements, a known     *)
(* discriminant, numbers of the width they are stored in.                  *)
(***************************************************************************)
DecodedIsLegal == phase = "decoded" /\ ok => Legal(Type, obj)

(***************************************************************************)
(* XDR_FREE after XDR_DECODE frees every block, once, wherever decoding    *)
(* has stopped: at a missing byte, at a count too large, at an unknown     *)
(* discriminant, or at an allocation that failed.  Done twice it is        *)
(* harmless.                                                               *)
(***************************************************************************)
FreeReleasesAll == phase = "freed" => x.live = 0 /\ ~x.wild

=============================================================================
