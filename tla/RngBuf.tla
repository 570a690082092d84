------------------------------- MODULE RngBuf -------------------------------
(***************************************************************************)
(* The ring buffer of utilities/source/rngbuf.c with one producer and one  *)
(* consumer that are not synchronised, as its code is made for: in is      *)
(* written by the producer only and out by the consumer only, and each     *)
(* looks at the index of the other once.  One byte of the buffer stays     *)
(* unused.                                                                 *)
(*                                                                         *)
(* The steps of a call are its reads of the other's index, the copy of     *)
(* each byte, and the write of its own index; they take effect in the      *)
(* order of the source, which the plain ints of struct rngbuf promise on   *)
(* one core only.  rngbuf_flush writes both indices: it is a call for a    *)
(* moment when neither side is at work.                                    *)
(***************************************************************************)
EXTENDS Integers, Sequences

CONSTANTS
  Byte,       \* the values of a byte
  Size,       \* size of rngbuf_init
  MaxBytes    \* bound: the longest put or get

ASSUME RngBufAssumption ==
  /\ Size \in Nat \ {0} /\ MaxBytes \in Nat /\ Byte # {}

Cells  == 0 .. Size - 1
Inputs == UNION {[1 .. n -> Byte] : n \in 0 .. MaxBytes}

VARIABLES
  in, out,    \* the indices of struct rngbuf
  cell,       \* [Cells -> Byte]: buf
  putPc,      \* the producer: "idle", "copy"
  data,       \* p_buf of its call
  put,        \* bytes it will put
  putDone,    \* bytes it has copied
  getPc,      \* the consumer: "idle", "copy"
  get,        \* bytes it will get
  local,      \* bytes it has copied
  result      \* bytes its last call returned

producer == <<in, putPc, data, put, putDone>>
consumer == <<out, getPc, get, local, result>>
vars == <<in, out, cell, putPc, data, put, putDone, getPc, get, local, result>>

-----------------------------------------------------------------------------
(* The arithmetic of the indices.                                          *)

Least(n, m) == IF n <= m THEN n ELSE m

\* An index that has reached the end starts again.
Wrap(n) == IF n >= Size THEN n - Size ELSE n

\* rngbuf_nbytes, rngbuf_freebytes, rngbuf_isempty, rngbuf_isfull.
NBytes    == IF in - out < 0 THEN in - out + Size ELSE in - out
FreeBytes == IF out - in - 1 < 0 THEN out - in - 1 + Size ELSE out - in - 1
IsEmpty   == in = out

\* Mutant: the buffer that fills up before the end is not seen.
IsFullWrapOnly == in - out + 1 = 0

IsFull    == in - out + 1 = 0 \/ in - out + 1 = Size

\* Mutant: after the wrap the bytes go up to out.
PutCountTouching(n) ==
  IF out > in THEN Least(n, out - in - 1)
  ELSE IF out = 0 THEN Least(n, Size - in - 1)
  ELSE IF n < Size - in THEN n ELSE Size - in + Least(n - (Size - in), out)

\* The bytes rngbuf_put moves: up to one before out, up to one before the end,
\* or up to the end and then up to one before out.
PutCount(n) ==
  IF out > in THEN Least(n, out - in - 1)
  ELSE IF out = 0 THEN Least(n, Size - in - 1)
  ELSE IF n < Size - in THEN n ELSE Size - in + Least(n - (Size - in), out - 1)

\* rngbuf_putchar looks at out twice when in is at the last cell; there the
\* first test holds for each out, so that the second look is the one that counts.
PutCharCount == IF in = Size - 1 THEN (IF out = 0 THEN 0 ELSE 1)
                ELSE IF in = out - 1 THEN 0 ELSE 1

\* The bytes rngbuf_get moves: up to in, or up to the end and then up to in.
GetCount(n) ==
  IF in >= out THEN Least(n, in - out)
  ELSE IF n < Size - out THEN n ELSE Size - out + Least(n - (Size - out), in)

GetCharCount == IF out = in THEN 0 ELSE 1

-----------------------------------------------------------------------------
(* The producer.                                                           *)

\* The producer looks at out and decides on the first n bytes of s.
PutLook(s, n) ==
  /\ putPc = "idle"
  /\ data' = s /\ put' = n /\ putDone' = 0
  /\ putPc' = IF n = 0 THEN "idle" ELSE "copy"
  /\ UNCHANGED <<in, cell, consumer>>

PutBytes(s) == PutLook(s, PutCount(Len(s)))
PutChar(b)  == PutLook(<<b>>, PutCharCount)

\* rngbuf_put_ahead for each byte: its caller has asked rngbuf_freebytes.
PutAhead(s) == Len(s) <= FreeBytes /\ PutLook(s, Len(s))

PutCopy ==
  /\ putPc = "copy" /\ putDone < put
  /\ cell' = [cell EXCEPT ![Wrap(in + putDone)] = data[putDone + 1]]
  /\ putDone' = putDone + 1
  /\ UNCHANGED <<in, putPc, data, put, consumer>>

\* Mutant: the index is written before the bytes.
PutIndexEarly ==
  /\ putPc = "copy" /\ putDone = 0
  /\ in' = Wrap(in + put)
  /\ putPc' = "idle"
  /\ UNCHANGED <<cell, data, put, putDone, consumer>>

\* rb->in is written; rngbuf_move_ahead does this and no more.
PutIndex ==
  /\ putPc = "copy" /\ putDone = put
  /\ in' = Wrap(in + put)
  /\ putPc' = "idle"
  /\ UNCHANGED <<cell, data, put, putDone, consumer>>

-----------------------------------------------------------------------------
(* The consumer.                                                           *)

\* The consumer looks at in and decides on n bytes.
GetLook(n) ==
  /\ getPc = "idle"
  /\ get' = n /\ local' = <<>>
  /\ getPc' = IF n = 0 THEN "idle" ELSE "copy"
  /\ UNCHANGED <<out, result, cell, producer>>

GetCopy ==
  /\ getPc = "copy" /\ Len(local) < get
  /\ local' = Append(local, cell[Wrap(out + Len(local))])
  /\ UNCHANGED <<out, getPc, get, result, cell, producer>>

\* Mutant: an index at the end is not set back.
GetIndexNoWrap ==
  /\ getPc = "copy" /\ Len(local) = get
  /\ out' = out + get
  /\ result' = local
  /\ getPc' = "idle"
  /\ UNCHANGED <<get, local, cell, producer>>

GetIndex ==
  /\ getPc = "copy" /\ Len(local) = get
  /\ out' = Wrap(out + get)
  /\ result' = local
  /\ getPc' = "idle"
  /\ UNCHANGED <<get, local, cell, producer>>

Flush ==
  /\ putPc = "idle" /\ getPc = "idle"
  /\ in' = 0 /\ out' = 0
  /\ UNCHANGED <<cell, putPc, data, put, putDone, getPc, get, local, result>>

-----------------------------------------------------------------------------
Init ==
  /\ in = 0 /\ out = 0
  /\ cell \in [Cells -> Byte]
  /\ putPc = "idle" /\ data = <<>> /\ put = 0 /\ putDone = 0
  /\ getPc = "idle" /\ get = 0 /\ local = <<>> /\ result = <<>>

Producer ==
  \/ \E s \in Inputs : PutBytes(s) \/ PutAhead(s)
  \/ \E b \in Byte : PutChar(b)
  \/ PutCopy \/ PutIndex

Consumer ==
  \/ \E n \in 0 .. MaxBytes : GetLook(GetCount(n))
  \/ GetLook(GetCharCount)
  \/ GetCopy \/ GetIndex

Next == Producer \/ Consumer \/ Flush

Spec == Init /\ [][Next]_vars

-----------------------------------------------------------------------------
(* Properties.                                                             *)

TypeOK ==
  /\ in \in Cells /\ out \in Cells
  /\ cell \in [Cells -> Byte]
  /\ putPc \in {"idle", "copy"} /\ getPc \in {"idle", "copy"}
  /\ data \in Seq(Byte) /\ put \in 0 .. Len(data) /\ putDone \in 0 .. put
  /\ get \in Nat /\ local \in Seq(Byte) /\ Len(local) <= get
  /\ result \in Seq(Byte)

\* The four questions agree with each other, and with the cases of the four
\* calls, which come to "as much as is free" and "as much as there is".
CountsAgree ==
  /\ NBytes + FreeBytes = Size - 1
  /\ IsEmpty <=> NBytes = 0
  /\ IsFull <=> FreeBytes = 0
  /\ PutCharCount = Least(1, FreeBytes) /\ GetCharCount = Least(1, NBytes)
  /\ \A n \in 0 .. MaxBytes :
       PutCount(n) = Least(n, FreeBytes) /\ GetCount(n) = Least(n, NBytes)

\* The two sides never touch the same cell, although neither waits for the
\* other: the cells the producer fills lie outside those that are full.
NoOverlap ==
  /\ putPc = "copy" =>
       \A j \in 0 .. put - 1, k \in 0 .. NBytes - 1 : Wrap(in + j) # Wrap(out + k)
  /\ getPc = "copy" => get <= NBytes

\* The buffer is a queue: every byte that a put counted comes out once, whole
\* and in order, however the steps of the two sides meet.
Queue    == [k \in 1 .. NBytes |-> cell[Wrap(out + k - 1)]]
Accepted == IF putPc = "copy" THEN SubSeq(data, 1, put) ELSE <<>>
Wanted   == IF getPc = "copy" THEN get ELSE 0
Fifo == INSTANCE BoundedFifo WITH Capacity <- Size - 1, queue <- Queue,
          accepted <- Accepted, wanted <- Wanted, taken <- result
ImplementsFifo == Fifo!Spec

=============================================================================
