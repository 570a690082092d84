---------------------------- MODULE RngBufProofs ----------------------------
(***************************************************************************)
(* Proofs about RngBuf for every size and every set of bytes.  They rest   *)
(* on one invariant: what each side has decided to move still fits when it *)
(* writes its index, because the other side can only make more room, and   *)
(* the bytes copied so far are where the indices say they are.             *)
(***************************************************************************)
EXTENDS RngBuf, SequenceTheorems, TLAPS

Fits ==
  /\ putPc = "copy" => put <= FreeBytes
  /\ getPc = "copy" => get <= NBytes

Copied ==
  /\ putPc = "copy" => \A j \in 0 .. putDone - 1 : cell[Wrap(in + j)] = data[j + 1]
  /\ getPc = "copy" =>
       \A j \in 0 .. Len(local) - 1 : local[j + 1] = cell[Wrap(out + j)]

BufInv == TypeOK /\ Fits /\ Copied

-----------------------------------------------------------------------------
(* The arithmetic of the indices.                                          *)

LEMMA SizeFacts == Size \in Nat /\ Size > 0 /\ MaxBytes \in Nat
  BY RngBufAssumption

LEMMA CountFacts ==
  ASSUME in \in Cells, out \in Cells
  PROVE  /\ NBytes \in 0 .. Size - 1 /\ FreeBytes \in 0 .. Size - 1
         /\ NBytes + FreeBytes = Size - 1
         /\ IsEmpty <=> NBytes = 0
         /\ IsFull <=> FreeBytes = 0
  BY SizeFacts DEF Cells, NBytes, FreeBytes, IsEmpty, IsFull

LEMMA CallFacts ==
  ASSUME in \in Cells, out \in Cells
  PROVE  /\ PutCharCount = Least(1, FreeBytes)
         /\ GetCharCount = Least(1, NBytes)
         /\ \A n \in Nat : /\ PutCount(n) = Least(n, FreeBytes)
                           /\ GetCount(n) = Least(n, NBytes)
<1>1. PutCharCount = Least(1, FreeBytes)
  BY SizeFacts DEF Cells, FreeBytes, Least, PutCharCount
<1>2. GetCharCount = Least(1, NBytes)
  BY SizeFacts DEF Cells, NBytes, Least, GetCharCount
<1>3. ASSUME NEW n \in Nat PROVE PutCount(n) = Least(n, FreeBytes)
  BY SizeFacts DEF Cells, FreeBytes, Least, PutCount
<1>4. ASSUME NEW n \in Nat PROVE GetCount(n) = Least(n, NBytes)
  BY SizeFacts DEF Cells, NBytes, Least, GetCount
<1> QED
  BY <1>1, <1>2, <1>3, <1>4

\* The four questions and the four calls agree (rngbuf.h).
THEOREM Counting == in \in Cells /\ out \in Cells => CountsAgree
  BY CountFacts, CallFacts, SizeFacts DEF CountsAgree

LEMMA WrapType == \A n \in 0 .. 2 * Size - 1 : Wrap(n) \in Cells
  BY SizeFacts DEF Wrap, Cells

\* The cells that are free and the cells that are full.
LEMMA FreeIsNotFull ==
  ASSUME in \in Cells, out \in Cells,
         NEW j \in 0 .. FreeBytes - 1, NEW k \in 0 .. NBytes - 1
  PROVE  Wrap(in + j) # Wrap(out + k)
  BY SizeFacts DEF Cells, Wrap, NBytes, FreeBytes

LEMMA FreeIsFree ==
  ASSUME in \in Cells, NEW j \in 0 .. Size - 1, NEW k \in 0 .. Size - 1, j # k
  PROVE  Wrap(in + j) # Wrap(in + k)
  BY SizeFacts DEF Cells, Wrap

\* What the writes of the two indices do to the counts.
LEMMA AfterPutIndex ==
  ASSUME in \in Cells, out \in Cells, NEW n \in 0 .. FreeBytes,
         in' = Wrap(in + n), out' = out
  PROVE  in' \in Cells /\ NBytes' = NBytes + n /\ FreeBytes' = FreeBytes - n
  BY SizeFacts DEF Cells, Wrap, NBytes, FreeBytes

LEMMA AfterGetIndex ==
  ASSUME in \in Cells, out \in Cells, NEW n \in 0 .. NBytes,
         out' = Wrap(out + n), in' = in
  PROVE  out' \in Cells /\ NBytes' = NBytes - n /\ FreeBytes' = FreeBytes + n
  BY SizeFacts DEF Cells, Wrap, NBytes, FreeBytes

-----------------------------------------------------------------------------
(* The invariant.                                                          *)

LEMMA BufInit == Init => BufInv
<1> SUFFICES ASSUME Init PROVE BufInv
  OBVIOUS
<1>1. TypeOK
  BY SizeFacts DEF Init, TypeOK, Cells
<1> QED
  BY <1>1 DEF Init, BufInv, Fits, Copied

LEMMA CellFacts ==
  ASSUME TypeOK
  PROVE  in \in Cells /\ out \in Cells /\ cell \in [Cells -> Byte]
  BY DEF TypeOK

\* Both decisions fit, whichever call makes them.
LEMMA PutLookStep ==
  ASSUME BufInv, NEW s \in Seq(Byte), NEW n \in 0 .. Len(s), PutLook(s, n),
         n <= FreeBytes
  PROVE  BufInv'
<1> USE DEF PutLook, consumer
<1>1. TypeOK'
  BY DEF BufInv, TypeOK
<1>2. FreeBytes' = FreeBytes /\ NBytes' = NBytes
  BY DEF FreeBytes, NBytes
<1>3. Fits'
  BY <1>2 DEF BufInv, Fits
<1>4. Copied'
  BY DEF BufInv, Copied, TypeOK, Wrap
<1> QED
  BY <1>1, <1>3, <1>4 DEF BufInv

LEMMA GetLookStep ==
  ASSUME BufInv, NEW n \in Nat, GetLook(n), n <= NBytes
  PROVE  BufInv'
<1> USE DEF GetLook, producer
<1>1. TypeOK'
  BY DEF BufInv, TypeOK
<1>2. FreeBytes' = FreeBytes /\ NBytes' = NBytes
  BY DEF FreeBytes, NBytes
<1>3. Fits'
  BY <1>2 DEF BufInv, Fits
<1>4. Copied'
  BY DEF BufInv, Copied, TypeOK, Wrap
<1> QED
  BY <1>1, <1>3, <1>4 DEF BufInv

LEMMA PutCopyStep == BufInv /\ PutCopy => BufInv'
<1> SUFFICES ASSUME BufInv, PutCopy PROVE BufInv'
  OBVIOUS
<1> USE DEF PutCopy, consumer
<1>1. TypeOK /\ in \in Cells /\ out \in Cells /\ cell \in [Cells -> Byte]
  BY DEF BufInv, TypeOK
<1>2. putDone \in 0 .. FreeBytes - 1 /\ FreeBytes \in 0 .. Size - 1
  BY <1>1, CountFacts DEF BufInv, Fits, TypeOK
<1>3. Wrap(in + putDone) \in Cells
  BY <1>1, <1>2, WrapType, SizeFacts DEF Cells
<1>4. TypeOK'
  BY <1>1, <1>3 DEF TypeOK
<1>5. FreeBytes' = FreeBytes /\ NBytes' = NBytes
  BY DEF FreeBytes, NBytes
<1>6. Fits'
  BY <1>5 DEF BufInv, Fits
<1>7. ASSUME NEW j \in 0 .. putDone PROVE cell'[Wrap(in + j)] = data[j + 1]
  <2>1. CASE j = putDone
    BY <1>1, <1>3, <2>1
  <2>2. CASE j # putDone
    <3>1. j \in 0 .. putDone - 1 /\ j \in 0 .. Size - 1 /\ putDone \in 0 .. Size - 1
      BY <1>1, <1>2, <2>2, SizeFacts DEF TypeOK
    <3>2. Wrap(in + j) # Wrap(in + putDone) /\ Wrap(in + j) \in Cells
      BY <1>1, <2>2, <3>1, FreeIsFree, WrapType, SizeFacts DEF Cells
    <3>3. cell[Wrap(in + j)] = data[j + 1]
      BY <3>1 DEF BufInv, Copied
    <3> QED
      BY <1>1, <3>2, <3>3
  <2> QED
    BY <2>1, <2>2
<1>8. ASSUME getPc = "copy", NEW j \in 0 .. Len(local) - 1
      PROVE  local[j + 1] = cell'[Wrap(out + j)]
  <2>1. j \in 0 .. NBytes - 1 /\ NBytes \in 0 .. Size - 1
    BY <1>1, <1>8, CountFacts DEF BufInv, Fits, TypeOK
  <2>2. Wrap(in + putDone) # Wrap(out + j)
    BY <1>1, <1>2, <2>1, FreeIsNotFull
  <2>3. Wrap(out + j) \in Cells
    BY <1>1, <2>1, WrapType, SizeFacts DEF Cells
  <2>4. local[j + 1] = cell[Wrap(out + j)]
    BY <1>8 DEF BufInv, Copied
  <2> QED
    BY <1>1, <2>2, <2>3, <2>4
<1>9. Copied'
  <2>1. putPc' = "copy" => \A j \in 0 .. putDone' - 1 : (cell[Wrap(in + j)] = data[j + 1])'
    BY <1>1, <1>7 DEF TypeOK, Wrap
  <2>2. getPc' = "copy" =>
          \A j \in 0 .. Len(local') - 1 : (local[j + 1] = cell[Wrap(out + j)])'
    BY <1>8 DEF Wrap
  <2> QED
    BY <2>1, <2>2 DEF Copied
<1> QED
  BY <1>4, <1>6, <1>9 DEF BufInv

LEMMA PutIndexStep == BufInv /\ PutIndex => BufInv'
<1> SUFFICES ASSUME BufInv, PutIndex PROVE BufInv'
  OBVIOUS
<1> USE DEF PutIndex, consumer
<1>1. TypeOK /\ in \in Cells /\ out \in Cells
  BY DEF BufInv, TypeOK
<1>2. put \in 0 .. FreeBytes /\ NBytes \in Nat /\ FreeBytes \in Nat
  BY <1>1, CountFacts DEF BufInv, Fits, TypeOK
<1>3. in' \in Cells /\ NBytes' = NBytes + put
  BY <1>1, <1>2, AfterPutIndex
<1>4. TypeOK'
  BY <1>1, <1>3 DEF TypeOK
<1>5. Fits'
  BY <1>2, <1>3 DEF BufInv, Fits, TypeOK
<1>6. Copied'
  BY DEF BufInv, Copied, Wrap
<1> QED
  BY <1>4, <1>5, <1>6 DEF BufInv

LEMMA GetCopyStep == BufInv /\ GetCopy => BufInv'
<1> SUFFICES ASSUME BufInv, GetCopy PROVE BufInv'
  OBVIOUS
<1> USE DEF GetCopy, producer
<1>1. /\ TypeOK /\ in \in Cells /\ out \in Cells /\ cell \in [Cells -> Byte]
      /\ local \in Seq(Byte) /\ Len(local) \in Nat
  BY DEF BufInv, TypeOK
<1>2. Len(local) \in 0 .. NBytes - 1 /\ NBytes \in 0 .. Size - 1
  BY <1>1, CountFacts DEF BufInv, Fits, TypeOK
<1>3. Wrap(out + Len(local)) \in Cells
  BY <1>1, <1>2, WrapType, SizeFacts DEF Cells
<1>4. local' \in Seq(Byte) /\ Len(local') = Len(local) + 1
  BY <1>1, <1>3
<1>5. TypeOK'
  BY <1>1, <1>4 DEF TypeOK
<1>6. FreeBytes' = FreeBytes /\ NBytes' = NBytes
  BY DEF FreeBytes, NBytes
<1>7. Fits'
  BY <1>6 DEF BufInv, Fits
<1>8. ASSUME NEW j \in 0 .. Len(local) PROVE local'[j + 1] = cell[Wrap(out + j)]
  <2>1. CASE j = Len(local)
    BY <1>1, <2>1
  <2>2. CASE j # Len(local)
    BY <1>1, <2>2 DEF BufInv, Copied
  <2> QED
    BY <2>1, <2>2
<1>9. Copied'
  BY <1>1, <1>4, <1>8 DEF BufInv, Copied, Wrap
<1> QED
  BY <1>5, <1>7, <1>9 DEF BufInv

LEMMA GetIndexStep == BufInv /\ GetIndex => BufInv'
<1> SUFFICES ASSUME BufInv, GetIndex PROVE BufInv'
  OBVIOUS
<1> USE DEF GetIndex, producer
<1>1. TypeOK /\ in \in Cells /\ out \in Cells
  BY DEF BufInv, TypeOK
<1>2. get \in 0 .. NBytes /\ NBytes \in Nat /\ FreeBytes \in Nat
  BY <1>1, CountFacts DEF BufInv, Fits, TypeOK
<1>3. out' \in Cells /\ FreeBytes' = FreeBytes + get
  BY <1>1, <1>2, AfterGetIndex
<1>4. TypeOK'
  BY <1>1, <1>3 DEF TypeOK
<1>5. Fits'
  BY <1>2, <1>3 DEF BufInv, Fits, TypeOK
<1>6. Copied'
  BY DEF BufInv, Copied, Wrap
<1> QED
  BY <1>4, <1>5, <1>6 DEF BufInv

LEMMA FlushStep == BufInv /\ Flush => BufInv'
<1> SUFFICES ASSUME BufInv, Flush PROVE BufInv'
  OBVIOUS
<1>1. TypeOK'
  BY SizeFacts DEF BufInv, TypeOK, Flush, Cells
<1>2. Fits' /\ Copied'
  BY DEF Flush, Fits, Copied
<1> QED
  BY <1>1, <1>2 DEF BufInv

\* What the calls hand to PutLook and GetLook fits.
LEMMA LookFacts ==
  ASSUME BufInv
  PROVE  /\ \A s \in Seq(Byte) : /\ PutCount(Len(s)) \in 0 .. Len(s)
                                 /\ PutCount(Len(s)) <= FreeBytes
         /\ PutCharCount \in 0 .. 1 /\ PutCharCount <= FreeBytes
         /\ \A n \in Nat : GetCount(n) \in Nat /\ GetCount(n) <= NBytes
         /\ GetCharCount \in Nat /\ GetCharCount <= NBytes
<1>1. in \in Cells /\ out \in Cells
  BY DEF BufInv, TypeOK
<1>2. NBytes \in Nat /\ FreeBytes \in Nat
  BY <1>1, CountFacts
<1> QED
  BY <1>1, <1>2, CallFacts DEF Least

LEMMA InputType == Inputs \subseteq Seq(Byte)
  BY SizeFacts DEF Inputs

LEMMA BufStep == BufInv /\ [Next]_vars => BufInv'
<1> SUFFICES ASSUME BufInv, [Next]_vars PROVE BufInv'
  OBVIOUS
<1>1. ASSUME NEW s \in Inputs, PutBytes(s) PROVE BufInv'
  BY <1>1, InputType, LookFacts, PutLookStep DEF PutBytes
<1>2. ASSUME NEW s \in Inputs, PutAhead(s) PROVE BufInv'
  <2>1. s \in Seq(Byte) /\ Len(s) \in 0 .. Len(s)
    BY InputType
  <2> QED
    BY <1>2, <2>1, PutLookStep DEF PutAhead
<1>3. ASSUME NEW b \in Byte, PutChar(b) PROVE BufInv'
  <2>1. <<b>> \in Seq(Byte) /\ Len(<<b>>) = 1
    OBVIOUS
  <2> QED
    BY <1>3, <2>1, LookFacts, PutLookStep DEF PutChar
<1>4. ASSUME NEW n \in 0 .. MaxBytes, GetLook(GetCount(n)) PROVE BufInv'
  BY <1>4, SizeFacts, LookFacts, GetLookStep
<1>5. CASE GetLook(GetCharCount)
  BY <1>5, LookFacts, GetLookStep
<1>6. CASE UNCHANGED vars
  BY <1>6 DEF vars, BufInv, TypeOK, Fits, Copied, NBytes, FreeBytes, Wrap
<1> QED
  BY <1>1, <1>2, <1>3, <1>4, <1>5, <1>6, PutCopyStep, PutIndexStep, GetCopyStep,
     GetIndexStep, FlushStep DEF Next, Producer, Consumer

LEMMA BufCorrect == Spec => []BufInv
  BY BufInit, BufStep, PTL DEF Spec

THEOREM TypeCorrect == Spec => []TypeOK
<1>1. BufInv => TypeOK
  BY DEF BufInv
<1> QED
  BY <1>1, BufCorrect, PTL

\* isfull, isempty, nbytes and freebytes agree with what the calls move, in
\* every state that is reached.
THEOREM CountsCorrect == Spec => []CountsAgree
<1>1. BufInv => CountsAgree
  BY Counting DEF BufInv, TypeOK
<1> QED
  BY <1>1, BufCorrect, PTL

\* The two sides never touch the same cell.
THEOREM NeverOverlap == Spec => []NoOverlap
<1>1. BufInv => NoOverlap
  BY FreeIsNotFull, CountFacts DEF BufInv, Fits, NoOverlap, TypeOK
<1> QED
  BY <1>1, BufCorrect, PTL

-----------------------------------------------------------------------------
(* The buffer implements the queue.                                        *)

LEMMA QueueFacts ==
  ASSUME TypeOK
  PROVE  /\ NBytes \in 0 .. Size - 1
         /\ Queue \in Seq(Byte) /\ Len(Queue) = NBytes
         /\ \A k \in 1 .. NBytes : Queue[k] = cell[Wrap(out + k - 1)]
         /\ Accepted \in Seq(Byte)
         /\ putPc = "copy" => /\ Len(Accepted) = put
                              /\ \A k \in 1 .. put : Accepted[k] = data[k]
<1>1. in \in Cells /\ out \in Cells /\ cell \in [Cells -> Byte] /\ NBytes \in 0 .. Size - 1
  BY CellFacts, CountFacts
<1>2. \A k \in 1 .. NBytes : cell[Wrap(out + k - 1)] \in Byte
  BY <1>1, WrapType, SizeFacts DEF Cells
<1>3. Queue \in Seq(Byte) /\ Len(Queue) = NBytes
  BY <1>1, <1>2 DEF Queue
<1>4. \A k \in 1 .. NBytes : Queue[k] = cell[Wrap(out + k - 1)]
  BY DEF Queue
<1>5. /\ Accepted \in Seq(Byte)
      /\ putPc = "copy" => /\ Len(Accepted) = put
                           /\ \A k \in 1 .. put : Accepted[k] = data[k]
  BY DEF TypeOK, Accepted
<1> QED
  BY <1>1, <1>3, <1>4, <1>5

LEMMA FifoInit == Init => Fifo!Init
<1> SUFFICES ASSUME Init PROVE Fifo!Init
  OBVIOUS
<1>1. NBytes = 0
  BY DEF Init, NBytes
<1>2. Queue = <<>>
  BY <1>1 DEF Queue
<1> QED
  BY <1>2 DEF Init, Accepted, Wanted, Fifo!Init

LEMMA PutLookFifo ==
  ASSUME BufInv, NEW s \in Seq(Byte), NEW n \in 0 .. Len(s), PutLook(s, n),
         n <= FreeBytes
  PROVE  [Fifo!Next]_Fifo!vars
<1> USE DEF PutLook, consumer
<1>1. TypeOK /\ in \in Cells /\ out \in Cells
  BY DEF BufInv, TypeOK
<1>2. Queue' = Queue /\ Wanted' = Wanted /\ result' = result /\ Accepted = <<>>
  BY DEF Queue, NBytes, Wrap, Wanted, Accepted
<1>3. CASE n = 0
  <2>1. Accepted' = <<>>
    BY <1>3 DEF Accepted
  <2> QED
    BY <1>2, <2>1 DEF Fifo!vars
<1>4. CASE n # 0
  <2>1. Accepted' = SubSeq(s, 1, n)
    BY <1>4 DEF Accepted
  <2>2. Accepted' \in Seq(Byte) /\ Len(Accepted') = n
    BY <2>1
  <2>3. Len(Queue) + n <= Size - 1
    BY <1>1, QueueFacts, CountFacts
  <2> QED
    BY <1>2, <2>2, <2>3 DEF Fifo!Next, Fifo!PutBegin
<1> QED
  BY <1>3, <1>4

LEMMA GetLookFifo ==
  ASSUME BufInv, NEW n \in Nat, GetLook(n), n <= NBytes
  PROVE  [Fifo!Next]_Fifo!vars
<1> USE DEF GetLook, producer
<1>1. TypeOK
  BY DEF BufInv
<1>2. Queue' = Queue /\ Accepted' = Accepted /\ result' = result /\ Wanted = 0
  BY DEF Queue, NBytes, Wrap, Wanted, Accepted
<1>3. Wanted' = n
  BY DEF Wanted
<1>4. n \in 0 .. Len(Queue)
  BY <1>1, QueueFacts
<1> QED
  BY <1>2, <1>3, <1>4 DEF Fifo!Next, Fifo!GetBegin

LEMMA PutCopyFifo == BufInv /\ PutCopy => UNCHANGED Fifo!vars
<1> SUFFICES ASSUME BufInv, PutCopy PROVE UNCHANGED Fifo!vars
  OBVIOUS
<1> USE DEF PutCopy, consumer
<1>1. TypeOK /\ in \in Cells /\ out \in Cells /\ cell \in [Cells -> Byte]
  BY DEF BufInv, TypeOK
<1>2. putDone \in 0 .. FreeBytes - 1 /\ NBytes \in 0 .. Size - 1
  BY <1>1, CountFacts DEF BufInv, Fits, TypeOK
<1>3. NBytes' = NBytes /\ Wanted' = Wanted /\ Accepted' = Accepted
  BY DEF NBytes, Wanted, Accepted
<1>4. ASSUME NEW k \in 1 .. NBytes
      PROVE  cell'[Wrap(out + k - 1)] = cell[Wrap(out + k - 1)]
  <2>1. k - 1 \in 0 .. NBytes - 1 /\ out + (k - 1) = out + k - 1
    BY <1>1, <1>2 DEF Cells
  <2>2. Wrap(in + putDone) # Wrap(out + (k - 1))
    BY <1>1, <1>2, <2>1, FreeIsNotFull
  <2>3. Wrap(out + k - 1) \in Cells
    BY <1>1, <1>2, WrapType, SizeFacts DEF Cells
  <2> QED
    BY <1>1, <2>1, <2>2, <2>3
<1>5. Queue' = Queue
  BY <1>3, <1>4 DEF Queue, Wrap
<1> QED
  BY <1>3, <1>5 DEF Fifo!vars

LEMMA GetCopyFifo == GetCopy => UNCHANGED Fifo!vars
  BY DEF GetCopy, producer, Fifo!vars, Queue, NBytes, Wrap, Accepted, Wanted

LEMMA PutIndexFifo == BufInv /\ PutIndex => Fifo!PutEnd
<1> SUFFICES ASSUME BufInv, PutIndex PROVE Fifo!PutEnd
  OBVIOUS
<1> USE DEF PutIndex, consumer
<1>1. /\ TypeOK /\ TypeOK' /\ in \in Cells /\ out \in Cells
      /\ put \in 0 .. FreeBytes /\ NBytes \in Nat
  BY PutIndexStep, CountFacts DEF BufInv, TypeOK, Fits
<1>2. NBytes' = NBytes + put /\ FreeBytes + NBytes = Size - 1
  BY <1>1, AfterPutIndex, CountFacts
<1>3. /\ Queue \in Seq(Byte) /\ Len(Queue) = NBytes
      /\ Accepted \in Seq(Byte) /\ Len(Accepted) = put
      /\ \A k \in 1 .. put : Accepted[k] = data[k]
      /\ \A k \in 1 .. NBytes : Queue[k] = cell[Wrap(out + k - 1)]
  BY <1>1, QueueFacts
<1>4. /\ Queue' = [k \in 1 .. NBytes + put |-> cell[Wrap(out + k - 1)]]
  BY <1>2 DEF Queue, Wrap
<1>5. ASSUME NEW k \in 1 .. NBytes + put
      PROVE  cell[Wrap(out + k - 1)] =
               IF k <= NBytes THEN Queue[k] ELSE Accepted[k - NBytes]
  <2>1. CASE k <= NBytes
    BY <1>1, <1>3, <2>1
  <2>2. CASE k > NBytes
    <3>1. k - NBytes \in 1 .. put /\ k - NBytes - 1 \in 0 .. put - 1
      BY <1>1, <2>2
    <3>2. Wrap(out + k - 1) = Wrap(in + (k - NBytes - 1))
      BY <1>1, <1>2, <2>2, SizeFacts DEF Wrap, NBytes, FreeBytes, Cells
    <3>3. cell[Wrap(in + (k - NBytes - 1))] = data[k - NBytes - 1 + 1]
      BY <3>1 DEF BufInv, Copied
    <3>4. k - NBytes - 1 + 1 = k - NBytes
      BY <1>1
    <3> QED
      BY <1>1, <1>3, <2>2, <3>1, <3>2, <3>3, <3>4
  <2> QED
    BY <1>1, <2>1, <2>2
<1>6. /\ Queue \o Accepted \in Seq(Byte) /\ Len(Queue \o Accepted) = NBytes + put
      /\ \A k \in 1 .. NBytes + put :
           (Queue \o Accepted)[k] = IF k <= NBytes THEN Queue[k] ELSE Accepted[k - NBytes]
  BY <1>3, ConcatProperties
<1>7. Queue' = Queue \o Accepted
  <2>1. \A k \in 1 .. NBytes + put : cell[Wrap(out + k - 1)] = (Queue \o Accepted)[k]
    BY <1>5, <1>6
  <2>2. \A k \in 1 .. NBytes + put : (Queue \o Accepted)[k] \in Byte
    BY <1>6, ElementOfSeq
  <2>3. Queue' \in Seq(Byte) /\ Len(Queue') = NBytes + put
    <3>1. \A k \in 1 .. NBytes + put : cell[Wrap(out + k - 1)] \in Byte
      BY <2>1, <2>2
    <3>2. NBytes + put \in Nat
      BY <1>1
    <3> HIDE DEF PutIndex, consumer
    <3>3. [k \in 1 .. NBytes + put |-> cell[Wrap(out + k - 1)]] \in Seq(Byte)
      BY <3>1, <3>2
    <3>4. Len([k \in 1 .. NBytes + put |-> cell[Wrap(out + k - 1)]]) = NBytes + put
      BY <3>2
    <3> QED
      BY <1>4, <3>3, <3>4
  <2>4. \A k \in 1 .. NBytes + put : Queue'[k] = (Queue \o Accepted)[k]
    BY <1>4, <2>1
  <2> QED
    BY <1>6, <2>3, <2>4, SeqEqual
<1>8. Accepted' = <<>> /\ Wanted' = Wanted /\ result' = result
  BY DEF Accepted, Wanted
<1> QED
  BY <1>7, <1>8 DEF Fifo!PutEnd

LEMMA GetIndexFifo == BufInv /\ GetIndex => Fifo!GetEnd
<1> SUFFICES ASSUME BufInv, GetIndex PROVE Fifo!GetEnd
  OBVIOUS
<1> USE DEF GetIndex, producer
<1>1. /\ TypeOK /\ in \in Cells /\ out \in Cells /\ local \in Seq(Byte)
      /\ get \in 0 .. NBytes /\ NBytes \in 0 .. Size - 1 /\ Len(local) = get
  BY CountFacts DEF BufInv, TypeOK, Fits
<1>2. NBytes' = NBytes - get
  BY <1>1, AfterGetIndex
<1>3. /\ Queue \in Seq(Byte) /\ Len(Queue) = NBytes
      /\ \A k \in 1 .. NBytes : Queue[k] = cell[Wrap(out + k - 1)]
  BY <1>1, QueueFacts
<1>4. Wanted = get /\ Wanted' = 0 /\ Accepted' = Accepted
  BY DEF Wanted, Accepted
<1>5. ASSUME NEW k \in 1 .. get PROVE local[k] = Queue[k]
  <2>1. k - 1 \in 0 .. Len(local) - 1 /\ k - 1 + 1 = k /\ out + (k - 1) = out + k - 1
    BY <1>1 DEF Cells
  <2>2. local[k - 1 + 1] = cell[Wrap(out + (k - 1))]
    BY <2>1 DEF BufInv, Copied
  <2> QED
    BY <1>1, <1>3, <2>1, <2>2
<1>6. local = SubSeq(Queue, 1, get)
  <2>1. SubSeq(Queue, 1, get) \in Seq(Byte) /\ Len(SubSeq(Queue, 1, get)) = get
    BY <1>1, <1>3
  <2>2. \A k \in 1 .. get : SubSeq(Queue, 1, get)[k] = local[k]
    BY <1>1, <1>3, <1>5
  <2> QED
    BY <1>1, <2>1, <2>2, SeqEqual
<1>7. Queue' = [k \in 1 .. NBytes - get |-> cell[Wrap(Wrap(out + get) + k - 1)]]
  BY <1>2 DEF Queue, Wrap
<1>8. ASSUME NEW k \in 1 .. NBytes - get
      PROVE  cell[Wrap(Wrap(out + get) + k - 1)] = Queue[get + k]
  <2>1. Wrap(Wrap(out + get) + k - 1) = Wrap(out + (get + k) - 1)
    BY <1>1, SizeFacts DEF Wrap, Cells
  <2> QED
    BY <1>1, <1>3, <2>1
<1>9. Queue' = SubSeq(Queue, get + 1, Len(Queue))
  <2>1. SubSeq(Queue, get + 1, Len(Queue)) = [k \in 1 .. NBytes - get |-> Queue[get + k]]
    BY <1>1, <1>3
  <2> QED
    BY <1>7, <1>8, <2>1
<1> QED
  BY <1>4, <1>6, <1>9 DEF Fifo!GetEnd

LEMMA FlushFifo == Flush => Fifo!Flush
<1> SUFFICES ASSUME Flush PROVE Fifo!Flush
  OBVIOUS
<1>1. NBytes' = 0
  BY DEF Flush, NBytes
<1>2. Queue' = <<>>
  BY <1>1 DEF Queue
<1> QED
  BY <1>2 DEF Flush, Accepted, Wanted, Fifo!Flush

LEMMA FifoStep == BufInv /\ [Next]_vars => [Fifo!Next]_Fifo!vars
<1> SUFFICES ASSUME BufInv, [Next]_vars PROVE [Fifo!Next]_Fifo!vars
  OBVIOUS
<1>1. ASSUME NEW s \in Inputs, PutBytes(s) PROVE [Fifo!Next]_Fifo!vars
  BY <1>1, InputType, LookFacts, PutLookFifo DEF PutBytes
<1>2. ASSUME NEW s \in Inputs, PutAhead(s) PROVE [Fifo!Next]_Fifo!vars
  <2>1. s \in Seq(Byte) /\ Len(s) \in 0 .. Len(s)
    BY InputType
  <2> QED
    BY <1>2, <2>1, PutLookFifo DEF PutAhead
<1>3. ASSUME NEW b \in Byte, PutChar(b) PROVE [Fifo!Next]_Fifo!vars
  <2>1. <<b>> \in Seq(Byte) /\ Len(<<b>>) = 1
    OBVIOUS
  <2> QED
    BY <1>3, <2>1, LookFacts, PutLookFifo DEF PutChar
<1>4. ASSUME NEW n \in 0 .. MaxBytes, GetLook(GetCount(n)) PROVE [Fifo!Next]_Fifo!vars
  BY <1>4, SizeFacts, LookFacts, GetLookFifo
<1>5. CASE GetLook(GetCharCount)
  BY <1>5, LookFacts, GetLookFifo
<1>6. CASE UNCHANGED vars
  BY <1>6 DEF vars, Fifo!vars, Queue, NBytes, Wrap, Accepted, Wanted
<1> QED
  BY <1>1, <1>2, <1>3, <1>4, <1>5, <1>6, PutCopyFifo, PutIndexFifo, GetCopyFifo,
     GetIndexFifo, FlushFifo DEF Next, Producer, Consumer, Fifo!Next

\* Every byte that a put counted comes out once, whole and in order, for each
\* size of the buffer and whatever the order of the steps of the two sides.
THEOREM IsFifo == Spec => ImplementsFifo
  BY FifoInit, FifoStep, BufCorrect, PTL DEF Spec, ImplementsFifo, Fifo!Spec

=============================================================================
