---------------------------- MODULE BoundedFifo ----------------------------
(***************************************************************************)
(* What a ring buffer promises to one producer and one consumer: a queue   *)
(* of at most Capacity bytes.  A call decides when it begins which bytes   *)
(* it moves, and moves them together at its end.                           *)
(***************************************************************************)
EXTENDS Integers, Sequences

CONSTANTS Byte, Capacity

VARIABLES
  queue,      \* Seq(Byte): the bytes in the buffer, oldest first
  accepted,   \* Seq(Byte): the bytes the put under way will add
  wanted,     \* Nat: the bytes the get under way will take
  taken       \* Seq(Byte): the bytes the last get returned

vars == <<queue, accepted, wanted, taken>>

Init == queue = <<>> /\ accepted = <<>> /\ wanted = 0 /\ taken = <<>>

PutBegin ==
  /\ accepted = <<>>
  /\ accepted' \in Seq(Byte) /\ Len(queue) + Len(accepted') <= Capacity
  /\ UNCHANGED <<queue, wanted, taken>>

PutEnd ==
  /\ queue' = queue \o accepted
  /\ accepted' = <<>>
  /\ UNCHANGED <<wanted, taken>>

GetBegin ==
  /\ wanted = 0
  /\ wanted' \in 0 .. Len(queue)
  /\ UNCHANGED <<queue, accepted, taken>>

GetEnd ==
  /\ taken' = SubSeq(queue, 1, wanted)
  /\ queue' = SubSeq(queue, wanted + 1, Len(queue))
  /\ wanted' = 0
  /\ UNCHANGED accepted

Flush ==
  /\ accepted = <<>> /\ wanted = 0
  /\ queue' = <<>>
  /\ UNCHANGED <<accepted, wanted, taken>>

Next == PutBegin \/ PutEnd \/ GetBegin \/ GetEnd \/ Flush

Spec == Init /\ [][Next]_vars

=============================================================================
