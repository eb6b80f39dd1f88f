----------------------------- MODULE ByteBuffer -----------------------------
(***************************************************************************)
(* The ring buffer of Buffer.cc, a value that the modules using it keep in *)
(* a variable: slots, the place to write and the place to read.  The code  *)
(* masks indices with BufferSize - 1; BufferSize is a power of two and no  *)
(* index it masks reaches 2 * BufferSize, so Masked is that mask.          *)
(***************************************************************************)
EXTENDS Integers, Sequences

CONSTANTS
  BufferSize,   \* at least 2
  Byte,
  Nothing       \* what a slot holds before it is written, and no byte

Slot   == 0 .. BufferSize - 1
Buffer == [Buf : [Slot -> Byte \cup {Nothing}], ReadPoint : Slot, WritePoint : Slot]
NewBuffer == [Buf |-> [i \in Slot |-> Nothing], ReadPoint |-> 0, WritePoint |-> 0]

Masked(i) == IF i >= BufferSize THEN i - BufferSize ELSE i

GetLen(b)    == Masked(b.WritePoint + BufferSize - b.ReadPoint)

PutBuffer(b, d) ==
  IF Masked(b.WritePoint + 1) = b.ReadPoint THEN b
  ELSE [Buf |-> [b.Buf EXCEPT ![b.WritePoint] = d],
        ReadPoint |-> b.ReadPoint, WritePoint |-> Masked(b.WritePoint + 1)]

PeekBuffer(b, i) == b.Buf[Masked(b.ReadPoint + i)]   \* of i < GetLen(b)

(* What is left after n calls of GetBuffer, n <= GetLen(b).               *)
GetBuffer(b, n) == [b EXCEPT !.ReadPoint = Masked(@ + n)]

(* The bytes that are in the buffer, oldest first.                         *)
Contents(b) == [i \in 1 .. GetLen(b) |-> PeekBuffer(b, i - 1)]
=============================================================================
