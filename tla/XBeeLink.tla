------------------------------ MODULE XBeeLink ------------------------------
(***************************************************************************)
(* The serial line between the radio module and the daemon: SendPacket     *)
(* puts a frame on the line with a delimiter, an escaped length, escaped   *)
(* data and a check sum; XBeeReceive takes the line apart again, a byte at *)
(* a time and across any number of read() calls.  The two ends speak the   *)
(* same protocol, so one sender serves for both.  The line may lose bytes  *)
(* (no flow control), and a packet may be cut short.  A frame that passes  *)
(* is handed to AddReadQueue, which is CommandQueue!Receive.               *)
(*                                                                         *)
(* Every byte on the line is tagged with the number of its frame and the   *)
(* part it belongs to, the head (delimiter and length) or the body: the    *)
(* tags are for the properties and no code looks at them.                  *)
(***************************************************************************)
EXTENDS Integers, Sequences, SequencesExt, FiniteSets

CONSTANTS
  BufferSize,   \* of the InputBuffer of the serial port (1024)
  MaxLength,    \* longer frames are refused (150)
  Payloads,     \* what frames may hold
  MaxSent,      \* bound on the frames sent
  MaxLost,      \* bound on the bytes lost
  Nothing

Byte == 0 .. 255
INSTANCE ByteBuffer

ASSUME LinkAssumption ==
  /\ MaxLength \in Nat \ {0} /\ BufferSize \in Nat /\ MaxLength < BufferSize
  /\ MaxLength < 65536   \* lengths are sent in two bytes
  /\ Nothing \notin Byte
  /\ Payloads \subseteq Seq(Byte)
  /\ \A p \in Payloads : Len(p) \in 1 .. MaxLength
  /\ MaxSent \in Nat /\ MaxLost \in Nat

Delimiter == 126   \* 0x7e
Escape    == 125   \* 0x7d
XON == 17
XOFF == 19
Silent == [next |-> 0, sum |-> 0]   \* no packet is being written

VARIABLES
  out,           \* the packet being written: the index of its next byte and its sum
  wire,          \* tagged bytes that were written and not yet read
  ReceiveSeq, EscapedFlag, ReceiveLength, ReceivePtr, ReceiveSum,
  InputBuffer,
  delivered,     \* tagged frames given to AddReadQueue
  sent,          \* sent[n]: what the n-th frame holds
  intact,        \* frames of which no byte was lost
  beheaded,      \* frames of which a byte of the head was lost
  lost           \* bytes lost so far

decoder == <<ReceiveSeq, EscapedFlag, ReceiveLength, ReceivePtr, ReceiveSum, InputBuffer>>
vars == <<out, wire, decoder, delivered, sent, intact, beheaded, lost>>

(***************************************************************************)
(* Encoding                                                                *)
(***************************************************************************)
Flip(d) == IF (d \div 32) % 2 = 1 THEN d - 32 ELSE d + 32    \* d ^ 0x20

AddBufferWithEscBare(d) == <<d>>   \* mutant: a byte of the data that needs an escape goes without
AddBufferWithEsc(d) ==
  IF d \in {Delimiter, Escape, XON, XOFF} THEN <<Escape, Flip(d)>> ELSE <<d>>

Tagged(bytes, n, part) == [i \in 1 .. Len(bytes) |-> [b |-> bytes[i], n |-> n, part |-> part]]

(***************************************************************************)
(* The line                                                                *)
(***************************************************************************)
Put(bytes, n, part) == wire' = wire \o Tagged(bytes, n, part)

(* SendPacket: the delimiter and the length, ...                           *)
SendHeader(p) ==
  /\ out = Silent
  /\ Len(sent) < MaxSent
  /\ sent' = Append(sent, p)
  /\ Put(<<Delimiter>> \o AddBufferWithEsc(Len(p) \div 256) \o AddBufferWithEsc(Len(p) % 256),
         Len(sent) + 1, "head")
  /\ out' = [next |-> 1, sum |-> 0]
  /\ intact' = intact \cup {Len(sent) + 1}
  /\ UNCHANGED <<decoder, delivered, beheaded, lost>>

(* ... its loop over the data, ...                                         *)
SendData ==
  LET p == Last(sent) IN
  /\ out # Silent /\ out.next <= Len(p)
  /\ Put(AddBufferWithEsc(p[out.next]), Len(sent), "body")
  /\ out' = [next |-> out.next + 1, sum |-> (out.sum + p[out.next]) % 256]
  /\ UNCHANGED <<decoder, delivered, sent, intact, beheaded, lost>>

(* ... and the check sum.                                                  *)
SendSum ==
  /\ out # Silent /\ out.next > Len(Last(sent))
  /\ Put(AddBufferWithEsc(255 - out.sum), Len(sent), "body")
  /\ out' = Silent
  /\ UNCHANGED <<decoder, delivered, sent, intact, beheaded, lost>>

(* A short write (num # p), or a module that is reset: the rest never comes. *)
CutShort ==
  /\ out # Silent
  /\ lost < MaxLost
  /\ out' = Silent
  /\ lost' = lost + 1
  /\ intact' = intact \ {Len(sent)}
  /\ UNCHANGED <<wire, decoder, delivered, sent, beheaded>>

Lose(i) ==
  /\ lost < MaxLost
  /\ i \in 1 .. Len(wire)
  /\ wire' = RemoveAt(wire, i)
  /\ intact' = intact \ {wire[i].n}
  /\ beheaded' = IF wire[i].part = "head" THEN beheaded \cup {wire[i].n} ELSE beheaded
  /\ lost' = lost + 1
  /\ UNCHANGED <<out, decoder, delivered, sent>>

(***************************************************************************)
(* The loop body of XBeeReceive: first the delimiter and the escape, then  *)
(* the case of ReceiveSeq.                                                 *)
(***************************************************************************)
Next1 == Head(wire).b                     \* the byte read
Restarted == Next1 = Delimiter
SeqNow == IF Restarted THEN 0 ELSE ReceiveSeq
Value  == IF EscapedFlag /\ ~Restarted THEN Flip(Next1) ELSE Next1

Take == /\ wire # << >>
        /\ wire' = Tail(wire)
        /\ UNCHANGED <<out, sent, intact, beheaded, lost>>

TakeEscape ==
  /\ Take
  /\ Next1 = Escape
  /\ EscapedFlag' = TRUE
  /\ UNCHANGED <<ReceiveSeq, ReceiveLength, ReceivePtr, ReceiveSum, InputBuffer, delivered>>

TakeByte(s) ==
  /\ Take
  /\ Next1 # Escape
  /\ SeqNow = s
  /\ EscapedFlag' = FALSE

TakeDelimiter ==
  /\ TakeByte(0)
  /\ ReceiveSeq' = IF Value = Delimiter THEN 1 ELSE 0
  /\ UNCHANGED <<ReceiveLength, ReceivePtr, ReceiveSum, InputBuffer, delivered>>

TakeLengthHigh ==
  /\ TakeByte(1)
  /\ ReceiveSeq' = 2
  /\ ReceiveLength' = 256 * Value
  /\ UNCHANGED <<ReceivePtr, ReceiveSum, InputBuffer, delivered>>

TakeLengthLowKeeps ==   \* mutant: leftovers of a broken frame stay in the buffer
  LET length == ReceiveLength + Value IN
  /\ TakeByte(2)
  /\ ReceiveLength' = length
  /\ ReceiveSum' = 0 /\ ReceivePtr' = 0
  /\ InputBuffer' = InputBuffer
  /\ ReceiveSeq' = IF length > MaxLength THEN 0 ELSE 3
  /\ UNCHANGED <<delivered>>
TakeLengthLow ==
  LET length == ReceiveLength + Value IN
  /\ TakeByte(2)
  /\ ReceiveLength' = length
  /\ ReceiveSum' = 0 /\ ReceivePtr' = 0
  /\ InputBuffer' = GetBuffer(InputBuffer, GetLen(InputBuffer))   \* until it is empty
  /\ ReceiveSeq' = IF length > MaxLength THEN 0 ELSE 3
  /\ UNCHANGED <<delivered>>

TakeData ==
  /\ TakeByte(3)
  /\ ReceiveSum' = (ReceiveSum + Value) % 256
  /\ ReceivePtr' = ReceivePtr + 1
  /\ InputBuffer' = PutBuffer(InputBuffer, Value)
  /\ ReceiveSeq' = IF ReceivePtr + 1 >= ReceiveLength THEN 4 ELSE 3
  /\ UNCHANGED <<ReceiveLength, delivered>>

(* A good sum: ReceiveLength bytes leave the buffer and go to the queue.   *)
TakeCheckSumBlind ==   \* mutant: the sum is not compared
  LET got == SubSeq(Contents(InputBuffer), 1, ReceiveLength) IN
  /\ TakeByte(4)
  /\ ReceiveSum' = (ReceiveSum + Value) % 256
  /\ ReceiveSeq' = 0
  /\ InputBuffer' = GetBuffer(InputBuffer, ReceiveLength)
  /\ delivered' = Append(delivered, [p |-> got, n |-> Head(wire).n])
  /\ UNCHANGED <<ReceiveLength, ReceivePtr>>
TakeCheckSum ==
  LET sum  == (ReceiveSum + Value) % 256
      good == sum = 255
      got  == SubSeq(Contents(InputBuffer), 1, ReceiveLength)
  IN /\ TakeByte(4)
     /\ ReceiveSum' = sum
     /\ ReceiveSeq' = 0
     /\ InputBuffer' = IF good THEN GetBuffer(InputBuffer, ReceiveLength)
                       ELSE InputBuffer
     /\ delivered' = IF good THEN Append(delivered, [p |-> got, n |-> Head(wire).n])
                     ELSE delivered
     /\ UNCHANGED <<ReceiveLength, ReceivePtr>>

XBeeReceive == TakeEscape \/ TakeDelimiter \/ TakeLengthHigh \/ TakeLengthLow \/ TakeData \/ TakeCheckSum

Init ==
  /\ out = Silent
  /\ wire = << >> /\ delivered = << >> /\ sent = << >>
  /\ intact = {} /\ beheaded = {} /\ lost = 0
  /\ ReceiveSeq = 0 /\ EscapedFlag = FALSE /\ ReceiveLength = 0 /\ ReceivePtr = 0 /\ ReceiveSum = 0
  /\ InputBuffer = NewBuffer

SendPacket == (\E p \in Payloads : SendHeader(p)) \/ SendData \/ SendSum \/ CutShort
Next == SendPacket \/ (\E i \in 1 .. Len(wire) : Lose(i)) \/ XBeeReceive

Spec == Init /\ [][Next]_vars

(***************************************************************************)
(* Properties                                                              *)
(***************************************************************************)
(* The state of the receiver is of its type.                               *)
TypeOK ==
  /\ out \in [next : Nat, sum : Byte]
  /\ wire \in Seq([b : Byte, n : 1 .. Len(sent), part : {"head", "body"}])
  /\ ReceiveSeq \in 0 .. 4 /\ EscapedFlag \in BOOLEAN
  /\ ReceiveLength \in Nat /\ ReceivePtr \in Nat /\ ReceiveSum \in Byte
  /\ InputBuffer \in Buffer
  /\ delivered \in Seq([p : Seq(Byte), n : 1 .. Len(sent)])
  /\ sent \in Seq(Payloads)
  /\ intact \subseteq 1 .. Len(sent) /\ beheaded \subseteq 1 .. Len(sent) /\ lost \in Nat

(* Whatever reaches the line, the buffer holds the bytes of the frame in   *)
(* progress and no others, and their number stays within MaxLength: the    *)
(* copy into buf[150] (case 4 of XBeeReceive) and the ring never overrun.  *)
FrameFits ==
  /\ ReceiveSeq \in {3, 4} => /\ ReceiveLength <= MaxLength
                              /\ GetLen(InputBuffer) = ReceivePtr
  /\ ReceiveSeq = 3 => (ReceivePtr < ReceiveLength \/ ReceivePtr = 0)
  /\ ReceiveSeq = 4 => (ReceivePtr = ReceiveLength \/ (ReceiveLength = 0 /\ ReceivePtr = 1))

(* XBeeReceive finds its feet at every delimiter: a frame no byte of which *)
(* was lost is handed to AddReadQueue exactly once and as it was sent,     *)
(* whatever came before it, and frames are handed over in their order.     *)
IntactArrive ==
  /\ \A n \in intact :
       (out = Silent \/ n < Len(sent)) /\ (\A i \in 1 .. Len(wire) : wire[i].n # n) =>
       \E k \in 1 .. Len(delivered) : delivered[k].n = n /\ delivered[k].p = sent[n]
  /\ \A k, l \in 1 .. Len(delivered) : k < l => delivered[k].n <= delivered[l].n
  /\ \A k, l \in 1 .. Len(delivered) :
       k # l /\ delivered[k].n = delivered[l].n => delivered[k].n \notin intact

(* One lost byte of the data or the check sum never makes a frame of what  *)
(* is left: XBeeReceive hands on what was sent or nothing.  Only if the    *)
(* byte was of the delimiter or the length may it take a part of the data  *)
(* for a frame (the sum has 8 bits), and that frame is always shorter.     *)
HonestFrames ==
  lost <= 1 => \A k \in 1 .. Len(delivered) :
    LET got == delivered[k] IN
    \/ got.p = sent[got.n]
    \/ got.n \in beheaded /\ Len(got.p) < Len(sent[got.n])
=============================================================================
