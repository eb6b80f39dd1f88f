--------------------------- MODULE XBeeLinkProofs ---------------------------
(***************************************************************************)
(* Proofs about XBeeLink, for every size of the buffer, every limit on the *)
(* length of frames and every payload: whatever the line loses, the        *)
(* receiver stays within its buffer and hands on nothing but bytes; frames *)
(* that lost nothing arrive, once, whole and in order; and one lost byte   *)
(* of the body of a packet makes no frame of what is left.                 *)
(***************************************************************************)
EXTENDS XBeeLink, SequenceTheorems, TLAPS

LEMMA Constants ==
  /\ MaxLength \in Nat \ {0} /\ BufferSize \in Nat /\ MaxLength < BufferSize /\ BufferSize > 1
  /\ MaxLength < 65536
  /\ Nothing \notin Byte /\ Byte \subseteq Int
  /\ Payloads \subseteq Seq(Byte) /\ \A p \in Payloads : Len(p) \in 1 .. MaxLength
  /\ MaxSent \in Nat /\ MaxLost \in Nat
<1>1. BufferSize > 1
  BY LinkAssumption, SMT
<1> QED  BY <1>1, LinkAssumption DEF Byte

LEMMA Sizes == BufferSize \in Nat /\ BufferSize > 1
BY Constants

(***************************************************************************)
(* The ring buffer                                                         *)
(***************************************************************************)
(* Its number of bytes is below its size.                                  *)
LEMMA LenInSlot ==
  ASSUME NEW b \in Buffer
  PROVE  GetLen(b) \in Slot
<1>1. b.ReadPoint \in Slot /\ b.WritePoint \in Slot
  BY DEF Buffer
<1> QED  BY <1>1, Sizes, SMT DEF GetLen, Masked, Slot

LEMMA LenByCases ==
  ASSUME NEW b, b.ReadPoint \in Slot, b.WritePoint \in Slot
  PROVE  GetLen(b) = IF b.WritePoint >= b.ReadPoint THEN b.WritePoint - b.ReadPoint
                     ELSE b.WritePoint + BufferSize - b.ReadPoint
BY Sizes, SMT DEF GetLen, Masked, Slot

(* A byte that fits goes to the end, and the others stay where they are.   *)
LEMMA PutAppends ==
  ASSUME NEW b \in Buffer, NEW d \in Byte, GetLen(b) < BufferSize - 1
  PROVE  /\ PutBuffer(b, d) \in Buffer
         /\ GetLen(PutBuffer(b, d)) = GetLen(b) + 1
         /\ PeekBuffer(PutBuffer(b, d), GetLen(b)) = d
         /\ \A i \in 0 .. GetLen(b) - 1 : PeekBuffer(PutBuffer(b, d), i) = PeekBuffer(b, i)
<1> DEFINE c == PutBuffer(b, d)
<1>1. /\ b.ReadPoint \in Slot /\ b.WritePoint \in Slot
      /\ b.Buf \in [Slot -> Byte \cup {Nothing}]
  BY DEF Buffer
<1>2. Masked(b.WritePoint + 1) # b.ReadPoint
  BY <1>1, Sizes, SMT DEF GetLen, Masked, Slot
<1>3. c = [Buf |-> [b.Buf EXCEPT ![b.WritePoint] = d],
           ReadPoint |-> b.ReadPoint, WritePoint |-> Masked(b.WritePoint + 1)]
  BY <1>2 DEF PutBuffer
<1>4. Masked(b.WritePoint + 1) \in Slot
  BY <1>1, Sizes, SMT DEF Masked, Slot
<1>5. [b.Buf EXCEPT ![b.WritePoint] = d] \in [Slot -> Byte \cup {Nothing}]
  BY <1>1
<1>6. c \in Buffer
  BY <1>1, <1>3, <1>4, <1>5 DEF Buffer
<1>7. c.ReadPoint = b.ReadPoint /\ c.WritePoint = Masked(b.WritePoint + 1)
  BY <1>3
<1>8. GetLen(c) = GetLen(b) + 1
  <2>1. c.ReadPoint \in Slot /\ c.WritePoint \in Slot
    BY <1>1, <1>4, <1>7
  <2>2. GetLen(c) = IF c.WritePoint >= c.ReadPoint THEN c.WritePoint - c.ReadPoint
                    ELSE c.WritePoint + BufferSize - c.ReadPoint
    BY <2>1, LenByCases
  <2>3. GetLen(b) = IF b.WritePoint >= b.ReadPoint THEN b.WritePoint - b.ReadPoint
                    ELSE b.WritePoint + BufferSize - b.ReadPoint
    BY <1>1, LenByCases
  <2> HIDE DEF c
  <2> QED  BY <1>1, <1>2, <1>7, <2>2, <2>3, Sizes, SMT DEF Masked, Slot
<1>9. Masked(b.ReadPoint + GetLen(b)) = b.WritePoint
  BY <1>1, Sizes, SMT DEF GetLen, Masked, Slot
<1>10. PeekBuffer(c, GetLen(b)) = d
  BY <1>1, <1>3, <1>9 DEF PeekBuffer
<1>11. ASSUME NEW i \in 0 .. GetLen(b) - 1
       PROVE  PeekBuffer(c, i) = PeekBuffer(b, i)
  <2>1. Masked(b.ReadPoint + i) # b.WritePoint
    BY <1>1, Sizes, SMTT(30) DEF GetLen, Masked, Slot
  <2>2. Masked(b.ReadPoint + i) \in Slot
    BY <1>1, LenInSlot, Sizes, SMT DEF Masked, Slot
  <2> QED  BY <1>1, <1>3, <2>1, <2>2 DEF PeekBuffer
<1> QED  BY <1>6, <1>8, <1>10, <1>11

(* Reading takes the oldest bytes.                                         *)
LEMMA GetTakes ==
  ASSUME NEW b \in Buffer, NEW n \in 0 .. GetLen(b)
  PROVE  /\ GetBuffer(b, n) \in Buffer
         /\ GetLen(GetBuffer(b, n)) = GetLen(b) - n
         /\ \A i \in 0 .. GetLen(b) - n - 1 : PeekBuffer(GetBuffer(b, n), i) = PeekBuffer(b, n + i)
<1> DEFINE c == GetBuffer(b, n)
<1>1. /\ b.ReadPoint \in Slot /\ b.WritePoint \in Slot
      /\ b.Buf \in [Slot -> Byte \cup {Nothing}]
      /\ b = [Buf |-> b.Buf, ReadPoint |-> b.ReadPoint, WritePoint |-> b.WritePoint]
  BY DEF Buffer
<1>2. GetLen(b) \in Slot
  BY LenInSlot
<1>3. c = [Buf |-> b.Buf, ReadPoint |-> Masked(b.ReadPoint + n), WritePoint |-> b.WritePoint]
  BY <1>1 DEF GetBuffer
<1>4. Masked(b.ReadPoint + n) \in Slot
  BY <1>1, <1>2, Sizes, SMT DEF Masked, Slot
<1>5. c \in Buffer
  BY <1>1, <1>3, <1>4 DEF Buffer
<1>6. c.Buf = b.Buf /\ c.ReadPoint = Masked(b.ReadPoint + n) /\ c.WritePoint = b.WritePoint
  BY <1>3
<1>7. GetLen(c) = GetLen(b) - n
  <2>1. c.ReadPoint \in Slot /\ c.WritePoint \in Slot
    BY <1>1, <1>4, <1>6
  <2>2. GetLen(c) = IF c.WritePoint >= c.ReadPoint THEN c.WritePoint - c.ReadPoint
                    ELSE c.WritePoint + BufferSize - c.ReadPoint
    BY <2>1, LenByCases
  <2>3. GetLen(b) = IF b.WritePoint >= b.ReadPoint THEN b.WritePoint - b.ReadPoint
                    ELSE b.WritePoint + BufferSize - b.ReadPoint
    BY <1>1, LenByCases
  <2> HIDE DEF c
  <2> QED  BY <1>1, <1>2, <1>6, <2>2, <2>3, Sizes, SMT DEF Masked, Slot
<1>8. ASSUME NEW i \in 0 .. GetLen(b) - n - 1
      PROVE  PeekBuffer(c, i) = PeekBuffer(b, n + i)
  <2>1. Masked(Masked(b.ReadPoint + n) + i) = Masked(b.ReadPoint + (n + i))
    <3>1. i \in Nat /\ n \in Nat /\ n + i < BufferSize
      BY <1>2, Sizes, SMT DEF Slot
    <3> QED  BY <1>1, <3>1, Sizes, SMT DEF Masked, Slot
  <2> QED  BY <2>1, <1>6 DEF PeekBuffer
<1> QED  BY <1>5, <1>7, <1>8

(* A buffer of which every slot in use has been written.                   *)
Filled(b) == b \in Buffer /\ \A i \in 0 .. GetLen(b) - 1 : PeekBuffer(b, i) \in Byte

LEMMA PutFills ==
  ASSUME NEW b, Filled(b), NEW d \in Byte, GetLen(b) < BufferSize - 1
  PROVE  Filled(PutBuffer(b, d)) /\ GetLen(PutBuffer(b, d)) = GetLen(b) + 1
<1> DEFINE c == PutBuffer(b, d)
<1>1. /\ c \in Buffer /\ GetLen(c) = GetLen(b) + 1 /\ PeekBuffer(c, GetLen(b)) = d
      /\ \A i \in 0 .. GetLen(b) - 1 : PeekBuffer(c, i) = PeekBuffer(b, i)
  BY PutAppends DEF Filled
<1>2. GetLen(b) \in Nat
  BY LenInSlot, Constants DEF Filled, Slot
<1>3. ASSUME NEW i \in 0 .. GetLen(c) - 1  PROVE PeekBuffer(c, i) \in Byte
  <2>1. i = GetLen(b) \/ i \in 0 .. GetLen(b) - 1
    BY <1>1, <1>2
  <2> QED  BY <1>1, <2>1 DEF Filled
<1> QED  BY <1>1, <1>3 DEF Filled

LEMMA GetKeepsFilled ==
  ASSUME NEW b, Filled(b), NEW n \in 0 .. GetLen(b)
  PROVE  Filled(GetBuffer(b, n)) /\ GetLen(GetBuffer(b, n)) = GetLen(b) - n
<1> DEFINE c == GetBuffer(b, n)
<1>1. /\ c \in Buffer /\ GetLen(c) = GetLen(b) - n
      /\ \A i \in 0 .. GetLen(b) - n - 1 : PeekBuffer(c, i) = PeekBuffer(b, n + i)
  BY GetTakes DEF Filled
<1>2. GetLen(b) \in Nat
  BY LenInSlot, Constants DEF Filled, Slot
<1>3. ASSUME NEW i \in 0 .. GetLen(c) - 1  PROVE PeekBuffer(c, i) \in Byte
  <2>1. n + i \in 0 .. GetLen(b) - 1 /\ i \in 0 .. GetLen(b) - n - 1
    BY <1>1, <1>2
  <2> QED  BY <1>1, <2>1 DEF Filled
<1> QED  BY <1>1, <1>3 DEF Filled

(* What is copied out of it is bytes.                                      *)
LEMMA CopyIsBytes ==
  ASSUME NEW b, Filled(b), NEW n \in 0 .. GetLen(b)
  PROVE  SubSeq(Contents(b), 1, n) \in Seq(Byte)
<1>1. GetLen(b) \in Nat
  BY LenInSlot, Constants DEF Filled, Slot
<1>2. ASSUME NEW i \in 1 .. n  PROVE Contents(b)[i] \in Byte
  <2>1. i \in 1 .. GetLen(b) /\ i - 1 \in 0 .. GetLen(b) - 1
    BY <1>1
  <2> QED  BY <2>1 DEF Contents, Filled
<1> QED  BY <1>1, <1>2, SubSeqProperties

(***************************************************************************)
(* The sender                                                              *)
(***************************************************************************)
LEMMA FlipIsByte == ASSUME NEW d \in Byte PROVE Flip(d) \in Byte
BY SMT DEF Flip, Byte

LEMMA EscapedAreBytes == ASSUME NEW d \in Byte PROVE AddBufferWithEsc(d) \in Seq(Byte)
<1>1. Flip(d) \in Byte /\ Escape \in Byte
  <2>1. Escape \in Byte
    BY DEF Escape, Byte
  <2> QED  BY <2>1, FlipIsByte
<1>2. <<d>> \in Seq(Byte) /\ <<Escape, Flip(d)>> \in Seq(Byte)
  BY <1>1
<1> QED  BY <1>2 DEF AddBufferWithEsc

(* The two bytes of a length.                                              *)
LEMMA LengthInBytes ==
  ASSUME NEW n \in Nat, n < 65536
  PROVE  n \div 256 \in Byte /\ n % 256 \in Byte
<1>1. n = 256 * (n \div 256) + (n % 256) /\ n % 256 \in 0 .. 255 /\ n \div 256 \in Int
  BY SMT
<1>2. n \div 256 >= 0 /\ n \div 256 <= 255
  BY <1>1, SMT
<1> QED  BY <1>1, <1>2 DEF Byte

LEMMA SumIsByte == ASSUME NEW a \in Byte, NEW b \in Byte PROVE (a + b) % 256 \in Byte
<1>1. a + b \in Nat
  BY DEF Byte
<1> QED  BY <1>1, SMT DEF Byte

Tags(n) == [b : Byte, n : 1 .. n, part : {"head", "body"}]

LEMMA PutsTagged ==
  ASSUME NEW k \in Nat, wire \in Seq(Tags(k)), NEW n \in 1 .. k,
         NEW bytes \in Seq(Byte), NEW part \in {"head", "body"}, Put(bytes, n, part)
  PROVE  wire' \in Seq(Tags(k))
<1>1. Len(bytes) \in Nat /\ \A i \in 1 .. Len(bytes) : bytes[i] \in Byte
  BY LenProperties, ElementOfSeq
<1>2. Tagged(bytes, n, part) \in Seq(Tags(k))
  <2>1. ASSUME NEW i \in 1 .. Len(bytes)
        PROVE  [b |-> bytes[i], n |-> n, part |-> part] \in Tags(k)
    BY <1>1, Zenon DEF Tags
  <2> QED  BY <1>1, <2>1 DEF Tagged
<1> QED  BY <1>2, ConcatProperties DEF Put

LEMMA MoreTags == ASSUME NEW k \in Nat, NEW s \in Seq(Tags(k)) PROVE s \in Seq(Tags(k + 1))
<1>1. Tags(k) \subseteq Tags(k + 1)
  BY DEF Tags
<1> QED  BY <1>1, SeqMonotonic

Handed(n) == [p : Seq(Byte), n : 1 .. n]

(***************************************************************************)
(* The invariant: the types, a buffer in which every slot in use has been  *)
(* written, a packet that is being written belongs to a frame, and         *)
(* FrameFits.                                                              *)
(***************************************************************************)
Writing == out # Silent => sent # << >> /\ out.next > 0

Inductive == TypeOK /\ Filled(InputBuffer) /\ Writing /\ FrameFits

SenderTyped == /\ out \in [next : Nat, sum : Byte]
               /\ wire \in Seq(Tags(Len(sent)))
               /\ sent \in Seq(Payloads)
               /\ intact \subseteq 1 .. Len(sent) /\ beheaded \subseteq 1 .. Len(sent)
               /\ lost \in Nat
               /\ Writing

ReceiverTyped == /\ ReceiveSeq \in 0 .. 4 /\ EscapedFlag \in BOOLEAN
                 /\ ReceiveLength \in Nat /\ ReceivePtr \in Nat /\ ReceiveSum \in Byte
                 /\ Filled(InputBuffer)
                 /\ FrameFits

LEMMA InParts == Inductive <=> /\ SenderTyped /\ ReceiverTyped
                               /\ delivered \in Seq(Handed(Len(sent)))
BY DEF Inductive, TypeOK, SenderTyped, ReceiverTyped, Filled, Tags, Handed

LEMMA InPartsNext == Inductive' <=> /\ SenderTyped' /\ ReceiverTyped'
                                    /\ (delivered \in Seq(Handed(Len(sent))))'
BY DEF Inductive, TypeOK, SenderTyped, ReceiverTyped, Filled, Tags, Handed

(* What the sender and the line do leaves the receiver alone.              *)
LEMMA ReceiverRests ==
  ASSUME ReceiverTyped, UNCHANGED decoder
  PROVE  ReceiverTyped'
BY DEF ReceiverTyped, FrameFits, Filled, GetLen, PeekBuffer, Masked, decoder

LEMMA InitHolds == ASSUME Init PROVE Inductive
<1>1. NewBuffer \in Buffer /\ GetLen(NewBuffer) = 0
  BY Constants, SMT DEF NewBuffer, Buffer, GetLen, Masked, Slot
<1>2. SenderTyped
  BY DEF Init, SenderTyped, Silent, Writing, Byte
<1>3. ReceiverTyped
  <2>1. Filled(InputBuffer)
    BY <1>1 DEF Init, Filled
  <2>2. FrameFits
    BY DEF Init, FrameFits
  <2>3. EscapedFlag \in BOOLEAN
    BY Zenon DEF Init
  <2>4. /\ ReceiveSeq = 0 /\ ReceiveLength = 0 /\ ReceivePtr = 0 /\ ReceiveSum = 0
    BY Zenon DEF Init
  <2>5. /\ ReceiveSeq \in 0 .. 4 /\ ReceiveLength \in Nat /\ ReceivePtr \in Nat
        /\ ReceiveSum \in Byte
    BY <2>4 DEF Byte
  <2> QED  BY <2>1, <2>2, <2>3, <2>5 DEF ReceiverTyped
<1>4. delivered \in Seq(Handed(Len(sent)))
  BY DEF Init
<1> QED  BY <1>2, <1>3, <1>4, InParts

LEMMA HeaderPreserves ==
  ASSUME Inductive, NEW p \in Payloads, SendHeader(p)
  PROVE  Inductive'
<1> DEFINE n == Len(sent)
<1>1. SenderTyped /\ ReceiverTyped /\ delivered \in Seq(Handed(n))
  BY InParts
<1>2. /\ sent' \in Seq(Payloads) /\ sent' # << >> /\ Len(sent') = n + 1 /\ n \in Nat
  BY <1>1, AppendProperties, LenProperties DEF SendHeader, SenderTyped
<1>3. wire' \in Seq(Tags(n + 1))
  <2> DEFINE bytes == <<Delimiter>> \o AddBufferWithEsc(Len(p) \div 256) \o AddBufferWithEsc(Len(p) % 256)
  <2>1. Len(p) \div 256 \in Byte /\ Len(p) % 256 \in Byte
    <3>1. Len(p) \in 1 .. MaxLength
      BY Constants
    <3>2. Len(p) \in Nat /\ Len(p) < 65536
      BY <3>1, Constants
    <3> QED  BY <3>2, LengthInBytes
  <2>2. <<Delimiter>> \in Seq(Byte)
    BY DEF Delimiter, Byte
  <2>3. bytes \in Seq(Byte)
    BY <2>1, <2>2, EscapedAreBytes, ConcatProperties
  <2>4. Put(bytes, n + 1, "head")
    BY DEF SendHeader
  <2>5. wire \in Seq(Tags(n + 1)) /\ n + 1 \in Nat /\ n + 1 \in 1 .. n + 1
    BY <1>1, <1>2, MoreTags DEF SenderTyped
  <2> HIDE DEF bytes
  <2> QED  BY <2>3, <2>4, <2>5, PutsTagged
<1>4. out' \in [next : Nat, sum : Byte] /\ out'.next > 0
  BY DEF SendHeader, Byte
<1>5. intact' \subseteq 1 .. n + 1 /\ beheaded' \subseteq 1 .. n + 1 /\ lost' \in Nat
  <2>1. intact' = intact \cup {n + 1} /\ beheaded' = beheaded /\ lost' = lost
    BY DEF SendHeader
  <2>2. intact \subseteq 1 .. n /\ beheaded \subseteq 1 .. n /\ lost \in Nat
    BY <1>1 DEF SenderTyped
  <2>3. 1 .. n \subseteq 1 .. n + 1 /\ n + 1 \in 1 .. n + 1
    BY <1>2
  <2> QED  BY <2>1, <2>2, <2>3
<1>6. SenderTyped'
  BY <1>2, <1>3, <1>4, <1>5 DEF SenderTyped, Writing
<1>7. ReceiverTyped'
  BY <1>1, ReceiverRests DEF SendHeader
<1>8. delivered' \in Seq(Handed(n + 1))
  <2>1. Handed(n) \subseteq Handed(n + 1)
    BY <1>2 DEF Handed
  <2> QED  BY <1>1, <2>1, SeqMonotonic DEF SendHeader
<1> QED  BY <1>2, <1>6, <1>7, <1>8, InPartsNext

(* The rest of a packet, and what the line loses.                          *)
LEMMA LinePreserves ==
  ASSUME Inductive, SenderTyped', UNCHANGED <<decoder, delivered, sent>>
  PROVE  Inductive'
<1>1. ReceiverTyped'
  BY InParts, ReceiverRests
<1> QED  BY <1>1, InParts, InPartsNext

LEMMA DataPreserves ==
  ASSUME Inductive, SendData
  PROVE  Inductive'
<1> DEFINE p == Last(sent)
<1>1. SenderTyped
  BY InParts
<1>2. Len(sent) \in 1 .. Len(sent) /\ Len(sent) \in Nat
  BY <1>1, EmptySeq DEF SendData, SenderTyped, Writing
<1>3. p \in Seq(Byte)
  BY <1>1, <1>2, ElementOfSeq, Constants DEF SenderTyped, Last
<1>4. out.next \in 1 .. Len(p)
  BY <1>1, <1>3, LenProperties DEF SendData, SenderTyped, Writing
<1>5. p[out.next] \in Byte
  BY <1>3, <1>4, ElementOfSeq
<1>6. wire' \in Seq(Tags(Len(sent)))
  BY <1>1, <1>2, <1>5, EscapedAreBytes, PutsTagged DEF SendData, SenderTyped
<1>7. out' \in [next : Nat, sum : Byte] /\ out'.next > 0
  <2>1. (out.sum + p[out.next]) % 256 \in Byte
    <3>1. out.sum \in Byte
      BY <1>1 DEF SenderTyped
    <3> QED  BY <3>1, <1>5, SumIsByte
  <2>2. out' = [next |-> out.next + 1, sum |-> (out.sum + p[out.next]) % 256]
    BY DEF SendData
  <2> QED  BY <1>1, <2>1, <2>2 DEF SenderTyped
<1>8. SenderTyped'
  BY <1>1, <1>2, <1>6, <1>7, EmptySeq DEF SendData, SenderTyped, Writing
<1> QED  BY <1>8, LinePreserves DEF SendData

LEMMA SumPreserves ==
  ASSUME Inductive, SendSum
  PROVE  Inductive'
<1>1. SenderTyped
  BY InParts
<1>2. Len(sent) \in 1 .. Len(sent) /\ Len(sent) \in Nat
  BY <1>1, EmptySeq DEF SendSum, SenderTyped, Writing
<1>3. 255 - out.sum \in Byte
  <2>1. out.sum \in Byte
    BY <1>1 DEF SenderTyped
  <2> QED  BY <2>1 DEF Byte
<1>4. wire' \in Seq(Tags(Len(sent)))
  BY <1>1, <1>2, <1>3, EscapedAreBytes, PutsTagged DEF SendSum, SenderTyped
<1>5. SenderTyped'
  BY <1>1, <1>4 DEF SendSum, SenderTyped, Writing, Silent, Byte
<1> QED  BY <1>5, LinePreserves DEF SendSum

LEMMA CutPreserves ==
  ASSUME Inductive, CutShort
  PROVE  Inductive'
<1>1. SenderTyped'
  BY InParts DEF CutShort, SenderTyped, Writing, Silent, Byte
<1> QED  BY <1>1, LinePreserves DEF CutShort

LEMMA LosePreserves ==
  ASSUME Inductive, NEW i \in 1 .. Len(wire), Lose(i)
  PROVE  Inductive'
<1> DEFINE S == Tags(Len(sent))
<1>1. SenderTyped
  BY InParts
<1>2. Len(wire) \in Nat /\ \A j \in 1 .. Len(wire) : wire[j] \in S
  BY <1>1, LenProperties, ElementOfSeq DEF SenderTyped
<1>3. SubSeq(wire, 1, i - 1) \in Seq(S) /\ SubSeq(wire, i + 1, Len(wire)) \in Seq(S)
  BY <1>2, SubSeqProperties
<1>4. wire' \in Seq(S)
  <2> HIDE DEF S
  <2> QED  BY <1>3, ConcatProperties DEF Lose, RemoveAt
<1>5. wire' \in Seq(Tags(Len(sent'))) /\ sent' = sent /\ out' = out
  BY <1>4 DEF Lose
<1>6. intact' \subseteq 1 .. Len(sent') /\ beheaded' \subseteq 1 .. Len(sent') /\ lost' \in Nat
  <2>1. /\ intact' = intact \ {wire[i].n} /\ lost' = lost + 1
        /\ beheaded' = beheaded \/ beheaded' = beheaded \cup {wire[i].n}
    BY Zenon DEF Lose
  <2>2. intact \subseteq 1 .. Len(sent) /\ beheaded \subseteq 1 .. Len(sent) /\ lost \in Nat
    BY <1>1 DEF SenderTyped
  <2>3. intact' \subseteq 1 .. Len(sent) /\ beheaded' \subseteq 1 .. Len(sent)
    <3>1. wire[i].n \in 1 .. Len(sent)
      BY <1>2, Zenon DEF Tags
    <3> QED  BY <2>1, <2>2, <3>1
  <2>4. lost' \in Nat
    BY <2>1, <2>2
  <2>5. Len(sent') = Len(sent)
    BY <1>5, Zenon
  <2> QED  BY <2>2, <2>3, <2>4, <2>5, Zenon
<1>7. SenderTyped'
  <2> HIDE DEF S
  <2> QED  BY <1>1, <1>5, <1>6 DEF SenderTyped, Writing
<1> QED  BY <1>7, LinePreserves DEF Lose

(***************************************************************************)
(* The receiver                                                            *)
(***************************************************************************)
(* What it takes from the line.                                            *)
LEMMA Takes ==
  ASSUME Inductive, Take
  PROVE  SenderTyped' /\ Value \in Byte /\ Head(wire).n \in 1 .. Len(sent) /\ sent' = sent
<1>1. SenderTyped /\ wire # << >>
  BY InParts DEF Take
<1>2. Head(wire) \in Tags(Len(sent)) /\ Tail(wire) \in Seq(Tags(Len(sent)))
  BY <1>1, HeadTailProperties DEF SenderTyped
<1>3. Head(wire).b \in Byte /\ Head(wire).n \in 1 .. Len(sent)
  BY <1>2 DEF Tags
<1>4. Value \in Byte
  BY <1>3, FlipIsByte DEF Value, Next1
<1>5. wire' = Tail(wire) /\ out' = out /\ sent' = sent /\ intact' = intact
      /\ beheaded' = beheaded /\ lost' = lost
  BY DEF Take
<1>6. SenderTyped'
  BY <1>1, <1>2, <1>5 DEF SenderTyped, Writing
<1> QED  BY <1>3, <1>4, <1>5, <1>6

(* Until a length is complete, nothing is demanded of the buffer.          *)
LEMMA TakesQuietly ==
  ASSUME Inductive, Take, UNCHANGED <<ReceivePtr, ReceiveSum, InputBuffer, delivered>>,
         ReceiveSeq' \in 0 .. 2, EscapedFlag' \in BOOLEAN, ReceiveLength' \in Nat
  PROVE  Inductive'
<1>1. ReceiverTyped /\ delivered \in Seq(Handed(Len(sent)))
  BY InParts
<1>2. FrameFits'
  BY DEF FrameFits
<1>3. Filled(InputBuffer)'
  BY <1>1 DEF ReceiverTyped, Filled, GetLen, PeekBuffer, Masked
<1>4. ReceiverTyped'
  BY <1>1, <1>2, <1>3 DEF ReceiverTyped
<1> QED  BY <1>1, <1>4, Takes, InPartsNext

LEMMA EscapePreserves ==
  ASSUME Inductive, TakeEscape
  PROVE  Inductive'
<1>1. ReceiverTyped /\ delivered \in Seq(Handed(Len(sent)))
  BY InParts
<1>2. EscapedFlag' \in BOOLEAN
  BY Zenon DEF TakeEscape
<1>3. ReceiverTyped'
  BY <1>1, <1>2 DEF TakeEscape, ReceiverTyped, FrameFits, Filled, GetLen, PeekBuffer, Masked
<1> QED  BY <1>1, <1>3, Takes, InPartsNext DEF TakeEscape

LEMMA DelimiterPreserves ==
  ASSUME Inductive, TakeDelimiter
  PROVE  Inductive'
<1>1. ReceiverTyped
  BY InParts
<1>2. EscapedFlag' \in BOOLEAN /\ Take
  BY Zenon DEF TakeDelimiter, TakeByte
<1>3. ReceiveSeq' \in 0 .. 2 /\ ReceiveLength' \in Nat
  BY <1>1 DEF TakeDelimiter, ReceiverTyped
<1> QED  BY <1>2, <1>3, TakesQuietly DEF TakeDelimiter

LEMMA LengthHighPreserves ==
  ASSUME Inductive, TakeLengthHigh
  PROVE  Inductive'
<1>1. ReceiverTyped
  BY InParts
<1>2. EscapedFlag' \in BOOLEAN /\ Take
  BY Zenon DEF TakeLengthHigh, TakeByte
<1>3. ReceiveSeq' \in 0 .. 2 /\ ReceiveLength' \in Nat
  <2>1. Value \in 0 .. 255
    BY <1>2, Takes DEF Byte
  <2>2. ReceiveSeq' = 2 /\ ReceiveLength' = 256 * Value
    BY DEF TakeLengthHigh
  <2> QED  BY <2>1, <2>2
<1> QED  BY <1>2, <1>3, TakesQuietly DEF TakeLengthHigh

(* The buffer is emptied, whatever a broken frame has left there.          *)
LEMMA LengthLowPreserves ==
  ASSUME Inductive, TakeLengthLow
  PROVE  Inductive'
<1> DEFINE length == ReceiveLength + Value
<1>1. ReceiverTyped /\ delivered \in Seq(Handed(Len(sent)))
  BY InParts
<1>2. EscapedFlag' \in BOOLEAN /\ Take /\ delivered' = delivered
  BY Zenon DEF TakeLengthLow, TakeByte
<1>3. length \in Nat
  <2>1. Value \in 0 .. 255 /\ ReceiveLength \in Nat
    BY <1>1, <1>2, Takes DEF ReceiverTyped, Byte
  <2> QED  BY <2>1
<1>4. /\ ReceiveLength' = length /\ ReceiveSum' = 0 /\ ReceivePtr' = 0
      /\ InputBuffer' = GetBuffer(InputBuffer, GetLen(InputBuffer))
      /\ ReceiveSeq' = IF length > MaxLength THEN 0 ELSE 3
  BY DEF TakeLengthLow
<1>5. Filled(InputBuffer') /\ GetLen(InputBuffer') = 0
  <2>1. Filled(InputBuffer) /\ GetLen(InputBuffer) \in Nat
    BY <1>1, LenInSlot, Constants DEF ReceiverTyped, Filled, Slot
  <2>2. GetLen(InputBuffer) \in 0 .. GetLen(InputBuffer)
    BY <2>1
  <2> QED  BY <1>4, <2>1, <2>2, GetKeepsFilled
<1>6. FrameFits'
  <2> HIDE DEF length
  <2> QED  BY <1>3, <1>4, <1>5, Constants DEF FrameFits
<1>7. ReceiverTyped'
  <2>1. ReceiveSeq' \in 0 .. 4 /\ ReceiveLength' \in Nat /\ ReceivePtr' \in Nat /\ ReceiveSum' \in Byte
    <3> HIDE DEF length
    <3> QED  BY <1>3, <1>4 DEF Byte
  <2> QED  BY <1>1, <1>2, <1>5, <1>6, <2>1 DEF ReceiverTyped
<1> QED  BY <1>1, <1>2, <1>7, Takes, InPartsNext

(* A frame no longer than MaxLength fits, since MaxLength is below the     *)
(* size of the buffer.                                                     *)
LEMMA DataByteFits ==
  ASSUME Inductive, TakeData
  PROVE  Inductive'
<1>1. ReceiverTyped /\ delivered \in Seq(Handed(Len(sent)))
  BY InParts
<1>2. EscapedFlag' \in BOOLEAN /\ Take /\ delivered' = delivered /\ SeqNow = 3
  BY Zenon DEF TakeData, TakeByte
<1>3. ReceiveSeq = 3
  BY <1>2 DEF SeqNow
<1>4. Value \in Byte
  BY <1>2, Takes
<1>5. /\ ReceivePtr' = ReceivePtr + 1 /\ ReceiveSum' = (ReceiveSum + Value) % 256
      /\ InputBuffer' = PutBuffer(InputBuffer, Value)
      /\ ReceiveSeq' = IF ReceivePtr + 1 >= ReceiveLength THEN 4 ELSE 3
      /\ ReceiveLength' = ReceiveLength
  BY DEF TakeData
<1>6. /\ ReceiveLength \in Nat /\ ReceivePtr \in Nat /\ ReceiveLength <= MaxLength
      /\ GetLen(InputBuffer) = ReceivePtr
      /\ ReceivePtr < ReceiveLength \/ ReceivePtr = 0
  BY <1>1, <1>3 DEF ReceiverTyped, FrameFits
<1>7. Filled(InputBuffer') /\ GetLen(InputBuffer') = ReceivePtr + 1
  <2>1. GetLen(InputBuffer) < BufferSize - 1
    BY <1>6, Constants
  <2> QED  BY <1>1, <1>4, <1>5, <1>6, <2>1, PutFills DEF ReceiverTyped
<1>8. FrameFits'
  BY <1>5, <1>6, <1>7, Constants DEF FrameFits
<1>9. ReceiverTyped'
  <2>1. ReceiveSum' \in Byte
    BY <1>1, <1>4, <1>5, SumIsByte DEF ReceiverTyped
  <2>2. ReceiveSeq' \in 0 .. 4 /\ ReceiveLength' \in Nat /\ ReceivePtr' \in Nat
    BY <1>5, <1>6
  <2> QED  BY <1>1, <1>2, <1>7, <1>8, <2>1, <2>2 DEF ReceiverTyped
<1> QED  BY <1>1, <1>2, <1>9, Takes, InPartsNext

(* What is handed on was in the buffer.                                    *)
LEMMA CheckSumPreserves ==
  ASSUME Inductive, TakeCheckSum
  PROVE  Inductive'
<1> DEFINE sum == (ReceiveSum + Value) % 256
           got == SubSeq(Contents(InputBuffer), 1, ReceiveLength)
           handed == [p |-> got, n |-> Head(wire).n]
<1>1. ReceiverTyped /\ delivered \in Seq(Handed(Len(sent)))
  BY InParts
<1>2. EscapedFlag' \in BOOLEAN /\ Take /\ SeqNow = 4
  BY Zenon DEF TakeCheckSum, TakeByte
<1>3. ReceiveSeq = 4
  BY <1>2 DEF SeqNow
<1>4. Value \in Byte /\ Head(wire).n \in 1 .. Len(sent) /\ sent' = sent
  BY <1>2, Takes
<1>5. /\ ReceiveSum' = sum /\ ReceiveSeq' = 0
      /\ InputBuffer' = InputBuffer \/ InputBuffer' = GetBuffer(InputBuffer, ReceiveLength)
      /\ delivered' = delivered \/ delivered' = Append(delivered, handed)
      /\ ReceiveLength' = ReceiveLength /\ ReceivePtr' = ReceivePtr
  BY DEF TakeCheckSum
<1>6. Filled(InputBuffer) /\ ReceiveLength \in 0 .. GetLen(InputBuffer)
  BY <1>1, <1>3 DEF ReceiverTyped, FrameFits
<1>7. Filled(InputBuffer')
  BY <1>5, <1>6, GetKeepsFilled
<1>8. delivered' \in Seq(Handed(Len(sent')))
  <2>1. got \in Seq(Byte)
    BY <1>6, CopyIsBytes
  <2>2. handed \in Handed(Len(sent))
    BY <1>1, <1>4, <2>1 DEF Handed, ReceiverTyped
  <2> HIDE DEF handed
  <2> QED  BY <1>1, <1>4, <1>5, <2>2, AppendProperties
<1>9. FrameFits'
  BY <1>5 DEF FrameFits
<1>10. ReceiverTyped'
  <2>1. ReceiveSum' \in Byte
    BY <1>1, <1>4, <1>5, SumIsByte DEF ReceiverTyped
  <2>2. ReceiveSeq' \in 0 .. 4 /\ ReceiveLength' \in Nat /\ ReceivePtr' \in Nat
    BY <1>1, <1>5 DEF ReceiverTyped
  <2> QED  BY <1>1, <1>2, <1>7, <1>9, <2>1, <2>2 DEF ReceiverTyped
<1> QED  BY <1>2, <1>8, <1>10, Takes, InPartsNext

LEMMA StutterPreserves ==
  ASSUME Inductive, UNCHANGED vars
  PROVE  Inductive'
<1>1. ReceiverTyped'
  BY InParts, ReceiverRests DEF vars
<1>2. SenderTyped' /\ (delivered \in Seq(Handed(Len(sent))))'
  BY InParts DEF vars, SenderTyped, Writing
<1> QED  BY <1>1, <1>2, InPartsNext

(***************************************************************************)
(* The theorems                                                            *)
(***************************************************************************)
(* The invariant: whatever is lost on the line, the receiver of            *)
(* XBeeReceive stays in a state it was written for.                        *)
THEOREM LinkInvariant == Spec => []Inductive
<1>1. Init => Inductive
  BY InitHolds
<1>2. Inductive /\ [Next]_vars => Inductive'
  <2> SUFFICES ASSUME Inductive, [Next]_vars  PROVE Inductive'
    OBVIOUS
  <2>1. CASE UNCHANGED vars
    BY <2>1, StutterPreserves
  <2>2. ASSUME NEW p \in Payloads, SendHeader(p)  PROVE Inductive'
    BY <2>2, HeaderPreserves
  <2>3. ASSUME NEW i \in 1 .. Len(wire), Lose(i)  PROVE Inductive'
    BY <2>3, LosePreserves
  <2>4. CASE SendData \/ SendSum \/ CutShort
    BY <2>4, DataPreserves, SumPreserves, CutPreserves
  <2>5. CASE XBeeReceive
    BY <2>5, EscapePreserves, DelimiterPreserves, LengthHighPreserves, LengthLowPreserves,
       DataByteFits, CheckSumPreserves DEF XBeeReceive
  <2> QED  BY <2>1, <2>2, <2>3, <2>4, <2>5 DEF Next, SendPacket
<1> QED  BY <1>1, <1>2, PTL DEF Spec

(* Everything AddReadQueue is handed is made of bytes that were received,  *)
(* never of slots of the ring that were not written.                       *)
THEOREM LinkTypes == Spec => []TypeOK
<1>1. Inductive => TypeOK
  BY DEF Inductive
<1> QED  BY <1>1, LinkInvariant, PTL

(* The ring and the copy of a frame never overrun, for every size of       *)
(* buffer and limit on frames.                                             *)
THEOREM FramesFit == Spec => []FrameFits
<1>1. Inductive => FrameFits
  BY DEF Inductive
<1> QED  BY <1>1, LinkInvariant, PTL

(***************************************************************************)
(* What the receiver makes of the line                                     *)
(*                                                                         *)
(* Every byte of a packet has a place: the frame, the item of the packet   *)
(* (0 the delimiter, 1 and 2 the length, 3 .. the data, the last the check *)
(* sum), whether it is the second byte of an escaped item, and the sum of  *)
(* the data before it.                                                     *)
(***************************************************************************)
Special == {Delimiter, Escape, XON, XOFF}

Place == [n : Nat \ {0}, item : Nat, half : {0, 1}, sum : Byte]
Start(n) == [n |-> n, item |-> 0, half |-> 0, sum |-> 0]

(* The item at place a of the packet that holds p.                         *)
ValueAt(p, a) ==
  IF a.item = 1 THEN Len(p) \div 256
  ELSE IF a.item = 2 THEN Len(p) % 256
  ELSE IF a.item <= Len(p) + 2 THEN p[a.item - 2]
  ELSE 255 - a.sum

(* An escape goes before it.                                               *)
Opens(p, a) == a.item > 0 /\ a.half = 0 /\ ValueAt(p, a) \in Special

ByteAt(p, a) ==
  IF a.item = 0 THEN Delimiter
  ELSE IF a.half = 1 THEN Flip(ValueAt(p, a))
  ELSE IF ValueAt(p, a) \in Special THEN Escape
  ELSE ValueAt(p, a)

Data(p, a) == a.item >= 3 /\ a.item <= Len(p) + 2

PartAt(a) == IF a.item < 3 THEN "head" ELSE "body"

(* The next place, and the one behind the packet at its end.               *)
Following(p, a) ==
  IF Opens(p, a) THEN [n |-> a.n, item |-> a.item, half |-> 1, sum |-> a.sum]
  ELSE [n |-> a.n, item |-> a.item + 1, half |-> 0,
        sum |-> IF Data(p, a) THEN (a.sum + ValueAt(p, a)) % 256 ELSE a.sum]

IsPlace(p, a) ==
  /\ a \in Place
  /\ a.item <= Len(p) + 4
  /\ a.half = 1 => a.item > 0 /\ ValueAt(p, a) \in Special
  /\ a.item <= 3 => a.sum = 0

LEMMA FrameLength ==
  ASSUME NEW p \in Payloads
  PROVE  /\ p \in Seq(Byte) /\ Len(p) \in Nat /\ Len(p) > 0 /\ Len(p) <= MaxLength
         /\ Len(p) \div 256 \in Byte /\ Len(p) % 256 \in Byte
         /\ 256 * (Len(p) \div 256) + (Len(p) % 256) = Len(p)
<1>1. p \in Seq(Byte) /\ Len(p) \in 1 .. MaxLength /\ MaxLength \in Nat /\ MaxLength < 65536
  BY Constants
<1>2. Len(p) \in Nat /\ Len(p) > 0 /\ Len(p) <= MaxLength /\ Len(p) < 65536
  BY <1>1
<1>3. Len(p) \div 256 \in Byte /\ Len(p) % 256 \in Byte
  BY <1>2, LengthInBytes
<1>4. ASSUME NEW n \in Nat  PROVE 256 * (n \div 256) + (n % 256) = n
  BY <1>4, SMT
<1> QED  BY <1>1, <1>2, <1>3, <1>4

LEMMA Specials == Delimiter = 126 /\ Escape = 125 /\ Special = {126, 125, 17, 19}
BY DEF Delimiter, Escape, XON, XOFF, Special

(* What an escape does to a byte that needs one.                           *)
LEMMA FlipTurns ==
  ASSUME NEW v \in Special
  PROVE  /\ v \in Byte /\ Flip(v) \in Byte /\ Flip(Flip(v)) = v
         /\ Flip(v) \notin {Delimiter, Escape}
         /\ Flip(v) = v + 32 \/ Flip(v) = v - 32
<1>1. v \in {126, 125, 17, 19}
  BY Specials
<1>2. Flip(126) = 94 /\ Flip(94) = 126 /\ Flip(125) = 93 /\ Flip(93) = 125
  BY SMT DEF Flip
<1>3. Flip(17) = 49 /\ Flip(49) = 17 /\ Flip(19) = 51 /\ Flip(51) = 19
  BY SMT DEF Flip
<1> QED  BY <1>1, <1>2, <1>3, Specials, SMT DEF Byte

LEMMA ValueIsByte ==
  ASSUME NEW p \in Payloads, NEW a, IsPlace(p, a), a.item > 0
  PROVE  ValueAt(p, a) \in Byte
<1>1. /\ a.item \in Nat /\ a.sum \in Byte
  BY DEF IsPlace, Place
<1>2. CASE a.item <= 2
  BY <1>1, <1>2, FrameLength DEF ValueAt
<1>3. CASE a.item > 2 /\ a.item <= Len(p) + 2
  <2>1. a.item - 2 \in 1 .. Len(p)
    BY <1>1, <1>3, FrameLength
  <2>2. p[a.item - 2] \in Byte
    BY <2>1, FrameLength, ElementOfSeq
  <2> QED  BY <1>1, <1>3, <2>2 DEF ValueAt
<1>4. CASE a.item > Len(p) + 2
  <2>1. ValueAt(p, a) = 255 - a.sum
    BY <1>1, <1>4, FrameLength DEF ValueAt
  <2> QED  BY <1>1, <2>1 DEF Byte
<1> QED  BY <1>1, <1>2, <1>3, <1>4, FrameLength

LEMMA FollowingIsPlace ==
  ASSUME NEW p \in Payloads, NEW a, IsPlace(p, a), a.item <= Len(p) + 3
  PROVE  /\ IsPlace(p, Following(p, a))
         /\ Following(p, a).n = a.n
         /\ Following(p, a).item = IF Opens(p, a) THEN a.item ELSE a.item + 1
         /\ Following(p, a).half = IF Opens(p, a) THEN 1 ELSE 0
         /\ Following(p, a).sum = IF ~Opens(p, a) /\ Data(p, a) THEN (a.sum + ValueAt(p, a)) % 256
                                  ELSE a.sum
<1> DEFINE b == Following(p, a)
<1>1. /\ a.item \in Nat /\ a.sum \in Byte /\ a.n \in Nat \ {0} /\ a.half \in {0, 1}
      /\ a.item <= 3 => a.sum = 0
  BY DEF IsPlace, Place
<1>2. CASE Opens(p, a)
  <2>1. b = [n |-> a.n, item |-> a.item, half |-> 1, sum |-> a.sum]
    BY <1>2 DEF Following
  <2>2. ValueAt(p, b) = ValueAt(p, a)
    BY <2>1 DEF ValueAt
  <2>3. b \in Place
    BY <1>1, <2>1 DEF Place
  <2>4. b.item = a.item /\ b.half = 1 /\ b.sum = a.sum /\ b.n = a.n
    BY <2>1
  <2>5. a.item <= Len(p) + 4
    BY <1>1, FrameLength
  <2> HIDE DEF b
  <2>6. IsPlace(p, b)
    BY <1>1, <1>2, <2>2, <2>3, <2>4, <2>5 DEF IsPlace, Opens
  <2> QED  BY <1>2, <2>4, <2>6 DEF b
<1>3. CASE ~Opens(p, a)
  <2> DEFINE t == IF Data(p, a) THEN (a.sum + ValueAt(p, a)) % 256 ELSE a.sum
  <2>1. b = [n |-> a.n, item |-> a.item + 1, half |-> 0, sum |-> t]
    BY <1>3 DEF Following
  <2>2. t \in Byte
    <3>1. CASE Data(p, a)
      <4>1. ValueAt(p, a) \in Byte
        BY <1>1, <3>1, ValueIsByte DEF Data
      <4> QED  BY <1>1, <3>1, <4>1, SumIsByte
    <3> QED  BY <1>1, <3>1
  <2>3. a.item <= 2 => t = 0
    BY <1>1 DEF Data
  <2> HIDE DEF t
  <2>4. b \in Place
    BY <1>1, <2>1, <2>2 DEF Place
  <2>5. b.item = a.item + 1 /\ b.half = 0 /\ b.sum = t /\ b.n = a.n
    BY <2>1
  <2> HIDE DEF b
  <2>6. IsPlace(p, b)
    BY <1>1, <2>3, <2>4, <2>5, FrameLength DEF IsPlace
  <2> QED  BY <1>3, <2>5, <2>6 DEF b, t
<1> QED  BY <1>2, <1>3

(* Only the delimiter looks like one, and only an escape like one.         *)
LEMMA BytesSpeak ==
  ASSUME NEW p \in Payloads, NEW a, IsPlace(p, a)
  PROVE  /\ ByteAt(p, a) \in Byte
         /\ ByteAt(p, a) = Delimiter <=> a.item = 0
         /\ ByteAt(p, a) = Escape <=> Opens(p, a)
         /\ a.item > 0 /\ a.half = 0 /\ ~Opens(p, a) => ByteAt(p, a) = ValueAt(p, a)
         /\ a.item > 0 /\ a.half = 1 =>
              /\ ByteAt(p, a) = Flip(ValueAt(p, a)) /\ Flip(ByteAt(p, a)) = ValueAt(p, a)
              /\ ~Opens(p, a)
<1>1. a.item \in Nat /\ a.half \in {0, 1}
  BY DEF IsPlace, Place
<1>2. Delimiter \in Special /\ Escape \in Special /\ Delimiter \in Byte /\ Escape \in Byte
      /\ Delimiter # Escape
  BY Specials DEF Byte
<1>3. CASE a.item = 0
  BY <1>2, <1>3 DEF ByteAt, Opens
<1>4. CASE a.item > 0 /\ a.half = 1
  <2>1. ValueAt(p, a) \in Special
    BY <1>4 DEF IsPlace
  <2>2. ByteAt(p, a) = Flip(ValueAt(p, a))
    BY <1>1, <1>4 DEF ByteAt
  <2> QED  BY <1>1, <1>2, <1>4, <2>1, <2>2, FlipTurns DEF Opens
<1>5. CASE a.item > 0 /\ a.half = 0
  <2>1. ValueAt(p, a) \in Byte
    BY <1>5, ValueIsByte
  <2>2. ByteAt(p, a) = IF ValueAt(p, a) \in Special THEN Escape ELSE ValueAt(p, a)
    BY <1>1, <1>5 DEF ByteAt
  <2> QED  BY <1>1, <1>2, <1>5, <2>1, <2>2 DEF Opens
<1> QED  BY <1>1, <1>3, <1>4, <1>5

(***************************************************************************)
(* The bytes in the ring, as a sequence                                    *)
(***************************************************************************)
LEMMA ContentsLength ==
  ASSUME NEW b, Filled(b)
  PROVE  Contents(b) \in Seq(Byte) /\ Len(Contents(b)) = GetLen(b) /\ GetLen(b) \in Nat
<1>1. GetLen(b) \in Nat
  BY LenInSlot, Constants DEF Filled, Slot
<1>2. \A i \in 1 .. GetLen(b) : Contents(b)[i] \in Byte
  BY <1>1 DEF Contents, Filled
<1>3. Contents(b) \in [1 .. GetLen(b) -> Byte]
  BY <1>2 DEF Contents
<1> QED  BY <1>1, <1>3

LEMMA PutExtends ==
  ASSUME NEW b, Filled(b), NEW d \in Byte, GetLen(b) < BufferSize - 1
  PROVE  Contents(PutBuffer(b, d)) = Append(Contents(b), d)
<1> DEFINE c == PutBuffer(b, d)
<1>1. /\ GetLen(c) = GetLen(b) + 1 /\ PeekBuffer(c, GetLen(b)) = d
      /\ \A i \in 0 .. GetLen(b) - 1 : PeekBuffer(c, i) = PeekBuffer(b, i)
  BY PutAppends DEF Filled
<1>2. GetLen(b) \in Nat
  BY LenInSlot, Constants DEF Filled, Slot
<1>3. Contents(b) \in Seq(Byte) /\ Len(Contents(b)) = GetLen(b)
  <2>1. \A i \in 1 .. GetLen(b) : Contents(b)[i] \in Byte
    BY <1>2 DEF Contents, Filled
  <2>2. Contents(b) \in [1 .. GetLen(b) -> Byte]
    BY <2>1 DEF Contents
  <2> QED  BY <1>2, <2>2
<1>4. Contents(c) = [i \in 1 .. GetLen(b) + 1 |-> PeekBuffer(c, i - 1)]
  BY <1>1 DEF Contents
<1>5. /\ Append(Contents(b), d) \in Seq(Byte) /\ Len(Append(Contents(b), d)) = GetLen(b) + 1
      /\ Append(Contents(b), d)[GetLen(b) + 1] = d
      /\ \A i \in 1 .. GetLen(b) : Append(Contents(b), d)[i] = Contents(b)[i]
  BY <1>2, <1>3, AppendProperties
<1>6. ASSUME NEW i \in 1 .. GetLen(b) + 1
      PROVE  Contents(c)[i] = Append(Contents(b), d)[i]
  <2>1. Contents(c)[i] = PeekBuffer(c, i - 1)
    BY <1>4
  <2>2. CASE i = GetLen(b) + 1
    BY <1>1, <1>2, <1>5, <2>1, <2>2
  <2>3. CASE i # GetLen(b) + 1
    <3>1. i \in 1 .. GetLen(b) /\ i - 1 \in 0 .. GetLen(b) - 1
      BY <1>2, <2>3
    <3>2. Contents(b)[i] = PeekBuffer(b, i - 1)
      BY <3>1 DEF Contents
    <3> QED  BY <1>1, <1>5, <2>1, <3>1, <3>2
  <2> QED  BY <2>2, <2>3
<1>7. Contents(c) \in Seq(Byte) /\ Len(Contents(c)) = GetLen(b) + 1
  <2>1. Filled(c)
    BY PutFills
  <2> QED  BY <1>1, <2>1, ContentsLength
<1> HIDE DEF c
<1>8. Contents(c) = Append(Contents(b), d)
  BY <1>2, <1>5, <1>6, <1>7, SeqEqual
<1> QED  BY <1>8 DEF c

LEMMA GetAllEmpties ==
  ASSUME NEW b, Filled(b)
  PROVE  Contents(GetBuffer(b, GetLen(b))) = << >>
<1>1. GetLen(b) \in Nat
  BY LenInSlot, Constants DEF Filled, Slot
<1>2. GetLen(b) \in 0 .. GetLen(b)
  BY <1>1
<1>3. GetLen(GetBuffer(b, GetLen(b))) = 0
  BY <1>1, <1>2, GetKeepsFilled
<1> QED  BY <1>3 DEF Contents

(***************************************************************************)
(* Reading a byte                                                          *)
(***************************************************************************)
(* Which case of XBeeReceive takes it.                                     *)
LEMMA ReadsBy ==
  ASSUME XBeeReceive
  PROVE  /\ Next1 = Escape => TakeEscape
         /\ Next1 = Delimiter => TakeDelimiter
         /\ Next1 # Escape /\ Next1 # Delimiter =>
              \/ ReceiveSeq = 0 /\ TakeDelimiter
              \/ ReceiveSeq = 1 /\ TakeLengthHigh
              \/ ReceiveSeq = 2 /\ TakeLengthLow
              \/ ReceiveSeq = 3 /\ TakeData
              \/ ReceiveSeq = 4 /\ TakeCheckSum
<1>1. Delimiter # Escape
  BY Specials
<1>2. Next1 # Escape \/ ~(TakeDelimiter \/ TakeLengthHigh \/ TakeLengthLow \/ TakeData \/ TakeCheckSum)
  BY Zenon DEF TakeDelimiter, TakeLengthHigh, TakeLengthLow, TakeData, TakeCheckSum, TakeByte
<1>3. TakeEscape => Next1 = Escape
  BY Zenon DEF TakeEscape
<1>4. /\ TakeDelimiter => SeqNow = 0
      /\ TakeLengthHigh => SeqNow = 1
      /\ TakeLengthLow => SeqNow = 2
      /\ TakeData => SeqNow = 3
      /\ TakeCheckSum => SeqNow = 4
  BY Zenon DEF TakeDelimiter, TakeLengthHigh, TakeLengthLow, TakeData, TakeCheckSum, TakeByte
<1>5. SeqNow = IF Next1 = Delimiter THEN 0 ELSE ReceiveSeq
  BY DEF SeqNow, Restarted
<1> HIDE DEF Next1, SeqNow
<1> QED  BY <1>1, <1>2, <1>3, <1>4, <1>5 DEF XBeeReceive

(* A byte that is no delimiter means what it is or, behind an escape, what *)
(* the escape has turned.                                                  *)
LEMMA ReadsAs ==
  /\ Next1 # Delimiter => Value = IF EscapedFlag THEN Flip(Next1) ELSE Next1
  /\ Next1 = Delimiter => Value = Delimiter
BY DEF Value, Restarted

LEMMA EscapeReads ==
  ASSUME TakeEscape
  PROVE  /\ EscapedFlag' = TRUE /\ ReceiveSeq' = ReceiveSeq /\ ReceiveLength' = ReceiveLength
         /\ ReceivePtr' = ReceivePtr /\ ReceiveSum' = ReceiveSum
         /\ Contents(InputBuffer)' = Contents(InputBuffer) /\ delivered' = delivered
BY DEF TakeEscape, Contents, GetLen, Masked, PeekBuffer

LEMMA DelimiterReads ==
  ASSUME TakeDelimiter
  PROVE  /\ EscapedFlag' = FALSE /\ ReceiveSeq' = IF Value = Delimiter THEN 1 ELSE 0
         /\ delivered' = delivered
BY DEF TakeDelimiter, TakeByte

LEMMA HighReads ==
  ASSUME TakeLengthHigh
  PROVE  /\ EscapedFlag' = FALSE /\ ReceiveSeq' = 2 /\ ReceiveLength' = 256 * Value
         /\ delivered' = delivered
BY DEF TakeLengthHigh, TakeByte

LEMMA LowReads ==
  ASSUME Inductive, TakeLengthLow
  PROVE  /\ EscapedFlag' = FALSE
         /\ ReceiveSeq' = IF ReceiveLength + Value > MaxLength THEN 0 ELSE 3
         /\ ReceiveLength' = ReceiveLength + Value /\ ReceivePtr' = 0 /\ ReceiveSum' = 0
         /\ Contents(InputBuffer)' = << >> /\ delivered' = delivered
<1>1. Filled(InputBuffer)
  BY DEF Inductive
<1>2. Contents(InputBuffer') = << >>
  BY <1>1, GetAllEmpties DEF TakeLengthLow
<1> QED  BY <1>2 DEF TakeLengthLow, TakeByte

LEMMA DataReads ==
  ASSUME Inductive, TakeData
  PROVE  /\ EscapedFlag' = FALSE
         /\ ReceiveSeq' = IF ReceivePtr + 1 >= ReceiveLength THEN 4 ELSE 3
         /\ ReceiveLength' = ReceiveLength /\ ReceivePtr' = ReceivePtr + 1
         /\ ReceiveSum' = (ReceiveSum + Value) % 256
         /\ Contents(InputBuffer)' = Append(Contents(InputBuffer), Value)
         /\ delivered' = delivered
         /\ ReceivePtr < ReceiveLength \/ ReceivePtr = 0
<1>1. Take /\ SeqNow = 3 /\ InputBuffer' = PutBuffer(InputBuffer, Value)
  BY Zenon DEF TakeData, TakeByte
<1>2. ReceiveSeq = 3
  BY <1>1 DEF SeqNow
<1>3. ReceiverTyped /\ Filled(InputBuffer)
  BY InParts DEF Inductive
<1>4. /\ ReceivePtr \in Nat /\ ReceiveLength \in Nat /\ ReceiveLength <= MaxLength
      /\ GetLen(InputBuffer) = ReceivePtr /\ (ReceivePtr < ReceiveLength \/ ReceivePtr = 0)
  BY <1>2, <1>3 DEF ReceiverTyped, FrameFits
<1>5. GetLen(InputBuffer) < BufferSize - 1
  <2>1. ReceivePtr < MaxLength
    BY <1>2, <1>3, <1>4, Constants DEF ReceiverTyped, FrameFits
  <2> QED  BY <1>2, <1>3, <2>1, Constants DEF ReceiverTyped, FrameFits
<1>6. Value \in Byte
  BY <1>1, Takes
<1>7. Contents(InputBuffer') = Append(Contents(InputBuffer), Value)
  BY <1>1, <1>3, <1>5, <1>6, PutExtends
<1>8. ReceivePtr < ReceiveLength \/ ReceivePtr = 0
  BY <1>2, <1>3 DEF ReceiverTyped, FrameFits
<1> QED  BY <1>7, <1>8 DEF TakeData, TakeByte

LEMMA SumReads ==
  ASSUME Inductive, TakeCheckSum
  PROVE  /\ EscapedFlag' = FALSE /\ ReceiveSeq' = 0
         /\ IF (ReceiveSum + Value) % 256 = 255
            THEN delivered' = Append(delivered, [p |-> SubSeq(Contents(InputBuffer), 1, ReceiveLength),
                                                 n |-> Head(wire).n])
            ELSE delivered' = delivered
         /\ ReceiveLength <= Len(Contents(InputBuffer)) /\ Filled(InputBuffer)
<1>1. SeqNow = 4
  BY Zenon DEF TakeCheckSum, TakeByte
<1>2. ReceiveSeq = 4
  BY <1>1 DEF SeqNow
<1>3. ReceiverTyped /\ Filled(InputBuffer)
  BY InParts DEF Inductive
<1>4. ReceiveLength <= GetLen(InputBuffer)
  BY <1>2, <1>3 DEF ReceiverTyped, FrameFits
<1>5. ReceiveLength <= Len(Contents(InputBuffer))
  BY <1>3, <1>4, ContentsLength
<1> QED  BY <1>3, <1>5 DEF TakeCheckSum, TakeByte

(***************************************************************************)
(* A receiver in step with the line                                        *)
(***************************************************************************)
(* It expects the byte at place a of the packet that holds p.              *)
Synced(p, a) ==
  /\ a.item > 0
  /\ EscapedFlag <=> a.half = 1
  /\ a.item = 1 => ReceiveSeq = 1
  /\ a.item = 2 => ReceiveSeq = 2 /\ ReceiveLength = 256 * (Len(p) \div 256)
  /\ a.item >= 3 =>
       /\ ReceiveSeq = IF a.item <= Len(p) + 2 THEN 3 ELSE 4
       /\ ReceiveLength = Len(p) /\ ReceivePtr = a.item - 3 /\ ReceiveSum = a.sum
       /\ Contents(InputBuffer) = SubSeq(p, 1, a.item - 3)

(* At the delimiter it falls into step, whatever it was doing.             *)
LEMMA DelimiterSyncs ==
  ASSUME Inductive, XBeeReceive, NEW p \in Payloads, NEW a, IsPlace(p, a), a.item = 0,
         Next1 = ByteAt(p, a)
  PROVE  Synced(p, Following(p, a))' /\ delivered' = delivered
<1> DEFINE b == Following(p, a)
<1>1. b.item = 1 /\ b.half = 0
  <2>1. ~Opens(p, a) /\ a.item <= Len(p) + 3
    BY FrameLength DEF Opens
  <2> QED  BY <2>1, FollowingIsPlace
<1>2. Next1 = Delimiter
  BY DEF ByteAt
<1>3. EscapedFlag' = FALSE /\ ReceiveSeq' = 1 /\ delivered' = delivered
  BY <1>2, ReadsBy, ReadsAs, DelimiterReads
<1> HIDE DEF b
<1>4. Synced(p, b)'
  BY <1>1, <1>3 DEF Synced
<1> QED  BY <1>3, <1>4 DEF b

LEMMA EscapeSyncs ==
  ASSUME XBeeReceive, NEW p \in Payloads, NEW a, IsPlace(p, a), a.item <= Len(p) + 3,
         Next1 = ByteAt(p, a), Opens(p, a), Synced(p, a)
  PROVE  Synced(p, Following(p, a))' /\ delivered' = delivered
<1> DEFINE b == Following(p, a)
<1>1. b.item = a.item /\ b.half = 1 /\ b.sum = a.sum /\ a.item > 0
  BY FollowingIsPlace DEF Opens
<1>2. Next1 = Escape
  BY BytesSpeak
<1>3. /\ EscapedFlag' = TRUE /\ ReceiveSeq' = ReceiveSeq /\ ReceiveLength' = ReceiveLength
      /\ ReceivePtr' = ReceivePtr /\ ReceiveSum' = ReceiveSum
      /\ Contents(InputBuffer)' = Contents(InputBuffer) /\ delivered' = delivered
  BY <1>2, ReadsBy, EscapeReads
<1> HIDE DEF b
<1>4. Synced(p, b)'
  BY <1>1, <1>3 DEF Synced
<1> QED  BY <1>3, <1>4 DEF b

(* It understands every value.                                             *)
LEMMA SyncedValue ==
  ASSUME NEW p \in Payloads, NEW a, IsPlace(p, a), a.item > 0, ~Opens(p, a),
         EscapedFlag <=> a.half = 1, Next1 = ByteAt(p, a)
  PROVE  Value = ValueAt(p, a) /\ Next1 # Escape /\ Next1 # Delimiter
<1>1. a.half \in {0, 1}
  BY DEF IsPlace, Place
<1>2. Next1 # Escape /\ Next1 # Delimiter
  BY BytesSpeak
<1>3. Value = IF EscapedFlag THEN Flip(Next1) ELSE Next1
  BY <1>2, ReadsAs
<1>4. CASE a.half = 0
  BY <1>2, <1>3, <1>4, BytesSpeak
<1>5. CASE a.half = 1
  BY <1>2, <1>3, <1>5, BytesSpeak
<1> QED  BY <1>1, <1>4, <1>5

LEMMA LengthSyncs ==
  ASSUME Inductive, XBeeReceive, NEW p \in Payloads, NEW a, IsPlace(p, a),
         Next1 = ByteAt(p, a), ~Opens(p, a), Synced(p, a), a.item <= 2
  PROVE  Synced(p, Following(p, a))' /\ delivered' = delivered
<1> DEFINE b == Following(p, a)
<1>1. a.item \in Nat /\ a.item > 0 /\ a.sum = 0
  BY DEF IsPlace, Place, Synced
<1>2. b.item = a.item + 1 /\ b.half = 0 /\ b.sum = 0
  <2>1. a.item <= Len(p) + 3 /\ ~Data(p, a)
    BY <1>1, FrameLength DEF Data
  <2> QED  BY <1>1, <2>1, FollowingIsPlace
<1>3. Value = ValueAt(p, a) /\ Next1 # Escape /\ Next1 # Delimiter
  BY <1>1, SyncedValue DEF Synced
<1>4. CASE a.item = 1
  <2>1. Value = Len(p) \div 256
    BY <1>3, <1>4 DEF ValueAt
  <2>2. /\ EscapedFlag' = FALSE /\ ReceiveSeq' = 2 /\ ReceiveLength' = 256 * (Len(p) \div 256)
        /\ delivered' = delivered
    BY <1>3, <1>4, <2>1, ReadsBy, HighReads DEF Synced
  <2>3. b.item = 2 /\ b.half = 0
    BY <1>2, <1>4
  <2> HIDE DEF b
  <2>4. Synced(p, b)'
    BY <2>2, <2>3 DEF Synced
  <2> QED  BY <2>2, <2>4 DEF b
<1>5. CASE a.item = 2
  <2>1. Value = Len(p) % 256
    BY <1>3, <1>5 DEF ValueAt
  <2>2. ReceiveSeq = 2 /\ ReceiveLength = 256 * (Len(p) \div 256)
    BY <1>5 DEF Synced
  <2>3. /\ EscapedFlag' = FALSE
        /\ ReceiveSeq' = IF ReceiveLength + Value > MaxLength THEN 0 ELSE 3
        /\ ReceiveLength' = ReceiveLength + Value /\ ReceivePtr' = 0 /\ ReceiveSum' = 0
        /\ Contents(InputBuffer)' = << >> /\ delivered' = delivered
    BY <1>3, <2>2, ReadsBy, LowReads
  <2>4. ReceiveLength + Value = Len(p) /\ Len(p) <= MaxLength /\ Len(p) \in Nat /\ Len(p) > 0
    BY <2>1, <2>2, FrameLength
  <2>5. ReceiveSeq' = 3
    BY <2>3, <2>4, Constants
  <2>6. b.item = 3 /\ b.half = 0 /\ b.sum = 0
    BY <1>2, <1>5
  <2>7. SubSeq(p, 1, 0) = << >>
    BY FrameLength, SubSeqEmpty
  <2> HIDE DEF b
  <2>8. Synced(p, b)'
    BY <2>3, <2>4, <2>5, <2>6, <2>7 DEF Synced
  <2> QED  BY <2>3, <2>8 DEF b
<1> QED  BY <1>1, <1>4, <1>5

LEMMA DataSyncs ==
  ASSUME Inductive, XBeeReceive, NEW p \in Payloads, NEW a, IsPlace(p, a),
         Next1 = ByteAt(p, a), ~Opens(p, a), Synced(p, a), Data(p, a)
  PROVE  Synced(p, Following(p, a))' /\ delivered' = delivered
<1> DEFINE b == Following(p, a)
           k == a.item - 3
<1>1. a.item \in Nat /\ a.item >= 3 /\ a.item <= Len(p) + 2 /\ k \in Nat /\ k + 1 \in 1 .. Len(p)
  BY FrameLength DEF IsPlace, Place, Data
<1>2. b.item = a.item + 1 /\ b.half = 0 /\ b.sum = (a.sum + ValueAt(p, a)) % 256
  <2>1. a.item <= Len(p) + 3
    BY <1>1, FrameLength
  <2> QED  BY <2>1, FollowingIsPlace
<1>3. Value = ValueAt(p, a) /\ Next1 # Escape /\ Next1 # Delimiter
  BY <1>1, SyncedValue DEF Synced
<1>4. /\ ReceiveSeq = 3 /\ ReceiveLength = Len(p) /\ ReceivePtr = k /\ ReceiveSum = a.sum
      /\ Contents(InputBuffer) = SubSeq(p, 1, k)
  BY <1>1 DEF Synced
<1>5. /\ EscapedFlag' = FALSE
      /\ ReceiveSeq' = IF ReceivePtr + 1 >= ReceiveLength THEN 4 ELSE 3
      /\ ReceiveLength' = ReceiveLength /\ ReceivePtr' = ReceivePtr + 1
      /\ ReceiveSum' = (ReceiveSum + Value) % 256
      /\ Contents(InputBuffer)' = Append(Contents(InputBuffer), Value)
      /\ delivered' = delivered
  BY <1>3, <1>4, ReadsBy, DataReads
<1>6. Value = p[k + 1]
  <2>1. ValueAt(p, a) = p[a.item - 2]
    BY <1>1, FrameLength DEF ValueAt
  <2> QED  BY <1>1, <1>3, <2>1
<1>7. Append(SubSeq(p, 1, k), p[k + 1]) = SubSeq(p, 1, k + 1)
  <2>1. p \in Seq(Byte) /\ Len(p) \in Nat
    BY FrameLength
  <2>2. SubSeq(p, 1, k + 1) = Append(SubSeq(p, 1, k), p[k + 1])
    <3> HIDE DEF k
    <3> QED  BY <1>1, <2>1, SubSeqRecursiveSecond
  <2> QED  BY <2>2
<1>8. Contents(InputBuffer)' = SubSeq(p, 1, k + 1)
  BY <1>4, <1>5, <1>6, <1>7
<1>9. b.item - 3 = k + 1 /\ b.item >= 3 /\ b.item \in Nat
  BY <1>1, <1>2
<1>10. ReceiveSeq' = IF b.item <= Len(p) + 2 THEN 3 ELSE 4
  <2>1. ReceiveSeq' = IF k + 1 >= Len(p) THEN 4 ELSE 3
    BY <1>4, <1>5
  <2>2. k + 1 >= Len(p) <=> ~(b.item <= Len(p) + 2)
    <3>1. Len(p) \in Nat /\ k \in Nat /\ b.item = k + 4
      BY <1>1, <1>2, FrameLength
    <3> HIDE DEF k, b
    <3> QED  BY <3>1
  <2> HIDE DEF k, b
  <2> QED  BY <2>1, <2>2, Zenon
<1>11. ReceiveSum' = b.sum
  BY <1>2, <1>3, <1>4, <1>5
<1>12. ReceiveLength' = Len(p) /\ ReceivePtr' = k + 1
  BY <1>4, <1>5
<1> HIDE DEF b, k
<1>13. Synced(p, b)'
  BY <1>2, <1>5, <1>8, <1>9, <1>10, <1>11, <1>12 DEF Synced
<1> QED  BY <1>5, <1>13 DEF b

(* The last byte of a packet hands its data on.                            *)
LEMMA SumSyncs ==
  ASSUME Inductive, XBeeReceive, NEW p \in Payloads, NEW a, IsPlace(p, a),
         Next1 = ByteAt(p, a), ~Opens(p, a), Synced(p, a), a.item = Len(p) + 3
  PROVE  ReceiveSeq' = 0 /\ delivered' = Append(delivered, [p |-> p, n |-> Head(wire).n])
<1>1. a.item \in Nat /\ a.item > 3 /\ a.sum \in Byte /\ a.item > 0
  BY FrameLength DEF IsPlace, Place
<1>2. Value = ValueAt(p, a) /\ Next1 # Escape /\ Next1 # Delimiter
  BY <1>1, SyncedValue DEF Synced
<1>3. Value = 255 - a.sum
  <2>1. ~(a.item <= Len(p) + 2) /\ a.item # 1 /\ a.item # 2
    BY <1>1, FrameLength
  <2> QED  BY <1>2, <2>1 DEF ValueAt
<1>4. /\ ReceiveSeq = 4 /\ ReceiveLength = Len(p) /\ ReceiveSum = a.sum
      /\ Contents(InputBuffer) = SubSeq(p, 1, Len(p))
  <2>1. a.item >= 3 /\ ~(a.item <= Len(p) + 2) /\ a.item - 3 = Len(p)
    BY <1>1, FrameLength
  <2> QED  BY <2>1 DEF Synced
<1>5. (ReceiveSum + Value) % 256 = 255
  <2>1. a.sum \in Int
    <3>1. a.sum \in Byte
      BY <1>1
    <3>2. Byte \subseteq Int
      BY Constants
    <3> QED  BY <3>1, <3>2, Zenon
  <2>2. ReceiveSum = a.sum
    BY <1>4
  <2>3. ASSUME NEW x \in Int  PROVE x + (255 - x) = 255
    BY <2>3
  <2>4. ReceiveSum + Value = 255
    BY <1>3, <2>1, <2>2, <2>3
  <2> QED  BY <2>4
<1>6. SubSeq(p, 1, Len(p)) = p
  BY FrameLength, SubSeqFull
<1>7. TakeCheckSum
  <2>1. ReceiveSeq = 4
    BY <1>4
  <2> QED  BY <1>2, <2>1, ReadsBy
<1>8. /\ ReceiveSeq' = 0
      /\ delivered' = Append(delivered, [p |-> SubSeq(Contents(InputBuffer), 1, ReceiveLength),
                                         n |-> Head(wire).n])
  BY <1>5, <1>7, SumReads
<1>9. SubSeq(Contents(InputBuffer), 1, ReceiveLength) = p
  BY <1>4, <1>6
<1> QED  BY <1>8, <1>9

(* A receiver in step stays in step to the end of the packet.              *)
LEMMA StaysInStep ==
  ASSUME Inductive, XBeeReceive, NEW p \in Payloads, NEW a, IsPlace(p, a),
         a.item <= Len(p) + 3, Next1 = ByteAt(p, a), a.item = 0 \/ Synced(p, a)
  PROVE  IF Following(p, a).item = Len(p) + 4
         THEN ReceiveSeq' = 0 /\ delivered' = Append(delivered, [p |-> p, n |-> Head(wire).n])
         ELSE Synced(p, Following(p, a))' /\ delivered' = delivered
<1>1. a.item \in Nat /\ Len(p) \in Nat /\ Len(p) > 0
  BY FrameLength DEF IsPlace, Place
<1>2. Following(p, a).item = IF Opens(p, a) THEN a.item ELSE a.item + 1
  BY FollowingIsPlace
<1>3. CASE a.item = 0
  <2>1. Following(p, a).item # Len(p) + 4
    BY <1>1, <1>2, <1>3
  <2> QED  BY <1>3, <2>1, DelimiterSyncs
<1>4. CASE a.item # 0 /\ Opens(p, a)
  <2>1. Following(p, a).item # Len(p) + 4
    BY <1>1, <1>2, <1>4
  <2> QED  BY <1>4, <2>1, EscapeSyncs
<1>5. CASE a.item # 0 /\ ~Opens(p, a) /\ a.item <= 2
  <2>1. Following(p, a).item # Len(p) + 4
    BY <1>1, <1>2, <1>5
  <2> QED  BY <1>5, <2>1, LengthSyncs
<1>6. CASE a.item # 0 /\ ~Opens(p, a) /\ Data(p, a)
  <2>1. Following(p, a).item # Len(p) + 4
    BY <1>1, <1>2, <1>6 DEF Data
  <2> QED  BY <1>6, <2>1, DataSyncs
<1>7. CASE a.item # 0 /\ ~Opens(p, a) /\ a.item = Len(p) + 3
  <2>1. Following(p, a).item = Len(p) + 4
    BY <1>1, <1>2, <1>7
  <2> QED  BY <1>7, <2>1, SumSyncs
<1>8. a.item <= 2 \/ Data(p, a) \/ a.item = Len(p) + 3
  BY <1>1 DEF Data
<1> QED  BY <1>3, <1>4, <1>5, <1>6, <1>7, <1>8

(***************************************************************************)
(* A receiver that has missed a byte                                       *)
(***************************************************************************)
(* An item was lost: it has taken fewer items than were sent, and will     *)
(* have too few to the end of the packet.                                  *)
Behind(p, a, cut) ==
  /\ a.item > 0
  /\ ReceiveSeq = 1 => a.item >= 2
  /\ ReceiveSeq = 2 => a.item >= 3
  /\ ReceiveSeq = 3 => a.item >= ReceivePtr + 4
  /\ ReceiveSeq = 4 => a.item >= ReceiveLength + 4
  /\ a.n \notin cut => ReceiveSeq = 3 /\ ReceiveLength = Len(p)

(* The escape of a byte of the length was lost: it takes, or has taken,    *)
(* the length for another.                                                 *)
Misjudged(p, a, cut) ==
  /\ a.n \in cut
  /\ a.item > 0
  /\ \/ ReceiveSeq = 1 /\ a.item = 1 /\ a.half = 1 /\ ~EscapedFlag
     \/ /\ ReceiveSeq = 2 /\ a.item = 2 /\ ReceiveLength # 256 * (Len(p) \div 256)
        /\ EscapedFlag <=> a.half = 1
     \/ /\ ReceiveSeq = 2 /\ a.item = 2 /\ ReceiveLength = 256 * (Len(p) \div 256)
        /\ a.half = 1 /\ ~EscapedFlag
     \/ /\ ReceiveSeq \in {3, 4} /\ ReceiveLength # Len(p) /\ a.item >= ReceivePtr + 3
        /\ ReceiveSeq = 4 => a.item >= ReceiveLength + 3

(* The escape of the data or of the check sum was lost: its sum is, or     *)
(* will be, another than the sender's.                                     *)
Missummed(p, a) ==
  /\ a.item >= 3 /\ ReceiveSeq = IF a.item <= Len(p) + 2 THEN 3 ELSE 4
  /\ ReceiveLength = Len(p) /\ ReceivePtr = a.item - 3
  /\ \/ a.half = 1 /\ ~EscapedFlag /\ ReceiveSum = a.sum
     \/ (EscapedFlag <=> a.half = 1) /\ ReceiveSum # a.sum

Astray(p, a, cut) == Behind(p, a, cut) \/ Misjudged(p, a, cut) \/ Missummed(p, a)

(* One lost byte leads astray.                                             *)
MissingStrays ==
  \A p \in Payloads : \A a, cut :
    IsPlace(p, a) /\ Following(p, a).item <= Len(p) + 3 /\ (a.item < 3 => a.n \in cut)
      /\ (IF a.item = 0 THEN ReceiveSeq = 0 ELSE Synced(p, a))
    => Astray(p, Following(p, a), cut)

LEMMA Strays == MissingStrays
<1> SUFFICES ASSUME NEW p \in Payloads, NEW a, NEW cut,
                    IsPlace(p, a), Following(p, a).item <= Len(p) + 3, a.item < 3 => a.n \in cut,
                    IF a.item = 0 THEN ReceiveSeq = 0 ELSE Synced(p, a)
             PROVE  Astray(p, Following(p, a), cut)
  BY Zenon DEF MissingStrays
<1> DEFINE b == Following(p, a)
<1>1. a.item \in Nat /\ Len(p) \in Nat /\ Len(p) > 0 /\ a.item <= Len(p) + 4 /\ a.half \in {0, 1}
  BY FrameLength DEF IsPlace, Place
<1>2. a.item <= Len(p) + 3
  <2>1. CASE Opens(p, a)
    <3>1. b.item = a.item
      BY <2>1 DEF Following
    <3> QED  BY <3>1
  <2>2. CASE ~Opens(p, a)
    <3>1. b.item = a.item + 1
      BY <2>2 DEF Following
    <3> QED  BY <1>1, <3>1
  <2> QED  BY <2>1, <2>2
<1>3. /\ b.n = a.n
      /\ b.item = IF Opens(p, a) THEN a.item ELSE a.item + 1
      /\ b.half = IF Opens(p, a) THEN 1 ELSE 0
      /\ Opens(p, a) => b.sum = a.sum
  BY <1>2, FollowingIsPlace
<1>4. b.item <= Len(p) + 3
  OBVIOUS
<1> HIDE DEF b
<1>5. CASE a.item = 0
  <2>1. b.item = 1 /\ b.n \in cut /\ ReceiveSeq = 0
    BY <1>3, <1>5 DEF Opens
  <2> QED  BY <2>1 DEF Astray, Behind, b
<1>6. CASE a.item # 0 /\ Opens(p, a) /\ a.item <= 2
  <2>1. b.item = a.item /\ b.half = 1 /\ b.n \in cut /\ a.half = 0 /\ (a.item = 1 \/ a.item = 2)
    BY <1>1, <1>3, <1>6 DEF Opens
  <2>2. Synced(p, a)
    BY <1>6
  <2>3. Misjudged(p, b, cut)
    BY <1>6, <2>1, <2>2 DEF Misjudged, Synced
  <2> QED  BY <2>3 DEF Astray, b
<1>7. CASE a.item # 0 /\ Opens(p, a) /\ a.item > 2
  <2>1. b.item = a.item /\ b.half = 1 /\ a.half = 0 /\ a.item >= 3 /\ b.sum = a.sum
    BY <1>1, <1>3, <1>7 DEF Opens
  <2>2. Synced(p, a)
    BY <1>7
  <2>3. Missummed(p, b)
    BY <2>1, <2>2 DEF Missummed, Synced
  <2> QED  BY <2>3 DEF Astray, b
<1>8. CASE a.item # 0 /\ ~Opens(p, a)
  <2>1. b.item = a.item + 1 /\ b.n = a.n
    BY <1>3, <1>8
  <2>2. Synced(p, a)
    BY <1>8
  <2>3. CASE a.item <= 2
    <3>1. b.n \in cut /\ (a.item = 1 \/ a.item = 2)
      BY <1>1, <1>8, <2>1, <2>3
    <3>2. Behind(p, b, cut)
      BY <2>1, <2>2, <3>1 DEF Behind, Synced
    <3> QED  BY <3>2 DEF Astray, b
  <2>4. CASE a.item > 2
    <3>1. a.item <= Len(p) + 2 /\ a.item >= 3
      BY <1>1, <1>4, <2>1, <2>4
    <3>2. ReceiveSeq = 3 /\ ReceiveLength = Len(p) /\ ReceivePtr = a.item - 3
      BY <2>2, <3>1 DEF Synced
    <3>3. Behind(p, b, cut)
      BY <1>1, <2>1, <3>1, <3>2 DEF Behind
    <3> QED  BY <3>3 DEF Astray, b
  <2> QED  BY <1>1, <2>3, <2>4
<1> QED  BY <1>1, <1>5, <1>6, <1>7, <1>8

(* Sums of one byte.                                                       *)
LEMMA SumsDiffer ==
  /\ \A x, y, v \in Byte : x # y => (x + v) % 256 # (y + v) % 256
  /\ \A x, y \in Byte : (x + (255 - y)) % 256 = 255 => x = y
<1>1. ASSUME NEW x \in Byte, NEW y \in Byte, NEW v \in Byte, x # y
      PROVE  (x + v) % 256 # (y + v) % 256
  <2>1. /\ (x + v) % 256 = IF x + v >= 256 THEN x + v - 256 ELSE x + v
        /\ (y + v) % 256 = IF y + v >= 256 THEN y + v - 256 ELSE y + v
    BY SMT DEF Byte
  <2> QED  BY <1>1, <2>1, SMT DEF Byte
<1>2. ASSUME NEW x \in Byte, NEW y \in Byte, (x + (255 - y)) % 256 = 255
      PROVE  x = y
  <2>1. (x + (255 - y)) % 256 = IF x + (255 - y) >= 256 THEN x + (255 - y) - 256 ELSE x + (255 - y)
    BY SMT DEF Byte
  <2> QED  BY <1>2, <2>1, SMT DEF Byte
<1> QED  BY <1>1, <1>2

LEMMA FlippedSumDiffers ==
  ASSUME NEW x \in Byte, NEW v \in Special
  PROVE  (x + Flip(v)) % 256 # (x + v) % 256
<1>1. /\ v \in Byte /\ Flip(v) \in Byte /\ Flip(v) # v
  <2>1. v \in Byte /\ Flip(v) \in Byte /\ (Flip(v) = v + 32 \/ Flip(v) = v - 32)
    BY FlipTurns
  <2>2. v \in Int
    BY <2>1, Constants
  <2> QED  BY <2>1, <2>2
<1>2. \A w \in Byte : x + w = w + x
  BY DEF Byte
<1>3. (Flip(v) + x) % 256 # (v + x) % 256
  BY <1>1, SumsDiffer
<1>4. x + v = v + x /\ x + Flip(v) = Flip(v) + x
  BY <1>1, <1>2
<1> QED  BY <1>3, <1>4

(* What it hands on, if anything, is shorter than what was sent, and the   *)
(* lost byte was of the delimiter or the length.                           *)
HandsLess(p, a, cut) ==
  \/ delivered' = delivered
  \/ /\ a.n \in cut
     /\ \E q \in Seq(Byte) : Len(q) < Len(p) /\ delivered' = Append(delivered, [p |-> q, n |-> Head(wire).n])

(* An escape changes nothing else.                                         *)
LEMMA AstrayEscape ==
  ASSUME XBeeReceive, NEW p \in Payloads, NEW a, NEW cut, IsPlace(p, a),
         a.item <= Len(p) + 3, Next1 = ByteAt(p, a), Opens(p, a), Astray(p, a, cut)
  PROVE  Astray(p, Following(p, a), cut)' /\ delivered' = delivered
<1> DEFINE b == Following(p, a)
<1>1. b.item = a.item /\ b.half = 1 /\ b.sum = a.sum /\ b.n = a.n /\ a.half = 0
  BY FollowingIsPlace DEF Opens
<1>2. Next1 = Escape
  BY BytesSpeak
<1>3. /\ EscapedFlag' = TRUE /\ ReceiveSeq' = ReceiveSeq /\ ReceiveLength' = ReceiveLength
      /\ ReceivePtr' = ReceivePtr /\ ReceiveSum' = ReceiveSum /\ delivered' = delivered
  BY <1>2, ReadsBy, EscapeReads
<1> HIDE DEF b
<1>4. ASSUME Behind(p, a, cut)  PROVE Behind(p, b, cut)'
  BY <1>1, <1>3, <1>4 DEF Behind
<1>5. ASSUME Misjudged(p, a, cut)  PROVE Misjudged(p, b, cut)'
  BY <1>1, <1>3, <1>5 DEF Misjudged
<1>6. ASSUME Missummed(p, a)  PROVE Missummed(p, b)'
  BY <1>1, <1>3, <1>6 DEF Missummed
<1>7. Astray(p, b, cut)'
  BY <1>4, <1>5, <1>6 DEF Astray
<1> QED  BY <1>3, <1>7 DEF b

(* Facts about a byte that is read as a value.                             *)
LEMMA ValueRead ==
  ASSUME Inductive, XBeeReceive, NEW p \in Payloads, NEW a, IsPlace(p, a), a.item > 0,
         a.item <= Len(p) + 3, Next1 = ByteAt(p, a), ~Opens(p, a)
  PROVE  /\ Next1 # Escape /\ Next1 # Delimiter
         /\ Value \in Byte
         /\ Following(p, a).item = a.item + 1 /\ Following(p, a).half = 0
         /\ Following(p, a).n = a.n /\ a.item \in Nat /\ a.n \in Nat
         /\ ReceiveSeq \in 0 .. 4 /\ ReceiveLength \in Nat /\ ReceivePtr \in Nat /\ ReceiveSum \in Byte
<1>1. Next1 # Escape /\ Next1 # Delimiter
  BY BytesSpeak
<1>2. Value \in Byte
  <2>1. Take
    BY Zenon DEF XBeeReceive, TakeEscape, TakeDelimiter, TakeLengthHigh, TakeLengthLow, TakeData,
                 TakeCheckSum, TakeByte
  <2> QED  BY <2>1, Takes
<1>3. /\ Following(p, a).item = a.item + 1 /\ Following(p, a).half = 0 /\ Following(p, a).n = a.n
  BY FollowingIsPlace
<1>4. a.item \in Nat /\ a.n \in Nat
  BY DEF IsPlace, Place
<1>5. ReceiveSeq \in 0 .. 4 /\ ReceiveLength \in Nat /\ ReceivePtr \in Nat /\ ReceiveSum \in Byte
  BY DEF Inductive, TypeOK
<1> QED  BY <1>1, <1>2, <1>3, <1>4, <1>5

(* It hands on what its buffer holds, and no more than its length says.    *)
LEMMA SumHands ==
  ASSUME Inductive, TakeCheckSum, NEW p \in Payloads, NEW a, NEW cut, a.n \in cut,
         ReceiveLength < Len(p)
  PROVE  HandsLess(p, a, cut) /\ ReceiveSeq' = 0
<1> DEFINE q == SubSeq(Contents(InputBuffer), 1, ReceiveLength)
<1>1. ReceiveSeq' = 0 /\ ReceiveLength <= Len(Contents(InputBuffer)) /\ Filled(InputBuffer)
      /\ (delivered' = delivered \/ delivered' = Append(delivered, [p |-> q, n |-> Head(wire).n]))
  BY SumReads
<1>2. ReceiveLength \in Nat
  BY DEF Inductive, TypeOK
<1>3. Contents(InputBuffer) \in Seq(Byte) /\ Len(Contents(InputBuffer)) = GetLen(InputBuffer)
      /\ GetLen(InputBuffer) \in Nat
  BY <1>1, ContentsLength
<1>4. q \in Seq(Byte) /\ Len(q) = ReceiveLength
  <2>1. ReceiveLength \in 0 .. GetLen(InputBuffer)
    BY <1>1, <1>2, <1>3
  <2>2. q \in Seq(Byte)
    BY <1>1, <2>1, CopyIsBytes
  <2>3. ASSUME NEW s \in Seq(Byte), NEW k \in 0 .. Len(s)  PROVE Len(SubSeq(s, 1, k)) = k
    <3>1. Len(s) \in Nat
      BY LenProperties
    <3> QED  BY <3>1
  <2>4. Len(q) = ReceiveLength
    BY <1>3, <2>1, <2>3
  <2> QED  BY <2>2, <2>4
<1> HIDE DEF q
<1> QED  BY <1>1, <1>4 DEF HandsLess

LEMMA BehindReads ==
  ASSUME Inductive, XBeeReceive, NEW p \in Payloads, NEW a, NEW cut, IsPlace(p, a),
         a.item <= Len(p) + 3, Next1 = ByteAt(p, a), ~Opens(p, a), Behind(p, a, cut)
  PROVE  /\ HandsLess(p, a, cut)
         /\ Following(p, a).item <= Len(p) + 3 => Behind(p, Following(p, a), cut)'
<1> DEFINE b == Following(p, a)
<1>1. /\ Next1 # Escape /\ Next1 # Delimiter /\ b.item = a.item + 1 /\ b.n = a.n /\ a.item \in Nat
      /\ ReceiveSeq \in 0 .. 4 /\ ReceiveLength \in Nat /\ ReceivePtr \in Nat /\ a.item > 0
      /\ Len(p) \in Nat
  BY ValueRead, FrameLength DEF Behind
<1> HIDE DEF b
<1>2. CASE ReceiveSeq = 0
  <2>1. (ReceiveSeq' = 0 \/ ReceiveSeq' = 1) /\ delivered' = delivered
    BY <1>1, <1>2, ReadsBy, DelimiterReads
  <2>2. Behind(p, b, cut)'
    BY <1>1, <1>2, <2>1 DEF Behind
  <2> QED  BY <2>1, <2>2 DEF HandsLess, b
<1>3. CASE ReceiveSeq = 1
  <2>1. ReceiveSeq' = 2 /\ delivered' = delivered
    BY <1>1, <1>3, ReadsBy, HighReads
  <2>2. Behind(p, b, cut)'
    BY <1>1, <1>3, <2>1 DEF Behind
  <2> QED  BY <2>1, <2>2 DEF HandsLess, b
<1>4. CASE ReceiveSeq = 2
  <2>1. (ReceiveSeq' = 0 \/ ReceiveSeq' = 3) /\ ReceivePtr' = 0 /\ delivered' = delivered
    BY <1>1, <1>4, ReadsBy, LowReads
  <2>2. Behind(p, b, cut)'
    BY <1>1, <1>4, <2>1 DEF Behind
  <2> QED  BY <2>1, <2>2 DEF HandsLess, b
<1>5. CASE ReceiveSeq = 3
  <2>1. /\ ReceiveSeq' = IF ReceivePtr + 1 >= ReceiveLength THEN 4 ELSE 3
        /\ ReceiveLength' = ReceiveLength /\ ReceivePtr' = ReceivePtr + 1
        /\ delivered' = delivered /\ (ReceivePtr < ReceiveLength \/ ReceivePtr = 0)
    BY <1>1, <1>5, ReadsBy, DataReads
  <2>2. a.item >= ReceivePtr + 4 /\ (a.n \notin cut => ReceiveLength = Len(p))
    BY <1>5 DEF Behind
  <2>3. ASSUME ReceivePtr + 1 >= ReceiveLength  PROVE b.item >= ReceiveLength + 4
    BY <1>1, <2>1, <2>2, <2>3
  <2>4. ASSUME b.item <= Len(p) + 3, a.n \notin cut  PROVE ReceiveSeq' = 3
    BY <1>1, <2>1, <2>2, <2>3, <2>4
  <2>5. b.item >= ReceivePtr' + 4
    BY <1>1, <2>1, <2>2
  <2>6. ASSUME b.item <= Len(p) + 3  PROVE Behind(p, b, cut)'
    BY <1>1, <2>1, <2>2, <2>3, <2>4, <2>5, <2>6 DEF Behind
  <2> QED  BY <2>1, <2>6 DEF HandsLess, b
<1>6. CASE ReceiveSeq = 4
  <2>1. a.item >= ReceiveLength + 4 /\ a.n \in cut
    BY <1>6 DEF Behind
  <2>2. ReceiveLength < Len(p)
    BY <1>1, <2>1
  <2>3. TakeCheckSum
    BY <1>1, <1>6, ReadsBy
  <2>4. HandsLess(p, a, cut) /\ ReceiveSeq' = 0
    BY <2>1, <2>2, <2>3, SumHands
  <2>5. Behind(p, b, cut)'
    BY <1>1, <2>1, <2>4 DEF Behind
  <2> QED  BY <2>4, <2>5 DEF b
<1> QED  BY <1>1, <1>2, <1>3, <1>4, <1>5, <1>6

LEMMA MisjudgedReads ==
  ASSUME Inductive, XBeeReceive, NEW p \in Payloads, NEW a, NEW cut, IsPlace(p, a),
         a.item <= Len(p) + 3, Next1 = ByteAt(p, a), ~Opens(p, a), Misjudged(p, a, cut)
  PROVE  HandsLess(p, a, cut) /\ Astray(p, Following(p, a), cut)'
<1> DEFINE b == Following(p, a)
           high == Len(p) \div 256
           low == Len(p) % 256
<1>1. /\ Next1 # Escape /\ Next1 # Delimiter /\ b.item = a.item + 1 /\ b.n = a.n /\ a.item \in Nat
      /\ ReceiveSeq \in 0 .. 4 /\ ReceiveLength \in Nat /\ ReceivePtr \in Nat /\ a.item > 0
      /\ Len(p) \in Nat /\ a.n \in cut /\ b.half = 0 /\ Value \in Byte
  BY ValueRead, FrameLength DEF Misjudged
<1>2. high \in Byte /\ low \in Byte /\ 256 * high + low = Len(p)
  BY FrameLength
<1> HIDE DEF b, high, low
<1>3. CASE ReceiveSeq = 1
  <2>1. a.item = 1 /\ a.half = 1 /\ ~EscapedFlag
    BY <1>3 DEF Misjudged
  <2>2. Value # high
    <3>1. Value = Next1 /\ Next1 = Flip(ValueAt(p, a)) /\ ValueAt(p, a) \in Special
      BY <1>1, <2>1, ReadsAs, BytesSpeak DEF IsPlace
    <3>2. ValueAt(p, a) = high
      BY <2>1 DEF ValueAt, high
    <3>3. Flip(high) = high + 32 \/ Flip(high) = high - 32
      BY <3>1, <3>2, FlipTurns
    <3>4. high \in Int
      BY <1>2, Constants
    <3> QED  BY <3>1, <3>2, <3>3, <3>4
  <2>3. /\ EscapedFlag' = FALSE /\ ReceiveSeq' = 2 /\ ReceiveLength' = 256 * Value
        /\ delivered' = delivered
    BY <1>1, <1>3, ReadsBy, HighReads
  <2>4. 256 * Value # 256 * high
    BY <1>1, <1>2, <2>2 DEF Byte
  <2>5. b.item = 2
    BY <1>1, <2>1
  <2>6. Misjudged(p, b, cut)'
    BY <1>1, <2>3, <2>4, <2>5 DEF Misjudged, high
  <2> QED  BY <2>3, <2>6 DEF HandsLess, Astray, b
<1>4. CASE ReceiveSeq = 2
  <2>1. a.item = 2 /\ b.item = 3
    BY <1>1, <1>4 DEF Misjudged
  <2>2. ReceiveLength + Value # Len(p)
    <3>1. ValueAt(p, a) = low
      BY <2>1 DEF ValueAt, low
    <3>2. CASE ReceiveLength # 256 * high /\ (EscapedFlag <=> a.half = 1)
      <4>1. Value = low
        BY <1>1, <3>1, <3>2, SyncedValue
      <4> QED  BY <1>1, <1>2, <3>2, <4>1 DEF Byte
    <3>3. CASE ReceiveLength = 256 * high /\ a.half = 1 /\ ~EscapedFlag
      <4>1. Value = Next1 /\ Next1 = Flip(low) /\ low \in Special
        BY <1>1, <3>1, <3>3, ReadsAs, BytesSpeak DEF IsPlace
      <4>2. Flip(low) = low + 32 \/ Flip(low) = low - 32
        BY <4>1, FlipTurns
      <4> QED  BY <1>1, <1>2, <3>3, <4>1, <4>2 DEF Byte
    <3> QED  BY <1>4, <3>2, <3>3 DEF Misjudged, high
  <2>3. /\ ReceiveSeq' = 0 \/ ReceiveSeq' = 3
        /\ ReceiveLength' = ReceiveLength + Value /\ ReceivePtr' = 0 /\ delivered' = delivered
    BY <1>1, <1>4, ReadsBy, LowReads
  <2>4. CASE ReceiveSeq' = 0
    <3>1. Behind(p, b, cut)'
      BY <1>1, <2>1, <2>4 DEF Behind
    <3> QED  BY <2>3, <3>1 DEF HandsLess, Astray, b
  <2>5. CASE ReceiveSeq' = 3
    <3>1. Misjudged(p, b, cut)'
      BY <1>1, <2>1, <2>2, <2>3, <2>5 DEF Misjudged
    <3> QED  BY <2>3, <3>1 DEF HandsLess, Astray, b
  <2> QED  BY <2>3, <2>4, <2>5
<1>5. CASE ReceiveSeq = 3
  <2>1. ReceiveLength # Len(p) /\ a.item >= ReceivePtr + 3
    BY <1>5 DEF Misjudged
  <2>2. /\ ReceiveSeq' = IF ReceivePtr + 1 >= ReceiveLength THEN 4 ELSE 3
        /\ ReceiveLength' = ReceiveLength /\ ReceivePtr' = ReceivePtr + 1
        /\ delivered' = delivered /\ (ReceivePtr < ReceiveLength \/ ReceivePtr = 0)
    BY <1>1, <1>5, ReadsBy, DataReads
  <2>3. b.item >= ReceivePtr' + 3 /\ (ReceiveSeq' = 4 => b.item >= ReceiveLength' + 3)
    BY <1>1, <2>1, <2>2
  <2>4. Misjudged(p, b, cut)'
    BY <1>1, <2>1, <2>2, <2>3 DEF Misjudged
  <2> QED  BY <2>2, <2>4 DEF HandsLess, Astray, b
<1>6. CASE ReceiveSeq = 4
  <2>1. ReceiveLength # Len(p) /\ a.item >= ReceiveLength + 3
    BY <1>6 DEF Misjudged
  <2>2. ReceiveLength < Len(p)
    BY <1>1, <2>1
  <2>3. TakeCheckSum
    BY <1>1, <1>6, ReadsBy
  <2>4. HandsLess(p, a, cut) /\ ReceiveSeq' = 0
    BY <1>1, <2>2, <2>3, SumHands
  <2>5. Behind(p, b, cut)'
    BY <1>1, <2>4 DEF Behind
  <2> QED  BY <2>4, <2>5 DEF Astray, b
<1>7. ReceiveSeq # 0
  BY DEF Misjudged
<1> QED  BY <1>1, <1>3, <1>4, <1>5, <1>6, <1>7

(* A wrong sum stays wrong, and the check sum shows it.                    *)
LEMMA MissummedReads ==
  ASSUME Inductive, XBeeReceive, NEW p \in Payloads, NEW a, IsPlace(p, a),
         a.item <= Len(p) + 3, Next1 = ByteAt(p, a), ~Opens(p, a), Missummed(p, a)
  PROVE  /\ delivered' = delivered
         /\ Following(p, a).item <= Len(p) + 3 => Missummed(p, Following(p, a))'
<1> DEFINE b == Following(p, a)
           v == ValueAt(p, a)
<1>1. /\ Next1 # Escape /\ Next1 # Delimiter /\ b.item = a.item + 1 /\ a.item \in Nat /\ b.half = 0
      /\ ReceiveLength \in Nat /\ ReceivePtr \in Nat /\ ReceiveSum \in Byte /\ a.item >= 3
      /\ Len(p) \in Nat /\ v \in Byte
  <2>1. a.item \in Nat /\ a.item >= 3
    BY DEF Missummed, IsPlace, Place
  <2>2. a.item > 0
    BY <2>1
  <2>3. v \in Byte
    BY <2>2, ValueIsByte
  <2> HIDE DEF v
  <2>4. /\ Next1 # Escape /\ Next1 # Delimiter /\ b.item = a.item + 1 /\ b.half = 0
        /\ ReceiveLength \in Nat /\ ReceivePtr \in Nat /\ ReceiveSum \in Byte
    BY <2>2, ValueRead
  <2> QED  BY <2>1, <2>3, <2>4, FrameLength
<1>2. a.sum \in Byte /\ (Data(p, a) => b.sum = (a.sum + v) % 256)
  BY FollowingIsPlace DEF IsPlace, Place
<1>3. ReceiveLength = Len(p) /\ ReceivePtr = a.item - 3
  BY DEF Missummed
<1> HIDE DEF b, v
<1>4. (ReceiveSum + Value) % 256 # (a.sum + v) % 256
  <2>1. CASE a.half = 1 /\ ~EscapedFlag /\ ReceiveSum = a.sum
    <3>1. Value = Flip(v) /\ v \in Special
      BY <1>1, <2>1, ReadsAs, BytesSpeak DEF IsPlace, v
    <3> QED  BY <1>2, <2>1, <3>1, FlippedSumDiffers
  <2>2. CASE (EscapedFlag <=> a.half = 1) /\ ReceiveSum # a.sum
    <3>1. a.item > 0
      BY <1>1
    <3>2. Value = v
      BY <2>2, <3>1, SyncedValue DEF v
    <3> QED  BY <1>1, <1>2, <2>2, <3>2, SumsDiffer
  <2> QED  BY <2>1, <2>2 DEF Missummed
<1>5. CASE Data(p, a)
  <2>1. ReceiveSeq = 3
    BY <1>5 DEF Missummed, Data
  <2>2. /\ EscapedFlag' = FALSE
        /\ ReceiveSeq' = IF ReceivePtr + 1 >= ReceiveLength THEN 4 ELSE 3
        /\ ReceiveLength' = ReceiveLength /\ ReceivePtr' = ReceivePtr + 1
        /\ ReceiveSum' = (ReceiveSum + Value) % 256
        /\ delivered' = delivered
    BY <1>1, <2>1, ReadsBy, DataReads
  <2>3. ReceiveSeq' = IF b.item <= Len(p) + 2 THEN 3 ELSE 4
    <3>1. ReceiveSeq' = IF ReceivePtr + 1 >= Len(p) THEN 4 ELSE 3
      BY <1>3, <2>2
    <3>2. ReceivePtr + 1 >= Len(p) <=> ~(b.item <= Len(p) + 2)
      BY <1>1, <1>3
    <3> QED  BY <3>1, <3>2, Zenon
  <2>4. ReceiveSum' # b.sum
    BY <1>2, <1>4, <1>5, <2>2
  <2>5. ReceiveLength' = Len(p) /\ ReceivePtr' = b.item - 3 /\ b.item >= 3
    BY <1>1, <1>3, <2>2, SMTT(30)
  <2>6. Missummed(p, b)'
    BY <1>1, <2>2, <2>3, <2>4, <2>5 DEF Missummed
  <2> QED  BY <2>2, <2>6 DEF b
<1>6. CASE ~Data(p, a)
  <2>1. a.item = Len(p) + 3 /\ ReceiveSeq = 4
    BY <1>1, <1>6 DEF Missummed, Data
  <2>2. v = 255 - a.sum
    <3>1. ~(a.item <= Len(p) + 2) /\ a.item # 1 /\ a.item # 2
      BY <1>1, <2>1
    <3> QED  BY <3>1 DEF ValueAt, v
  <2>3. (a.sum + v) % 256 = 255
    <3>1. a.sum \in Int
      <4>1. a.sum \in Byte
        BY <1>2
      <4>2. Byte \subseteq Int
        BY Constants
      <4> QED  BY <4>1, <4>2, Zenon
    <3>2. a.sum + v = 255
      BY <2>2, <3>1
    <3> QED  BY <3>2
  <2>4. TakeCheckSum
    BY <1>1, <2>1, ReadsBy
  <2>5. delivered' = delivered
    BY <1>4, <2>3, <2>4, SumReads
  <2>6. ~(b.item <= Len(p) + 3)
    BY <1>1, <2>1
  <2> QED  BY <2>5, <2>6 DEF b
<1> QED  BY <1>5, <1>6

(* A receiver that is astray stays so to the end of the packet.            *)
LEMMA StaysAstray ==
  ASSUME Inductive, XBeeReceive, NEW p \in Payloads, NEW a, NEW cut, IsPlace(p, a),
         a.item <= Len(p) + 3, Next1 = ByteAt(p, a), Astray(p, a, cut)
  PROVE  /\ HandsLess(p, a, cut)
         /\ Following(p, a).item <= Len(p) + 3 => Astray(p, Following(p, a), cut)'
<1>1. CASE Opens(p, a)
  BY <1>1, AstrayEscape DEF HandsLess
<1>2. CASE ~Opens(p, a) /\ Behind(p, a, cut)
  BY <1>2, BehindReads DEF Astray
<1>3. CASE ~Opens(p, a) /\ Misjudged(p, a, cut)
  BY <1>3, MisjudgedReads
<1>4. CASE ~Opens(p, a) /\ Missummed(p, a)
  BY <1>4, MissummedReads DEF HandsLess, Astray
<1> QED  BY <1>1, <1>2, <1>3, <1>4 DEF Astray

(***************************************************************************)
(* The places of the bytes on the line                                     *)
(*                                                                         *)
(* at gives the place of every byte that is on the line and, while a       *)
(* packet is written, of the byte that is due; w is the line, s are the    *)
(* frames sent, whole the frames that lost nothing, cut those that lost a  *)
(* byte of delimiter or length.  missed is how many bytes were lost; if it *)
(* was one, gap is where the lost one would be, unless it has been passed. *)
(***************************************************************************)
Places(at, s) ==
  /\ at \in Seq(Place)
  /\ \A i \in 1 .. Len(at) : at[i].n \in 1 .. Len(s) /\ IsPlace(s[at[i].n], at[i])
  /\ \A i, j \in 1 .. Len(at) : i <= j => at[i].n <= at[j].n

Written(at, w, s) ==
  /\ Len(w) <= Len(at)
  /\ \A i \in 1 .. Len(w) :
       /\ w[i].n = at[i].n
       /\ w[i].b = ByteAt(s[at[i].n], at[i])
       /\ w[i].part = PartAt(at[i])
       /\ at[i].item <= Len(s[at[i].n]) + 3

(* Nothing is missing between a and b, ...                                 *)
Joined(a, b, s) == IF a.n = b.n THEN b = Following(s[a.n], a) ELSE b.item = 0

(* ... or one byte.                                                        *)
Apart(a, b, s, cut) ==
  IF a.n = b.n
  THEN /\ b = Following(s[a.n], Following(s[a.n], a))
       /\ Following(s[a.n], a).item < 3 => b.n \in cut
  ELSE b.item = 0 \/ (b = Following(s[b.n], Start(b.n)) /\ b.n \in cut)

Chained(at, s, whole, cut, missed, gap) ==
  \A i \in 1 .. Len(at) : i < Len(at) =>
    /\ at[i + 1].n \in whole \/ (missed <= 1 /\ gap # i + 1) => Joined(at[i], at[i + 1], s)
    /\ missed <= 1 /\ at[i + 1].n \notin whole /\ gap = i + 1 => Apart(at[i], at[i + 1], s, cut)

(* Of a frame that lost nothing the last byte is there.                    *)
Complete(at, w, s, whole) ==
  \A i \in 1 .. Len(w) :
    at[i].n \in whole /\ (i < Len(at) => at[i + 1].n # at[i].n) =>
      Following(s[at[i].n], at[i]).item = Len(s[at[i].n]) + 4

Line(at, w, s, whole, cut, missed, gap) ==
  /\ Places(at, s) /\ Written(at, w, s)
  /\ Chained(at, s, whole, cut, missed, gap)
  /\ Complete(at, w, s, whole)

LEMMA PlaceOf ==
  ASSUME NEW s \in Seq(Payloads), NEW at, Places(at, s), NEW i \in 1 .. Len(at)
  PROVE  /\ at[i].n \in 1 .. Len(s) /\ s[at[i].n] \in Payloads /\ IsPlace(s[at[i].n], at[i])
         /\ at[i] \in Place /\ at[i].n \in Nat /\ Len(at) \in Nat /\ at \in Seq(Place)
<1>1. at[i].n \in 1 .. Len(s) /\ IsPlace(s[at[i].n], at[i]) /\ at \in Seq(Place)
  BY DEF Places
<1>2. s[at[i].n] \in Payloads
  BY <1>1, ElementOfSeq
<1>3. at[i] \in Place /\ Len(at) \in Nat
  BY <1>1, ElementOfSeq, LenProperties
<1> QED  BY <1>1, <1>2, <1>3 DEF Place

(* A place at the end, of the frame of the last one or of a later one.     *)
LEMMA PlacesGrow ==
  ASSUME NEW s \in Seq(Payloads), NEW at, Places(at, s), NEW b, b.n \in 1 .. Len(s),
         IsPlace(s[b.n], b), \A i \in 1 .. Len(at) : at[i].n <= b.n
  PROVE  /\ Places(Append(at, b), s)
         /\ Len(Append(at, b)) = Len(at) + 1 /\ Len(at) \in Nat
         /\ Append(at, b)[Len(at) + 1] = b
         /\ \A i \in 1 .. Len(at) : Append(at, b)[i] = at[i]
<1> DEFINE c == Append(at, b)
<1>1. at \in Seq(Place) /\ b \in Place /\ Len(at) \in Nat
  BY LenProperties DEF Places, IsPlace
<1>2. /\ c \in Seq(Place) /\ Len(c) = Len(at) + 1 /\ c[Len(at) + 1] = b
      /\ \A i \in 1 .. Len(at) : c[i] = at[i]
  BY <1>1, AppendProperties
<1> HIDE DEF c
<1>3. ASSUME NEW i \in 1 .. Len(c)  PROVE c[i].n \in 1 .. Len(s) /\ IsPlace(s[c[i].n], c[i])
  <2>1. CASE i = Len(at) + 1
    BY <1>2, <2>1
  <2>2. CASE i # Len(at) + 1
    <3>1. i \in 1 .. Len(at)
      BY <1>1, <1>2, <2>2
    <3> QED  BY <1>2, <3>1 DEF Places
  <2> QED  BY <2>1, <2>2
<1>4. ASSUME NEW i \in 1 .. Len(c), NEW j \in 1 .. Len(c), i <= j  PROVE c[i].n <= c[j].n
  <2>1. CASE j # Len(at) + 1
    <3>1. i \in 1 .. Len(at) /\ j \in 1 .. Len(at)
      BY <1>1, <1>2, <1>4, <2>1
    <3> QED  BY <1>2, <1>4, <3>1 DEF Places
  <2>2. CASE j = Len(at) + 1 /\ i # j
    <3>1. i \in 1 .. Len(at)
      BY <1>1, <1>2, <1>4, <2>2
    <3> QED  BY <1>2, <2>2, <3>1
  <2>3. CASE j = Len(at) + 1 /\ i = j
    <3>1. b.n \in Nat
      BY LenProperties
    <3> QED  BY <1>2, <2>3, <3>1
  <2> QED  BY <2>1, <2>2, <2>3
<1>5. Places(c, s)
  BY <1>2, <1>3, <1>4 DEF Places
<1> QED  BY <1>1, <1>2, <1>5 DEF c

(* A packet begins: its delimiter is due.                                  *)
LEMMA LineBegins ==
  ASSUME NEW s \in Seq(Payloads), s # << >>, NEW w, Len(w) \in Nat, NEW at, Len(at) = Len(w),
         NEW whole, NEW cut, NEW missed, NEW gap, Line(at, w, s, whole, cut, missed, gap),
         \A i \in 1 .. Len(at) : at[i].n < Len(s)
  PROVE  Line(Append(at, Start(Len(s))), w, s, whole, cut, missed, gap)
<1> DEFINE b == Start(Len(s))
           c == Append(at, b)
<1>1. Len(s) \in Nat /\ Len(s) > 0
  BY EmptySeq, LenProperties
<1>2. /\ b.n = Len(s) /\ b.item = 0 /\ b.half = 0 /\ b.sum = 0 /\ b \in Place
  BY <1>1, Constants DEF Start, Place, Byte
<1>3. s[Len(s)] \in Payloads
  BY <1>1, ElementOfSeq
<1>4. IsPlace(s[b.n], b)
  BY <1>2, <1>3, FrameLength DEF IsPlace
<1>5. Places(at, s) /\ \A i \in 1 .. Len(at) : at[i].n \in 1 .. Len(s)
  BY DEF Line, Places
<1>6. \A i \in 1 .. Len(at) : at[i].n <= b.n
  BY <1>1, <1>2, <1>5
<1> HIDE DEF b
<1>7. /\ Places(c, s) /\ Len(c) = Len(at) + 1 /\ c[Len(at) + 1] = b
      /\ \A i \in 1 .. Len(at) : c[i] = at[i]
  BY <1>1, <1>2, <1>4, <1>5, <1>6, PlacesGrow
<1> HIDE DEF c
<1>8. Written(c, w, s)
  BY <1>7 DEF Line, Written
<1>9. Chained(c, s, whole, cut, missed, gap)
  <2> SUFFICES ASSUME NEW i \in 1 .. Len(c), i < Len(c)
               PROVE  /\ c[i + 1].n \in whole \/ (missed <= 1 /\ gap # i + 1) => Joined(c[i], c[i + 1], s)
                      /\ missed <= 1 /\ c[i + 1].n \notin whole /\ gap = i + 1 => Apart(c[i], c[i + 1], s, cut)
    BY DEF Chained
  <2>1. CASE i = Len(at)
    <3>1. i \in 1 .. Len(at) /\ c[i] = at[i] /\ c[i + 1] = b
      BY <1>7, <2>1
    <3>2. c[i].n # c[i + 1].n
      BY <1>1, <1>2, <1>5, <3>1
    <3> QED  BY <1>2, <3>1, <3>2 DEF Joined, Apart
  <2>2. CASE i # Len(at)
    <3>1. i \in 1 .. Len(at) /\ i + 1 \in 1 .. Len(at) /\ i < Len(at)
      BY <1>7, <2>2
    <3>2. c[i] = at[i] /\ c[i + 1] = at[i + 1]
      BY <1>7, <3>1
    <3> QED  BY <3>1, <3>2 DEF Line, Chained
  <2> QED  BY <2>1, <2>2
<1>10. Complete(c, w, s, whole)
  <2> SUFFICES ASSUME NEW i \in 1 .. Len(w), c[i].n \in whole, i < Len(c) => c[i + 1].n # c[i].n
               PROVE  Following(s[c[i].n], c[i]).item = Len(s[c[i].n]) + 4
    BY DEF Complete
  <2>1. c[i] = at[i] /\ i < Len(c) /\ i \in 1 .. Len(at)
    BY <1>7
  <2>2. ASSUME i < Len(at)  PROVE at[i + 1].n # at[i].n
    <3>1. i + 1 \in 1 .. Len(at)
      BY <2>2
    <3> QED  BY <1>7, <2>1, <3>1
  <2> QED  BY <2>1, <2>2 DEF Line, Complete
<1> QED  BY <1>7, <1>8, <1>9, <1>10 DEF Line, b, c

(* v is w and the byte of place a of frame p, ...                          *)
Grown(v, w, p, a) ==
  /\ Len(v) = Len(w) + 1 /\ \A i \in 1 .. Len(w) : v[i] = w[i]
  /\ v[Len(v)].n = a.n /\ v[Len(v)].b = ByteAt(p, a) /\ v[Len(v)].part = PartAt(a)

(* ... c is at and the place b behind the last byte of v.                  *)
Extended(c, at, v, b) ==
  Len(c) = Len(v) + 1 /\ c[Len(v) + 1] = b /\ \A i \in 1 .. Len(at) : c[i] = at[i]

(* The byte that is due is written.                                        *)
LEMMA LineGrows ==
  ASSUME NEW s \in Seq(Payloads), NEW w, Len(w) \in Nat, NEW at, Len(at) = Len(w) + 1,
         NEW whole, NEW cut, NEW missed, NEW gap \in Nat, gap <= Len(at),
         Line(at, w, s, whole, cut, missed, gap),
         NEW a, a = at[Len(at)], a.item <= Len(s[a.n]) + 3,
         NEW v, Grown(v, w, s[a.n], a)
  PROVE  /\ Line(Append(at, Following(s[a.n], a)), v, s, whole, cut, missed, gap)
         /\ Extended(Append(at, Following(s[a.n], a)), at, v, Following(s[a.n], a))
<1> DEFINE b == Following(s[a.n], a)
           c == Append(at, b)
<1>0. /\ Len(v) = Len(w) + 1 /\ \A i \in 1 .. Len(w) : v[i] = w[i]
      /\ v[Len(v)].n = a.n /\ v[Len(v)].b = ByteAt(s[a.n], a) /\ v[Len(v)].part = PartAt(a)
  BY DEF Grown
<1>1. Places(at, s) /\ Len(at) \in 1 .. Len(at) /\ Len(at) \in Nat
  BY DEF Line
<1>2. a.n \in 1 .. Len(s) /\ s[a.n] \in Payloads /\ IsPlace(s[a.n], a) /\ a.n \in Nat
  BY <1>1, PlaceOf
<1>3. b.n = a.n /\ IsPlace(s[b.n], b)
  BY <1>2, FollowingIsPlace
<1>4. ASSUME NEW i \in 1 .. Len(at)  PROVE at[i].n <= a.n
  <2>1. i <= Len(at)
    OBVIOUS
  <2> QED  BY <1>1, <2>1 DEF Places
<1> HIDE DEF b
<1>5. /\ Places(c, s) /\ Len(c) = Len(at) + 1 /\ c[Len(at) + 1] = b
      /\ \A i \in 1 .. Len(at) : c[i] = at[i]
  <2>1. b.n \in 1 .. Len(s) /\ \A i \in 1 .. Len(at) : at[i].n <= b.n
    BY <1>2, <1>3, <1>4
  <2> QED  BY <1>1, <1>3, <2>1, PlacesGrow
<1> HIDE DEF c
<1>6. c[Len(w) + 1] = a /\ Len(v) \in 1 .. Len(c) /\ Len(v) + 1 = Len(c) /\ Len(v) = Len(at)
  BY <1>0, <1>1, <1>5
<1>7. Written(c, v, s)
  <2>1. ASSUME NEW i \in 1 .. Len(v)
        PROVE  /\ v[i].n = c[i].n
               /\ v[i].b = ByteAt(s[c[i].n], c[i])
               /\ v[i].part = PartAt(c[i])
               /\ c[i].item <= Len(s[c[i].n]) + 3
    <3>1. CASE i = Len(v)
      <4>1. c[i] = a
        BY <1>0, <1>6, <3>1
      <4> QED  BY <1>0, <3>1, <4>1
    <3>2. CASE i # Len(v)
      <4>1. i \in 1 .. Len(w) /\ i \in 1 .. Len(at)
        BY <1>0, <1>6, <3>2
      <4>2. v[i] = w[i] /\ c[i] = at[i]
        BY <1>0, <1>5, <4>1
      <4> QED  BY <4>1, <4>2 DEF Line, Written
    <3> QED  BY <3>1, <3>2
  <2>2. Len(v) <= Len(c)
    BY <1>5, <1>6
  <2> QED  BY <2>1, <2>2 DEF Written
<1>8. Chained(c, s, whole, cut, missed, gap)
  <2> SUFFICES ASSUME NEW i \in 1 .. Len(c), i < Len(c)
               PROVE  /\ c[i + 1].n \in whole \/ (missed <= 1 /\ gap # i + 1) => Joined(c[i], c[i + 1], s)
                      /\ missed <= 1 /\ c[i + 1].n \notin whole /\ gap = i + 1 => Apart(c[i], c[i + 1], s, cut)
    BY DEF Chained
  <2>1. CASE i = Len(at)
    <3>1. c[i] = a /\ c[i + 1] = b /\ gap # i + 1
      BY <1>1, <1>5, <2>1
    <3> QED  BY <1>3, <3>1 DEF Joined, b
  <2>2. CASE i # Len(at)
    <3>1. i \in 1 .. Len(at) /\ i + 1 \in 1 .. Len(at) /\ i < Len(at)
      BY <1>1, <1>5, <2>2
    <3>2. c[i] = at[i] /\ c[i + 1] = at[i + 1]
      BY <1>5, <3>1
    <3> QED  BY <3>1, <3>2 DEF Line, Chained
  <2> QED  BY <2>1, <2>2
<1>9. Complete(c, v, s, whole)
  <2> SUFFICES ASSUME NEW i \in 1 .. Len(v), c[i].n \in whole, i < Len(c) => c[i + 1].n # c[i].n
               PROVE  Following(s[c[i].n], c[i]).item = Len(s[c[i].n]) + 4
    BY DEF Complete
  <2>1. i < Len(c) /\ i \in 1 .. Len(at) /\ c[i] = at[i]
    BY <1>5, <1>6
  <2>2. i # Len(at)
    <3>1. ASSUME i = Len(at)  PROVE FALSE
      <4>1. c[i] = a /\ c[i + 1] = b
        BY <1>0, <1>5, <1>6, <3>1
      <4> QED  BY <1>3, <2>1, <4>1
    <3> QED  BY <3>1
  <2>3. i \in 1 .. Len(w) /\ i + 1 \in 1 .. Len(at)
    BY <1>0, <1>1, <2>1, <2>2
  <2>4. at[i + 1].n # at[i].n
    BY <1>5, <2>1, <2>3
  <2> QED  BY <2>1, <2>3, <2>4 DEF Line, Complete
<1>10. Line(c, v, s, whole, cut, missed, gap)
  BY <1>5, <1>7, <1>8, <1>9 DEF Line
<1>11. Extended(c, at, v, b)
  BY <1>0, <1>1, <1>5 DEF Extended
<1> QED  BY <1>10, <1>11 DEF b, c

(* v is w and some bytes of one part of one frame behind it.               *)
Follows(v, w, bytes, n, part, k) ==
  /\ v \in Seq(Tags(k)) /\ Len(v) = Len(w) + Len(bytes) /\ Len(w) \in Nat /\ Len(bytes) \in Nat
  /\ \A i \in 1 .. Len(w) : v[i] = w[i]
  /\ \A j \in 1 .. Len(bytes) :
       v[Len(w) + j].n = n /\ v[Len(w) + j].b = bytes[j] /\ v[Len(w) + j].part = part

LEMMA TaggedBytes ==
  ASSUME NEW k \in Nat, NEW w \in Seq(Tags(k)), NEW bytes \in Seq(Byte), NEW n \in 1 .. k,
         NEW part \in {"head", "body"}
  PROVE  Follows(w \o Tagged(bytes, n, part), w, bytes, n, part, k)
<1> DEFINE t == Tagged(bytes, n, part)
           v == w \o t
<1>1. Len(bytes) \in Nat /\ Len(w) \in Nat /\ \A i \in 1 .. Len(bytes) : bytes[i] \in Byte
  BY LenProperties, ElementOfSeq
<1>2. ASSUME NEW i \in 1 .. Len(bytes)
      PROVE  [b |-> bytes[i], n |-> n, part |-> part] \in Tags(k)
  BY <1>1, Zenon DEF Tags
<1>3. t = [i \in 1 .. Len(bytes) |-> [b |-> bytes[i], n |-> n, part |-> part]]
  BY DEF Tagged
<1>4. t \in Seq(Tags(k)) /\ Len(t) = Len(bytes)
  BY <1>1, <1>2, <1>3
<1>5. \A j \in 1 .. Len(bytes) : t[j].n = n /\ t[j].b = bytes[j] /\ t[j].part = part
  BY <1>3
<1> HIDE DEF t
<1>6. /\ w \o t \in Seq(Tags(k)) /\ Len(w \o t) = Len(w) + Len(t)
      /\ \A i \in 1 .. Len(w) + Len(t) : (w \o t)[i] = IF i <= Len(w) THEN w[i] ELSE t[i - Len(w)]
  BY <1>4, ConcatProperties
<1>7. v = w \o t
  OBVIOUS
<1> HIDE DEF v
<1>8. ASSUME NEW i \in 1 .. Len(w)  PROVE v[i] = w[i]
  BY <1>1, <1>4, <1>6, <1>7
<1>9. ASSUME NEW j \in 1 .. Len(bytes)  PROVE v[Len(w) + j] = t[j]
  <2>1. Len(w) + j \in 1 .. Len(w) + Len(t) /\ ~(Len(w) + j <= Len(w)) /\ Len(w) + j - Len(w) = j
    BY <1>1, <1>4
  <2>2. v[Len(w) + j] = t[Len(w) + j - Len(w)]
    BY <1>6, <1>7, <2>1
  <2> QED  BY <2>1, <2>2
<1>10. ASSUME NEW j \in 1 .. Len(bytes)
       PROVE  v[Len(w) + j].n = n /\ v[Len(w) + j].b = bytes[j] /\ v[Len(w) + j].part = part
  <2>1. v[Len(w) + j] = t[j]
    BY <1>9
  <2>2. t[j].n = n /\ t[j].b = bytes[j] /\ t[j].part = part
    BY <1>5
  <2> QED  BY <2>1, <2>2, Zenon
<1>11. Follows(v, w, bytes, n, part, k)
  BY <1>1, <1>4, <1>6, <1>7, <1>8, <1>10 DEF Follows
<1> QED  BY <1>11 DEF v, t

(* Where the item behind the one at a begins.                              *)
NextItem(p, a) ==
  [n |-> a.n, item |-> a.item + 1, half |-> 0,
   sum |-> IF Data(p, a) THEN (a.sum + ValueAt(p, a)) % 256 ELSE a.sum]

(* v is w and an item of frame b.n; b is where the next item is due.       *)
ItemWritten(v, w, b, at, s, whole, cut, missed, gap) ==
  /\ v \in Seq(Tags(Len(s))) /\ Len(v) > Len(w)
  /\ \E c : /\ Line(c, v, s, whole, cut, missed, gap)
            /\ Len(c) = Len(v) + 1
            /\ c[Len(c)] = b
            /\ \A i \in 1 .. Len(at) : c[i] = at[i]
            /\ \A i \in 1 .. Len(c) : i >= Len(at) => c[i].n = b.n

(* What an item is does not depend on which of its bytes is meant.         *)
LEMMA SameItem ==
  ASSUME NEW p, NEW a, NEW b, b.item = a.item, b.sum = a.sum
  PROVE  (Data(p, b) <=> Data(p, a)) /\ ValueAt(p, b) = ValueAt(p, a)
<1> DEFINE V(i, sum) == IF i = 1 THEN Len(p) \div 256
                        ELSE IF i = 2 THEN Len(p) % 256
                        ELSE IF i <= Len(p) + 2 THEN p[i - 2]
                        ELSE 255 - sum
<1>1. Data(p, b) <=> Data(p, a)
  BY DEF Data
<1>2. ValueAt(p, b) = ValueAt(p, a)
  <2>1. ValueAt(p, a) = V(a.item, a.sum) /\ ValueAt(p, b) = V(b.item, b.sum)
    BY Zenon DEF ValueAt
  <2> HIDE DEF V
  <2> QED  BY <2>1
<1> QED  BY <1>1, <1>2

(* AddBufferWithEsc writes the item that is due.                           *)
LEMMA LineTakesBytes ==
  ASSUME NEW s \in Seq(Payloads), NEW w \in Seq(Tags(Len(s))), NEW at, Len(at) = Len(w) + 1,
         NEW whole, NEW cut, NEW missed, NEW gap \in Nat, gap <= Len(at),
         Line(at, w, s, whole, cut, missed, gap),
         NEW a, a = at[Len(at)], a.item > 0, a.half = 0, a.item <= Len(s[a.n]) + 3,
         NEW part \in {"head", "body"}, part = PartAt(a),
         NEW v, Follows(v, w, AddBufferWithEsc(ValueAt(s[a.n], a)), a.n, part, Len(s))
  PROVE  ItemWritten(v, w, NextItem(s[a.n], a), at, s, whole, cut, missed, gap)
<1> DEFINE p == s[a.n]
           d == ValueAt(p, a)
           bytes == AddBufferWithEsc(d)
           b == Following(p, a)
<1>1. Len(w) \in Nat /\ Len(s) \in Nat /\ Len(at) \in 1 .. Len(at) /\ Len(at) \in Nat
  BY LenProperties
<1>2. a.n \in 1 .. Len(s) /\ p \in Payloads /\ IsPlace(p, a) /\ a.n \in Nat
  BY <1>1, PlaceOf DEF Line
<1> HIDE DEF p
<1>3. d \in Byte
  BY <1>2, ValueIsByte
<1>4. bytes \in Seq(Byte) /\ bytes = IF d \in Special THEN <<Escape, Flip(d)>> ELSE <<d>>
  BY <1>3, EscapedAreBytes DEF AddBufferWithEsc, Special
<1>5. b.n = a.n /\ IsPlace(p, b)
      /\ b = IF d \in Special THEN [n |-> a.n, item |-> a.item, half |-> 1, sum |-> a.sum]
             ELSE NextItem(p, a)
  BY <1>2, FollowingIsPlace, ZenonT(30) DEF Following, Opens, NextItem, p
<1>6. ByteAt(p, a) = IF d \in Special THEN Escape ELSE d
  BY DEF ByteAt
<1> HIDE DEF d, bytes, b
<1>7. /\ v \in Seq(Tags(Len(s))) /\ Len(v) = Len(w) + Len(bytes) /\ Len(bytes) \in Nat
      /\ \A i \in 1 .. Len(w) : v[i] = w[i]
      /\ \A j \in 1 .. Len(bytes) :
           v[Len(w) + j].n = a.n /\ v[Len(w) + j].b = bytes[j] /\ v[Len(w) + j].part = part
  <2>1. Follows(v, w, bytes, a.n, part, Len(s))
    BY DEF bytes, d, p
  <2> QED  BY <1>4, <2>1 DEF Follows
<1>8. CASE d \notin Special
  <2>1. Len(bytes) = 1 /\ bytes[1] = d
    BY <1>4, <1>8
  <2>2. /\ Len(v) = Len(w) + 1 /\ v[Len(v)].n = a.n /\ v[Len(v)].b = ByteAt(p, a)
        /\ v[Len(v)].part = PartAt(a)
    BY <1>6, <1>7, <1>8, <2>1, SMTT(30)
  <2> DEFINE c == Append(at, b)
  <2>3. /\ Line(c, v, s, whole, cut, missed, gap) /\ Len(c) = Len(v) + 1 /\ c[Len(v) + 1] = b
        /\ \A i \in 1 .. Len(at) : c[i] = at[i]
    <3>1. Grown(v, w, s[a.n], a)
      BY <1>7, <2>2 DEF p, Grown
    <3>2. b = Following(s[a.n], a)
      BY DEF p, b
    <3>3. Line(c, v, s, whole, cut, missed, gap) /\ Extended(c, at, v, b)
      BY <1>1, <3>1, <3>2, LineGrows
    <3> QED  BY <3>3 DEF Extended
  <2> HIDE DEF c
  <2>4. c[Len(c)] = NextItem(p, a)
    BY <1>5, <1>8, <2>3
  <2>5. ASSUME NEW i \in 1 .. Len(c), i >= Len(at)  PROVE c[i].n = a.n
    <3>1. CASE i = Len(at)
      BY <1>1, <2>3, <3>1
    <3>2. CASE i # Len(at)
      <4>1. i = Len(v) + 1
        BY <1>1, <2>2, <2>3, <2>5, <3>2, SMTT(30)
      <4> QED  BY <1>5, <2>3, <4>1
    <3> QED  BY <3>1, <3>2
  <2>6. Len(v) > Len(w)
    BY <1>1, <2>2, SMTT(30)
  <2>7. NextItem(p, a).n = a.n
    BY DEF NextItem
  <2>8. \A i \in 1 .. Len(c) : i >= Len(at) => c[i].n = NextItem(p, a).n
    BY <2>5, <2>7
  <2>9. ItemWritten(v, w, NextItem(p, a), at, s, whole, cut, missed, gap)
    BY <1>7, <2>3, <2>4, <2>6, <2>8, Zenon DEF ItemWritten
  <2> QED  BY <2>9 DEF p
<1>9. CASE d \in Special
  <2>1. Len(bytes) = 2 /\ bytes[1] = Escape /\ bytes[2] = Flip(d)
    BY <1>4, <1>9
  <2> DEFINE u == w \o Tagged(<<Escape>>, a.n, part)
             c == Append(at, b)
             e == Following(p, b)
             f == Append(c, e)
  <2> HIDE DEF c, e, f
  <2>2. <<Escape>> \in Seq(Byte) /\ Len(<<Escape>>) = 1 /\ <<Escape>>[1] = Escape
    BY Specials DEF Byte
  <2>3. /\ u \in Seq(Tags(Len(s))) /\ Len(u) = Len(w) + 1 /\ \A i \in 1 .. Len(w) : u[i] = w[i]
        /\ u[Len(w) + 1].n = a.n /\ u[Len(w) + 1].b = Escape /\ u[Len(w) + 1].part = part
    <3>1. Follows(u, w, <<Escape>>, a.n, part, Len(s))
      BY <1>1, <1>2, <2>2, TaggedBytes
    <3> HIDE DEF u
    <3>2. /\ u \in Seq(Tags(Len(s))) /\ Len(u) = Len(w) + Len(<<Escape>>)
          /\ \A i \in 1 .. Len(w) : u[i] = w[i]
          /\ \A j \in 1 .. Len(<<Escape>>) :
               u[Len(w) + j].n = a.n /\ u[Len(w) + j].b = <<Escape>>[j] /\ u[Len(w) + j].part = part
      BY <3>1 DEF Follows
    <3> QED  BY <2>2, <3>2
  <2> HIDE DEF u
  <2>4. /\ Line(c, u, s, whole, cut, missed, gap) /\ Len(c) = Len(u) + 1 /\ c[Len(u) + 1] = b
        /\ \A i \in 1 .. Len(at) : c[i] = at[i]
    <3>1. /\ Len(u) = Len(w) + 1 /\ u[Len(u)].n = a.n /\ u[Len(u)].b = ByteAt(p, a)
          /\ u[Len(u)].part = PartAt(a)
      BY <1>6, <1>9, <2>3
    <3>2. Grown(u, w, s[a.n], a)
      BY <2>3, <3>1 DEF Grown, p
    <3>3. b = Following(s[a.n], a)
      BY DEF p, b
    <3>4. Line(c, u, s, whole, cut, missed, gap) /\ Extended(c, at, u, b)
      BY <1>1, <3>2, <3>3, LineGrows DEF c
    <3> QED  BY <3>4 DEF Extended
  <2>5. b.item = a.item /\ b.half = 1 /\ b.sum = a.sum /\ b.n = a.n
    BY <1>5, <1>9
  <2>6. e = NextItem(p, a) /\ e.n = a.n
    <3>0. ~Opens(p, b)
      BY <2>5 DEF Opens
    <3>1. ~Opens(p, b) /\ (Data(p, b) <=> Data(p, a)) /\ ValueAt(p, b) = ValueAt(p, a)
      BY <2>5, <3>0, SameItem, SMTT(30)
    <3>2. e = NextItem(p, a)
      BY <2>5, <3>1 DEF e, Following, NextItem
    <3> QED  BY <3>2 DEF NextItem
  <2>7. /\ Len(v) = Len(u) + 1 /\ v[Len(v)].n = b.n /\ v[Len(v)].b = ByteAt(p, b)
        /\ v[Len(v)].part = PartAt(b)
    <3>1. ByteAt(p, b) = Flip(d)
      <4>1. ValueAt(p, b) = d
        BY <2>5, SameItem DEF d
      <4> QED  BY <2>5, <4>1 DEF ByteAt
    <3>2. Len(v) = Len(w) + 2 /\ Len(v) = Len(u) + 1
      BY <1>1, <1>7, <2>1, <2>3, SMTT(30)
    <3>3. PartAt(b) = part
      BY <2>5 DEF PartAt
    <3>4. 2 \in 1 .. Len(bytes) /\ Len(v) = Len(w) + 2
      BY <2>1, <3>2
    <3>5. v[Len(v)].n = a.n /\ v[Len(v)].b = bytes[2] /\ v[Len(v)].part = part
      BY <1>7, <3>4, SMTT(30)
    <3> QED  BY <2>1, <2>5, <3>1, <3>2, <3>3, <3>5
  <2>8. \A i \in 1 .. Len(u) : v[i] = u[i]
    <3>1. ASSUME NEW i \in 1 .. Len(u)  PROVE v[i] = u[i]
      <4>1. CASE i \in 1 .. Len(w)
        BY <1>7, <2>3, <4>1
      <4>2. CASE i \notin 1 .. Len(w)
        <5>1. i = Len(w) + 1
          BY <1>1, <2>3, <4>2
        <5>2. v[i] \in Tags(Len(s)) /\ u[i] \in Tags(Len(s))
          <6>1. i \in 1 .. Len(v)
            BY <1>1, <2>3, <2>7
          <6> QED  BY <1>7, <2>3, <6>1, ElementOfSeq
        <5>3. v[i].n = u[i].n /\ v[i].b = u[i].b /\ v[i].part = u[i].part
          BY <1>7, <2>1, <2>3, <5>1, SMTT(30)
        <5>4. /\ v[i] = [b |-> v[i].b, n |-> v[i].n, part |-> v[i].part]
              /\ u[i] = [b |-> u[i].b, n |-> u[i].n, part |-> u[i].part]
          BY <5>2, Zenon DEF Tags
        <5> QED  BY <5>3, <5>4, Zenon
      <4> QED  BY <4>1, <4>2
    <3> QED  BY <3>1
  <2>9. /\ Line(f, v, s, whole, cut, missed, gap) /\ Len(f) = Len(v) + 1 /\ f[Len(v) + 1] = e
        /\ \A i \in 1 .. Len(c) : f[i] = c[i]
    <3>1. Len(u) \in Nat /\ gap <= Len(c) /\ b = c[Len(c)] /\ b.item <= Len(s[b.n]) + 3
      BY <1>1, <2>3, <2>4, <2>5 DEF p
    <3>2. v[Len(v)].b = ByteAt(s[b.n], b) /\ e = Following(s[b.n], b)
      BY <2>5, <2>7 DEF p, e
    <3>3. Len(c) = Len(u) + 1 /\ Line(c, u, s, whole, cut, missed, gap)
      BY <2>3, <2>4
    <3>4. Grown(v, u, s[b.n], b)
      BY <2>7, <2>8, <3>2 DEF Grown
    <3>5. Line(f, v, s, whole, cut, missed, gap) /\ Extended(f, c, v, e)
      BY <3>1, <3>2, <3>3, <3>4, LineGrows DEF f
    <3> QED  BY <3>5 DEF Extended
  <2>10. f[Len(f)] = NextItem(p, a)
    BY <2>6, <2>9
  <2>11. \A i \in 1 .. Len(at) : f[i] = at[i]
    <3>1. ASSUME NEW i \in 1 .. Len(at)  PROVE f[i] = at[i]
      <4>1. i \in 1 .. Len(c)
        BY <1>1, <2>3, <2>4
      <4> QED  BY <2>4, <2>9, <4>1
    <3> QED  BY <3>1
  <2>12. ASSUME NEW i \in 1 .. Len(f), i >= Len(at)  PROVE f[i].n = a.n
    <3>1. i = Len(at) \/ i = Len(u) + 1 \/ i = Len(v) + 1
      <4>1. /\ Len(f) = Len(w) + 3 /\ Len(u) = Len(w) + 1 /\ Len(v) = Len(w) + 2
            /\ Len(at) = Len(w) + 1 /\ Len(w) \in Nat
        BY <1>1, <2>3, <2>7, <2>9, SMTT(30)
      <4> QED  BY <2>12, <4>1
    <3>2. f[Len(at)] = a
      BY <1>1, <2>11
    <3>3. f[Len(u) + 1] = b
      <4>1. Len(u) + 1 \in 1 .. Len(c)
        BY <1>1, <2>3, <2>4
      <4> QED  BY <2>4, <2>9, <4>1
    <3> QED  BY <2>5, <2>6, <2>9, <3>1, <3>2, <3>3
  <2>13. Len(v) > Len(w)
    BY <1>1, <2>3, <2>7
  <2>14. ItemWritten(v, w, NextItem(p, a), at, s, whole, cut, missed, gap)
    <3>1. NextItem(p, a).n = a.n
      BY DEF NextItem
    <3>2. \A i \in 1 .. Len(f) : i >= Len(at) => f[i].n = NextItem(p, a).n
      BY <2>12, <3>1
    <3> QED  BY <1>7, <2>9, <2>10, <2>11, <2>13, <3>2, Zenon DEF ItemWritten
  <2> QED  BY <2>14 DEF p
<1> QED  BY <1>8, <1>9

(* The same for the line itself.                                           *)
LEMMA LineTakesItem ==
  ASSUME NEW s \in Seq(Payloads), NEW w \in Seq(Tags(Len(s))), NEW at, Len(at) = Len(w) + 1,
         NEW whole, NEW cut, NEW missed, NEW gap \in Nat, gap <= Len(at),
         Line(at, w, s, whole, cut, missed, gap),
         NEW a, a = at[Len(at)], a.item > 0, a.half = 0, a.item <= Len(s[a.n]) + 3,
         NEW part \in {"head", "body"}, part = PartAt(a),
         NEW v, v = w \o Tagged(AddBufferWithEsc(ValueAt(s[a.n], a)), a.n, part)
  PROVE  ItemWritten(v, w, NextItem(s[a.n], a), at, s, whole, cut, missed, gap)
<1> DEFINE bytes == AddBufferWithEsc(ValueAt(s[a.n], a))
<1>1. Len(w) \in Nat /\ Len(s) \in Nat /\ Len(at) \in 1 .. Len(at)
  BY LenProperties
<1>2. a.n \in 1 .. Len(s) /\ IsPlace(s[a.n], a) /\ s[a.n] \in Payloads
  BY <1>1, PlaceOf DEF Line
<1>3. bytes \in Seq(Byte)
  BY <1>2, ValueIsByte, EscapedAreBytes
<1> HIDE DEF bytes
<1>4. v = w \o Tagged(bytes, a.n, part)
  BY DEF bytes
<1>5. Follows(w \o Tagged(bytes, a.n, part), w, bytes, a.n, part, Len(s))
  BY <1>1, <1>2, <1>3, TaggedBytes
<1>6. Follows(v, w, bytes, a.n, part, Len(s))
  BY <1>4, <1>5, Zenon
<1>7. Follows(v, w, AddBufferWithEsc(ValueAt(s[a.n], a)), a.n, part, Len(s))
  BY <1>6 DEF bytes
<1> QED  BY <1>7, LineTakesBytes

(* Another frame is sent: nothing on the line is of it.                    *)
LEMMA LineWidens ==
  ASSUME NEW s \in Seq(Payloads), NEW q \in Payloads, NEW w, Len(w) \in Nat, NEW at,
         NEW whole, NEW cut, NEW missed, NEW gap, Line(at, w, s, whole, cut, missed, gap)
  PROVE  /\ Line(at, w, Append(s, q), whole \cup {Len(s) + 1}, cut, missed, gap)
         /\ \A i \in 1 .. Len(at) : at[i].n \in 1 .. Len(s)
<1> DEFINE t == Append(s, q)
           all == whole \cup {Len(s) + 1}
<1>1. Len(s) \in Nat /\ Len(t) = Len(s) + 1 /\ \A n \in 1 .. Len(s) : t[n] = s[n]
  BY LenProperties, AppendProperties
<1>2. Places(at, s) /\ Written(at, w, s) /\ Chained(at, s, whole, cut, missed, gap)
      /\ Complete(at, w, s, whole) /\ Len(at) \in Nat /\ Len(w) <= Len(at)
  <2>1. Places(at, s) /\ Written(at, w, s) /\ Chained(at, s, whole, cut, missed, gap)
        /\ Complete(at, w, s, whole)
    BY DEF Line
  <2> QED  BY <2>1, LenProperties DEF Places, Written
<1> HIDE DEF t, all
<1>3. ASSUME NEW i \in 1 .. Len(at)
      PROVE  /\ at[i].n \in 1 .. Len(s) /\ at[i].n \in 1 .. Len(t) /\ t[at[i].n] = s[at[i].n]
             /\ at[i].n \in all <=> at[i].n \in whole
  <2>1. at[i].n \in 1 .. Len(s)
    BY <1>2 DEF Places
  <2>2. at[i].n # Len(s) + 1
    BY <1>1, <2>1
  <2> QED  BY <1>1, <2>1, <2>2 DEF all
<1>4. Places(at, t)
  BY <1>2, <1>3 DEF Places
<1>5. Written(at, w, t)
  BY <1>2, <1>3 DEF Written
<1>6. Chained(at, t, all, cut, missed, gap)
  <2> SUFFICES ASSUME NEW i \in 1 .. Len(at), i < Len(at)
               PROVE  /\ at[i + 1].n \in all \/ (missed <= 1 /\ gap # i + 1) => Joined(at[i], at[i + 1], t)
                      /\ missed <= 1 /\ at[i + 1].n \notin all /\ gap = i + 1 => Apart(at[i], at[i + 1], t, cut)
    BY DEF Chained
  <2>1. i + 1 \in 1 .. Len(at)
    BY <1>2
  <2>2. /\ at[i + 1].n \in whole \/ (missed <= 1 /\ gap # i + 1) => Joined(at[i], at[i + 1], s)
        /\ missed <= 1 /\ at[i + 1].n \notin whole /\ gap = i + 1 => Apart(at[i], at[i + 1], s, cut)
    BY <1>2 DEF Chained
  <2>3. Joined(at[i], at[i + 1], t) <=> Joined(at[i], at[i + 1], s)
    BY <1>3 DEF Joined
  <2>4. Apart(at[i], at[i + 1], t, cut) <=> Apart(at[i], at[i + 1], s, cut)
    BY <1>3, <2>1 DEF Apart
  <2> QED  BY <1>3, <2>1, <2>2, <2>3, <2>4
<1>7. Complete(at, w, t, all)
  <2> SUFFICES ASSUME NEW i \in 1 .. Len(w), at[i].n \in all, i < Len(at) => at[i + 1].n # at[i].n
               PROVE  Following(t[at[i].n], at[i]).item = Len(t[at[i].n]) + 4
    BY DEF Complete
  <2>1. i \in 1 .. Len(at)
    BY <1>2
  <2>2. at[i].n \in whole /\ t[at[i].n] = s[at[i].n]
    BY <1>3, <2>1
  <2>3. Following(s[at[i].n], at[i]).item = Len(s[at[i].n]) + 4
    BY <1>2, <2>2 DEF Complete
  <2> QED  BY <2>2, <2>3
<1> QED  BY <1>3, <1>4, <1>5, <1>6, <1>7 DEF Line, t, all

(* The places of the bytes on the line, without that of the byte due.      *)
LEMMA Shortened ==
  ASSUME NEW s, NEW w, Len(w) \in Nat, NEW at, Places(at, s), Written(at, w, s),
         Len(at) = Len(w) + 1
  PROVE  /\ Places(SubSeq(at, 1, Len(w)), s) /\ Written(SubSeq(at, 1, Len(w)), w, s)
         /\ Len(SubSeq(at, 1, Len(w))) = Len(w)
         /\ \A i \in 1 .. Len(w) : SubSeq(at, 1, Len(w))[i] = at[i]
<1> DEFINE f == SubSeq(at, 1, Len(w))
<1>1. \A i \in 1 .. Len(at) : at[i] \in Place
  BY ElementOfSeq DEF Places
<1>2. f \in Seq(Place) /\ Len(f) = Len(w) /\ \A i \in 1 .. Len(w) : f[i] = at[i]
  BY <1>1, SubSeqProperties
<1> HIDE DEF f
<1>3. Places(f, s)
  BY <1>2 DEF Places
<1>4. Written(f, w, s)
  BY <1>2 DEF Written
<1> QED  BY <1>2, <1>3, <1>4 DEF f

(* The check sum is written: no byte is due.                               *)
LEMMA LineEnds ==
  ASSUME NEW s \in Seq(Payloads), NEW w, Len(w) \in Nat, Len(w) > 0, NEW at, Len(at) = Len(w) + 1,
         NEW whole, NEW cut, NEW missed, NEW gap, Line(at, w, s, whole, cut, missed, gap),
         at[Len(at)].item = Len(s[at[Len(at)].n]) + 4, at[Len(w)].n = at[Len(at)].n
  PROVE  /\ Line(SubSeq(at, 1, Len(w)), w, s, whole, cut, missed, gap)
         /\ Len(SubSeq(at, 1, Len(w))) = Len(w)
         /\ \A i \in 1 .. Len(w) : SubSeq(at, 1, Len(w))[i] = at[i]
<1> DEFINE f == SubSeq(at, 1, Len(w))
           b == at[Len(at)]
<1>1. Places(at, s) /\ Written(at, w, s) /\ Chained(at, s, whole, cut, missed, gap)
      /\ Complete(at, w, s, whole)
  BY DEF Line
<1>2. Places(f, s) /\ Written(f, w, s) /\ Len(f) = Len(w) /\ \A i \in 1 .. Len(w) : f[i] = at[i]
  BY <1>1, Shortened
<1>0. b = at[Len(at)] /\ b.item = Len(s[b.n]) + 4 /\ at[Len(w)].n = b.n
  OBVIOUS
<1> HIDE DEF f, b
<1>3. Chained(f, s, whole, cut, missed, gap)
  <2> SUFFICES ASSUME NEW i \in 1 .. Len(f), i < Len(f)
               PROVE  /\ f[i + 1].n \in whole \/ (missed <= 1 /\ gap # i + 1) => Joined(f[i], f[i + 1], s)
                      /\ missed <= 1 /\ f[i + 1].n \notin whole /\ gap = i + 1 => Apart(f[i], f[i + 1], s, cut)
    BY DEF Chained
  <2>0. i \in 1 .. Len(w) /\ i + 1 \in 1 .. Len(w)
    BY <1>2
  <2>1. i \in 1 .. Len(at) /\ i < Len(at) /\ f[i] = at[i] /\ f[i + 1] = at[i + 1]
    BY <1>2, <2>0
  <2> QED  BY <1>1, <2>1 DEF Chained
<1>4. Complete(f, w, s, whole)
  <2> SUFFICES ASSUME NEW i \in 1 .. Len(w), f[i].n \in whole, i < Len(f) => f[i + 1].n # f[i].n
               PROVE  Following(s[f[i].n], f[i]).item = Len(s[f[i].n]) + 4
    BY DEF Complete
  <2>1. f[i] = at[i] /\ i < Len(at) /\ i \in 1 .. Len(at)
    BY <1>2
  <2>2. CASE i = Len(w)
    <3>1. at[i + 1] = b /\ at[i + 1].n = at[i].n
      BY <1>0, <2>2
    <3>2. Joined(at[i], at[i + 1], s)
      BY <1>1, <2>1, <3>1 DEF Chained
    <3>3. b = Following(s[at[i].n], at[i])
      BY <3>1, <3>2 DEF Joined
    <3> QED  BY <1>0, <2>1, <3>1, <3>3
  <2>3. CASE i # Len(w)
    <3>1. f[i + 1] = at[i + 1] /\ i < Len(f)
      BY <1>2, <2>3
    <3> QED  BY <1>1, <2>1, <3>1 DEF Complete
  <2> QED  BY <2>2, <2>3
<1> QED  BY <1>2, <1>3, <1>4 DEF Line, f

(* The packet is cut short: no byte of it is due any more.                 *)
LEMMA LineIsCut ==
  ASSUME NEW s \in Seq(Payloads), NEW w, Len(w) \in Nat, NEW at, Len(at) = Len(w) + 1,
         NEW whole, NEW cut, NEW missed, NEW gap, Line(at, w, s, whole, cut, missed, gap),
         NEW b, b = at[Len(at)], NEW missed2,
         missed2 <= 1 => \A i \in 1 .. Len(at) : at[i].n \in whole
  PROVE  /\ Line(SubSeq(at, 1, Len(w)), w, s, whole \ {b.n}, cut, missed2, 0)
         /\ Len(SubSeq(at, 1, Len(w))) = Len(w)
         /\ \A i \in 1 .. Len(w) : SubSeq(at, 1, Len(w))[i] = at[i]
<1> DEFINE f == SubSeq(at, 1, Len(w))
           left == whole \ {b.n}
<1>1. Places(at, s) /\ Written(at, w, s) /\ Chained(at, s, whole, cut, missed, gap)
      /\ Complete(at, w, s, whole)
  BY DEF Line
<1>2. Places(f, s) /\ Written(f, w, s) /\ Len(f) = Len(w) /\ \A i \in 1 .. Len(w) : f[i] = at[i]
  BY <1>1, Shortened
<1>3. \A n : n \in left <=> n \in whole /\ n # b.n
  OBVIOUS
<1> HIDE DEF f, left
<1>4. Chained(f, s, left, cut, missed2, 0)
  <2> SUFFICES ASSUME NEW i \in 1 .. Len(f), i < Len(f)
               PROVE  /\ f[i + 1].n \in left \/ (missed2 <= 1 /\ 0 # i + 1) => Joined(f[i], f[i + 1], s)
                      /\ missed2 <= 1 /\ f[i + 1].n \notin left /\ 0 = i + 1 => Apart(f[i], f[i + 1], s, cut)
    BY DEF Chained
  <2>0. i \in 1 .. Len(w) /\ i + 1 \in 1 .. Len(w)
    BY <1>2
  <2>1. i \in 1 .. Len(at) /\ i < Len(at) /\ i + 1 \in 1 .. Len(at) /\ f[i] = at[i] /\ f[i + 1] = at[i + 1]
    BY <1>2, <2>0
  <2>2. 0 # i + 1
    OBVIOUS
  <2>3. ASSUME f[i + 1].n \in left \/ missed2 <= 1  PROVE at[i + 1].n \in whole
    BY <1>3, <2>1, <2>3
  <2>4. at[i + 1].n \in whole => Joined(at[i], at[i + 1], s)
    BY <1>1, <2>1 DEF Chained
  <2> QED  BY <2>1, <2>2, <2>3, <2>4
<1>5. Complete(f, w, s, left)
  <2> SUFFICES ASSUME NEW i \in 1 .. Len(w), f[i].n \in left, i < Len(f) => f[i + 1].n # f[i].n
               PROVE  Following(s[f[i].n], f[i]).item = Len(s[f[i].n]) + 4
    BY DEF Complete
  <2>1. f[i] = at[i] /\ at[i].n \in whole /\ at[i].n # b.n
    BY <1>2, <1>3
  <2>2. at[i + 1].n # at[i].n
    <3>1. CASE i = Len(w)
      BY <2>1, <3>1
    <3>2. CASE i # Len(w)
      BY <1>2, <2>1, <3>2
    <3> QED  BY <3>1, <3>2
  <2> QED  BY <1>1, <2>1, <2>2 DEF Complete
<1> QED  BY <1>2, <1>4, <1>5 DEF Line, f, left

LEMMA Removed ==
  ASSUME NEW S, NEW q \in Seq(S), NEW i \in 1 .. Len(q)
  PROVE  /\ RemoveAt(q, i) \in Seq(S) /\ Len(RemoveAt(q, i)) = Len(q) - 1 /\ Len(q) \in Nat
         /\ \A j \in 1 .. Len(q) - 1 : RemoveAt(q, i)[j] = IF j < i THEN q[j] ELSE q[j + 1]
<1> DEFINE x == SubSeq(q, 1, i - 1)
           y == SubSeq(q, i + 1, Len(q))
<1>1. Len(q) \in Nat /\ i \in Nat /\ i >= 1 /\ i <= Len(q) /\ \A j \in 1 .. Len(q) : q[j] \in S
  BY LenProperties, ElementOfSeq
<1>2. x \in Seq(S) /\ Len(x) = i - 1 /\ \A j \in 1 .. i - 1 : x[j] = q[j]
  <2>1. /\ x \in Seq(S) /\ Len(x) = IF 1 <= i - 1 THEN i - 1 - 1 + 1 ELSE 0
        /\ \A j \in 1 .. i - 1 - 1 + 1 : x[j] = q[1 + j - 1]
    <3>1. \A j \in 1 .. i - 1 : q[j] \in S
      BY <1>1
    <3>2. 1 \in Int /\ i - 1 \in Int
      BY <1>1
    <3> HIDE DEF x
    <3> QED  BY <3>1, <3>2, SubSeqProperties DEF x
  <2> HIDE DEF x
  <2> QED  BY <1>1, <2>1
<1>3. y \in Seq(S) /\ Len(y) = Len(q) - i /\ \A j \in 1 .. Len(q) - i : y[j] = q[i + j]
  <2>1. /\ y \in Seq(S) /\ Len(y) = IF i + 1 <= Len(q) THEN Len(q) - (i + 1) + 1 ELSE 0
        /\ \A j \in 1 .. Len(q) - (i + 1) + 1 : y[j] = q[i + 1 + j - 1]
    <3>1. \A j \in i + 1 .. Len(q) : q[j] \in S
      BY <1>1
    <3>2. i + 1 \in Int /\ Len(q) \in Int
      BY <1>1
    <3> HIDE DEF y
    <3> QED  BY <3>1, <3>2, SubSeqProperties DEF y
  <2> HIDE DEF y
  <2>2. ASSUME NEW j \in 1 .. Len(q) - i  PROVE y[j] = q[i + j]
    <3>1. j \in 1 .. Len(q) - (i + 1) + 1 /\ i + 1 + j - 1 = i + j
      BY <1>1
    <3>2. y[j] = q[i + 1 + j - 1]
      BY <2>1, <3>1
    <3> QED  BY <3>1, <3>2
  <2> QED  BY <1>1, <2>1, <2>2
<1>4. RemoveAt(q, i) = x \o y
  BY DEF RemoveAt
<1> HIDE DEF x, y
<1>5. /\ x \o y \in Seq(S) /\ Len(x \o y) = Len(x) + Len(y)
      /\ \A j \in 1 .. Len(x) + Len(y) : (x \o y)[j] = IF j <= Len(x) THEN x[j] ELSE y[j - Len(x)]
  BY <1>2, <1>3, ConcatProperties
<1>6. ASSUME NEW j \in 1 .. Len(q) - 1
      PROVE  (x \o y)[j] = IF j < i THEN q[j] ELSE q[j + 1]
  <2>1. j \in 1 .. Len(x) + Len(y)
    BY <1>1, <1>2, <1>3
  <2>2. CASE j < i
    <3>1. j <= Len(x) /\ j \in 1 .. i - 1
      BY <1>1, <1>2, <2>2
    <3> QED  BY <1>2, <1>5, <2>1, <2>2, <3>1
  <2>3. CASE ~(j < i)
    <3>1. ~(j <= Len(x)) /\ j - Len(x) \in 1 .. Len(q) - i /\ i + (j - Len(x)) = j + 1
      BY <1>1, <1>2, <2>3
    <3>2. y[j - Len(x)] = q[i + (j - Len(x))]
      BY <1>3, <3>1
    <3>3. (x \o y)[j] = y[j - Len(x)]
      BY <1>5, <2>1, <3>1
    <3> QED  BY <2>3, <3>1, <3>2, <3>3
  <2> QED  BY <2>2, <2>3
<1>7. Len(x \o y) = Len(q) - 1
  BY <1>1, <1>2, <1>3, <1>5
<1> QED  BY <1>1, <1>4, <1>5, <1>6, <1>7

WithoutOne(f, q, i) ==
  Len(f) = Len(q) - 1 /\ \A j \in 1 .. Len(q) - 1 : f[j] = IF j < i THEN q[j] ELSE q[j + 1]

(* The i-th byte is lost, and leaves a gap there.                          *)
LEMMA LineLoses ==
  ASSUME NEW s \in Seq(Payloads), NEW k, NEW w \in Seq(Tags(k)), NEW i \in 1 .. Len(w), NEW at,
         NEW whole, NEW cut, NEW missed, NEW gap, Line(at, w, s, whole, cut, missed, gap),
         NEW missed2, missed2 <= 1 => \A j \in 1 .. Len(at) : at[j].n \in whole,
         NEW cut2, w[i].part = "head" => w[i].n \in cut2
  PROVE  /\ Line(RemoveAt(at, i), RemoveAt(w, i), s, whole \ {w[i].n}, cut2, missed2, i)
         /\ WithoutOne(RemoveAt(at, i), at, i)
<1> DEFINE f == RemoveAt(at, i)
           v == RemoveAt(w, i)
           left == whole \ {w[i].n}
<1>1. Places(at, s) /\ Written(at, w, s) /\ Chained(at, s, whole, cut, missed, gap)
      /\ Complete(at, w, s, whole)
  BY DEF Line
<1>2. at \in Seq(Place) /\ Len(w) <= Len(at) /\ Len(w) \in Nat /\ Len(at) \in Nat /\ i \in 1 .. Len(at)
      /\ i \in Nat /\ i >= 1 /\ i <= Len(w)
  BY <1>1, LenProperties DEF Places, Written
<1>3. /\ f \in Seq(Place) /\ Len(f) = Len(at) - 1
      /\ \A j \in 1 .. Len(at) - 1 : f[j] = IF j < i THEN at[j] ELSE at[j + 1]
  BY <1>2, Removed
<1>4. /\ Len(v) = Len(w) - 1
      /\ \A j \in 1 .. Len(w) - 1 : v[j] = IF j < i THEN w[j] ELSE w[j + 1]
  BY Removed
<1>5. w[i].n = at[i].n /\ w[i].part = PartAt(at[i])
  BY <1>1 DEF Written
<1>6. \A n : n \in left <=> n \in whole /\ n # at[i].n
  BY <1>5
<1> HIDE DEF f, v, left
<1>7. ASSUME NEW j \in 1 .. Len(f), NEW l \in 1 .. Len(f), j <= l
      PROVE  f[j].n <= f[l].n
  <2> DEFINE x == IF j < i THEN j ELSE j + 1
             y == IF l < i THEN l ELSE l + 1
  <2>1. x \in 1 .. Len(at) /\ y \in 1 .. Len(at) /\ x <= y /\ f[j] = at[x] /\ f[l] = at[y]
    BY <1>2, <1>3, <1>7
  <2> HIDE DEF x, y
  <2> QED  BY <1>1, <2>1 DEF Places
<1>8. Places(f, s)
  <2>1. ASSUME NEW j \in 1 .. Len(f)  PROVE f[j].n \in 1 .. Len(s) /\ IsPlace(s[f[j].n], f[j])
    <3> DEFINE x == IF j < i THEN j ELSE j + 1
    <3>1. x \in 1 .. Len(at) /\ f[j] = at[x]
      BY <1>2, <1>3
    <3> HIDE DEF x
    <3> QED  BY <1>1, <3>1 DEF Places
  <2> QED  BY <1>3, <1>7, <2>1 DEF Places
<1>9. Written(f, v, s)
  <2>1. ASSUME NEW j \in 1 .. Len(v)
        PROVE  /\ v[j].n = f[j].n
               /\ v[j].b = ByteAt(s[f[j].n], f[j])
               /\ v[j].part = PartAt(f[j])
               /\ f[j].item <= Len(s[f[j].n]) + 3
    <3> DEFINE x == IF j < i THEN j ELSE j + 1
    <3>1. x \in 1 .. Len(w) /\ f[j] = at[x] /\ v[j] = w[x]
      BY <1>2, <1>3, <1>4
    <3> HIDE DEF x
    <3> QED  BY <1>1, <3>1 DEF Written
  <2>2. Len(v) <= Len(f)
    BY <1>2, <1>3, <1>4
  <2> QED  BY <2>1, <2>2 DEF Written
<1>10. Chained(f, s, left, cut2, missed2, i)
  <2> SUFFICES ASSUME NEW j \in 1 .. Len(f), j < Len(f)
               PROVE  /\ f[j + 1].n \in left \/ (missed2 <= 1 /\ i # j + 1) => Joined(f[j], f[j + 1], s)
                      /\ missed2 <= 1 /\ f[j + 1].n \notin left /\ i = j + 1 => Apart(f[j], f[j + 1], s, cut2)
    BY DEF Chained
  <2>0. j \in Nat /\ j >= 1 /\ j + 1 <= Len(at) - 1
    BY <1>2, <1>3
  <2>1. ASSUME NEW l \in 1 .. Len(at), l < Len(at), at[l + 1].n \in whole  PROVE Joined(at[l], at[l + 1], s)
    BY <1>1, <2>1 DEF Chained
  <2>2. CASE i # j + 1
    <3> DEFINE x == IF j < i THEN j ELSE j + 1
    <3>1. x \in 1 .. Len(at) /\ x < Len(at) /\ x + 1 \in 1 .. Len(at) /\ f[j] = at[x] /\ f[j + 1] = at[x + 1]
      <4>1. CASE j < i
        <5>1. j + 1 < i
          BY <1>2, <2>0, <2>2, <4>1
        <5> QED  BY <1>2, <1>3, <2>0, <4>1, <5>1
      <4>2. CASE ~(j < i)
        BY <1>2, <1>3, <2>0, <4>2
      <4> QED  BY <4>1, <4>2
    <3> HIDE DEF x
    <3>2. ASSUME f[j + 1].n \in left \/ missed2 <= 1  PROVE at[x + 1].n \in whole
      BY <1>6, <3>1, <3>2
    <3> QED  BY <2>1, <2>2, <3>1, <3>2
  <2>3. CASE i = j + 1
    <3>1. /\ j \in 1 .. Len(at) /\ j < Len(at) /\ i < Len(at) /\ i + 1 \in 1 .. Len(at)
          /\ f[j] = at[j] /\ f[j + 1] = at[i + 1] /\ at[j + 1] = at[i]
      BY <1>2, <1>3, <2>0, <2>3
    <3>2. at[j].n \in Nat /\ at[i].n \in Nat /\ at[i + 1].n \in Nat /\ at[j].n <= at[i].n /\ at[i].n <= at[i + 1].n
      <4>1. at[j].n \in 1 .. Len(s) /\ at[i].n \in 1 .. Len(s) /\ at[i + 1].n \in 1 .. Len(s)
        BY <1>1, <1>2, <3>1 DEF Places
      <4>2. j <= i /\ i <= i + 1
        BY <2>0, <2>3
      <4> QED  BY <1>1, <1>2, <3>1, <4>1, <4>2, SMTT(30) DEF Places
    <3>3. ASSUME f[j + 1].n \in left  PROVE Joined(f[j], f[j + 1], s)
      <4>1. at[i + 1].n \in whole /\ at[i + 1].n # at[i].n
        BY <1>6, <3>1, <3>3
      <4>2. at[i + 1].item = 0
        BY <1>2, <2>1, <3>1, <4>1 DEF Joined
      <4>3. at[j].n # at[i + 1].n
        BY <3>2, <4>1
      <4> QED  BY <3>1, <4>2, <4>3 DEF Joined
    <3>4. ASSUME missed2 <= 1, f[j + 1].n \notin left  PROVE Apart(f[j], f[j + 1], s, cut2)
      <4>1. at[i].n \in whole /\ at[i + 1].n \in whole /\ at[i + 1].n = at[i].n
        BY <1>2, <1>6, <3>1, <3>4
      <4>2. at[i + 1] = Following(s[at[i].n], at[i])
        BY <1>2, <2>1, <3>1, <4>1 DEF Joined
      <4>3. Joined(at[j], at[i], s)
        BY <2>1, <3>1, <4>1
      <4>4. at[i].item < 3 => at[i].n \in cut2
        BY <1>5 DEF PartAt
      <4>5. CASE at[j].n = at[i].n
        <5>1. at[i] = Following(s[at[j].n], at[j])
          BY <4>3, <4>5 DEF Joined
        <5> QED  BY <3>1, <4>1, <4>2, <4>4, <4>5, <5>1 DEF Apart
      <4>6. CASE at[j].n # at[i].n
        <5>1. at[i].item = 0
          BY <4>3, <4>6 DEF Joined
        <5>2. IsPlace(s[at[i].n], at[i]) /\ at[i] \in Place
          BY <1>1, <1>2 DEF Places, IsPlace
        <5>3. at[i].half = 0 /\ at[i].sum = 0
          BY <5>1, <5>2 DEF IsPlace, Place
        <5>4. at[i] = Start(at[i].n)
          BY <5>1, <5>2, <5>3 DEF Place, Start
        <5>5. at[i].n \in cut2
          BY <4>4, <5>1
        <5>6. at[i + 1] = Following(s[at[i + 1].n], Start(at[i + 1].n)) /\ at[i + 1].n \in cut2
          BY <4>1, <4>2, <5>4, <5>5
        <5> QED  BY <3>1, <4>1, <4>6, <5>6 DEF Apart
      <4> QED  BY <4>5, <4>6
    <3> QED  BY <2>3, <3>3, <3>4
  <2> QED  BY <2>2, <2>3
<1>11. Complete(f, v, s, left)
  <2> SUFFICES ASSUME NEW j \in 1 .. Len(v), f[j].n \in left, j < Len(f) => f[j + 1].n # f[j].n
               PROVE  Following(s[f[j].n], f[j]).item = Len(s[f[j].n]) + 4
    BY DEF Complete
  <2> DEFINE x == IF j < i THEN j ELSE j + 1
  <2>1. x \in 1 .. Len(w) /\ x \in 1 .. Len(at) /\ f[j] = at[x] /\ x \in Nat /\ j \in Nat /\ j >= 1
    BY <1>2, <1>3, <1>4
  <2>2. at[x].n \in whole /\ at[x].n # at[i].n
    BY <1>6, <2>1
  <2>3. ASSUME x < Len(at)  PROVE at[x + 1].n # at[x].n
    <3>1. CASE x + 1 = i
      BY <2>2, <3>1
    <3>2. CASE x + 1 # i
      <4>1. j < Len(f) /\ f[j + 1] = at[x + 1]
        <5>1. CASE j < i
          <6>1. j + 1 < i
            BY <1>2, <2>1, <3>2, <5>1
          <6>2. j + 1 \in 1 .. Len(at) - 1 /\ x = j /\ j < Len(f)
            BY <1>2, <1>3, <2>1, <5>1, <6>1
          <6> QED  BY <1>3, <6>1, <6>2
        <5>2. CASE ~(j < i)
          BY <1>2, <1>3, <2>1, <2>3, <5>2
        <5> QED  BY <5>1, <5>2
      <4> QED  BY <2>1, <4>1
    <3> QED  BY <3>1, <3>2
  <2> HIDE DEF x
  <2> QED  BY <1>1, <2>1, <2>2, <2>3 DEF Complete
<1>12. Line(f, v, s, left, cut2, missed2, i) /\ WithoutOne(f, at, i)
  BY <1>3, <1>8, <1>9, <1>10, <1>11 DEF Line, WithoutOne
<1> QED  BY <1>12 DEF f, v, left

(* The first byte is taken.                                                *)
LEMMA LineIsTaken ==
  ASSUME NEW s \in Seq(Payloads), NEW k, NEW w \in Seq(Tags(k)), w # << >>, NEW at,
         NEW whole, NEW cut, NEW missed, NEW gap \in Nat, Line(at, w, s, whole, cut, missed, gap)
  PROVE  /\ Line(Tail(at), Tail(w), s, whole, cut, missed, IF gap = 0 THEN 0 ELSE gap - 1)
         /\ Len(at) \in Nat /\ Len(at) > 0 /\ Len(Tail(at)) = Len(at) - 1
         /\ \A j \in 1 .. Len(Tail(at)) : Tail(at)[j] = at[j + 1]
<1> DEFINE f == Tail(at)
           v == Tail(w)
           g == IF gap = 0 THEN 0 ELSE gap - 1
<1>1. Places(at, s) /\ Written(at, w, s) /\ Chained(at, s, whole, cut, missed, gap)
      /\ Complete(at, w, s, whole)
  BY DEF Line
<1>2. at \in Seq(Place) /\ Len(w) <= Len(at) /\ Len(w) \in Nat /\ Len(w) > 0 /\ Len(at) \in Nat /\ Len(at) > 0
  <2>1. at \in Seq(Place) /\ Len(w) <= Len(at)
    BY <1>1 DEF Places, Written
  <2>2. Len(w) \in Nat /\ Len(w) # 0 /\ Len(at) \in Nat
    BY <2>1, LenProperties, EmptySeq
  <2> QED  BY <2>1, <2>2
<1>3. f \in Seq(Place) /\ Len(f) = Len(at) - 1 /\ \A j \in 1 .. Len(f) : f[j] = at[j + 1]
  <2>1. at # << >>
    BY <1>2, EmptySeq
  <2> QED  BY <1>2, <2>1, HeadTailProperties
<1>4. Len(v) = Len(w) - 1 /\ \A j \in 1 .. Len(v) : v[j] = w[j + 1]
  BY HeadTailProperties
<1>5. g \in Nat /\ \A j \in Nat \ {0} : g = j + 1 <=> gap = j + 2
  OBVIOUS
<1> HIDE DEF f, v, g
<1>6. Places(f, s)
  <2>1. ASSUME NEW j \in 1 .. Len(f)  PROVE f[j].n \in 1 .. Len(s) /\ IsPlace(s[f[j].n], f[j])
    <3>1. j + 1 \in 1 .. Len(at) /\ f[j] = at[j + 1]
      BY <1>2, <1>3
    <3> QED  BY <1>1, <3>1 DEF Places
  <2>2. ASSUME NEW j \in 1 .. Len(f), NEW l \in 1 .. Len(f), j <= l  PROVE f[j].n <= f[l].n
    <3>1. j + 1 \in 1 .. Len(at) /\ f[j] = at[j + 1] /\ l + 1 \in 1 .. Len(at) /\ f[l] = at[l + 1] /\ j + 1 <= l + 1
      BY <1>2, <1>3, <2>2
    <3> QED  BY <1>1, <3>1 DEF Places
  <2> QED  BY <1>3, <2>1, <2>2 DEF Places
<1>7. Written(f, v, s)
  <2>1. ASSUME NEW j \in 1 .. Len(v)
        PROVE  /\ v[j].n = f[j].n
               /\ v[j].b = ByteAt(s[f[j].n], f[j])
               /\ v[j].part = PartAt(f[j])
               /\ f[j].item <= Len(s[f[j].n]) + 3
    <3>1. j + 1 \in 1 .. Len(w) /\ f[j] = at[j + 1] /\ v[j] = w[j + 1]
      BY <1>2, <1>3, <1>4
    <3> QED  BY <1>1, <3>1 DEF Written
  <2>2. Len(v) <= Len(f)
    BY <1>2, <1>3, <1>4
  <2> QED  BY <2>1, <2>2 DEF Written
<1>8. Chained(f, s, whole, cut, missed, g)
  <2> SUFFICES ASSUME NEW j \in 1 .. Len(f), j < Len(f)
               PROVE  /\ f[j + 1].n \in whole \/ (missed <= 1 /\ g # j + 1) => Joined(f[j], f[j + 1], s)
                      /\ missed <= 1 /\ f[j + 1].n \notin whole /\ g = j + 1 => Apart(f[j], f[j + 1], s, cut)
    BY DEF Chained
  <2>1. j + 1 \in 1 .. Len(f)
    BY <1>2, <1>3
  <2>2. /\ j + 1 \in 1 .. Len(at) /\ j + 1 < Len(at) /\ f[j] = at[j + 1] /\ f[j + 1] = at[j + 1 + 1]
    BY <1>2, <1>3, <2>1
  <2>3. g = j + 1 <=> gap = j + 1 + 1
    <3>1. j \in Nat \ {0} /\ j + 1 + 1 = j + 2
      OBVIOUS
    <3> QED  BY <1>5, <3>1
  <2> QED  BY <1>1, <2>2, <2>3 DEF Chained
<1>9. Complete(f, v, s, whole)
  <2> SUFFICES ASSUME NEW j \in 1 .. Len(v), f[j].n \in whole, j < Len(f) => f[j + 1].n # f[j].n
               PROVE  Following(s[f[j].n], f[j]).item = Len(s[f[j].n]) + 4
    BY DEF Complete
  <2>0. j \in 1 .. Len(f)
    BY <1>2, <1>3, <1>4
  <2>1. j + 1 \in 1 .. Len(w) /\ f[j] = at[j + 1]
    BY <1>2, <1>3, <1>4, <2>0
  <2>2. ASSUME j + 1 < Len(at)  PROVE at[j + 1 + 1].n # at[j + 1].n
    <3>1. j < Len(f) /\ j + 1 \in 1 .. Len(f)
      BY <1>2, <1>3, <2>2
    <3> QED  BY <1>3, <2>1, <3>1
  <2> QED  BY <1>1, <2>1, <2>2 DEF Complete
<1> QED  BY <1>2, <1>3, <1>6, <1>7, <1>8, <1>9 DEF Line, f, v, g

(***************************************************************************)
(* The frames handed on                                                    *)
(*                                                                         *)
(* d are the frames handed to AddReadQueue, the rest is as above: they are *)
(* in order and none is behind the line; a frame that lost nothing was     *)
(* handed on as it was sent, once, and only when all of it was taken; and  *)
(* HonestFrames.                                                           *)
(***************************************************************************)
Honest(r, s, cut) == r.p = s[r.n] \/ (r.n \in cut /\ Len(r.p) < Len(s[r.n]))

OnLine(n, at) == \E i \in 1 .. Len(at) : at[i].n = n

Sorted(at, d) ==
  /\ \A k \in 1 .. Len(d) : \A i \in 1 .. Len(at) : d[k].n <= at[i].n
  /\ \A k, l \in 1 .. Len(d) : k < l => d[k].n <= d[l].n
Right(at, d, s, whole) ==
  \A k \in 1 .. Len(d) : d[k].n \in whole =>
    /\ d[k].p = s[d[k].n] /\ ~OnLine(d[k].n, at)
    /\ \A l \in 1 .. Len(d) : l # k => d[l].n # d[k].n
Arrived(at, d, whole) ==
  \A n \in whole : ~OnLine(n, at) => \E k \in 1 .. Len(d) : d[k].n = n
AllHonest(d, s, cut, missed) ==
  missed <= 1 => \A k \in 1 .. Len(d) : Honest(d[k], s, cut)

Past(at, d, s, whole, cut, missed) ==
  Sorted(at, d) /\ Right(at, d, s, whole) /\ Arrived(at, d, whole) /\ AllHonest(d, s, cut, missed)

(* The line goes on as long as before, or is taken from, or loses a byte.  *)
LEMMA PastStays ==
  ASSUME NEW at, NEW d, NEW s, NEW whole, NEW cut, NEW missed,
         Past(at, d, s, whole, cut, missed),
         NEW at2, NEW whole2, whole2 \subseteq whole, NEW cut2, cut \subseteq cut2,
         NEW missed2, missed2 <= 1 => missed <= 1,
         \A n : OnLine(n, at2) => OnLine(n, at),
         \A n \in whole2 : OnLine(n, at) => OnLine(n, at2)
  PROVE  Past(at2, d, s, whole2, cut2, missed2)
<1>1. Sorted(at2, d)
  <2> SUFFICES ASSUME NEW k \in 1 .. Len(d), NEW i \in 1 .. Len(at2)  PROVE d[k].n <= at2[i].n
    BY DEF Past, Sorted
  <2>1. OnLine(at2[i].n, at)
    BY DEF OnLine
  <2>2. PICK j \in 1 .. Len(at) : at[j].n = at2[i].n
    BY <2>1 DEF OnLine
  <2>3. d[k].n <= at[j].n
    BY DEF Past, Sorted
  <2> QED  BY <2>2, <2>3
<1>2. Right(at2, d, s, whole2)
  BY DEF Past, Right
<1>3. Arrived(at2, d, whole2)
  BY DEF Past, Arrived
<1>4. AllHonest(d, s, cut2, missed2)
  BY DEF Past, AllHonest, Honest
<1> QED  BY <1>1, <1>2, <1>3, <1>4 DEF Past

(* Frame n is on the line from now on, and no later one was handed on.     *)
LEMMA PastGrows ==
  ASSUME NEW at, NEW d, NEW s, NEW whole, NEW cut, NEW missed,
         Past(at, d, s, whole, cut, missed),
         NEW at2, NEW n, NEW s2, \A m : OnLine(m, at2) <=> OnLine(m, at) \/ m = n,
         \A k \in 1 .. Len(d) : d[k].n <= n /\ d[k].n # n /\ s2[d[k].n] = s[d[k].n]
  PROVE  Past(at2, d, s2, whole \cup {n}, cut, missed)
<1>1. Sorted(at2, d)
  <2> SUFFICES ASSUME NEW k \in 1 .. Len(d), NEW i \in 1 .. Len(at2)  PROVE d[k].n <= at2[i].n
    BY DEF Past, Sorted
  <2>1. OnLine(at2[i].n, at2)
    BY DEF OnLine
  <2>2. CASE at2[i].n = n
    BY <2>2
  <2>3. CASE at2[i].n # n
    <3>1. OnLine(at2[i].n, at)
      BY <2>1, <2>3
    <3>2. PICK j \in 1 .. Len(at) : at[j].n = at2[i].n
      BY <3>1 DEF OnLine
    <3>3. d[k].n <= at[j].n
      BY DEF Past, Sorted
    <3> QED  BY <3>2, <3>3
  <2> QED  BY <2>2, <2>3
<1>2. Right(at2, d, s2, whole \cup {n})
  BY DEF Past, Right
<1>3. Arrived(at2, d, whole \cup {n})
  BY DEF Past, Arrived
<1>4. AllHonest(d, s2, cut, missed)
  BY DEF Past, AllHonest, Honest
<1> QED  BY <1>1, <1>2, <1>3, <1>4 DEF Past

(* The last byte of a frame is taken, and something is handed on for it.   *)
LEMMA PastHands ==
  ASSUME NEW k, NEW d \in Seq(Handed(k)), NEW r \in Handed(k), NEW at, Len(at) \in Nat, Len(at) > 0,
         NEW s, NEW whole, NEW cut, NEW missed, Past(at, d, s, whole, cut, missed),
         \A i, j \in 1 .. Len(at) : i <= j => at[i].n <= at[j].n,
         NEW at2, \A n : OnLine(n, at) <=> OnLine(n, at2) \/ n = at[1].n,
         r.n = at[1].n,
         r.n \in whole => r.p = s[r.n] /\ ~OnLine(r.n, at2),
         missed <= 1 => Honest(r, s, cut)
  PROVE  Past(at2, Append(d, r), s, whole, cut, missed)
<1> DEFINE e == Append(d, r)
<1>1. /\ Len(d) \in Nat /\ Len(e) = Len(d) + 1 /\ e[Len(d) + 1] = r
      /\ \A l \in 1 .. Len(d) : e[l] = d[l]
  BY LenProperties, AppendProperties
<1> HIDE DEF e
<1>2. \A l \in 1 .. Len(e) : l \in 1 .. Len(d) \/ l = Len(d) + 1
  BY <1>1
<1>3. ASSUME NEW l \in 1 .. Len(d)  PROVE d[l].n <= r.n /\ (d[l].n \in whole => d[l].n # r.n)
  <2>1. OnLine(r.n, at)
    OBVIOUS
  <2>2. 1 \in 1 .. Len(at)
    OBVIOUS
  <2> QED  BY <2>1, <2>2 DEF Past, Sorted, Right
<1>4. ASSUME r.n \in whole, NEW l \in 1 .. Len(d)  PROVE d[l].n # r.n
  BY <1>3, <1>4
<1>5. Sorted(at2, e)
  <2>1. ASSUME NEW l \in 1 .. Len(e), NEW i \in 1 .. Len(at2)  PROVE e[l].n <= at2[i].n
    <3>1. OnLine(at2[i].n, at)
      BY DEF OnLine
    <3>2. PICK j \in 1 .. Len(at) : at[j].n = at2[i].n
      BY <3>1 DEF OnLine
    <3>3. CASE l \in 1 .. Len(d)
      BY <1>1, <3>2, <3>3 DEF Past, Sorted
    <3>4. CASE l = Len(d) + 1
      <4>1. 1 \in 1 .. Len(at) /\ 1 <= j
        OBVIOUS
      <4>2. at[1].n <= at[j].n
        BY <4>1
      <4> QED  BY <1>1, <3>2, <3>4, <4>2
    <3> QED  BY <1>2, <3>3, <3>4
  <2>2. ASSUME NEW l \in 1 .. Len(e), NEW m \in 1 .. Len(e), l < m  PROVE e[l].n <= e[m].n
    <3>1. l \in 1 .. Len(d)
      BY <1>1, <2>2
    <3>2. CASE m \in 1 .. Len(d)
      BY <1>1, <2>2, <3>1, <3>2 DEF Past, Sorted
    <3>3. CASE m = Len(d) + 1
      BY <1>1, <1>3, <3>1, <3>3
    <3> QED  BY <1>2, <3>2, <3>3
  <2> QED  BY <2>1, <2>2 DEF Sorted
<1>6. Right(at2, e, s, whole)
  <2> SUFFICES ASSUME NEW l \in 1 .. Len(e), e[l].n \in whole
               PROVE  /\ e[l].p = s[e[l].n] /\ ~OnLine(e[l].n, at2)
                      /\ \A m \in 1 .. Len(e) : m # l => e[m].n # e[l].n
    BY DEF Right
  <2>1. CASE l \in 1 .. Len(d)
    <3>1. /\ d[l].p = s[d[l].n] /\ ~OnLine(d[l].n, at)
          /\ \A m \in 1 .. Len(d) : m # l => d[m].n # d[l].n
      BY <1>1, <2>1 DEF Past, Right
    <3>2. d[l].n # r.n /\ e[l] = d[l]
      BY <1>1, <1>3, <2>1
    <3> QED  BY <1>1, <1>2, <3>1, <3>2
  <2>2. CASE l = Len(d) + 1
    <3>1. e[l] = r /\ r.n \in whole
      BY <1>1, <2>2
    <3>2. ASSUME NEW m \in 1 .. Len(e), m # l  PROVE e[m].n # r.n
      <4>1. m \in 1 .. Len(d)
        BY <1>2, <2>2, <3>2
      <4> QED  BY <1>1, <1>4, <3>1, <4>1
    <3> QED  BY <3>1, <3>2
  <2> QED  BY <1>2, <2>1, <2>2
<1>7. Arrived(at2, e, whole)
  <2> SUFFICES ASSUME NEW n \in whole, ~OnLine(n, at2)  PROVE \E l \in 1 .. Len(e) : e[l].n = n
    BY DEF Arrived
  <2>1. CASE n = r.n
    <3>1. Len(d) + 1 \in 1 .. Len(e)
      BY <1>1
    <3> QED  BY <1>1, <2>1, <3>1
  <2>2. CASE n # r.n
    <3>1. ~OnLine(n, at)
      BY <2>2
    <3>2. PICK l \in 1 .. Len(d) : d[l].n = n
      BY <3>1 DEF Past, Arrived
    <3>3. l \in 1 .. Len(e) /\ e[l].n = n
      BY <1>1, <3>2
    <3> QED  BY <3>3
  <2> QED  BY <2>1, <2>2
<1>8. AllHonest(e, s, cut, missed)
  <2> SUFFICES ASSUME missed <= 1, NEW l \in 1 .. Len(e)  PROVE Honest(e[l], s, cut)
    BY DEF AllHonest
  <2>1. CASE l \in 1 .. Len(d)
    BY <1>1, <2>1 DEF Past, AllHonest
  <2>2. CASE l = Len(d) + 1
    BY <1>1, <2>2
  <2> QED  BY <1>2, <2>1, <2>2
<1> QED  BY <1>5, <1>6, <1>7, <1>8 DEF Past, e

LEMMA TaggedTogether ==
  ASSUME NEW k \in Nat, NEW w \in Seq(Tags(k)), NEW x \in Seq(Byte), NEW y \in Seq(Byte),
         NEW n \in 1 .. k, NEW part \in {"head", "body"}
  PROVE  w \o Tagged(x \o y, n, part) = (w \o Tagged(x, n, part)) \o Tagged(y, n, part)
<1> DEFINE u == w \o Tagged(x, n, part)
           v == u \o Tagged(y, n, part)
           z == w \o Tagged(x \o y, n, part)
<1>1. x \o y \in Seq(Byte) /\ Len(x \o y) = Len(x) + Len(y) /\ Len(x) \in Nat /\ Len(y) \in Nat
      /\ \A i \in 1 .. Len(x) + Len(y) : (x \o y)[i] = IF i <= Len(x) THEN x[i] ELSE y[i - Len(x)]
  BY ConcatProperties, LenProperties
<1>2. Follows(u, w, x, n, part, k)
  BY TaggedBytes
<1>3. u \in Seq(Tags(k))
  BY <1>2 DEF Follows
<1>4. Follows(v, u, y, n, part, k)
  BY <1>3, TaggedBytes
<1>5. Follows(z, w, x \o y, n, part, k)
  BY <1>1, TaggedBytes
<1> HIDE DEF u, v, z
<1>6. /\ v \in Seq(Tags(k)) /\ z \in Seq(Tags(k)) /\ Len(w) \in Nat /\ Len(u) = Len(w) + Len(x)
      /\ Len(v) = Len(w) + Len(x) + Len(y) /\ Len(z) = Len(w) + Len(x) + Len(y)
  <2>1. /\ Len(u) = Len(w) + Len(x) /\ Len(w) \in Nat
    BY <1>2 DEF Follows
  <2>2. v \in Seq(Tags(k)) /\ Len(v) = Len(u) + Len(y)
    BY <1>4 DEF Follows
  <2>3. z \in Seq(Tags(k)) /\ Len(z) = Len(w) + Len(x \o y)
    BY <1>5 DEF Follows
  <2> QED  BY <1>1, <2>1, <2>2, <2>3
<1>7. ASSUME NEW i \in 1 .. Len(v)  PROVE v[i] = z[i]
  <2>1. CASE i \in 1 .. Len(w)
    <3>1. i \in 1 .. Len(u)
      BY <1>1, <1>6, <2>1
    <3>2. u[i] = w[i] /\ v[i] = u[i] /\ z[i] = w[i]
      BY <1>2, <1>4, <1>5, <2>1, <3>1 DEF Follows
    <3> QED  BY <3>2
  <2>2. CASE i \notin 1 .. Len(w)
    <3> DEFINE j == i - Len(w)
    <3>1. j \in 1 .. Len(x) + Len(y) /\ i = Len(w) + j
      BY <1>1, <1>6, <2>2
    <3> HIDE DEF j
    <3>2. z[i].n = n /\ z[i].b = (x \o y)[j] /\ z[i].part = part
      BY <1>1, <1>5, <3>1 DEF Follows
    <3>3. v[i].n = n /\ v[i].b = (x \o y)[j] /\ v[i].part = part
      <4>1. CASE j <= Len(x)
        <5>1. j \in 1 .. Len(x) /\ i \in 1 .. Len(u)
          BY <1>1, <1>6, <3>1, <4>1
        <5>2. u[i].n = n /\ u[i].b = x[j] /\ u[i].part = part
          BY <1>2, <3>1, <5>1 DEF Follows
        <5>3. v[i] = u[i]
          BY <1>4, <5>1 DEF Follows
        <5> QED  BY <1>1, <3>1, <4>1, <5>2, <5>3
      <4>2. CASE ~(j <= Len(x))
        <5>1. j - Len(x) \in 1 .. Len(y) /\ i = Len(u) + (j - Len(x))
          BY <1>1, <1>6, <3>1, <4>2
        <5>2. v[i].n = n /\ v[i].b = y[j - Len(x)] /\ v[i].part = part
          BY <1>4, <5>1 DEF Follows
        <5> QED  BY <1>1, <3>1, <4>2, <5>2
      <4> QED  BY <4>1, <4>2
    <3>4. v[i] \in Tags(k) /\ z[i] \in Tags(k)
      BY <1>6, ElementOfSeq
    <3>5. /\ v[i] = [b |-> v[i].b, n |-> v[i].n, part |-> v[i].part]
          /\ z[i] = [b |-> z[i].b, n |-> z[i].n, part |-> z[i].part]
      BY <3>4, Zenon DEF Tags
    <3> QED  BY <3>2, <3>3, <3>5, Zenon
  <2> QED  BY <2>1, <2>2
<1>8. v = z
  BY <1>6, <1>7, SeqEqual
<1> QED  BY <1>8 DEF u, v, z

(* SendPacket writes the delimiter and the length: the first byte of the   *)
(* data is due.                                                            *)
HeaderOn(w, p, n) ==
  w \o Tagged(<<Delimiter>> \o AddBufferWithEsc(Len(p) \div 256)
                \o AddBufferWithEsc(Len(p) % 256), n, "head")

HeaderWritten(v, w, at, s, whole, cut, missed, gap) ==
  \E c : /\ Line(c, v, s, whole, cut, missed, gap)
         /\ Len(c) = Len(v) + 1 /\ Len(v) > Len(w) /\ Len(v) \in Nat
         /\ c[Len(c)] = [n |-> Len(s), item |-> 3, half |-> 0, sum |-> 0]
         /\ \A i \in 1 .. Len(at) : c[i] = at[i]
         /\ \A i \in 1 .. Len(c) : i > Len(at) => c[i].n = Len(s)
         /\ c[Len(at) + 1] = Start(Len(s))

LEMMA LineTakesHeader ==
  ASSUME NEW s \in Seq(Payloads), s # << >>, NEW w \in Seq(Tags(Len(s))), NEW at, Len(at) = Len(w),
         NEW whole, NEW cut, NEW missed, NEW gap \in Nat, gap <= Len(w) + 1,
         Line(at, w, s, whole, cut, missed, gap), \A i \in 1 .. Len(at) : at[i].n < Len(s),
         NEW p, p = s[Len(s)],
         NEW v, v = HeaderOn(w, p, Len(s))
  PROVE  HeaderWritten(v, w, at, s, whole, cut, missed, gap)
<1> DEFINE n == Len(s)
           x == AddBufferWithEsc(Len(p) \div 256)
           y == AddBufferWithEsc(Len(p) % 256)
           u1 == w \o Tagged(<<Delimiter>>, n, "head")
           u2 == u1 \o Tagged(x, n, "head")
           a0 == Start(n)
           a1 == [n |-> n, item |-> 1, half |-> 0, sum |-> 0]
           a2 == [n |-> n, item |-> 2, half |-> 0, sum |-> 0]
           a3 == [n |-> n, item |-> 3, half |-> 0, sum |-> 0]
           c0 == Append(at, a0)
           c1 == Append(c0, a1)
<1>1. n \in Nat /\ n > 0 /\ n \in 1 .. n /\ Len(w) \in Nat /\ p \in Payloads /\ Len(p) \in Nat /\ Len(p) > 0
  <2>1. n \in Nat /\ n > 0 /\ Len(w) \in Nat
    BY EmptySeq, LenProperties
  <2>2. p \in Payloads
    BY <2>1, ElementOfSeq
  <2> QED  BY <2>1, <2>2, FrameLength
<1>2. x \in Seq(Byte) /\ y \in Seq(Byte) /\ <<Delimiter>> \in Seq(Byte) /\ Len(<<Delimiter>>) = 1
      /\ <<Delimiter>>[1] = Delimiter
  <2>1. Len(p) \div 256 \in Byte /\ Len(p) % 256 \in Byte
    BY <1>1, FrameLength, ZenonT(30)
  <2>2. <<Delimiter>> \in Seq(Byte)
    BY DEF Delimiter, Byte
  <2> QED  BY <2>1, <2>2, EscapedAreBytes
<1>3. v = u2 \o Tagged(y, n, "head")
  <2> DEFINE z == <<Delimiter>> \o x
  <2>1. v = w \o Tagged(z \o y, n, "head")
    BY Zenon DEF HeaderOn
  <2> HIDE DEF x, y
  <2>2. z \in Seq(Byte)
    BY <1>2, ConcatProperties
  <2>3. w \o Tagged(z, n, "head") = u2
    BY <1>1, <1>2, TaggedTogether, ZenonT(30)
  <2> HIDE DEF z, u2
  <2>4. w \o Tagged(z \o y, n, "head") = (w \o Tagged(z, n, "head")) \o Tagged(y, n, "head")
    <3>1. w \in Seq(Tags(n)) /\ n \in Nat /\ n \in 1 .. n /\ "head" \in {"head", "body"}
      BY <1>1
    <3> HIDE DEF n
    <3> QED  BY <1>2, <2>2, <3>1, TaggedTogether, ZenonT(60)
  <2> QED  BY <2>1, <2>3, <2>4
<1>4. a0.n = n /\ a0.item = 0 /\ a0.half = 0 /\ a0.sum = 0 /\ Following(p, a0) = a1
  <2>1. a0.n = n /\ a0.item = 0 /\ a0.half = 0 /\ a0.sum = 0
    BY DEF Start
  <2>2. ~Opens(p, a0) /\ ~Data(p, a0)
    BY <2>1 DEF Opens, Data
  <2> QED  BY <2>1, <2>2 DEF Following
<1>5. NextItem(p, a1) = a2 /\ NextItem(p, a2) = a3
  <2>1. ~Data(p, a1) /\ ~Data(p, a2)
    BY DEF Data
  <2> QED  BY <2>1 DEF NextItem
<1>6. ValueAt(p, a1) = Len(p) \div 256 /\ ValueAt(p, a2) = Len(p) % 256
  BY DEF ValueAt
<1>7. PartAt(a0) = "head" /\ PartAt(a1) = "head" /\ PartAt(a2) = "head"
  BY <1>4 DEF PartAt
<1>8. Line(c0, w, s, whole, cut, missed, gap)
  BY <1>1, LineBegins
<1>9. Len(c0) = Len(w) + 1 /\ c0[Len(w) + 1] = a0 /\ \A i \in 1 .. Len(at) : c0[i] = at[i]
  <2>1. at \in Seq(Place)
    BY DEF Line, Places
  <2>2. a0 \in Place
    BY <1>1, Constants DEF Start, Place, Byte
  <2> HIDE DEF a0
  <2> QED  BY <2>1, <2>2, AppendProperties
<1> HIDE DEF c0
<1>10. /\ u1 \in Seq(Tags(n)) /\ Len(u1) = Len(w) + 1 /\ Grown(u1, w, s[a0.n], a0)
  <2>1. Follows(u1, w, <<Delimiter>>, n, "head", n)
    BY <1>1, <1>2, TaggedBytes
  <2> HIDE DEF u1
  <2>2. /\ u1 \in Seq(Tags(n)) /\ Len(u1) = Len(w) + 1 /\ \A i \in 1 .. Len(w) : u1[i] = w[i]
        /\ u1[Len(w) + 1].n = n /\ u1[Len(w) + 1].b = Delimiter /\ u1[Len(w) + 1].part = "head"
    <3>1. 1 \in 1 .. Len(<<Delimiter>>)
      BY <1>2
    <3> QED  BY <1>2, <2>1, <3>1 DEF Follows
  <2>3. ByteAt(s[a0.n], a0) = Delimiter
    BY <1>4 DEF ByteAt
  <2> HIDE DEF a0
  <2> QED  BY <1>4, <1>7, <2>2, <2>3 DEF Grown
<1> HIDE DEF u1
<1>11. /\ Line(c1, u1, s, whole, cut, missed, gap) /\ Len(c1) = Len(u1) + 1 /\ c1[Len(c1)] = a1
       /\ \A i \in 1 .. Len(c0) : c1[i] = c0[i]
  <2>1. Following(s[a0.n], a0) = a1 /\ a0.item <= Len(s[a0.n]) + 3 /\ a0 = c0[Len(c0)] /\ gap <= Len(c0)
    BY <1>1, <1>4, <1>9
  <2>2. /\ Line(Append(c0, Following(s[a0.n], a0)), u1, s, whole, cut, missed, gap)
        /\ Extended(Append(c0, Following(s[a0.n], a0)), c0, u1, Following(s[a0.n], a0))
    <3> HIDE DEF a0, a1, c1
    <3> QED  BY <1>1, <1>8, <1>9, <1>10, <2>1, LineGrows
  <2>3. Line(c1, u1, s, whole, cut, missed, gap) /\ Extended(c1, c0, u1, a1)
    <3> HIDE DEF a0, a1
    <3> QED  BY <2>1, <2>2
  <2> HIDE DEF a1, c1
  <2> QED  BY <2>3 DEF Extended
<1> HIDE DEF c1
<1>12. ItemWritten(u2, u1, a2, c1, s, whole, cut, missed, gap)
  <2>1. a1.n = n /\ a1.item > 0 /\ a1.half = 0 /\ a1.item <= Len(s[a1.n]) + 3
    BY <1>1
  <2>2. u2 = u1 \o Tagged(AddBufferWithEsc(ValueAt(s[a1.n], a1)), a1.n, "head")
    BY <1>6, <2>1
  <2>3. NextItem(s[a1.n], a1) = a2
    BY <1>5, <2>1
  <2>4. a1 = c1[Len(c1)] /\ Len(c1) = Len(u1) + 1 /\ gap <= Len(c1) /\ "head" = PartAt(a1)
    BY <1>1, <1>7, <1>9, <1>10, <1>11
  <2> HIDE DEF a1, a2, u2
  <2> QED  BY <1>10, <1>11, <2>1, <2>2, <2>3, <2>4, LineTakesItem
<1> HIDE DEF u2
<1>13. u2 \in Seq(Tags(n)) /\ Len(u2) > Len(u1) /\ Len(u1) \in Nat /\ Len(u2) \in Nat
  <2>1. u2 \in Seq(Tags(n)) /\ Len(u2) > Len(u1)
    BY <1>12 DEF ItemWritten
  <2> QED  BY <1>10, <2>1, LenProperties
<1>14. PICK c2 : /\ Line(c2, u2, s, whole, cut, missed, gap)
                 /\ Len(c2) = Len(u2) + 1
                 /\ c2[Len(c2)] = a2
                 /\ \A i \in 1 .. Len(c1) : c2[i] = c1[i]
                 /\ \A i \in 1 .. Len(c2) : i >= Len(c1) => c2[i].n = n
  <2>1. a2.n = n
    OBVIOUS
  <2> QED  BY <1>12, <2>1, Zenon DEF ItemWritten
<1>15. ItemWritten(v, u2, a3, c2, s, whole, cut, missed, gap)
  <2>1. a2.n = n /\ a2.item > 0 /\ a2.half = 0 /\ a2.item <= Len(s[a2.n]) + 3
    BY <1>1
  <2>2. v = u2 \o Tagged(AddBufferWithEsc(ValueAt(s[a2.n], a2)), a2.n, "head")
    BY <1>3, <1>6, <2>1
  <2>3. NextItem(s[a2.n], a2) = a3
    BY <1>5, <2>1
  <2>4. a2 = c2[Len(c2)] /\ Len(c2) = Len(u2) + 1 /\ gap <= Len(c2) /\ "head" = PartAt(a2)
    <3>1. Len(c2) = Len(u2) + 1 /\ a2 = c2[Len(c2)]
      BY <1>14
    <3>2. gap <= Len(c2)
      BY <1>1, <1>10, <1>13, <3>1
    <3> QED  BY <1>7, <3>1, <3>2
  <2> HIDE DEF a2, a3
  <2> QED  BY <1>13, <1>14, <2>1, <2>2, <2>3, <2>4, LineTakesItem
<1>16. PICK c3 : /\ Line(c3, v, s, whole, cut, missed, gap)
                 /\ Len(c3) = Len(v) + 1
                 /\ c3[Len(c3)] = a3
                 /\ \A i \in 1 .. Len(c2) : c3[i] = c2[i]
                 /\ \A i \in 1 .. Len(c3) : i >= Len(c2) => c3[i].n = n
  <2>1. a3.n = n
    OBVIOUS
  <2> QED  BY <1>15, <2>1, Zenon DEF ItemWritten
<1>17. /\ Len(v) \in Nat /\ Len(u1) = Len(w) + 1 /\ Len(u2) > Len(u1) /\ Len(u1) \in Nat /\ Len(u2) \in Nat
       /\ Len(v) > Len(u2) /\ Len(c1) = Len(w) + 2 /\ Len(c2) = Len(u2) + 1 /\ Len(c3) = Len(v) + 1
  <2>1. v \in Seq(Tags(n)) /\ Len(v) > Len(u2)
    BY <1>15 DEF ItemWritten
  <2>2. Len(v) \in Nat
    BY <2>1, LenProperties
  <2>3. Len(u1) = Len(w) + 1 /\ Len(c1) = Len(u1) + 1 /\ Len(c2) = Len(u2) + 1 /\ Len(c3) = Len(v) + 1
    BY <1>10, <1>11, <1>16, <1>14
  <2>4. Len(c1) = Len(w) + 2
    BY <1>1, <2>3
  <2> QED  BY <1>13, <2>1, <2>2, <2>3, <2>4
<1>18. ASSUME NEW i \in 1 .. Len(at)  PROVE c3[i] = at[i]
  <2>1. i \in 1 .. Len(c0) /\ i \in 1 .. Len(c1) /\ i \in 1 .. Len(c2)
    BY <1>1, <1>9, <1>17
  <2> QED  BY <1>9, <1>11, <1>16, <1>14, <2>1
<1>19. c3[Len(at) + 1] = a0
  <2>1. Len(at) + 1 \in 1 .. Len(c0) /\ Len(at) + 1 \in 1 .. Len(c1) /\ Len(at) + 1 \in 1 .. Len(c2)
    BY <1>1, <1>9, <1>17
  <2> HIDE DEF a0
  <2> QED  BY <1>9, <1>11, <1>16, <1>14, <2>1, SMTT(30)
<1>20. ASSUME NEW i \in 1 .. Len(c3), i > Len(at)  PROVE c3[i].n = n
  <2>1. CASE i = Len(at) + 1
    BY <1>4, <1>19, <2>1
  <2>2. CASE i # Len(at) + 1 /\ i >= Len(c2)
    BY <1>16, <2>2
  <2>3. CASE i # Len(at) + 1 /\ ~(i >= Len(c2))
    <3>1. i \in 1 .. Len(c2) /\ i >= Len(c1)
      BY <1>1, <1>17, <1>20, <2>3
    <3> QED  BY <1>16, <1>14, <3>1
  <2> QED  BY <2>1, <2>2, <2>3
<1>21. Len(v) > Len(w)
  BY <1>1, <1>17
<1> HIDE DEF a0, a3, n
<1>22. /\ c3[Len(c3)] = [n |-> Len(s), item |-> 3, half |-> 0, sum |-> 0]
       /\ c3[Len(at) + 1] = Start(Len(s))
       /\ \A i \in 1 .. Len(c3) : i > Len(at) => c3[i].n = Len(s)
  BY <1>16, <1>19, <1>20 DEF a0, a3, n
<1> QED  BY <1>16, <1>17, <1>18, <1>21, <1>22, Zenon DEF HeaderWritten

(***************************************************************************)
(* The invariant: the line can be read as the rest of the packets that     *)
(* were sent, and the receiver is where its first byte expects it, or      *)
(* astray since the one byte that was lost.                                *)
(***************************************************************************)
Due == [n |-> Len(sent), item |-> out.next + 2, half |-> 0, sum |-> out.sum]

(* Only while a packet is written a byte is due.                           *)
Ahead(at) ==
  IF out = Silent THEN Len(at) = Len(wire)
  ELSE /\ Len(at) = Len(wire) + 1 /\ at[Len(at)] = Due
       /\ out.next <= Len(sent[Len(sent)]) + 1

InStep(p, a) == a.item = 0 \/ Synced(p, a)

Facing(at, gap) ==
  Len(at) > 0 => \A p, cut : p = sent[at[1].n] /\ cut = beheaded =>
    /\ at[1].n \in intact \/ (lost <= 1 /\ gap > 1) => InStep(p, at[1])
    /\ lost <= 1 => InStep(p, at[1]) \/ Astray(p, at[1], cut)

(* Between packets the receiver waits, as long as nothing was lost.        *)
Resting(at) == lost = 0 /\ (Len(at) > 0 => at[1].item = 0) => ReceiveSeq = 0

Accounted ==
  /\ lost = 0 => intact = 1 .. Len(sent)
  /\ lost <= 1 => \A m, n \in 1 .. Len(sent) : m \notin intact /\ n \notin intact => m = n

Parse(at, gap) ==
  /\ gap <= Len(wire) + 1
  /\ Line(at, wire, sent, intact, beheaded, lost, gap)
  /\ Ahead(at) /\ Facing(at, gap) /\ Resting(at)
  /\ Past(at, delivered, sent, intact, beheaded, lost)

Parsed == Accounted /\ \E at \in Seq(Place) : \E gap \in Nat : Parse(at, gap)

LEMMA DecoderRests ==
  ASSUME UNCHANGED decoder, NEW p, NEW a, NEW cut
  PROVE  /\ InStep(p, a)' <=> InStep(p, a)
         /\ Astray(p, a, cut)' <=> Astray(p, a, cut)
BY DEF decoder, InStep, Synced, Astray, Behind, Misjudged, Missummed

(* What the sender does behind the first byte of the line does not concern *)
(* the receiver.                                                           *)
LEMMA FacesOn ==
  ASSUME NEW at, Len(at) \in Nat, NEW c, NEW gap, Facing(at, gap), Resting(at), Len(c) > 0,
         UNCHANGED <<decoder, lost, beheaded>>,
         IF Len(at) > 0
         THEN /\ c[1] = at[1] /\ sent'[at[1].n] = sent[at[1].n]
              /\ at[1].n \in intact' <=> at[1].n \in intact
         ELSE c[1].item = 0
  PROVE  Facing(c, gap)' /\ Resting(c)'
<1>1. CASE Len(at) > 0
  <2>1. c[1] = at[1] /\ sent'[at[1].n] = sent[at[1].n] /\ (at[1].n \in intact' <=> at[1].n \in intact)
    BY <1>1
  <2>2. ASSUME NEW p, NEW cut, p = sent'[c[1].n], cut = beheaded'
        PROVE  /\ c[1].n \in intact' \/ (lost' <= 1 /\ gap > 1) => InStep(p, c[1])'
               /\ lost' <= 1 => InStep(p, c[1])' \/ Astray(p, c[1], cut)'
    <3>1. p = sent[at[1].n] /\ cut = beheaded /\ lost' = lost
      BY <2>1, <2>2
    <3>2. /\ at[1].n \in intact \/ (lost <= 1 /\ gap > 1) => InStep(p, at[1])
          /\ lost <= 1 => InStep(p, at[1]) \/ Astray(p, at[1], cut)
      BY <1>1, <3>1 DEF Facing
    <3>3. /\ InStep(p, c[1])' <=> InStep(p, at[1])
          /\ Astray(p, c[1], cut)' <=> Astray(p, at[1], cut)
      BY <2>1, DecoderRests
    <3> QED  BY <2>1, <3>1, <3>2, <3>3
  <2>3. Facing(c, gap)'
    BY <2>2 DEF Facing
  <2>4. Resting(c)'
    BY <1>1, <2>1 DEF Resting, decoder
  <2> QED  BY <2>3, <2>4
<1>2. CASE ~(Len(at) > 0)
  <2>1. c[1].item = 0
    BY <1>2
  <2>2. \A p : InStep(p, c[1])'
    BY <2>1 DEF InStep
  <2>3. Facing(c, gap)'
    BY <2>2 DEF Facing
  <2>4. Resting(c)'
    BY <1>2 DEF Resting, decoder
  <2> QED  BY <2>3, <2>4
<1> QED  BY <1>1, <1>2

LEMMA ParseTypes ==
  ASSUME Inductive, NEW at, NEW gap, Parse(at, gap)
  PROVE  /\ sent \in Seq(Payloads) /\ Len(sent) \in Nat /\ wire \in Seq(Tags(Len(sent)))
         /\ Len(wire) \in Nat /\ at \in Seq(Place) /\ Len(at) \in Nat
         /\ delivered \in Seq(Handed(Len(sent))) /\ Len(delivered) \in Nat /\ lost \in Nat
         /\ \A i \in 1 .. Len(at) : at[i].n \in 1 .. Len(sent)
         /\ \A k \in 1 .. Len(delivered) : delivered[k].n \in 1 .. Len(sent)
         /\ \A i, j \in 1 .. Len(at) : i <= j => at[i].n <= at[j].n
<1>1. /\ sent \in Seq(Payloads) /\ wire \in Seq(Tags(Len(sent))) /\ lost \in Nat
      /\ delivered \in Seq(Handed(Len(sent)))
  BY InParts DEF SenderTyped
<1>2. Places(at, sent)
  BY DEF Parse, Line
<1>3. at \in Seq(Place)
  BY <1>2 DEF Places
<1>4. Len(sent) \in Nat /\ Len(wire) \in Nat /\ Len(at) \in Nat /\ Len(delivered) \in Nat
  BY <1>1, <1>3, LenProperties
<1>5. ASSUME NEW k \in 1 .. Len(delivered)  PROVE delivered[k].n \in 1 .. Len(sent)
  <2>1. delivered[k] \in Handed(Len(sent))
    BY <1>1, ElementOfSeq
  <2> QED  BY <2>1, Zenon DEF Handed
<1>6. /\ \A i \in 1 .. Len(at) : at[i].n \in 1 .. Len(sent)
      /\ \A i, j \in 1 .. Len(at) : i <= j => at[i].n <= at[j].n
  BY <1>2 DEF Places
<1> QED  BY <1>1, <1>3, <1>4, <1>5, <1>6

LEMMA HeaderParses ==
  ASSUME Inductive, Parsed, NEW q \in Payloads, SendHeader(q)
  PROVE  Parsed'
<1> DEFINE n == Len(sent) + 1
           all == intact \cup {n}
<1>1. PICK at \in Seq(Place) : \E gap \in Nat : Parse(at, gap)
  BY DEF Parsed
<1>2. PICK gap \in Nat : Parse(at, gap)
  BY <1>1
<1>3. /\ sent \in Seq(Payloads) /\ Len(sent) \in Nat /\ wire \in Seq(Tags(Len(sent)))
      /\ Len(wire) \in Nat /\ Len(at) \in Nat /\ Len(delivered) \in Nat
      /\ \A i \in 1 .. Len(at) : at[i].n \in 1 .. Len(sent)
      /\ \A k \in 1 .. Len(delivered) : delivered[k].n \in 1 .. Len(sent)
  BY <1>2, ParseTypes
<1>4. /\ out = Silent /\ sent' = Append(sent, q) /\ out' = [next |-> 1, sum |-> 0] /\ intact' = all
      /\ delivered' = delivered /\ beheaded' = beheaded /\ lost' = lost /\ UNCHANGED decoder
  BY DEF SendHeader, decoder
<1>5. /\ sent' \in Seq(Payloads) /\ Len(sent') = n /\ sent'[n] = q /\ sent' # << >>
      /\ \A i \in 1 .. Len(sent) : sent'[i] = sent[i]
  <2>1. Len(sent') = n /\ sent' \in Seq(Payloads) /\ sent'[n] = q
        /\ \A i \in 1 .. Len(sent) : sent'[i] = sent[i]
    BY <1>3, <1>4, AppendProperties
  <2>2. sent' # << >>
    BY <1>3, <2>1, EmptySeq
  <2> QED  BY <2>1, <2>2
<1>6. wire' = HeaderOn(wire, q, n)
  BY DEF SendHeader, Put, HeaderOn
<1>7. Len(at) = Len(wire) /\ gap <= Len(wire) + 1 /\ Line(at, wire, sent, intact, beheaded, lost, gap)
  BY <1>2, <1>4 DEF Parse, Ahead
<1> HIDE DEF all
<1>8. Line(at, wire, sent', all, beheaded, lost, gap)
  BY <1>3, <1>4, <1>7, LineWidens DEF all
<1>9. wire \in Seq(Tags(Len(sent')))
  BY <1>3, <1>5, MoreTags
<1>10. HeaderWritten(wire', wire, at, sent', all, beheaded, lost, gap)
  <2>1. \A i \in 1 .. Len(at) : at[i].n < Len(sent')
    BY <1>3, <1>5
  <2>2. q = sent'[Len(sent')] /\ wire' = HeaderOn(wire, q, Len(sent'))
    BY <1>5, <1>6
  <2> HIDE DEF n
  <2> QED  BY <1>5, <1>7, <1>8, <1>9, <2>1, <2>2, LineTakesHeader
<1>11. PICK c : /\ Line(c, wire', sent', all, beheaded, lost, gap)
                /\ Len(c) = Len(wire') + 1 /\ Len(wire') > Len(wire) /\ Len(wire') \in Nat
                /\ c[Len(c)] = [n |-> Len(sent'), item |-> 3, half |-> 0, sum |-> 0]
                /\ \A i \in 1 .. Len(at) : c[i] = at[i]
                /\ \A i \in 1 .. Len(c) : i > Len(at) => c[i].n = Len(sent')
                /\ c[Len(at) + 1] = Start(Len(sent'))
  BY <1>10, Zenon DEF HeaderWritten
<1>12. Ahead(c)'
  <2>1. out' # Silent
    BY <1>4 DEF Silent
  <2>2. Due' = [n |-> Len(sent'), item |-> 3, half |-> 0, sum |-> 0]
    BY <1>4 DEF Due
  <2>3. out'.next <= Len(sent'[Len(sent')]) + 1
    <3>1. Len(q) \in Nat
      BY FrameLength
    <3> QED  BY <1>4, <1>5, <3>1
  <2> QED  BY <1>11, <2>1, <2>2, <2>3 DEF Ahead
<1>13. Facing(c, gap)' /\ Resting(c)'
  <2>1. Facing(at, gap) /\ Resting(at) /\ UNCHANGED <<decoder, lost, beheaded>>
    BY <1>2, <1>4 DEF Parse
  <2>2. Len(c) > 0
    BY <1>3, <1>11
  <2>3. CASE Len(at) > 0
    <3>1. 1 \in 1 .. Len(at)
      BY <1>3, <2>3
    <3>2. at[1].n \in 1 .. Len(sent) /\ at[1].n # n
      BY <1>3, <3>1
    <3>3. c[1] = at[1] /\ sent'[at[1].n] = sent[at[1].n] /\ (at[1].n \in intact' <=> at[1].n \in intact)
      BY <1>4, <1>5, <1>11, <3>1, <3>2 DEF all
    <3> QED  BY <1>3, <2>1, <2>2, <2>3, <3>3, FacesOn
  <2>4. CASE ~(Len(at) > 0)
    <3>1. c[1].item = 0
      <4>1. Len(at) + 1 = 1
        BY <1>3, <2>4
      <4> QED  BY <1>11, <4>1 DEF Start
    <3> QED  BY <1>3, <2>1, <2>2, <2>4, <3>1, FacesOn
  <2> QED  BY <2>3, <2>4
<1>14. Past(c, delivered, sent', all, beheaded, lost)
  <2>1. Past(at, delivered, sent, intact, beheaded, lost)
    BY <1>2 DEF Parse
  <2>2. ASSUME NEW m  PROVE OnLine(m, c) <=> OnLine(m, at) \/ m = n
    <3>1. ASSUME OnLine(m, c)  PROVE OnLine(m, at) \/ m = n
      <4>1. PICK i \in 1 .. Len(c) : c[i].n = m
        BY <3>1 DEF OnLine
      <4>2. CASE i > Len(at)
        BY <1>5, <1>11, <4>1, <4>2
      <4>3. CASE ~(i > Len(at))
        <5>1. i \in 1 .. Len(at)
          BY <1>3, <4>3
        <5> QED  BY <1>11, <4>1, <5>1 DEF OnLine
      <4> QED  BY <4>2, <4>3
    <3>2. ASSUME OnLine(m, at)  PROVE OnLine(m, c)
      <4>1. PICK i \in 1 .. Len(at) : at[i].n = m
        BY <3>2 DEF OnLine
      <4>2. i \in 1 .. Len(c)
        BY <1>3, <1>7, <1>11
      <4> QED  BY <1>11, <4>1, <4>2 DEF OnLine
    <3>3. OnLine(n, c)
      <4>1. Len(at) + 1 \in 1 .. Len(c)
        BY <1>3, <1>7, <1>11
      <4>2. c[Len(at) + 1].n = n
        BY <1>5, <1>11 DEF Start
      <4> QED  BY <4>1, <4>2 DEF OnLine
    <3> QED  BY <3>1, <3>2, <3>3
  <2>3. ASSUME NEW k \in 1 .. Len(delivered)
        PROVE  delivered[k].n <= n /\ delivered[k].n # n /\ sent'[delivered[k].n] = sent[delivered[k].n]
    BY <1>3, <1>5
  <2> HIDE DEF n
  <2>4. Past(c, delivered, sent', intact \cup {n}, beheaded, lost)
    BY <2>1, <2>2, <2>3, PastGrows
  <2> QED  BY <2>4 DEF all
<1>15. gap <= Len(wire') + 1
  BY <1>3, <1>7, <1>11
<1>16. Parse(c, gap)'
  BY <1>4, <1>11, <1>12, <1>13, <1>14, <1>15 DEF Parse
<1>17. Accounted'
  <2>1. Accounted
    BY DEF Parsed
  <2>2. ASSUME lost' = 0  PROVE intact' = 1 .. Len(sent')
    <3>1. intact = 1 .. Len(sent)
      BY <1>4, <2>1, <2>2 DEF Accounted
    <3> QED  BY <1>3, <1>4, <1>5, <3>1 DEF all
  <2>3. ASSUME lost' <= 1, NEW k \in 1 .. Len(sent'), NEW m \in 1 .. Len(sent'),
               k \notin intact', m \notin intact'
        PROVE  k = m
    <3>1. k \in 1 .. Len(sent) /\ m \in 1 .. Len(sent) /\ k \notin intact /\ m \notin intact
      BY <1>3, <1>4, <1>5, <2>3 DEF all
    <3> QED  BY <1>4, <2>1, <2>3, <3>1 DEF Accounted
  <2> QED  BY <2>2, <2>3 DEF Accounted
<1>18. c \in Seq(Place)
  BY <1>11 DEF Line, Places
<1> QED  BY <1>16, <1>17, <1>18 DEF Parsed

(* The item that is due while a packet is written.                         *)
LEMMA DueItem ==
  ASSUME Inductive, NEW at, NEW gap, Parse(at, gap), out # Silent
  PROVE  /\ Len(at) = Len(wire) + 1 /\ at[Len(at)] = Due /\ out.next <= Len(sent[Len(sent)]) + 1
         /\ Len(sent) \in 1 .. Len(sent) /\ sent[Len(sent)] \in Payloads
         /\ out.next \in Nat /\ out.next > 0 /\ out.sum \in Byte
         /\ Due.n = Len(sent) /\ Due.item = out.next + 2 /\ Due.half = 0 /\ Due.sum = out.sum
         /\ PartAt(Due) = "body"
<1>1. Len(at) = Len(wire) + 1 /\ at[Len(at)] = Due /\ out.next <= Len(sent[Len(sent)]) + 1
  BY DEF Parse, Ahead
<1>2. out \in [next : Nat, sum : Byte] /\ sent # << >> /\ out.next > 0 /\ sent \in Seq(Payloads)
  BY InParts DEF SenderTyped, Writing
<1>3. Len(sent) \in 1 .. Len(sent)
  BY <1>2, EmptySeq, LenProperties
<1>4. sent[Len(sent)] \in Payloads
  BY <1>2, <1>3, ElementOfSeq
<1>5. out.next \in Nat /\ out.sum \in Byte
  BY <1>2
<1>6. Due.n = Len(sent) /\ Due.item = out.next + 2 /\ Due.half = 0 /\ Due.sum = out.sum
  BY DEF Due
<1>7. ~(Due.item < 3)
  BY <1>2, <1>5, <1>6
<1>8. PartAt(Due) = "body"
  BY <1>7 DEF PartAt
<1> QED  BY <1>1, <1>2, <1>3, <1>4, <1>5, <1>6, <1>8

LEMMA DueIsWritten ==
  ASSUME Inductive, NEW at, NEW gap \in Nat, Parse(at, gap), out # Silent,
         wire' = wire \o Tagged(AddBufferWithEsc(ValueAt(sent[Len(sent)], Due)), Len(sent), "body")
  PROVE  ItemWritten(wire', wire, NextItem(sent[Len(sent)], Due), at, sent, intact, beheaded, lost, gap)
<1> DEFINE a == Due
<1>1. /\ Len(at) = Len(wire) + 1 /\ a = at[Len(at)] /\ a.n = Len(sent) /\ a.half = 0
      /\ "body" = PartAt(a) /\ a.item > 0 /\ a.item <= Len(sent[a.n]) + 3
  <2>1. Len(sent[Len(sent)]) \in Nat
    BY DueItem, FrameLength
  <2> QED  BY <2>1, DueItem, SMTT(30)
<1>2. /\ sent \in Seq(Payloads) /\ wire \in Seq(Tags(Len(sent))) /\ Len(wire) \in Nat
  BY ParseTypes
<1>3. gap <= Len(at) /\ Line(at, wire, sent, intact, beheaded, lost, gap)
  BY <1>1, <1>2 DEF Parse
<1> HIDE DEF a
<1>4. wire' = wire \o Tagged(AddBufferWithEsc(ValueAt(sent[a.n], a)), a.n, "body")
  BY <1>1 DEF a
<1>5. ItemWritten(wire', wire, NextItem(sent[a.n], a), at, sent, intact, beheaded, lost, gap)
  BY <1>1, <1>2, <1>3, <1>4, LineTakesItem
<1> QED  BY <1>1, <1>5 DEF a

(* The packet goes on, with places of its frame.                           *)
LEMMA PacketGoesOn ==
  ASSUME Inductive, NEW at, NEW gap \in Nat, Parse(at, gap), Len(at) > 0,
         NEW c, Len(c) >= Len(at), Len(c) \in Nat, \A i \in 1 .. Len(at) : c[i] = at[i],
         \A i \in 1 .. Len(c) : i >= Len(at) => c[i].n = at[Len(at)].n,
         UNCHANGED <<decoder, delivered, sent, intact, beheaded, lost>>
  PROVE  /\ Facing(c, gap)' /\ Resting(c)'
         /\ Past(c, delivered, sent, intact, beheaded, lost)
<1>1. Len(at) \in Nat
  BY ParseTypes
<1>2. Facing(c, gap)' /\ Resting(c)'
  <2>1. Facing(at, gap) /\ Resting(at) /\ Len(c) > 0
    BY <1>1 DEF Parse
  <2>2. c[1] = at[1]
    BY <1>1
  <2> QED  BY <1>1, <2>1, <2>2, FacesOn
<1>3. ASSUME NEW m, OnLine(m, c)  PROVE OnLine(m, at)
  <2>1. PICK i \in 1 .. Len(c) : c[i].n = m
    BY <1>3 DEF OnLine
  <2>2. CASE i >= Len(at)
    <3>1. Len(at) \in 1 .. Len(at)
      BY <1>1
    <3> QED  BY <2>1, <2>2, <3>1 DEF OnLine
  <2>3. CASE ~(i >= Len(at))
    <3>1. i \in 1 .. Len(at)
      BY <1>1, <2>3
    <3> QED  BY <2>1, <3>1 DEF OnLine
  <2> QED  BY <2>2, <2>3
<1>4. ASSUME NEW m, OnLine(m, at)  PROVE OnLine(m, c)
  <2>1. PICK i \in 1 .. Len(at) : at[i].n = m
    BY <1>4 DEF OnLine
  <2>2. i \in 1 .. Len(c)
    BY <1>1
  <2> QED  BY <2>1, <2>2 DEF OnLine
<1>5. Past(at, delivered, sent, intact, beheaded, lost)
  BY DEF Parse
<1>6. Past(c, delivered, sent, intact, beheaded, lost)
  BY <1>3, <1>4, <1>5, PastStays
<1> QED  BY <1>2, <1>6

LEMMA AccountedStays ==
  ASSUME Accounted, UNCHANGED <<sent, intact, lost>>
  PROVE  Accounted'
BY DEF Accounted

LEMMA DataParses ==
  ASSUME Inductive, Parsed, SendData
  PROVE  Parsed'
<1>1. PICK at \in Seq(Place) : \E gap \in Nat : Parse(at, gap)
  BY DEF Parsed
<1>2. PICK gap \in Nat : Parse(at, gap)
  BY <1>1
<1> DEFINE p == sent[Len(sent)]
           b == NextItem(p, Due)
<1>3. out # Silent /\ out.next <= Len(p)
  BY DEF SendData, Last
<1>4. /\ Len(at) = Len(wire) + 1 /\ at[Len(at)] = Due /\ p \in Payloads /\ out.next \in Nat /\ out.next > 0
      /\ Due.n = Len(sent) /\ Due.item = out.next + 2 /\ Due.half = 0 /\ Due.sum = out.sum
  BY <1>2, <1>3, DueItem
<1>5. Len(p) \in Nat /\ Len(wire) \in Nat /\ Len(at) \in Nat /\ gap <= Len(wire) + 1
  <2>1. gap <= Len(wire) + 1
    BY <1>2 DEF Parse
  <2> QED  BY <1>2, <1>4, <2>1, FrameLength, ParseTypes
<1> HIDE DEF p
<1>6. ValueAt(p, Due) = p[out.next] /\ Data(p, Due)
  <2>1. Due.item # 1 /\ Due.item # 2 /\ Due.item <= Len(p) + 2 /\ Due.item - 2 = out.next /\ Due.item >= 3
    <3>1. /\ out.next <= Len(p) /\ out.next \in Nat /\ out.next > 0 /\ Due.item = out.next + 2
          /\ Len(p) \in Nat
      BY <1>3, <1>4, <1>5 DEF p
    <3> QED  BY <3>1
  <2> QED  BY <2>1 DEF ValueAt, Data
<1>7. wire' = wire \o Tagged(AddBufferWithEsc(ValueAt(p, Due)), Len(sent), "body")
  BY <1>6 DEF SendData, Put, Last, p
<1>8. ItemWritten(wire', wire, b, at, sent, intact, beheaded, lost, gap)
  BY <1>2, <1>3, <1>7, DueIsWritten DEF p
<1>9. out' = [next |-> out.next + 1, sum |-> (out.sum + p[out.next]) % 256]
      /\ UNCHANGED <<decoder, delivered, sent, intact, beheaded, lost>>
  BY DEF SendData, Last, p
<1>10. b = [n |-> Len(sent), item |-> out.next + 3, half |-> 0, sum |-> (out.sum + p[out.next]) % 256]
  <2>1. Due.item + 1 = out.next + 3
    BY <1>4
  <2> QED  BY <1>4, <1>6, <2>1 DEF NextItem
<1>11. b = Due'
  <2>1. out'.next + 2 = out.next + 3 /\ out'.sum = (out.sum + p[out.next]) % 256 /\ sent' = sent
    BY <1>4, <1>9
  <2>2. Due' = [n |-> Len(sent), item |-> out.next + 3, half |-> 0, sum |-> (out.sum + p[out.next]) % 256]
    BY <2>1 DEF Due
  <2> HIDE DEF b
  <2> QED  BY <1>10, <2>2, Zenon
<1>12. b.n = at[Len(at)].n
  BY <1>4, <1>10
<1> HIDE DEF b
<1>13. PICK c : /\ Line(c, wire', sent, intact, beheaded, lost, gap)
                /\ Len(c) = Len(wire') + 1
                /\ c[Len(c)] = b
                /\ \A i \in 1 .. Len(at) : c[i] = at[i]
                /\ \A i \in 1 .. Len(c) : i >= Len(at) => c[i].n = at[Len(at)].n
  BY <1>8, <1>12, Zenon DEF ItemWritten
<1>14. Len(wire') \in Nat /\ Len(wire') > Len(wire)
  <2>1. wire' \in Seq(Tags(Len(sent))) /\ Len(wire') > Len(wire)
    BY <1>8 DEF ItemWritten
  <2> QED  BY <2>1, LenProperties
<1>15. Ahead(c)'
  <2>1. out'.next <= Len(p) + 1 /\ out' # Silent /\ p = sent'[Len(sent')]
    BY <1>3, <1>4, <1>5, <1>9, SMTT(30) DEF Silent, p
  <2> QED  BY <1>11, <1>13, <2>1 DEF Ahead
<1>16. /\ Facing(c, gap)' /\ Resting(c)'
       /\ Past(c, delivered, sent, intact, beheaded, lost)
  <2>1. Len(at) > 0 /\ Len(c) >= Len(at) /\ Len(c) \in Nat
    BY <1>4, <1>5, <1>13, <1>14
  <2> QED  BY <1>2, <1>9, <1>13, <2>1, PacketGoesOn
<1>17. gap <= Len(wire') + 1
  BY <1>5, <1>14
<1>18. Parse(c, gap)'
  BY <1>9, <1>13, <1>15, <1>16, <1>17 DEF Parse
<1>19. c \in Seq(Place)
  BY <1>13 DEF Line, Places
<1> QED  BY <1>9, <1>18, <1>19, AccountedStays DEF Parsed

LEMMA SumParses ==
  ASSUME Inductive, Parsed, SendSum
  PROVE  Parsed'
<1>1. PICK at \in Seq(Place) : \E gap \in Nat : Parse(at, gap)
  BY DEF Parsed
<1>2. PICK gap \in Nat : Parse(at, gap)
  BY <1>1
<1> DEFINE p == sent[Len(sent)]
           b == NextItem(p, Due)
<1>3. out # Silent /\ out.next > Len(p)
  BY DEF SendSum, Last
<1>4. /\ Len(at) = Len(wire) + 1 /\ at[Len(at)] = Due /\ p \in Payloads /\ out.next \in Nat
      /\ Due.n = Len(sent) /\ Due.item = out.next + 2 /\ Due.half = 0 /\ Due.sum = out.sum
      /\ out.next <= Len(p) + 1
  BY <1>2, <1>3, DueItem
<1>5. Len(p) \in Nat /\ Len(p) > 0 /\ Len(wire) \in Nat /\ Len(at) \in Nat /\ gap <= Len(wire) + 1
  <2>1. gap <= Len(wire) + 1
    BY <1>2 DEF Parse
  <2> QED  BY <1>2, <1>4, <2>1, FrameLength, ParseTypes
<1> HIDE DEF p
<1>6. ValueAt(p, Due) = 255 - out.sum /\ Due.item = Len(p) + 3
  <2>1. Due.item # 1 /\ Due.item # 2 /\ ~(Due.item <= Len(p) + 2) /\ Due.item = Len(p) + 3
    BY <1>3, <1>4, <1>5
  <2> QED  BY <1>4, <2>1 DEF ValueAt
<1>7. wire' = wire \o Tagged(AddBufferWithEsc(ValueAt(p, Due)), Len(sent), "body")
  BY <1>6 DEF SendSum, Put
<1>8. ItemWritten(wire', wire, b, at, sent, intact, beheaded, lost, gap)
  BY <1>2, <1>3, <1>7, DueIsWritten DEF p
<1>9. out' = Silent /\ UNCHANGED <<decoder, delivered, sent, intact, beheaded, lost>>
  BY DEF SendSum
<1>10. b.n = Len(sent) /\ b.n = at[Len(at)].n /\ b.item = Len(p) + 4 /\ p = sent[b.n]
  <2>1. b.n = Due.n /\ b.item = Due.item + 1
    BY DEF NextItem
  <2> QED  BY <1>4, <1>5, <1>6, <2>1 DEF p
<1> HIDE DEF b
<1>11. PICK c : /\ Line(c, wire', sent, intact, beheaded, lost, gap)
                /\ Len(c) = Len(wire') + 1
                /\ c[Len(c)] = b
                /\ \A i \in 1 .. Len(at) : c[i] = at[i]
                /\ \A i \in 1 .. Len(c) : i >= Len(at) => c[i].n = at[Len(at)].n
  BY <1>8, <1>10, Zenon DEF ItemWritten
<1>12. Len(wire') \in Nat /\ Len(wire') > Len(wire) /\ sent \in Seq(Payloads)
  <2>1. wire' \in Seq(Tags(Len(sent))) /\ Len(wire') > Len(wire)
    BY <1>8 DEF ItemWritten
  <2> QED  BY <1>2, <2>1, LenProperties, ParseTypes
<1>13. PICK f : /\ Line(f, wire', sent, intact, beheaded, lost, gap)
                /\ Len(f) = Len(wire') /\ \A i \in 1 .. Len(wire') : f[i] = c[i]
  <2> DEFINE g == SubSeq(c, 1, Len(wire'))
  <2>1. c[Len(wire')].n = b.n
    <3>1. Len(wire') \in 1 .. Len(c) /\ Len(wire') >= Len(at)
      BY <1>4, <1>5, <1>11, <1>12
    <3> QED  BY <1>10, <1>11, <3>1
  <2>2. Len(wire') > 0
    BY <1>5, <1>12
  <2>3. b = c[Len(c)] /\ b.item = Len(sent[b.n]) + 4
    BY <1>10, <1>11
  <2>4. /\ Line(g, wire', sent, intact, beheaded, lost, gap)
        /\ Len(g) = Len(wire') /\ \A i \in 1 .. Len(wire') : g[i] = c[i]
    <3>1. /\ c[Len(c)].item = Len(sent[c[Len(c)].n]) + 4 /\ c[Len(wire')].n = c[Len(c)].n
          /\ Len(c) = Len(wire') + 1
      BY <1>11, <2>1, <2>3
    <3>2. Line(c, wire', sent, intact, beheaded, lost, gap)
      BY <1>11
    <3> QED  BY <1>12, <2>2, <3>1, <3>2, LineEnds
  <2> HIDE DEF g
  <2> QED  BY <2>4, Zenon
<1>14. Ahead(f)'
  BY <1>9, <1>13 DEF Ahead
<1>15. /\ Facing(f, gap)' /\ Resting(f)'
       /\ Past(f, delivered, sent, intact, beheaded, lost)
  <2>1. Len(at) > 0 /\ Len(f) >= Len(at) /\ Len(f) \in Nat
    BY <1>4, <1>5, <1>12, <1>13
  <2>2. ASSUME NEW i \in 1 .. Len(at)  PROVE f[i] = at[i]
    <3>1. i \in 1 .. Len(wire')
      BY <1>5, <1>12, <1>13, <2>1
    <3> QED  BY <1>11, <1>13, <3>1
  <2>3. ASSUME NEW i \in 1 .. Len(f), i >= Len(at)  PROVE f[i].n = at[Len(at)].n
    <3>1. i \in 1 .. Len(wire') /\ i \in 1 .. Len(c)
      BY <1>11, <1>12, <1>13
    <3> QED  BY <1>11, <1>13, <2>3, <3>1
  <2> QED  BY <1>2, <1>9, <2>1, <2>2, <2>3, PacketGoesOn
<1>16. gap <= Len(wire') + 1
  BY <1>5, <1>12
<1>17. Parse(f, gap)'
  BY <1>9, <1>13, <1>14, <1>15, <1>16 DEF Parse
<1>18. f \in Seq(Place)
  BY <1>13 DEF Line, Places
<1> QED  BY <1>9, <1>17, <1>18, AccountedStays DEF Parsed

(* A frame loses its wholeness, and nothing was lost before if little is.  *)
LEMMA AccountedLoses ==
  ASSUME Inductive, Accounted, NEW n, intact' = intact \ {n}, lost' = lost + 1, sent' = sent
  PROVE  /\ Accounted'
         /\ lost' <= 1 => lost = 0 /\ intact = 1 .. Len(sent)
<1>1. lost \in Nat
  BY InParts DEF SenderTyped
<1>2. lost' # 0 /\ (lost' <= 1 => lost = 0)
  BY <1>1
<1>3. lost' <= 1 => intact = 1 .. Len(sent)
  BY <1>2 DEF Accounted
<1>4. ASSUME lost' <= 1, NEW k \in 1 .. Len(sent'), NEW m \in 1 .. Len(sent'),
             k \notin intact', m \notin intact'
      PROVE  k = m
  <2>1. k \in intact /\ m \in intact
    BY <1>3, <1>4
  <2> QED  BY <1>4, <2>1
<1>5. Accounted'
  BY <1>2, <1>4 DEF Accounted
<1> QED  BY <1>2, <1>3, <1>5

LEMMA CutParses ==
  ASSUME Inductive, Parsed, CutShort
  PROVE  Parsed'
<1>1. PICK at \in Seq(Place) : \E gap \in Nat : Parse(at, gap)
  BY DEF Parsed
<1>2. PICK gap \in Nat : Parse(at, gap)
  BY <1>1
<1>3. /\ out # Silent /\ out' = Silent /\ lost' = lost + 1 /\ intact' = intact \ {Len(sent)}
      /\ UNCHANGED <<wire, decoder, delivered, sent, beheaded>>
  BY DEF CutShort
<1>4. Accounted' /\ (lost' <= 1 => lost = 0 /\ intact = 1 .. Len(sent))
  BY <1>3, AccountedLoses DEF Parsed
<1>5. Len(at) = Len(wire) + 1 /\ at[Len(at)].n = Len(sent)
  <2>1. Len(at) = Len(wire) + 1 /\ at[Len(at)] = Due /\ Due.n = Len(sent)
    BY <1>2, <1>3, DueItem
  <2> QED  BY <2>1
<1>6. /\ sent \in Seq(Payloads) /\ Len(wire) \in Nat /\ Len(at) \in Nat
      /\ \A i \in 1 .. Len(at) : at[i].n \in 1 .. Len(sent)
  BY <1>2, ParseTypes
<1>7. lost' <= 1 => \A i \in 1 .. Len(at) : at[i].n \in intact
  BY <1>4, <1>6
<1>8. PICK f : /\ Line(f, wire, sent, intact', beheaded, lost', 0)
               /\ Len(f) = Len(wire) /\ \A i \in 1 .. Len(wire) : f[i] = at[i]
  <2> DEFINE g == SubSeq(at, 1, Len(wire))
  <2>1. Line(at, wire, sent, intact, beheaded, lost, gap)
    BY <1>2 DEF Parse
  <2>2. /\ Line(g, wire, sent, intact \ {at[Len(at)].n}, beheaded, lost', 0)
        /\ Len(g) = Len(wire) /\ \A i \in 1 .. Len(wire) : g[i] = at[i]
    BY <1>5, <1>6, <1>7, <2>1, LineIsCut
  <2>3. intact' = intact \ {at[Len(at)].n}
    BY <1>3, <1>5
  <2> HIDE DEF g
  <2> QED  BY <2>2, <2>3
<1>9. Ahead(f)'
  BY <1>3, <1>8 DEF Ahead
<1>10. Facing(f, 0)'
  <2> SUFFICES ASSUME Len(f) > 0, NEW p, NEW cut, p = sent'[f[1].n], cut = beheaded'
               PROVE  /\ f[1].n \in intact' \/ (lost' <= 1 /\ 0 > 1) => InStep(p, f[1])'
                      /\ lost' <= 1 => InStep(p, f[1])' \/ Astray(p, f[1], cut)'
    BY DEF Facing
  <2>1. 1 \in 1 .. Len(wire) /\ 1 \in 1 .. Len(at) /\ Len(at) > 0 /\ f[1] = at[1]
    BY <1>5, <1>6, <1>8
  <2>2. p = sent[at[1].n] /\ cut = beheaded
    BY <1>3, <2>1
  <2>3. at[1].n \in intact => InStep(p, at[1])
    BY <1>2, <2>1, <2>2 DEF Parse, Facing
  <2>4. InStep(p, f[1])' <=> InStep(p, at[1])
    BY <1>3, <2>1, DecoderRests
  <2> QED  BY <1>3, <1>7, <2>1, <2>3, <2>4
<1>11. Resting(f)'
  BY <1>4, <1>6, <1>3, InParts DEF Resting, SenderTyped
<1>12. Past(f, delivered, sent, intact', beheaded, lost')
  <2>1. ASSUME NEW n, OnLine(n, f)  PROVE OnLine(n, at)
    <3>1. PICK i \in 1 .. Len(f) : f[i].n = n
      BY <2>1 DEF OnLine
    <3>2. i \in 1 .. Len(wire) /\ i \in 1 .. Len(at)
      BY <1>5, <1>6, <1>8
    <3> QED  BY <1>8, <3>1, <3>2 DEF OnLine
  <2>2. ASSUME NEW n \in intact', OnLine(n, at)  PROVE OnLine(n, f)
    <3>1. PICK i \in 1 .. Len(at) : at[i].n = n
      BY <2>2 DEF OnLine
    <3>2. i # Len(at)
      BY <1>3, <1>5, <3>1
    <3>3. i \in 1 .. Len(wire) /\ i \in 1 .. Len(f)
      BY <1>5, <1>6, <1>8, <3>2
    <3> QED  BY <1>8, <3>1, <3>3 DEF OnLine
  <2>3. intact' \subseteq intact /\ (lost' <= 1 => lost <= 1)
    BY <1>3, <1>4
  <2>4. Past(at, delivered, sent, intact, beheaded, lost)
    BY <1>2 DEF Parse
  <2> QED  BY <2>1, <2>2, <2>3, <2>4, PastStays
<1>13. Parse(f, 0)'
  <2>1. 0 <= Len(wire') + 1
    BY <1>3, <1>6
  <2> QED  BY <1>3, <1>8, <1>9, <1>10, <1>11, <1>12, <2>1 DEF Parse
<1>14. f \in Seq(Place) /\ 0 \in Nat
  BY <1>8 DEF Line, Places
<1> QED  BY <1>4, <1>13, <1>14 DEF Parsed

(* No place is behind its packet.                                          *)
LEMMA PlacesWithin ==
  ASSUME Inductive, NEW at, NEW gap, Parse(at, gap), NEW i \in 1 .. Len(at)
  PROVE  /\ sent[at[i].n] \in Payloads /\ IsPlace(sent[at[i].n], at[i])
         /\ at[i].item <= Len(sent[at[i].n]) + 3 /\ at[i].item \in Nat
<1>1. Line(at, wire, sent, intact, beheaded, lost, gap)
  BY DEF Parse
<1>2. sent \in Seq(Payloads) /\ Len(wire) \in Nat /\ Len(at) \in Nat
  BY ParseTypes
<1>3. sent[at[i].n] \in Payloads /\ IsPlace(sent[at[i].n], at[i])
  BY <1>1, <1>2, PlaceOf DEF Line
<1>4. at[i].item \in Nat
  BY <1>3 DEF IsPlace, Place
<1>5. CASE i <= Len(wire)
  <2>1. i \in 1 .. Len(wire)
    BY <1>2, <1>5
  <2> QED  BY <1>1, <1>3, <1>4, <2>1 DEF Line, Written
<1>6. CASE ~(i <= Len(wire))
  <2>1. out # Silent
    BY <1>2, <1>6 DEF Parse, Ahead
  <2>2. Len(at) = Len(wire) + 1 /\ at[Len(at)] = Due /\ out.next <= Len(sent[Len(sent)]) + 1
        /\ Due.n = Len(sent) /\ Due.item = out.next + 2 /\ out.next \in Nat
    BY <2>1, DueItem
  <2>3. at[i] = Due
    BY <1>2, <1>6, <2>2
  <2>4. Len(sent[Len(sent)]) \in Nat
    BY <1>3, <2>2, <2>3, FrameLength
  <2> QED  BY <1>3, <1>4, <2>2, <2>3, <2>4
<1> QED  BY <1>5, <1>6

(* The byte the receiver would have taken next is lost.                    *)
LEMMA FirstIsLost ==
  ASSUME Inductive, Accounted, NEW at, NEW gap, Parse(at, gap), Lose(1), 1 \in 1 .. Len(wire),
         Len(at) > 1, NEW p, NEW cut, p = sent[at[2].n], cut = beheaded'
  PROVE  /\ at[2].n \in intact' => InStep(p, at[2])
         /\ lost' <= 1 => InStep(p, at[2]) \/ Astray(p, at[2], cut)
<1>1. /\ intact' = intact \ {wire[1].n} /\ lost' = lost + 1 /\ sent' = sent
      /\ wire[1].part = "head" => wire[1].n \in cut
  <2>1. /\ intact' = intact \ {wire[1].n} /\ lost' = lost + 1 /\ sent' = sent
        /\ beheaded' = IF wire[1].part = "head" THEN beheaded \cup {wire[1].n} ELSE beheaded
    BY Zenon DEF Lose
  <2> QED  BY <2>1
<1>2. lost' <= 1 => lost = 0 /\ intact = 1 .. Len(sent)
  BY <1>1, AccountedLoses
<1>3. 1 \in 1 .. Len(at) /\ 2 \in 1 .. Len(at) /\ Len(at) \in Nat
      /\ at[1].n \in 1 .. Len(sent) /\ at[2].n \in 1 .. Len(sent)
  BY ParseTypes
<1>4. wire[1].n = at[1].n /\ wire[1].part = PartAt(at[1])
  BY DEF Parse, Line, Written
<1>5. at[2].n \in intact => Joined(at[1], at[2], sent)
  <2>1. 1 + 1 = 2 /\ 1 < Len(at)
    OBVIOUS
  <2> QED  BY <1>3, <2>1 DEF Parse, Line, Chained
<1>6. at[2].n \in intact /\ at[2].n # at[1].n => InStep(p, at[2])
  BY <1>5 DEF Joined, InStep
<1>7. ASSUME lost' <= 1, at[2].n = at[1].n  PROVE Astray(p, at[2], cut)
  <2>1. at[1].n \in intact /\ at[2].n \in intact /\ lost = 0
    BY <1>2, <1>3, <1>7
  <2>2. at[2] = Following(p, at[1])
    BY <1>5, <1>7, <2>1 DEF Joined
  <2>3. p \in Payloads /\ IsPlace(p, at[1]) /\ at[2].item <= Len(p) + 3
    BY <1>3, <1>7, PlacesWithin
  <2>4. at[1].item < 3 => at[1].n \in cut
    BY <1>1, <1>4 DEF PartAt
  <2>5. IF at[1].item = 0 THEN ReceiveSeq = 0 ELSE Synced(p, at[1])
    <3>1. InStep(p, at[1])
      <4>1. Len(at) > 0 /\ p = sent[at[1].n]
        BY <1>3, <1>7
      <4> QED  BY <2>1, <4>1 DEF Parse, Facing
    <3>2. at[1].item = 0 => ReceiveSeq = 0
      BY <2>1 DEF Parse, Resting
    <3> QED  BY <3>1, <3>2 DEF InStep
  <2> QED  BY <2>2, <2>3, <2>4, <2>5, Strays DEF MissingStrays
<1>8. at[2].n \in intact' => at[2].n \in intact /\ at[2].n # at[1].n
  BY <1>1, <1>4
<1>9. lost' <= 1 => at[2].n \in intact
  BY <1>2, <1>3
<1> QED  BY <1>6, <1>7, <1>8, <1>9

LEMMA LoseParses ==
  ASSUME Inductive, Parsed, NEW i \in 1 .. Len(wire), Lose(i)
  PROVE  Parsed'
<1>1. PICK at \in Seq(Place) : \E gap \in Nat : Parse(at, gap)
  BY DEF Parsed
<1>2. PICK gap \in Nat : Parse(at, gap)
  BY <1>1
<1>3. /\ intact' = intact \ {wire[i].n} /\ lost' = lost + 1 /\ wire' = RemoveAt(wire, i)
      /\ UNCHANGED <<out, decoder, delivered, sent>>
      /\ wire[i].part = "head" => wire[i].n \in beheaded'
      /\ beheaded \subseteq beheaded'
  <2>1. /\ intact' = intact \ {wire[i].n} /\ lost' = lost + 1 /\ wire' = RemoveAt(wire, i)
        /\ UNCHANGED <<out, decoder, delivered, sent>>
        /\ beheaded' = IF wire[i].part = "head" THEN beheaded \cup {wire[i].n} ELSE beheaded
    BY Zenon DEF Lose
  <2> QED  BY <2>1
<1>4. Accounted' /\ (lost' <= 1 => lost = 0 /\ intact = 1 .. Len(sent))
  BY <1>3, AccountedLoses DEF Parsed
<1>5. /\ sent \in Seq(Payloads) /\ wire \in Seq(Tags(Len(sent))) /\ Len(wire) \in Nat /\ Len(at) \in Nat
      /\ \A j \in 1 .. Len(at) : at[j].n \in 1 .. Len(sent)
  BY <1>2, ParseTypes
<1>6. Line(at, wire, sent, intact, beheaded, lost, gap) /\ Ahead(at)
  BY <1>2 DEF Parse
<1>7. lost' <= 1 => \A j \in 1 .. Len(at) : at[j].n \in intact
  BY <1>4, <1>5
<1>8. PICK f : /\ Line(f, wire', sent, intact', beheaded', lost', i)
               /\ Len(f) = Len(at) - 1
               /\ \A j \in 1 .. Len(at) - 1 : f[j] = IF j < i THEN at[j] ELSE at[j + 1]
  <2> DEFINE g == RemoveAt(at, i)
  <2>1. /\ Line(g, RemoveAt(wire, i), sent, intact \ {wire[i].n}, beheaded', lost', i)
        /\ Len(g) = Len(at) - 1
        /\ \A j \in 1 .. Len(at) - 1 : g[j] = IF j < i THEN at[j] ELSE at[j + 1]
    <3>1. wire[i].part = "head" => wire[i].n \in beheaded'
      BY <1>3
    <3>2. sent \in Seq(Payloads) /\ wire \in Seq(Tags(Len(sent)))
      BY <1>5
    <3>3. Line(at, wire, sent, intact, beheaded, lost, gap)
      BY <1>6
    <3>4. /\ Line(g, RemoveAt(wire, i), sent, intact \ {wire[i].n}, beheaded', lost', i)
          /\ WithoutOne(g, at, i)
      BY <1>7, <3>1, <3>2, <3>3, LineLoses
    <3> HIDE DEF g
    <3> QED  BY <3>4 DEF WithoutOne
  <2> HIDE DEF g
  <2> QED  BY <1>3, <2>1
<1>9. Len(wire') = Len(wire) - 1 /\ wire[i].n = at[i].n /\ Len(wire) <= Len(at)
      /\ i \in Nat /\ i >= 1 /\ i <= Len(wire) /\ i \in 1 .. Len(at)
  <2>1. Len(wire') = Len(wire) - 1
    BY <1>3, <1>5, Removed
  <2>2. wire[i].n = at[i].n /\ Len(wire) <= Len(at)
    BY <1>6 DEF Line, Written
  <2> QED  BY <1>5, <2>1, <2>2
<1>10. Ahead(f)'
  <2>1. CASE out = Silent
    BY <1>3, <1>6, <1>8, <1>9, <2>1 DEF Ahead
  <2>2. CASE out # Silent
    <3>1. Len(at) = Len(wire) + 1 /\ at[Len(at)] = Due /\ out.next <= Len(sent[Len(sent)]) + 1
      BY <1>6, <2>2 DEF Ahead
    <3>2. Len(f) = Len(wire') + 1
      BY <1>5, <1>8, <1>9, <3>1
    <3>3. f[Len(f)] = at[Len(at)]
      <4>1. Len(f) \in 1 .. Len(at) - 1 /\ ~(Len(f) < i) /\ Len(f) + 1 = Len(at)
        BY <1>5, <1>8, <1>9, <3>1
      <4> QED  BY <1>8, <4>1
    <3>4. Due' = Due
      BY <1>3 DEF Due
    <3>5. out' # Silent /\ f[Len(f)] = Due' /\ out'.next <= Len(sent'[Len(sent')]) + 1
      BY <1>3, <2>2, <3>1, <3>3, <3>4
    <3> QED  BY <3>2, <3>5 DEF Ahead
  <2> QED  BY <2>1, <2>2
<1>11. Facing(f, i)'
  <2> SUFFICES ASSUME Len(f) > 0, NEW p, NEW cut, p = sent'[f[1].n], cut = beheaded'
               PROVE  /\ f[1].n \in intact' \/ (lost' <= 1 /\ i > 1) => InStep(p, f[1])'
                      /\ lost' <= 1 => InStep(p, f[1])' \/ Astray(p, f[1], cut)'
    BY DEF Facing
  <2>1. 1 \in 1 .. Len(at) - 1 /\ 1 \in 1 .. Len(at) /\ Len(at) > 1
    BY <1>5, <1>8
  <2>2. /\ InStep(p, f[1])' <=> InStep(p, f[1])
        /\ Astray(p, f[1], cut)' <=> Astray(p, f[1], cut)
    BY <1>3, DecoderRests
  <2>3. CASE 1 < i
    <3>1. f[1] = at[1] /\ p = sent[at[1].n]
      BY <1>3, <1>8, <2>1, <2>3
    <3>2. at[1].n \in intact => InStep(p, at[1])
      BY <1>2, <2>1, <3>1 DEF Parse, Facing
    <3> QED  BY <1>3, <1>7, <2>1, <2>2, <3>1, <3>2
  <2>4. CASE ~(1 < i)
    <3>1. i = 1
      BY <1>9, <2>4
    <3>2. f[1] = at[2] /\ p = sent[at[2].n]
      <4>1. 1 + 1 = 2
        OBVIOUS
      <4> QED  BY <1>3, <1>8, <2>1, <2>4, <4>1
    <3>3. Accounted /\ Lose(1) /\ 1 \in 1 .. Len(wire)
      BY <3>1 DEF Parsed
    <3>4. /\ at[2].n \in intact' => InStep(p, at[2])
          /\ lost' <= 1 => InStep(p, at[2]) \/ Astray(p, at[2], cut)
      BY <1>2, <2>1, <3>2, <3>3, FirstIsLost
    <3> QED  BY <2>2, <2>4, <3>2, <3>4
  <2> QED  BY <2>3, <2>4
<1>12. Resting(f)'
  BY <1>3, InParts DEF Resting, SenderTyped
<1>13. Past(f, delivered, sent, intact', beheaded', lost')
  <2>1. ASSUME NEW n, OnLine(n, f)  PROVE OnLine(n, at)
    <3>1. PICK j \in 1 .. Len(f) : f[j].n = n
      BY <2>1 DEF OnLine
    <3> DEFINE x == IF j < i THEN j ELSE j + 1
    <3>2. x \in 1 .. Len(at) /\ f[j] = at[x]
      BY <1>5, <1>8, <1>9
    <3> HIDE DEF x
    <3> QED  BY <3>1, <3>2 DEF OnLine
  <2>2. ASSUME NEW n \in intact', OnLine(n, at)  PROVE OnLine(n, f)
    <3>1. PICK j \in 1 .. Len(at) : at[j].n = n
      BY <2>2 DEF OnLine
    <3>2. j # i
      BY <1>3, <1>9, <3>1
    <3>3. CASE j < i
      <4>1. j \in 1 .. Len(f) /\ f[j] = at[j]
        BY <1>5, <1>8, <1>9, <3>3
      <4> QED  BY <3>1, <4>1 DEF OnLine
    <3>4. CASE ~(j < i)
      <4>1. j - 1 \in 1 .. Len(at) - 1 /\ ~(j - 1 < i) /\ (j - 1) + 1 = j
        BY <1>5, <1>9, <3>2, <3>4
      <4>2. j - 1 \in 1 .. Len(f) /\ f[j - 1] = at[j]
        BY <1>8, <4>1
      <4> QED  BY <3>1, <4>2 DEF OnLine
    <3> QED  BY <3>3, <3>4
  <2>3. intact' \subseteq intact /\ (lost' <= 1 => lost <= 1) /\ beheaded \subseteq beheaded'
    BY <1>3, <1>4
  <2>4. Past(at, delivered, sent, intact, beheaded, lost)
    BY <1>2 DEF Parse
  <2> QED  BY <2>1, <2>2, <2>3, <2>4, PastStays
<1>14. i <= Len(wire') + 1
  BY <1>5, <1>9
<1>15. Parse(f, i)'
  BY <1>3, <1>8, <1>10, <1>11, <1>12, <1>13, <1>14 DEF Parse
<1>16. f \in Seq(Place)
  BY <1>8 DEF Line, Places
<1> QED  BY <1>4, <1>9, <1>15, <1>16 DEF Parsed

(***************************************************************************)
(* A byte is taken                                                         *)
(***************************************************************************)
(* It is the one at the first place.                                       *)
LEMMA TakesFirst ==
  ASSUME Inductive, NEW at, NEW gap, Parse(at, gap), XBeeReceive, NEW q, q = sent[at[1].n]
  PROVE  /\ wire # << >> /\ wire' = Tail(wire) /\ UNCHANGED <<out, sent, intact, beheaded, lost>>
         /\ Len(at) > 0 /\ 1 \in 1 .. Len(wire) /\ 1 \in 1 .. Len(at)
         /\ q \in Payloads /\ IsPlace(q, at[1]) /\ at[1].item <= Len(q) + 3
         /\ Next1 = ByteAt(q, at[1]) /\ Head(wire).n = at[1].n /\ at[1].n \in 1 .. Len(sent)
<1>1. Take
  BY DEF XBeeReceive, TakeEscape, TakeDelimiter, TakeLengthHigh, TakeLengthLow, TakeData,
         TakeCheckSum, TakeByte
<1>2. wire # << >> /\ wire' = Tail(wire) /\ UNCHANGED <<out, sent, intact, beheaded, lost>>
  BY <1>1 DEF Take
<1>3. Len(wire) \in Nat /\ Len(at) \in Nat /\ wire \in Seq(Tags(Len(sent)))
  BY ParseTypes
<1>4. Written(at, wire, sent)
  BY DEF Parse, Line
<1>5. 1 \in 1 .. Len(wire)
  BY <1>2, <1>3, EmptySeq
<1>6. Len(at) > 0 /\ 1 \in 1 .. Len(at)
  BY <1>3, <1>4, <1>5 DEF Written
<1>7. q \in Payloads /\ IsPlace(q, at[1]) /\ at[1].item <= Len(q) + 3
  BY <1>6, PlacesWithin
<1>8. Head(wire) = wire[1]
  BY <1>2, <1>3
<1>9. wire[1].b = ByteAt(q, at[1]) /\ wire[1].n = at[1].n
  BY <1>4, <1>5 DEF Written
<1>10. at[1].n \in 1 .. Len(sent)
  BY <1>6, ParseTypes
<1> QED  BY <1>2, <1>5, <1>6, <1>7, <1>8, <1>9, <1>10 DEF Next1

(* What that does to a receiver in step, and to one astray.                *)
LEMMA TakesInStep ==
  ASSUME Inductive, NEW at, NEW gap, Parse(at, gap), XBeeReceive, NEW q, q = sent[at[1].n],
         InStep(q, at[1])
  PROVE  IF Following(q, at[1]).item = Len(q) + 4
         THEN ReceiveSeq' = 0 /\ delivered' = Append(delivered, [p |-> q, n |-> at[1].n])
         ELSE Synced(q, Following(q, at[1]))' /\ delivered' = delivered
<1>1. /\ q \in Payloads /\ IsPlace(q, at[1]) /\ at[1].item <= Len(q) + 3
      /\ Next1 = ByteAt(q, at[1]) /\ Head(wire).n = at[1].n
  BY TakesFirst
<1>2. at[1].item = 0 \/ Synced(q, at[1])
  BY DEF InStep
<1> QED  BY <1>1, <1>2, StaysInStep

LEMMA TakesAstray ==
  ASSUME Inductive, NEW at, NEW gap, Parse(at, gap), XBeeReceive, NEW q, q = sent[at[1].n],
         NEW cut, Astray(q, at[1], cut)
  PROVE  /\ HandsLess(q, at[1], cut)
         /\ Following(q, at[1]).item <= Len(q) + 3 => Astray(q, Following(q, at[1]), cut)'
<1>1. /\ q \in Payloads /\ IsPlace(q, at[1]) /\ at[1].item <= Len(q) + 3
      /\ Next1 = ByteAt(q, at[1])
  BY TakesFirst
<1> QED  BY <1>1, StaysAstray

(* The last byte of a frame that lost nothing ends the packet.             *)
LEMMA TakesLast ==
  ASSUME Inductive, NEW at, NEW gap, Parse(at, gap), XBeeReceive, NEW q, q = sent[at[1].n],
         at[1].n \in intact, Len(at) > 1 => at[2].n # at[1].n
  PROVE  Following(q, at[1]).item = Len(q) + 4
<1>1. 1 \in 1 .. Len(wire)
  BY TakesFirst
<1>2. Complete(at, wire, sent, intact)
  BY DEF Parse, Line
<1>3. 1 + 1 = 2 /\ (1 < Len(at) => Len(at) > 1)
  OBVIOUS
<1>4. 1 < Len(at) => at[1 + 1].n # at[1].n
  BY <1>3
<1> QED  BY <1>1, <1>2, <1>4 DEF Complete

(* The receiver faces the second place.                                    *)
LEMMA TakesJoined ==
  ASSUME Inductive, NEW at, NEW gap, Parse(at, gap), XBeeReceive, Len(at) > 1,
         NEW p, p = sent[at[2].n], NEW cut, Joined(at[1], at[2], sent)
  PROVE  /\ InStep(sent[at[1].n], at[1]) => InStep(p, at[2])'
         /\ Astray(sent[at[1].n], at[1], cut) => InStep(p, at[2])' \/ Astray(p, at[2], cut)'
<1>1. CASE at[1].n # at[2].n
  <2>1. at[2].item = 0
    BY <1>1 DEF Joined
  <2> QED  BY <2>1 DEF InStep
<1>2. CASE at[1].n = at[2].n
  <2>1. p = sent[at[1].n] /\ at[2] = Following(p, at[1])
    BY <1>2 DEF Joined
  <2>2. 2 \in 1 .. Len(at)
    BY ParseTypes
  <2>3. at[2].item <= Len(p) + 3 /\ p \in Payloads /\ at[2].item \in Nat
    BY <2>2, PlacesWithin
  <2>4. at[2].item # Len(p) + 4 /\ Len(p) \in Nat
    BY <2>3, FrameLength
  <2>5. ASSUME InStep(p, at[1])  PROVE InStep(p, at[2])'
    <3>1. Synced(p, Following(p, at[1]))'
      BY <2>1, <2>4, <2>5, TakesInStep
    <3> QED  BY <2>1, <3>1 DEF InStep
  <2>6. ASSUME Astray(p, at[1], cut)  PROVE Astray(p, at[2], cut)'
    <3>1. Following(p, at[1]).item <= Len(p) + 3 => Astray(p, Following(p, at[1]), cut)'
      BY <2>1, <2>6, TakesAstray
    <3> QED  BY <2>1, <2>3, <3>1
  <2> QED  BY <2>1, <2>5, <2>6
<1> QED  BY <1>1, <1>2

LEMMA TakesApart ==
  ASSUME Inductive, Accounted, NEW at, NEW gap, Parse(at, gap), XBeeReceive, Len(at) > 1,
         NEW p, p = sent[at[2].n], NEW cut, Apart(at[1], at[2], sent, cut),
         lost <= 1, at[2].n \notin intact, InStep(sent[at[1].n], at[1])
  PROVE  InStep(p, at[2])' \/ Astray(p, at[2], cut)'
<1>1. 2 \in 1 .. Len(at)
  BY ParseTypes
<1>2. /\ at[2].item <= Len(p) + 3 /\ p \in Payloads /\ at[2].item \in Nat /\ Len(p) \in Nat
      /\ Len(p) > 0 /\ IsPlace(p, at[2]) /\ at[2].n \in 1 .. Len(sent)
  <2>1. /\ sent[at[2].n] \in Payloads /\ IsPlace(sent[at[2].n], at[2])
        /\ at[2].item <= Len(sent[at[2].n]) + 3 /\ at[2].item \in Nat
    BY <1>1, PlacesWithin
  <2>2. at[2].n \in 1 .. Len(sent)
    BY <1>1, ParseTypes
  <2> QED  BY <2>1, <2>2, FrameLength
<1>3. MissingStrays'
  BY Strays, PTL
<1>4. CASE at[1].n = at[2].n
  <2> DEFINE b == Following(p, at[1])
  <2>1. p = sent[at[1].n] /\ at[2] = Following(p, b) /\ (b.item < 3 => at[2].n \in cut)
    BY <1>4 DEF Apart
  <2>2. IsPlace(p, at[1]) /\ at[1].item <= Len(p) + 3
    BY <2>1, TakesFirst
  <2>3. IsPlace(p, b) /\ b.n = at[1].n /\ b.item \in Nat
    <3>1. IsPlace(p, b) /\ b.n = at[1].n
      BY <1>2, <2>2, FollowingIsPlace
    <3> QED  BY <3>1 DEF IsPlace, Place
  <2> HIDE DEF b
  <2>4. b.item <= Len(p) + 3
    <3>1. Following(p, b).item = b.item \/ Following(p, b).item = b.item + 1
      BY DEF Following
    <3> QED  BY <1>2, <2>1, <2>3, <3>1
  <2>5. Synced(p, b)'
    <3>1. InStep(p, at[1])
      BY <2>1
    <3>2. IF Following(p, at[1]).item = Len(p) + 4
          THEN ReceiveSeq' = 0 /\ delivered' = Append(delivered, [p |-> p, n |-> at[1].n])
          ELSE Synced(p, Following(p, at[1]))' /\ delivered' = delivered
      BY <2>1, <3>1, TakesInStep
    <3>3. b.item # Len(p) + 4
      BY <1>2, <2>3, <2>4
    <3> QED  BY <3>2, <3>3 DEF b
  <2>6. b.item # 0
    BY <2>3, <2>5 DEF Synced
  <2>7. Astray(p, Following(p, b), cut)'
    <3>1. b.item < 3 => b.n \in cut
      BY <1>4, <2>1, <2>3
    <3>2. Following(p, b).item <= Len(p) + 3
      BY <1>2, <2>1
    <3> QED  BY <1>2, <1>3, <2>3, <2>5, <2>6, <3>1, <3>2 DEF MissingStrays
  <2> QED  BY <2>1, <2>7
<1>5. CASE at[1].n # at[2].n
  <2>1. at[2].item = 0 \/ (at[2] = Following(p, Start(at[2].n)) /\ at[2].n \in cut)
    BY <1>5 DEF Apart
  <2>2. CASE at[2].item = 0
    BY <2>2 DEF InStep
  <2>3. CASE at[2] = Following(p, Start(at[2].n)) /\ at[2].n \in cut
    <3>1. PICK n : n = at[2].n
      OBVIOUS
    <3>2. at[1].n \in intact
      <4>1. at[1].n \in 1 .. Len(sent)
        BY TakesFirst
      <4> QED  BY <1>2, <1>5, <4>1 DEF Accounted
    <3>3. PICK q : q = sent[at[1].n]
      OBVIOUS
    <3>4. Following(q, at[1]).item = Len(q) + 4
      BY <1>5, <3>2, <3>3, TakesLast
    <3>5. ReceiveSeq' = 0
      BY <3>3, <3>4, TakesInStep
    <3>6. IsPlace(p, Start(n)) /\ Start(n).n = n /\ Start(n).item = 0
      BY <1>2, <3>1 DEF IsPlace, Start, Place, Byte
    <3>7. Astray(p, Following(p, Start(n)), cut)'
      BY <1>2, <1>3, <2>3, <3>1, <3>5, <3>6 DEF MissingStrays
    <3> QED  BY <2>3, <3>1, <3>7
  <2> QED  BY <2>1, <2>2, <2>3
<1> QED  BY <1>4, <1>5

(* What the receiver hands on, if anything, is for the frame of the byte.  *)
LEMMA HandsOne ==
  ASSUME Inductive, XBeeReceive
  PROVE  \/ delivered' = delivered
         \/ \E r \in Handed(Len(sent)) : r.n = Head(wire).n /\ delivered' = Append(delivered, r)
<1>1. CASE TakeEscape
  BY <1>1, EscapeReads
<1>2. CASE TakeDelimiter
  BY <1>2, DelimiterReads
<1>3. CASE TakeLengthHigh
  BY <1>3, HighReads
<1>4. CASE TakeLengthLow
  BY <1>4, LowReads
<1>5. CASE TakeData
  BY <1>5, DataReads
<1>6. CASE TakeCheckSum
  <2> DEFINE r == [p |-> SubSeq(Contents(InputBuffer), 1, ReceiveLength), n |-> Head(wire).n]
  <2>1. delivered' = Append(delivered, r) \/ delivered' = delivered
    BY <1>6, SumReads
  <2>2. Filled(InputBuffer) /\ ReceiveLength \in 0 .. GetLen(InputBuffer)
    <3>1. ReceiveLength <= Len(Contents(InputBuffer)) /\ Filled(InputBuffer)
      BY <1>6, SumReads
    <3>2. ReceiveLength \in Nat
      BY InParts DEF ReceiverTyped
    <3> QED  BY <3>1, <3>2, ContentsLength
  <2>3. Head(wire).n \in 1 .. Len(sent)
    BY <1>6, Takes DEF TakeCheckSum, TakeByte
  <2>4. r \in Handed(Len(sent))
    BY <2>2, <2>3, CopyIsBytes DEF Handed
  <2>5. r.n = Head(wire).n
    OBVIOUS
  <2> HIDE DEF r
  <2> QED  BY <2>1, <2>4, <2>5
<1> QED  BY <1>1, <1>2, <1>3, <1>4, <1>5, <1>6 DEF XBeeReceive

LEMMA AppendOnce ==
  ASSUME NEW S, NEW d \in Seq(S), NEW x \in S, NEW y \in S
  PROVE  Append(d, x) # d /\ (Append(d, x) = Append(d, y) => x = y)
<1>1. Len(Append(d, x)) = Len(d) + 1 /\ Len(d) \in Nat /\ Append(d, x)[Len(d) + 1] = x
      /\ Append(d, y)[Len(d) + 1] = y
  BY AppendProperties, LenProperties
<1>2. Len(Append(d, x)) # Len(d)
  BY <1>1
<1>3. Append(d, x) # d
  BY <1>2
<1> QED  BY <1>1, <1>3

(* What is handed on is right, the frame having lost nothing or not.       *)
LEMMA HandsRightly ==
  ASSUME Inductive, NEW at, NEW gap, Parse(at, gap), XBeeReceive,
         NEW r \in Handed(Len(sent)), r.n = at[1].n, delivered' = Append(delivered, r)
  PROVE  /\ r.n \in intact => r.p = sent[r.n] /\ Following(sent[r.n], at[1]).item = Len(sent[r.n]) + 4
         /\ lost <= 1 => Honest(r, sent, beheaded)
<1>1. PICK q : q = sent[at[1].n]
  OBVIOUS
<1>2. /\ Len(at) > 0 /\ q \in Payloads /\ Head(wire).n = at[1].n /\ at[1].n \in 1 .. Len(sent)
  BY <1>1, TakesFirst
<1>3. q \in Seq(Byte) /\ delivered \in Seq(Handed(Len(sent)))
  <2>1. q \in Seq(Byte)
    BY <1>2, FrameLength
  <2> QED  BY <2>1, ParseTypes
<1>4. ASSUME NEW x \in Seq(Byte), delivered' = Append(delivered, [p |-> x, n |-> at[1].n])
      PROVE  r.p = x
  <2> DEFINE y == [p |-> x, n |-> at[1].n]
  <2>1. y \in Handed(Len(sent)) /\ y.p = x /\ Append(delivered, r) = Append(delivered, y)
    BY <1>2, <1>4 DEF Handed
  <2> HIDE DEF y
  <2>2. r = y
    BY <1>3, <2>1, AppendOnce
  <2> QED  BY <2>1, <2>2
<1>5. delivered' # delivered
  BY <1>3, AppendOnce
<1>6. ASSUME InStep(q, at[1])  PROVE r.p = q /\ Following(q, at[1]).item = Len(q) + 4
  <2>1. IF Following(q, at[1]).item = Len(q) + 4
        THEN ReceiveSeq' = 0 /\ delivered' = Append(delivered, [p |-> q, n |-> at[1].n])
        ELSE Synced(q, Following(q, at[1]))' /\ delivered' = delivered
    BY <1>1, <1>6, TakesInStep
  <2> QED  BY <1>3, <1>4, <1>5, <2>1
<1>7. PICK cut : cut = beheaded
  OBVIOUS
<1>8. ASSUME Astray(q, at[1], cut)  PROVE r.n \in cut /\ Len(r.p) < Len(q)
  <2>1. HandsLess(q, at[1], cut)
    BY <1>1, <1>8, TakesAstray
  <2>2. PICK x \in Seq(Byte) : Len(x) < Len(q) /\ delivered' = Append(delivered, [p |-> x, n |-> at[1].n])
    BY <1>2, <1>5, <2>1 DEF HandsLess
  <2>3. at[1].n \in cut
    BY <1>5, <2>1 DEF HandsLess
  <2> QED  BY <1>4, <2>2, <2>3
<1>9. /\ at[1].n \in intact => InStep(q, at[1])
      /\ lost <= 1 => InStep(q, at[1]) \/ Astray(q, at[1], cut)
  BY <1>1, <1>2, <1>7 DEF Parse, Facing
<1>10. r.n \in intact => r.p = q /\ Following(q, at[1]).item = Len(q) + 4
  BY <1>6, <1>9
<1>11. lost <= 1 => r.p = q \/ (r.n \in cut /\ Len(r.p) < Len(q))
  BY <1>6, <1>8, <1>9
<1> QED  BY <1>1, <1>7, <1>10, <1>11 DEF Honest

(* Of a frame that lost nothing the receiver is silent but at the end.     *)
LEMMA HandsAtEnd ==
  ASSUME Inductive, NEW at, NEW gap, Parse(at, gap), XBeeReceive, at[1].n \in intact,
         Len(at) > 1 => at[2].n # at[1].n
  PROVE  delivered' # delivered
<1>1. PICK q : q = sent[at[1].n]
  OBVIOUS
<1>2. Following(q, at[1]).item = Len(q) + 4
  BY <1>1, TakesLast
<1>3. Len(at) > 0 /\ q \in Payloads /\ at[1].n \in 1 .. Len(sent)
  BY <1>1, TakesFirst
<1>4. InStep(q, at[1])
  BY <1>1, <1>3 DEF Parse, Facing
<1>5. delivered' = Append(delivered, [p |-> q, n |-> at[1].n])
  BY <1>1, <1>2, <1>4, TakesInStep
<1>6. [p |-> q, n |-> at[1].n] \in Handed(Len(sent))
  BY <1>3, FrameLength DEF Handed
<1>7. delivered \in Seq(Handed(Len(sent)))
  BY ParseTypes
<1> QED  BY <1>5, <1>6, <1>7, AppendOnce

LEMMA TakesPast ==
  ASSUME Inductive, NEW at, NEW gap, Parse(at, gap), XBeeReceive,
         NEW f, Len(f) = Len(at) - 1, \A j \in 1 .. Len(f) : f[j] = at[j + 1]
  PROVE  Past(f, delivered', sent, intact, beheaded, lost)
<1>1. Len(at) \in Nat /\ Len(at) > 0 /\ 1 \in 1 .. Len(at) /\ Len(f) \in Nat
      /\ delivered \in Seq(Handed(Len(sent))) /\ Head(wire).n = at[1].n
      /\ \A i, j \in 1 .. Len(at) : i <= j => at[i].n <= at[j].n
  <2>1. Len(at) > 0 /\ 1 \in 1 .. Len(at) /\ Head(wire).n = at[1].n
    <3>1. PICK q : q = sent[at[1].n]
      OBVIOUS
    <3> QED  BY <3>1, TakesFirst
  <2>2. Len(at) \in Nat /\ delivered \in Seq(Handed(Len(sent)))
        /\ \A i, j \in 1 .. Len(at) : i <= j => at[i].n <= at[j].n
    BY ParseTypes
  <2>3. Len(f) \in Nat
    BY <2>1, <2>2
  <2> QED  BY <2>1, <2>2, <2>3
<1>2. ASSUME NEW n  PROVE OnLine(n, at) <=> OnLine(n, f) \/ n = at[1].n
  <2>1. ASSUME OnLine(n, at), n # at[1].n  PROVE OnLine(n, f)
    <3>1. PICK i \in 1 .. Len(at) : at[i].n = n
      BY <2>1 DEF OnLine
    <3>2. i - 1 \in 1 .. Len(f) /\ (i - 1) + 1 = i
      BY <1>1, <2>1, <3>1
    <3>3. f[i - 1].n = n
      BY <3>1, <3>2
    <3> QED  BY <3>2, <3>3 DEF OnLine
  <2>2. ASSUME OnLine(n, f)  PROVE OnLine(n, at)
    <3>1. PICK j \in 1 .. Len(f) : f[j].n = n
      BY <2>2 DEF OnLine
    <3>2. j + 1 \in 1 .. Len(at) /\ f[j] = at[j + 1]
      BY <1>1, <3>1
    <3> QED  BY <3>1, <3>2 DEF OnLine
  <2>3. OnLine(at[1].n, at)
    BY <1>1 DEF OnLine
  <2> QED  BY <2>1, <2>2, <2>3
<1>3. Past(at, delivered, sent, intact, beheaded, lost)
  BY DEF Parse
<1>4. CASE delivered' = delivered
  <2>1. ASSUME at[1].n \in intact  PROVE OnLine(at[1].n, f)
    <3>1. Len(at) > 1 /\ at[2].n = at[1].n
      BY <1>4, <2>1, HandsAtEnd
    <3>2. 1 \in 1 .. Len(f) /\ 1 + 1 = 2
      BY <1>1, <3>1
    <3>3. f[1] = at[2]
      BY <3>2
    <3> QED  BY <3>1, <3>2, <3>3 DEF OnLine
  <2>2. \A n : OnLine(n, f) => OnLine(n, at)
    BY <1>2
  <2>3. \A n \in intact : OnLine(n, at) => OnLine(n, f)
    BY <1>2, <2>1
  <2>4. Past(f, delivered, sent, intact, beheaded, lost)
    BY <1>3, <2>2, <2>3, PastStays
  <2> QED  BY <1>4, <2>4
<1>5. CASE delivered' # delivered
  <2>1. PICK r \in Handed(Len(sent)) : r.n = at[1].n /\ delivered' = Append(delivered, r)
    BY <1>1, <1>5, HandsOne
  <2>2. /\ r.n \in intact => /\ r.p = sent[r.n]
                             /\ Following(sent[r.n], at[1]).item = Len(sent[r.n]) + 4
        /\ lost <= 1 => Honest(r, sent, beheaded)
    BY <2>1, HandsRightly
  <2>3. ASSUME r.n \in intact, OnLine(r.n, f)  PROVE FALSE
    <3>1. PICK j \in 1 .. Len(f) : f[j].n = r.n
      BY <2>3 DEF OnLine
    <3>2. j + 1 \in 1 .. Len(at) /\ 2 \in 1 .. Len(at) /\ 2 <= j + 1 /\ 1 <= 2 /\ Len(at) > 1
          /\ 1 + 1 = 2 /\ 1 < Len(at)
      BY <1>1, <3>1
    <3>3. at[2].n = at[1].n
      <4>1. at[2].n <= at[j + 1].n /\ at[1].n <= at[2].n
        BY <1>1, <3>2
      <4>2. at[j + 1].n = at[1].n
        BY <2>1, <3>1
      <4>3. at[1].n \in Nat /\ at[2].n \in Nat
        BY <1>1, <3>2, ParseTypes
      <4> QED  BY <4>1, <4>2, <4>3
    <3>4. Joined(at[1], at[2], sent)
      <4>1. Chained(at, sent, intact, beheaded, lost, gap)
        BY DEF Parse, Line
      <4> QED  BY <1>1, <2>1, <2>3, <3>2, <3>3, <4>1 DEF Chained
    <3>5. at[2] = Following(sent[r.n], at[1])
      BY <2>1, <3>3, <3>4 DEF Joined
    <3>6. at[2].item <= Len(sent[r.n]) + 3 /\ sent[r.n] \in Payloads /\ at[2].item \in Nat
      BY <2>1, <3>2, <3>3, PlacesWithin
    <3>7. Len(sent[r.n]) \in Nat
      BY <3>6, FrameLength
    <3> QED  BY <2>2, <2>3, <3>5, <3>6, <3>7
  <2>4. \A n : OnLine(n, at) <=> OnLine(n, f) \/ n = at[1].n
    BY <1>2
  <2>5. r.n \in intact => r.p = sent[r.n] /\ ~OnLine(r.n, f)
    BY <2>2, <2>3
  <2>6. Past(f, Append(delivered, r), sent, intact, beheaded, lost)
    BY <1>1, <1>3, <2>1, <2>2, <2>4, <2>5, PastHands
  <2> QED  BY <2>1, <2>6
<1> QED  BY <1>4, <1>5

LEMMA TakeParses ==
  ASSUME Inductive, Parsed, XBeeReceive
  PROVE  Parsed'
<1>1. PICK at \in Seq(Place) : \E gap \in Nat : Parse(at, gap)
  BY DEF Parsed
<1>2. PICK gap \in Nat : Parse(at, gap)
  BY <1>1
<1>3. PICK q : q = sent[at[1].n]
  OBVIOUS
<1>4. /\ wire # << >> /\ wire' = Tail(wire) /\ UNCHANGED <<out, sent, intact, beheaded, lost>>
      /\ Len(at) > 0 /\ at[1].n \in 1 .. Len(sent) /\ 1 \in 1 .. Len(at)
  BY <1>2, <1>3, TakesFirst
<1>5. /\ sent \in Seq(Payloads) /\ wire \in Seq(Tags(Len(sent))) /\ Len(wire) \in Nat /\ Len(at) \in Nat
      /\ \A i \in 1 .. Len(at) : at[i].n \in 1 .. Len(sent)
  BY <1>2, ParseTypes
<1>6. Len(wire') = Len(wire) - 1 /\ Len(wire) > 0
  BY <1>4, <1>5, HeadTailProperties, EmptySeq
<1>7. Accounted'
  BY <1>4, AccountedStays DEF Parsed
<1>8. PICK g : g = IF gap = 0 THEN 0 ELSE gap - 1
  OBVIOUS
<1>9. g \in Nat /\ (g > 1 <=> gap > 2) /\ g <= Len(wire') + 1
  <2>1. gap <= Len(wire) + 1
    BY <1>2 DEF Parse
  <2> QED  BY <1>2, <1>5, <1>6, <1>8, <2>1
<1>10. PICK f : /\ Line(f, wire', sent, intact, beheaded, lost, g)
                /\ Len(f) = Len(at) - 1 /\ \A j \in 1 .. Len(f) : f[j] = at[j + 1]
  <2>1. Line(at, wire, sent, intact, beheaded, lost, gap)
    BY <1>2 DEF Parse
  <2>2. /\ Line(Tail(at), Tail(wire), sent, intact, beheaded, lost, IF gap = 0 THEN 0 ELSE gap - 1)
        /\ Len(Tail(at)) = Len(at) - 1
        /\ \A j \in 1 .. Len(Tail(at)) : Tail(at)[j] = at[j + 1]
    BY <1>2, <1>4, <1>5, <2>1, LineIsTaken
  <2> QED  BY <1>4, <1>8, <2>2
<1>11. Ahead(f)'
  <2>1. CASE out = Silent
    BY <1>2, <1>4, <1>6, <1>10, <2>1 DEF Parse, Ahead
  <2>2. CASE out # Silent
    <3>1. Len(at) = Len(wire) + 1 /\ at[Len(at)] = Due /\ out.next <= Len(sent[Len(sent)]) + 1
      BY <1>2, <2>2 DEF Parse, Ahead
    <3>2. Len(f) = Len(wire') + 1 /\ Len(f) \in 1 .. Len(f) /\ Len(f) + 1 = Len(at)
      BY <1>5, <1>6, <1>10, <3>1
    <3>3. f[Len(f)] = at[Len(at)]
      BY <1>10, <3>2
    <3>4. Due' = Due
      BY <1>4 DEF Due
    <3>5. out' # Silent /\ f[Len(f)] = Due' /\ out'.next <= Len(sent'[Len(sent')]) + 1
      BY <1>4, <2>2, <3>1, <3>3, <3>4
    <3> QED  BY <3>2, <3>5 DEF Ahead
  <2> QED  BY <2>1, <2>2
<1>12. Facing(f, g)'
  <2> SUFFICES ASSUME Len(f) > 0, NEW p, NEW cut, p = sent'[f[1].n], cut = beheaded'
               PROVE  /\ f[1].n \in intact' \/ (lost' <= 1 /\ g > 1) => InStep(p, f[1])'
                      /\ lost' <= 1 => InStep(p, f[1])' \/ Astray(p, f[1], cut)'
    BY DEF Facing
  <2>1. Len(at) > 1 /\ 1 \in 1 .. Len(f) /\ 1 + 1 = 2 /\ 1 < Len(at)
    BY <1>5, <1>10
  <2>2. f[1] = at[2] /\ p = sent[at[2].n] /\ cut = beheaded
    BY <1>4, <1>10, <2>1
  <2>3. /\ at[1].n \in intact \/ (lost <= 1 /\ gap > 1) => InStep(sent[at[1].n], at[1])
        /\ lost <= 1 => InStep(sent[at[1].n], at[1]) \/ Astray(sent[at[1].n], at[1], cut)
    BY <1>2, <1>3, <1>4, <2>2 DEF Parse, Facing
  <2>4. /\ at[2].n \in intact \/ (lost <= 1 /\ gap # 2) => Joined(at[1], at[2], sent)
        /\ lost <= 1 /\ at[2].n \notin intact /\ gap = 2 => Apart(at[1], at[2], sent, cut)
    <3>1. Chained(at, sent, intact, beheaded, lost, gap)
      BY <1>2 DEF Parse, Line
    <3> QED  BY <1>4, <2>1, <2>2, <3>1 DEF Chained
  <2>5. ASSUME Joined(at[1], at[2], sent)
        PROVE  /\ InStep(sent[at[1].n], at[1]) => InStep(p, at[2])'
               /\ Astray(sent[at[1].n], at[1], cut) => InStep(p, at[2])' \/ Astray(p, at[2], cut)'
    BY <1>2, <2>1, <2>2, <2>5, TakesJoined
  <2>6. ASSUME Apart(at[1], at[2], sent, cut), lost <= 1, at[2].n \notin intact,
               InStep(sent[at[1].n], at[1])
        PROVE  InStep(p, at[2])' \/ Astray(p, at[2], cut)'
    BY <1>2, <2>1, <2>2, <2>6, TakesApart DEF Parsed
  <2>7. ASSUME at[2].n \in intact  PROVE InStep(p, at[2])'
    <3>1. Joined(at[1], at[2], sent)
      BY <2>4, <2>7
    <3>2. CASE at[1].n = at[2].n
      BY <2>3, <2>5, <2>7, <3>1, <3>2
    <3>3. CASE at[1].n # at[2].n
      BY <3>1, <3>3 DEF Joined, InStep
    <3> QED  BY <3>2, <3>3
  <2>8. ASSUME lost <= 1, g > 1  PROVE InStep(p, at[2])'
    <3>1. gap > 1 /\ gap # 2
      BY <1>2, <1>9, <2>8
    <3> QED  BY <2>3, <2>4, <2>5, <2>8, <3>1
  <2>9. ASSUME lost <= 1  PROVE InStep(p, at[2])' \/ Astray(p, at[2], cut)'
    <3>1. CASE at[2].n \in intact
      BY <2>7, <3>1
    <3>2. CASE at[2].n \notin intact /\ gap = 2
      <4>1. gap > 1
        BY <3>2
      <4> QED  BY <2>3, <2>4, <2>6, <2>9, <3>2, <4>1
    <3>3. CASE gap # 2
      BY <2>3, <2>4, <2>5, <2>9, <3>3
    <3> QED  BY <3>1, <3>2, <3>3
  <2> QED  BY <1>4, <2>2, <2>7, <2>8, <2>9
<1>13. Resting(f)'
  <2> SUFFICES ASSUME lost = 0, Len(f) > 0 => f[1].item = 0  PROVE ReceiveSeq' = 0
    BY <1>4 DEF Resting
  <2>1. at[1].n \in intact
    BY <1>4 DEF Parsed, Accounted
  <2>2. ASSUME Len(at) > 1  PROVE at[2].n # at[1].n
    <3>1. 1 \in 1 .. Len(f) /\ 1 + 1 = 2 /\ 1 < Len(at) /\ 2 \in 1 .. Len(at)
      BY <1>5, <1>10, <2>2
    <3>2. at[2].item = 0
      BY <1>10, <3>1
    <3>3. at[2].n \in intact
      BY <1>5, <3>1 DEF Parsed, Accounted
    <3>4. Chained(at, sent, intact, beheaded, lost, gap)
      BY <1>2 DEF Parse, Line
    <3>5. Joined(at[1], at[2], sent)
      BY <1>4, <3>1, <3>3, <3>4 DEF Chained
    <3>6. at[1].item \in Nat
      BY <1>2, <1>4, PlacesWithin
    <3>7. Following(sent[at[1].n], at[1]).item # 0
      BY <3>6 DEF Following, Opens
    <3> QED  BY <3>2, <3>5, <3>7 DEF Joined
  <2>3. Following(q, at[1]).item = Len(q) + 4
    BY <1>2, <1>3, <2>1, <2>2, TakesLast
  <2>4. InStep(q, at[1])
    BY <1>2, <1>3, <1>4, <2>1 DEF Parse, Facing
  <2> QED  BY <1>2, <1>3, <2>3, <2>4, TakesInStep
<1>14. Past(f, delivered', sent, intact, beheaded, lost)
  BY <1>2, <1>10, TakesPast
<1>15. Parse(f, g)'
  BY <1>4, <1>9, <1>10, <1>11, <1>12, <1>13, <1>14 DEF Parse
<1>16. f \in Seq(Place)
  BY <1>10 DEF Line, Places
<1> QED  BY <1>7, <1>9, <1>15, <1>16 DEF Parsed

(* The line is empty at first.                                             *)
LEMMA InitParses == ASSUME Init PROVE Parsed
<1>1. /\ out = Silent /\ wire = << >> /\ delivered = << >> /\ sent = << >> /\ intact = {}
      /\ beheaded = {} /\ lost = 0 /\ ReceiveSeq = 0
  BY DEF Init
<1>2. Len(wire) = 0 /\ Len(sent) = 0 /\ Len(delivered) = 0
  BY <1>1
<1>3. Accounted
  BY <1>1, <1>2 DEF Accounted
<1> DEFINE at == << >>
<1>4. at \in Seq(Place) /\ Len(at) = 0
  OBVIOUS
<1> HIDE DEF at
<1>5. Line(at, wire, sent, intact, beheaded, lost, 0)
  BY <1>2, <1>4 DEF Line, Places, Written, Chained, Complete
<1>6. Ahead(at) /\ Facing(at, 0) /\ Resting(at)
  BY <1>1, <1>2, <1>4 DEF Ahead, Facing, Resting
<1>7. Past(at, delivered, sent, intact, beheaded, lost)
  BY <1>1, <1>2 DEF Past, Sorted, Right, Arrived, AllHonest
<1>8. Parse(at, 0)
  BY <1>2, <1>5, <1>6, <1>7 DEF Parse
<1>9. 0 \in Nat
  OBVIOUS
<1> QED  BY <1>3, <1>4, <1>8, <1>9, Zenon DEF Parsed

LEMMA StutterParses == ASSUME Parsed, UNCHANGED vars PROVE Parsed'
<1>1. PICK at \in Seq(Place) : \E gap \in Nat : Parse(at, gap)
  BY DEF Parsed
<1>2. PICK gap \in Nat : Parse(at, gap)
  BY <1>1
<1>3. UNCHANGED <<out, wire, delivered, sent, intact, beheaded, lost>> /\ UNCHANGED decoder
  BY DEF vars
<1>4. Accounted'
  BY <1>3 DEF Parsed, Accounted
<1>5. Facing(at, gap)'
  <2> SUFFICES ASSUME Len(at) > 0, NEW p, NEW cut, p = sent'[at[1].n], cut = beheaded'
               PROVE  /\ at[1].n \in intact' \/ (lost' <= 1 /\ gap > 1) => InStep(p, at[1])'
                      /\ lost' <= 1 => InStep(p, at[1])' \/ Astray(p, at[1], cut)'
    BY DEF Facing
  <2>1. /\ InStep(p, at[1])' <=> InStep(p, at[1])
        /\ Astray(p, at[1], cut)' <=> Astray(p, at[1], cut)
    BY <1>3, DecoderRests
  <2>2. /\ at[1].n \in intact \/ (lost <= 1 /\ gap > 1) => InStep(p, at[1])
        /\ lost <= 1 => InStep(p, at[1]) \/ Astray(p, at[1], cut)
    BY <1>2, <1>3 DEF Parse, Facing
  <2> QED  BY <1>3, <2>1, <2>2
<1>6. Ahead(at)' /\ Resting(at)'
  BY <1>2, <1>3 DEF Parse, Ahead, Due, Resting, decoder
<1>7. Parse(at, gap)'
  BY <1>2, <1>3, <1>5, <1>6 DEF Parse
<1> QED  BY <1>4, <1>7 DEF Parsed

(* The line can always be read as the rest of the packets that were sent,  *)
(* with the receiver where it has to be.                                   *)
THEOREM LineParses == Spec => [](Inductive /\ Parsed)
<1>1. Init => Parsed
  BY InitParses
<1>2. Inductive /\ Parsed /\ [Next]_vars => Parsed'
  <2> SUFFICES ASSUME Inductive, Parsed, [Next]_vars  PROVE Parsed'
    OBVIOUS
  <2>1. CASE \E p \in Payloads : SendHeader(p)
    BY <2>1, HeaderParses
  <2>2. CASE SendData
    BY <2>2, DataParses
  <2>3. CASE SendSum
    BY <2>3, SumParses
  <2>4. CASE CutShort
    BY <2>4, CutParses
  <2>5. CASE \E i \in 1 .. Len(wire) : Lose(i)
    BY <2>5, LoseParses
  <2>6. CASE XBeeReceive
    BY <2>6, TakeParses
  <2>7. CASE UNCHANGED vars
    BY <2>7, StutterParses
  <2> QED  BY <2>1, <2>2, <2>3, <2>4, <2>5, <2>6, <2>7 DEF Next, SendPacket
<1> QED  BY <1>1, <1>2, LinkInvariant, PTL DEF Spec

(* A frame that lost nothing is handed to AddReadQueue once and as it was  *)
(* sent when all of it was read, and frames keep their order.              *)
THEOREM FramesArrive == Spec => []IntactArrive
<1>1. ASSUME Inductive, Parsed  PROVE IntactArrive
  <2>1. PICK at \in Seq(Place) : \E gap \in Nat : Parse(at, gap)
    BY <1>1 DEF Parsed
  <2>2. PICK gap \in Nat : Parse(at, gap)
    BY <2>1
  <2>3. Past(at, delivered, sent, intact, beheaded, lost)
    BY <2>2 DEF Parse
  <2>4. ASSUME NEW n \in intact, out = Silent \/ n < Len(sent), \A i \in 1 .. Len(wire) : wire[i].n # n
        PROVE  ~OnLine(n, at)
    <3> SUFFICES ASSUME NEW i \in 1 .. Len(at), at[i].n = n  PROVE FALSE
      BY DEF OnLine
    <3>1. Len(at) \in Nat /\ Len(wire) \in Nat
      BY <1>1, <2>2, ParseTypes
    <3>2. Written(at, wire, sent)
      BY <2>2 DEF Parse, Line
    <3>3. i \notin 1 .. Len(wire)
      BY <2>4, <3>2 DEF Written
    <3>4. out # Silent
      BY <2>2, <3>1, <3>3 DEF Parse, Ahead
    <3>5. Len(at) = Len(wire) + 1 /\ at[Len(at)] = Due
      BY <2>2, <3>4 DEF Parse, Ahead
    <3>6. i = Len(at)
      BY <3>1, <3>3, <3>5
    <3>7. n = Len(sent)
      BY <3>5, <3>6 DEF Due
    <3>8. Len(sent) \in Nat
      BY <1>1, <2>2, ParseTypes
    <3> QED  BY <2>4, <3>4, <3>7, <3>8
  <2>5. ASSUME NEW n \in intact, ~OnLine(n, at)
        PROVE  \E k \in 1 .. Len(delivered) : delivered[k].n = n /\ delivered[k].p = sent[n]
    <3>1. PICK k \in 1 .. Len(delivered) : delivered[k].n = n
      BY <2>3, <2>5 DEF Past, Arrived
    <3>2. delivered[k].p = sent[n]
      BY <2>3, <3>1 DEF Past, Right
    <3> QED  BY <3>1, <3>2
  <2>6. \A k, l \in 1 .. Len(delivered) : k < l => delivered[k].n <= delivered[l].n
    BY <2>3 DEF Past, Sorted
  <2>7. \A k, l \in 1 .. Len(delivered) :
          k # l /\ delivered[k].n = delivered[l].n => delivered[k].n \notin intact
    BY <2>3 DEF Past, Right
  <2> QED  BY <2>4, <2>5, <2>6, <2>7 DEF IntactArrive
<1> QED  BY <1>1, LineParses, PTL

(* One lost byte of the data or the check sum makes no frame of what is    *)
(* left, and one of the delimiter or the length at most a shorter one.     *)
THEOREM FramesAreHonest == Spec => []HonestFrames
<1>1. ASSUME Inductive, Parsed  PROVE HonestFrames
  <2>1. PICK at \in Seq(Place) : \E gap \in Nat : Parse(at, gap)
    BY <1>1 DEF Parsed
  <2>2. PICK gap \in Nat : Parse(at, gap)
    BY <2>1
  <2> QED  BY <2>2 DEF Parse, Past, AllHonest, Honest, HonestFrames
<1> QED  BY <1>1, LineParses, PTL
=============================================================================
