--------------------------- MODULE PacketFormatProofs ---------------------------
(***************************************************************************)
(* A packet comes out as it went in, for every body that fits a read       *)
(* buffer, whatever the buffer held before; and the check of a download    *)
(* request is not fooled by 64-bit sums.                                   *)
(***************************************************************************)
EXTENDS PacketFormat, TLAPS

LEMMA Digit ==
  ASSUME NEW n \in Nat
  PROVE  Up(n) \in Nat /\ Low(n) \in Byte /\ n = Radix * Up(n) + Low(n)
BY SMT DEF Up, Low, Byte, Radix

\* The fourth digit is the last one of a 32-bit number.
LEMMA LastDigit ==
  ASSUME NEW n \in UInt
  PROVE  Low(Up(Up(Up(n)))) = Up(Up(Up(n)))
<1>1. n \in Nat /\ n < TwoTo32
  <2>1. TwoTo32 \in Nat
    BY SMT DEF TwoTo32, Radix
  <2> QED BY <2>1, SMT DEF UInt
<1>2. /\ Up(n) \in Nat /\ Up(Up(n)) \in Nat /\ Up(Up(Up(n))) \in Nat
      /\ Radix * Up(n) <= n /\ Radix * Up(Up(n)) <= Up(n)
      /\ Radix * Up(Up(Up(n))) <= Up(Up(n))
  BY <1>1, SMT DEF Up, Radix
<1>3. Up(Up(Up(n))) < Radix
  BY <1>1, <1>2, SMT DEF TwoTo32, Radix
<1> QED BY <1>2, <1>3, SMT DEF Low, Radix

\* readUInt (ByteBuffer.cpp 149-156) reads what write (126-130) has written,
\* wherever in the buffer it is.
THEOREM LengthReadBack ==
  ASSUME NEW n \in UInt, NEW buffer \in Seq(Byte)
  PROVE  ReadUInt(WriteUInt(buffer, n), Len(buffer)) = n
<1>1. n \in Nat
  BY SMT DEF UInt
<1>2. PICK a \in Byte, b \in Byte, c \in Byte, d \in Byte :
        /\ n = Radix * (Radix * (Radix * a + b) + c) + d
        /\ WriteUInt(buffer, n) = buffer \o <<a, b, c, d>>
  <2>1. Up(n) \in Nat /\ Up(Up(n)) \in Nat /\ Up(Up(Up(n))) \in Nat
    BY <1>1, Digit
  <2>2. n = Radix * (Radix * (Radix * Up(Up(Up(n))) + Low(Up(Up(n)))) + Low(Up(n))) + Low(n)
    BY <1>1, <2>1, Digit
  <2> QED BY <1>1, <2>1, <2>2, Digit, LastDigit DEF WriteUInt, PushBack
<1>3. \A i \in 1 .. 4 : (buffer \o <<a, b, c, d>>)[Len(buffer) + i] = <<a, b, c, d>>[i]
  BY SMT
<1> QED BY <1>2, <1>3, SMT DEF ReadUInt

LEMMA OverlayReads ==
  ASSUME NEW buffer \in Seq(Byte), NEW bytes \in Seq(Byte), Len(bytes) <= Len(buffer)
  PROVE  /\ Overlay(buffer, bytes) \in Seq(Byte) /\ Len(Overlay(buffer, bytes)) = Len(buffer)
         /\ \A i \in 1 .. Len(bytes) : Overlay(buffer, bytes)[i] = bytes[i]
<1>1. \A i \in 1 .. Len(buffer) : (IF i <= Len(bytes) THEN bytes[i] ELSE buffer[i]) \in Byte
  BY SMT
<1>2. Overlay(buffer, bytes) = [i \in 1 .. Len(buffer) |-> IF i <= Len(bytes) THEN bytes[i] ELSE buffer[i]]
  BY SMT DEF Overlay
<1> QED BY <1>1, <1>2, SMT

LEMMA CutInTwo ==
  ASSUME NEW s \in Seq(Byte), NEW t \in Seq(Byte)
  PROVE  /\ SubSeq(s \o t, 1, Len(s)) = s
         /\ SubSeq(s \o t, Len(s) + 1, Len(s \o t)) = t
BY SMT

\* The packet that sendResponse (Session.cpp 151-167) or sendRequest (Protocol.cpp
\* 4-20) puts together is the packet its receiver takes apart (Protocol.cpp 22-36,
\* Session.cpp 19-30), in a read buffer that may hold older packets; and no assert
\* of slice fails, even if the body is empty.
THEOREM PacketReadBack ==
  ASSUME NEW type \in Byte, NEW body \in Seq(Byte), 1 + Len(body) \in UInt,
         NEW buffer \in Seq(Byte), Len(buffer) >= 4, Len(buffer) >= 1 + Len(body)
  PROVE  LET packet == Packet(type, body)
         IN  /\ ReceivedLen(buffer, packet) = 1 + Len(body)
             /\ ReceivedType(buffer, packet) = type
             /\ ReceivedBody(buffer, packet) = body
             /\ SliceHolds(AfterPacket(buffer, packet), 1, ReadLen(buffer, packet))
<1> DEFINE packet == Packet(type, body)
<1>1. PICK n \in Nat : n = 1 + Len(body) /\ n > 0 /\ n \in UInt /\ PacketLen(body) = n
  <2>1. 1 + Len(body) \in Nat /\ 1 + Len(body) > 0
    BY SMT
  <2>2. TwoTo32 \in Nat /\ 1 + Len(body) < TwoTo32
    <3>1. TwoTo32 \in Nat
      BY SMT DEF TwoTo32, Radix
    <3> QED BY <3>1, SMT DEF UInt
  <2>3. (1 + Len(body)) % TwoTo32 = 1 + Len(body)
    BY <2>1, <2>2, SMT
  <2> QED BY <2>1, <2>3 DEF PacketLen
<1>2. PICK a \in Byte, b \in Byte, c \in Byte, d \in Byte :
        WriteUInt(<<>>, n) = <<a, b, c, d>> /\ ReadUInt(<<a, b, c, d>>, 0) = n
  <2>1. PICK a \in Byte, b \in Byte, c \in Byte, d \in Byte :
          WriteUInt(<<>>, n) = <<>> \o <<a, b, c, d>>
    <3>1. Up(n) \in Nat /\ Up(Up(n)) \in Nat /\ Up(Up(Up(n))) \in Nat
      BY <1>1, Digit
    <3> QED BY <1>1, <3>1, Digit DEF WriteUInt, PushBack
  <2>2. <<>> \in Seq(Byte) /\ Len(<<>>) = 0
    OBVIOUS
  <2>3. ReadUInt(WriteUInt(<<>>, n), Len(<<>>)) = n
    BY <1>1, <2>2, LengthReadBack
  <2>4. <<>> \o <<a, b, c, d>> = <<a, b, c, d>>
    OBVIOUS
  <2> QED BY <2>1, <2>2, <2>3, <2>4
<1>3. PICK head \in Seq(Byte), tail \in Seq(Byte) :
        /\ head = <<a, b, c, d>> /\ tail = <<type>> \o body
        /\ Len(head) = 4 /\ Len(tail) = n /\ tail[1] = type
        /\ \A i \in 1 .. Len(body) : tail[i + 1] = body[i]
  <2>1. <<a, b, c, d>> \in Seq(Byte) /\ Len(<<a, b, c, d>>) = 4
    OBVIOUS
  <2>2. <<type>> \in Seq(Byte) /\ Len(<<type>>) = 1 /\ <<type>>[1] = type
    OBVIOUS
  <2>3. /\ <<type>> \o body \in Seq(Byte) /\ Len(<<type>> \o body) = 1 + Len(body)
        /\ (<<type>> \o body)[1] = type
        /\ \A i \in 1 .. Len(body) : (<<type>> \o body)[i + 1] = body[i]
    BY <2>2, SMT
  <2> QED BY <1>1, <2>1, <2>3, Zenon
<1>4. /\ SubSeq(packet, 1, 4) = head /\ SubSeq(packet, 5, Len(packet)) = tail
      /\ packet \in Seq(Byte) /\ Len(packet) = 4 + n
  <2>1. packet = (head \o <<type>>) \o body
    BY <1>1, <1>2, <1>3 DEF Packet, PushBack
  <2>2. packet = head \o tail
    BY <1>3, <2>1, SMT
  <2> HIDE DEF packet
  <2>3. /\ SubSeq(head \o tail, 1, Len(head)) = head
        /\ SubSeq(head \o tail, Len(head) + 1, Len(head \o tail)) = tail
    BY CutInTwo
  <2>4. Len(head) + 1 = 5
    BY <1>3
  <2>5. head \o tail \in Seq(Byte) /\ Len(head \o tail) = 4 + n
    BY <1>1, <1>3, SMT
  <2> QED BY <1>3, <2>2, <2>3, <2>4, <2>5, Zenon
<1>5. PICK first \in Seq(Byte) :
        /\ first = AfterLength(buffer, packet) /\ Len(first) = Len(buffer)
        /\ ReceivedLen(buffer, packet) = n
  <2>1. PICK first \in Seq(Byte) :
          /\ first = Overlay(buffer, head) /\ Len(first) = Len(buffer)
          /\ \A i \in 1 .. 4 : first[i] = head[i]
    <3>1. Len(head) <= Len(buffer)
      BY <1>3
    <3>2. /\ Overlay(buffer, head) \in Seq(Byte) /\ Len(Overlay(buffer, head)) = Len(buffer)
          /\ \A i \in 1 .. Len(head) : Overlay(buffer, head)[i] = head[i]
      BY <3>1, OverlayReads, Zenon
    <3>3. 1 .. Len(head) = 1 .. 4
      BY <1>3
    <3> QED BY <3>2, <3>3, Zenon
  <2>2. ReadUInt(first, 0) = ReadUInt(head, 0)
    BY <2>1, SMT DEF ReadUInt
  <2> QED BY <1>2, <1>3, <1>4, <2>1, <2>2 DEF AfterLength, ReceivedLen
<1> HIDE DEF packet
<1>6. ReadLen(buffer, packet) = n /\ 4 + n = Len(packet)
  <2>1. packet \in Seq(Byte) /\ Len(packet) = 4 + n
    BY <1>4
  <2> QED BY <1>1, <1>5, <2>1, SMT DEF ReadLen
<1>7. PICK second \in Seq(Byte) :
        /\ second = AfterPacket(buffer, packet) /\ Len(second) = Len(buffer)
        /\ \A i \in 1 .. n : second[i] = tail[i]
  <2>1. AfterPacket(buffer, packet) = Overlay(first, tail)
    BY <1>4, <1>5, <1>6 DEF AfterPacket
  <2>2. Len(tail) <= Len(first)
    BY <1>1, <1>3, <1>5
  <2>3. /\ Overlay(first, tail) \in Seq(Byte) /\ Len(Overlay(first, tail)) = Len(first)
        /\ \A i \in 1 .. n : Overlay(first, tail)[i] = tail[i]
    BY <1>3, <2>2, OverlayReads, Zenon
  <2> QED BY <1>5, <2>1, <2>3, Zenon
<1>8. ReceivedType(buffer, packet) = type
  <2>1. ReceivedType(buffer, packet) = second[1]
    BY <1>7 DEF ReceivedType, At, From
  <2> QED BY <1>1, <1>3, <1>7, <2>1
<1>9. ReceivedBody(buffer, packet) = body
  <2>1. ReceivedBody(buffer, packet) = SubSeq(second, 2, n)
    BY <1>1, <1>7, <1>6 DEF ReceivedBody, Slice, From
  <2>2. ASSUME NEW i \in 1 .. Len(body) PROVE second[i + 1] = body[i]
    <3>1. i + 1 \in 1 .. n
      BY <1>1
    <3>2. second[i + 1] = tail[i + 1]
      BY <1>7, <3>1, Zenon
    <3>3. tail[i + 1] = body[i]
      BY <1>3, Zenon
    <3> QED BY <3>2, <3>3, Zenon
  <2>3. SubSeq(second, 2, n) = body
    BY <1>1, <1>7, <2>2, SMT
  <2> QED BY <2>1, <2>3
<1>10. SliceHolds(AfterPacket(buffer, packet), 1, n)
  BY <1>1, <1>7 DEF SliceHolds, IndexHolds, From
<1> QED BY <1>1, <1>5, <1>8, <1>9, <1>10, <1>6 DEF packet

\* A request for a part is accepted if and only if the part lies in the file:
\* the sum (Session.cpp 129) cannot wrap, the two checks before it see to that.
THEOREM RangeCheckIsExact ==
  ASSUME NEW offset \in ULong, NEW size \in ULong, NEW fileSize \in Nat, 2 * fileSize < TwoTo64
  PROVE  Accepts(offset, size, fileSize) <=>
           offset <= fileSize /\ offset + AskedSize(size, fileSize) <= fileSize
BY SMT DEF Accepts, AskedSize, ULong, TwoTo64, TwoTo32, Radix
=============================================================================
