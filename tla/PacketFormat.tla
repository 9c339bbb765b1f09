------------------------------ MODULE PacketFormat ------------------------------
(***************************************************************************)
(* The bytes of a packet: what ByteBuffer does with them, how a packet is  *)
(* put together (sendRequest, sendResponse) and taken apart again          *)
(* (Session::handle, receiveResponse), and the numbers in it at their      *)
(* width.  Pure operators; how packets travel is Wire's business.          *)
(*                                                                         *)
(* A ByteBuffer is the sequence of its bytes.  Its indices count from 0,   *)
(* negative ones from its end.                                             *)
(***************************************************************************)
EXTENDS Integers, Sequences

Radix == 256
TwoTo32 == Radix * Radix * Radix * Radix
TwoTo64 == TwoTo32 * TwoTo32

Byte == 0 .. Radix - 1
UInt == 0 .. TwoTo32 - 1
ULong == 0 .. TwoTo64 - 1

-----------------------------------------------------------------------------
(***************************************************************************)
(* ByteBuffer.                                                             *)
(***************************************************************************)
PushBack(buffer, data) == buffer \o data

\* Where an index points, and what its assert demands.
From(buffer, i) == IF i < 0 THEN i + Len(buffer) ELSE i
IndexHolds(buffer, i) == 0 <= From(buffer, i) /\ From(buffer, i) < Len(buffer)
At(buffer, i) == buffer[From(buffer, i) + 1]

\* slice's asserts.  They leave out that it must not end before it starts, which
\* the iterators it is made from rely on.
SliceHolds(buffer, start, end) ==
  /\ IndexHolds(buffer, start)
  /\ 0 < From(buffer, end) /\ From(buffer, end) <= Len(buffer)

Slice(buffer, start, end) == SubSeq(buffer, From(buffer, start) + 1, From(buffer, end))

\* write(UInt) and readUInt: big-endian.
Up(n) == n \div Radix
Low(n) == n % Radix

WriteUInt(buffer, n) ==
  PushBack(buffer, <<Low(Up(Up(Up(n)))), Low(Up(Up(n))), Low(Up(n)), Low(n)>>)

ReadUInt(buffer, pos) ==
  Radix * (Radix * (Radix * buffer[pos + 1] + buffer[pos + 2]) + buffer[pos + 3]) + buffer[pos + 4]

-----------------------------------------------------------------------------
(***************************************************************************)
(* Packets.                                                                *)
(***************************************************************************)
\* The length is kept in 32 bits.
PacketLen(body) == (1 + Len(body)) % TwoTo32

Packet(type, body) == PushBack(PushBack(WriteUInt(<<>>, PacketLen(body)), <<type>>), body)

\* A read buffer after two reads: the length first, then as many bytes over it.
\* The buffer keeps its size, and what was in it behind the packet.
Overlay(buffer, bytes) ==
  [i \in DOMAIN buffer |-> IF i <= Len(bytes) THEN bytes[i] ELSE buffer[i]]

AfterLength(buffer, packet) == Overlay(buffer, SubSeq(packet, 1, 4))
ReceivedLen(buffer, packet) == ReadUInt(AfterLength(buffer, packet), 0)

\* readLen, which the second read returns: no more than the length says, and no
\* more than has come.
ReadLen(buffer, packet) ==
  LET came == Len(packet) - 4
  IN  IF came < ReceivedLen(buffer, packet) THEN came ELSE ReceivedLen(buffer, packet)

AfterPacket(buffer, packet) ==
  Overlay(AfterLength(buffer, packet), SubSeq(packet, 5, 4 + ReadLen(buffer, packet)))

ReceivedType(buffer, packet) == At(AfterPacket(buffer, packet), 0)
ReceivedBody(buffer, packet) ==
  Slice(AfterPacket(buffer, packet), 1, ReadLen(buffer, packet))

-----------------------------------------------------------------------------
(***************************************************************************)
(* processDownload's check of a request against the file, in 64 bits.      *)
(***************************************************************************)
AskedSize(size, fileSize) == IF size = 0 THEN fileSize ELSE size

Accepts(offset, size, fileSize) ==
  /\ offset <= fileSize
  /\ AskedSize(size, fileSize) <= fileSize
  /\ (offset + AskedSize(size, fileSize)) % TwoTo64 <= fileSize
=============================================================================
