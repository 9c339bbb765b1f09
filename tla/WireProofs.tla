------------------------------- MODULE WireProofs -------------------------------
(***************************************************************************)
(* What Wire promises of the byte streams, for every length of packets,    *)
(* parts and buffers, however the bytes are cut on their way, and whatever *)
(* connections end early.                                                  *)
(*                                                                         *)
(* The invariant says where in the one request, and in the reply with its  *)
(* data, each end has got to: every byte in a buffer, in a socket or on    *)
(* the way is at a known place of its stream, and they are consecutive.    *)
(***************************************************************************)
EXTENDS Wire, SequenceTheorems, TLAPS

Dirs == {"up", "down"}
Byte == Nat \X {"length", "body", "data"} \X Nat

-----------------------------------------------------------------------------
(***************************************************************************)
(* The two streams of a request, and the invariant.                        *)
(***************************************************************************)
RequestStream ==
  [i \in Nat |-> IF i <= HeaderLen THEN <<number, "length", i - 1>>
                 ELSE <<number, "body", i - HeaderLen - 1>>]

ReplyStream ==
  [i \in Nat |-> IF i <= HeaderLen THEN <<number, "length", i - 1>>
                 ELSE IF i <= HeaderLen + ReplyLen THEN <<number, "body", i - HeaderLen - 1>>
                 ELSE <<number, "data", i - HeaderLen - ReplyLen - 1>>]

RequestEnd == HeaderLen + asked.len
ReplyEnd == HeaderLen + ReplyLen
DataEnd == ReplyEnd + asked.size

\* The first n bytes of s are those of the stream behind its place `at`.
Follow(s, n, stream, at) == \A i \in 1 .. n : s[i] = stream[at + i]

\* The types Wire!TypeOK has no need of, and the rest of it.
NetValues ==
  /\ splits \subseteq Splits
  /\ wire \in [Dirs -> Seq(Byte)] /\ inbox \in [Dirs -> Seq(Byte)]
  /\ cuts \in [Dirs -> SUBSET Nat]
  /\ \A d \in Dirs : cuts[d] \subseteq 1 .. Len(wire[d])
  /\ conn \in {"open", "closed", "reset"}

ReadValues ==
  /\ buffer \in [Ends -> Seq(Byte)]
  /\ limit \in [Ends -> 0 .. BufferLen] /\ sizeRead \in [Ends -> Nat]
  /\ \A e \in Ends : sizeRead[e] <= Len(buffer[e]) /\ Len(buffer[e]) < BufferLen + ReadUnit

TaskValues ==
  /\ number \in 0 .. MaxRequests
  /\ asked \in [len : RequestLens \cup {0}, size : DataLens \cup {0}]
  /\ toSend \in Nat /\ rest \in 0 .. asked.size
  /\ placed \in Seq(Byte)

PlaceValues ==
  /\ pc \in [Ends -> {"idle", "length", "packet", "send", "data", "dropped"}]
  /\ pc["server"] \in {"idle", "length", "packet", "send"}
  /\ pc["client"] \in {"idle", "length", "packet", "data", "dropped"}
  /\ faults \in 0 .. MaxFaults

Values == NetValues /\ ReadValues /\ TaskValues /\ PlaceValues

\* The server has not answered yet.
Unanswered ==
  pc["server"] \in {"length", "packet"} \/ inbox["up"] # <<>> \/ wire["up"] # <<>>

\* Nothing comes down any more.
Dry == conn # "open" /\ inbox["down"] = <<>> /\ wire["down"] = <<>>

\* Whose turn it is.
Turns ==
  /\ pc["server"] = "send" <=> toSend > 0
  /\ toSend <= asked.size
  /\ pc["client"] # "idle" => asked.len # 0 /\ asked.size # 0
  /\ pc["client"] = "idle" =>
       /\ ~Unanswered /\ toSend = 0 /\ rest = 0
       /\ inbox["down"] = <<>> /\ wire["down"] = <<>>
  /\ pc["client"] \in {"length", "packet"} => rest = 0 /\ placed = <<>>
  /\ Unanswered => inbox["down"] = <<>> /\ wire["down"] = <<>> /\ toSend = 0
  /\ conn = "reset" => wire["down"] = <<>>

\* What the server has of the packet it is reading.
Fresh == IF pc["server"] \in {"length", "packet"} THEN sizeRead["server"] ELSE 0

\* Socket::read of the server was called at place b of the request.
UpAt(b) ==
  /\ Follow(buffer["server"], Fresh, RequestStream, b)
  /\ Follow(inbox["up"], Len(inbox["up"]), RequestStream, b + Fresh)
  /\ Follow(wire["up"], Len(wire["up"]), RequestStream, b + Fresh + Len(inbox["up"]))
  /\ b + Fresh + Len(inbox["up"]) + Len(wire["up"]) <= RequestEnd

\* A request that comes whole.
UpWhole(b) ==
  /\ wire["up"] # <<>> =>
       /\ pc["server"] = "idle" /\ inbox["up"] = <<>> /\ b = 0
       /\ Len(wire["up"]) = RequestEnd /\ cuts["up"] = {Len(wire["up"])}
  /\ inbox["up"] # <<>> \/ pc["server"] \in {"length", "packet"} =>
       b + Fresh + Len(inbox["up"]) = RequestEnd
  /\ pc["server"] = "idle" /\ inbox["up"] # <<>> => b = 0
  /\ pc["server"] = "length" =>
       b = 0 /\ limit["server"] = HeaderLen /\ sizeRead["server"] \in {0, HeaderLen}
  /\ pc["server"] = "packet" => b = HeaderLen /\ limit["server"] = asked.len

UpStream ==
  pc["client"] # "idle" =>
    \E b \in 0 .. RequestEnd : UpAt(b) /\ ("up" \notin splits => UpWhole(b))

\* Where the bytes that have arrived for the client end.
Arrived(b) == b + sizeRead["client"] + Len(inbox["down"])

\* Everything that is left of the reply and its data is to come.
Owing == conn = "open" /\ (pc["server"] = "send" \/ ("up" \notin splits /\ ~Unanswered))

\* Socket::read of the client was called at place b of the reply and its data.
DownBytes(b) ==
  /\ Follow(buffer["client"], sizeRead["client"], ReplyStream, b)
  /\ Follow(inbox["down"], Len(inbox["down"]), ReplyStream, b + sizeRead["client"])
  /\ Follow(wire["down"], Len(wire["down"]), ReplyStream, Arrived(b))
  /\ Arrived(b) + Len(wire["down"]) + toSend <= DataEnd
  /\ Owing => Arrived(b) + Len(wire["down"]) + toSend = DataEnd

\* What the client does there.
DownCall(b) ==
  /\ Unanswered => b + sizeRead["client"] = 0
  /\ pc["client"] = "length" => b = 0 /\ (limit["client"] = HeaderLen \/ Dry)
  /\ pc["client"] = "packet" => b >= HeaderLen \/ (Dry /\ sizeRead["client"] = 0)
  /\ pc["client"] = "data" =>
       /\ b >= ReplyEnd + Len(placed) /\ rest = asked.size - Len(placed)
       /\ limit["client"] <= rest

DownAt(b) == DownBytes(b) /\ DownCall(b)

\* A reply that comes whole.
DownWhole(b) ==
  /\ Arrived(b) = 0 \/ Arrived(b) >= ReplyEnd
  /\ Arrived(b) = 0 => \A k \in cuts["down"] : k >= ReplyEnd
  /\ pc["client"] = "length" => sizeRead["client"] \in {0, HeaderLen}
  /\ pc["client"] = "packet" =>
       \/ Dry /\ sizeRead["client"] = 0
       \/ b = HeaderLen /\ limit["client"] = ReplyLen /\ sizeRead["client"] \in {0, ReplyLen}
  /\ pc["client"] = "data" => b = ReplyEnd + Len(placed)

DownStream ==
  pc["client"] # "idle" =>
    \E b \in 0 .. DataEnd : DownAt(b) /\ ("down" \notin splits => DownWhole(b))

WInv == Values /\ Turns /\ UpStream /\ DownStream /\ ReplyThenData

-----------------------------------------------------------------------------
(***************************************************************************)
(* Bytes: sequences cut, joined and written over.                          *)
(***************************************************************************)
LEMMA Sequence ==
  ASSUME NEW n \in Nat, NEW f \in [1 .. n -> Byte]
  PROVE  f \in Seq(Byte) /\ Len(f) = n
OBVIOUS

LEMMA Cut ==
  ASSUME NEW s \in Seq(Byte), NEW n \in 0 .. Len(s)
  PROVE  /\ SubSeq(s, 1, n) \in Seq(Byte) /\ Len(SubSeq(s, 1, n)) = n
         /\ \A i \in 1 .. n : SubSeq(s, 1, n)[i] = s[i]
         /\ SubSeq(s, n + 1, Len(s)) \in Seq(Byte)
         /\ Len(SubSeq(s, n + 1, Len(s))) = Len(s) - n
         /\ \A i \in 1 .. Len(s) - n : SubSeq(s, n + 1, Len(s))[i] = s[n + i]
<1>1. Len(s) \in Nat /\ n \in Int /\ \A i \in 1 .. Len(s) : s[i] \in Byte
  BY LenProperties, ElementOfSeq
<1>2. \A i \in 1 .. n : s[i] \in Byte
  BY <1>1
<1>3. \A i \in n + 1 .. Len(s) : s[i] \in Byte
  BY <1>1
<1>4. /\ SubSeq(s, 1, n) \in Seq(Byte)
      /\ Len(SubSeq(s, 1, n)) = IF 1 <= n THEN n - 1 + 1 ELSE 0
      /\ \A i \in 1 .. n - 1 + 1 : SubSeq(s, 1, n)[i] = s[1 + i - 1]
  BY <1>1, <1>2, SubSeqProperties
<1>5. /\ SubSeq(s, n + 1, Len(s)) \in Seq(Byte)
      /\ Len(SubSeq(s, n + 1, Len(s))) = IF n + 1 <= Len(s) THEN Len(s) - (n + 1) + 1 ELSE 0
      /\ \A i \in 1 .. Len(s) - (n + 1) + 1 : SubSeq(s, n + 1, Len(s))[i] = s[n + 1 + i - 1]
  BY <1>1, <1>3, SubSeqProperties
<1>6. \A i \in 1 .. n : SubSeq(s, 1, n)[i] = s[i]
  BY <1>1, <1>4
<1>7. \A i \in 1 .. Len(s) - n : SubSeq(s, n + 1, Len(s))[i] = s[n + i]
  <2>1. TAKE i \in 1 .. Len(s) - n
  <2>2. i \in 1 .. Len(s) - (n + 1) + 1 /\ n + 1 + i - 1 = n + i
    BY <1>1
  <2> QED BY <1>5, <2>2
<1> QED BY <1>1, <1>4, <1>5, <1>6, <1>7

LEMMA FollowCut ==
  ASSUME NEW s \in Seq(Byte), NEW n \in 0 .. Len(s), NEW stream, NEW at \in Nat,
         Follow(s, Len(s), stream, at)
  PROVE  /\ Follow(SubSeq(s, 1, n), n, stream, at)
         /\ Follow(SubSeq(s, n + 1, Len(s)), Len(s) - n, stream, at + n)
<1>1. Len(s) \in Nat
  BY LenProperties
<1>2. \A i \in 1 .. n : SubSeq(s, 1, n)[i] = stream[at + i]
  BY <1>1, Cut DEF Follow
<1>3. \A i \in 1 .. Len(s) - n : SubSeq(s, n + 1, Len(s))[i] = stream[at + n + i]
  <2>1. TAKE i \in 1 .. Len(s) - n
  <2>2. n + i \in 1 .. Len(s) /\ at + (n + i) = at + n + i
    BY <1>1
  <2>3. SubSeq(s, n + 1, Len(s))[i] = s[n + i]
    BY Cut
  <2> QED BY <2>2, <2>3 DEF Follow
<1> QED BY <1>2, <1>3 DEF Follow

LEMMA FollowJoin ==
  ASSUME NEW s \in Seq(Byte), NEW t \in Seq(Byte), NEW stream, NEW at \in Nat,
         Follow(s, Len(s), stream, at), Follow(t, Len(t), stream, at + Len(s))
  PROVE  /\ s \o t \in Seq(Byte) /\ Len(s \o t) = Len(s) + Len(t)
         /\ Follow(s \o t, Len(s \o t), stream, at)
<1>1. Len(s) \in Nat /\ Len(t) \in Nat
  BY LenProperties
<1>2. /\ s \o t \in Seq(Byte) /\ Len(s \o t) = Len(s) + Len(t)
      /\ \A i \in 1 .. Len(s) + Len(t) :
           (s \o t)[i] = IF i <= Len(s) THEN s[i] ELSE t[i - Len(s)]
  BY ConcatProperties
<1>3. \A i \in 1 .. Len(s) + Len(t) : (s \o t)[i] = stream[at + i]
  <2>1. TAKE i \in 1 .. Len(s) + Len(t)
  <2>2. CASE i <= Len(s)
    <3>1. i \in 1 .. Len(s)
      BY <1>1, <2>2
    <3> QED BY <1>2, <2>2, <3>1 DEF Follow
  <2>3. CASE ~(i <= Len(s))
    <3>1. i - Len(s) \in 1 .. Len(t) /\ at + Len(s) + (i - Len(s)) = at + i
      BY <1>1, <2>3
    <3>2. (s \o t)[i] = t[i - Len(s)]
      BY <1>2, <2>3
    <3>3. t[i - Len(s)] = stream[at + Len(s) + (i - Len(s))]
      BY <3>1 DEF Follow
    <3> QED BY <3>1, <3>2, <3>3
  <2> QED BY <2>2, <2>3
<1> QED BY <1>2, <1>3 DEF Follow

LEMMA Overwritten ==
  ASSUME NEW old \in Seq(Byte), NEW at \in 0 .. Len(old), NEW bytes \in Seq(Byte)
  PROVE  /\ Overwrite(old, at, bytes) \in Seq(Byte)
         /\ Len(Overwrite(old, at, bytes)) =
              IF Len(old) > at + Len(bytes) THEN Len(old) ELSE at + Len(bytes)
         /\ \A i \in 1 .. at : Overwrite(old, at, bytes)[i] = old[i]
         /\ \A i \in 1 .. Len(bytes) : Overwrite(old, at, bytes)[at + i] = bytes[i]
<1>1. /\ Len(old) \in Nat /\ Len(bytes) \in Nat
      /\ \A i \in 1 .. Len(old) : old[i] \in Byte
      /\ \A i \in 1 .. Len(bytes) : bytes[i] \in Byte
  BY LenProperties, ElementOfSeq
<1>2. PICK top \in Nat : top = IF Len(old) > at + Len(bytes) THEN Len(old) ELSE at + Len(bytes)
  BY <1>1
<1>3. Overwrite(old, at, bytes) =
        [i \in 1 .. top |-> IF i > at /\ i <= at + Len(bytes) THEN bytes[i - at] ELSE old[i]]
  BY <1>2 DEF Overwrite
<1>4. \A i \in 1 .. top :
        (IF i > at /\ i <= at + Len(bytes) THEN bytes[i - at] ELSE old[i]) \in Byte
  <2>1. TAKE i \in 1 .. top
  <2>2. CASE i > at /\ i <= at + Len(bytes)
    <3>1. i - at \in 1 .. Len(bytes)
      BY <1>1, <2>2
    <3> QED BY <1>1, <2>2, <3>1
  <2>3. CASE ~(i > at /\ i <= at + Len(bytes))
    <3>1. i \in 1 .. Len(old)
      BY <1>1, <1>2, <2>3
    <3> QED BY <1>1, <2>3, <3>1
  <2> QED BY <2>2, <2>3
<1>5. Overwrite(old, at, bytes) \in Seq(Byte) /\ Len(Overwrite(old, at, bytes)) = top
  <2>1. Overwrite(old, at, bytes) \in [1 .. top -> Byte]
    BY <1>3, <1>4, Zenon
  <2> QED BY <2>1, Sequence
<1>6. \A i \in 1 .. at : Overwrite(old, at, bytes)[i] = old[i]
  BY <1>1, <1>2, <1>3
<1>7. \A i \in 1 .. Len(bytes) : Overwrite(old, at, bytes)[at + i] = bytes[i]
  <2>1. TAKE i \in 1 .. Len(bytes)
  <2>2. at + i \in 1 .. top /\ at + i > at /\ at + i <= at + Len(bytes) /\ at + i - at = i
    BY <1>1, <1>2
  <2> QED BY <1>3, <2>2
<1> QED BY <1>2, <1>5, <1>6, <1>7

LEMMA FollowOverwritten ==
  ASSUME NEW old \in Seq(Byte), NEW at \in 0 .. Len(old), NEW bytes \in Seq(Byte),
         NEW stream, NEW b \in Nat,
         Follow(old, at, stream, b), Follow(bytes, Len(bytes), stream, b + at)
  PROVE  Follow(Overwrite(old, at, bytes), at + Len(bytes), stream, b)
<1>1. Len(old) \in Nat /\ Len(bytes) \in Nat
  BY LenProperties
<1>2. /\ \A i \in 1 .. at : Overwrite(old, at, bytes)[i] = old[i]
      /\ \A i \in 1 .. Len(bytes) : Overwrite(old, at, bytes)[at + i] = bytes[i]
  BY Overwritten
<1>3. SUFFICES ASSUME NEW i \in 1 .. at + Len(bytes)
               PROVE  Overwrite(old, at, bytes)[i] = stream[b + i]
  BY DEF Follow
<1>4. CASE i <= at
  <2>1. i \in 1 .. at
    BY <1>1, <1>4
  <2> QED BY <1>2, <2>1 DEF Follow
<1>5. CASE ~(i <= at)
  <2>1. PICK j \in 1 .. Len(bytes) : i = at + j
    <3>1. i - at \in 1 .. Len(bytes) /\ i = at + (i - at)
      BY <1>1, <1>5
    <3> QED BY <3>1
  <2>2. b + at + j = b + i
    BY <1>1, <2>1
  <2> QED BY <1>2, <2>1, <2>2 DEF Follow
<1> QED BY <1>4, <1>5

-----------------------------------------------------------------------------
(***************************************************************************)
(* What the constants and the types say of single values.                  *)
(***************************************************************************)
LEMMA Sizes ==
  /\ HeaderLen \in Nat \ {0} /\ ReplyLen \in Nat \ {0}
  /\ ReadUnit \in Nat /\ BufferLen \in Nat /\ SendSpace \in Nat
  /\ HeaderLen <= ReadUnit /\ ReplyLen <= ReadUnit /\ HeaderLen + ReplyLen <= SendSpace
  /\ HeaderLen <= BufferLen /\ ReplyLen <= BufferLen /\ ReadUnit <= BufferLen
  /\ MaxRequests \in Nat /\ MaxFaults \in Nat
  /\ \A n \in RequestLens \cup DataLens : n \in Nat \ {0} /\ n <= BufferLen
BY WireAssumption

LEMMA Limits ==
  ASSUME NEW n \in Nat
  PROVE  LimitOf(n) \in 0 .. BufferLen /\ (n # 0 /\ n <= BufferLen => LimitOf(n) = n)
BY Sizes DEF LimitOf, LeastOf

LEMMA Lengths ==
  ASSUME Values
  PROVE  /\ \A d \in Dirs : /\ wire[d] \in Seq(Byte) /\ inbox[d] \in Seq(Byte)
                            /\ Len(wire[d]) \in Nat /\ Len(inbox[d]) \in Nat
                            /\ wire[d] = <<>> <=> Len(wire[d]) = 0
                            /\ inbox[d] = <<>> <=> Len(inbox[d]) = 0
         /\ \A e \in Ends : /\ buffer[e] \in Seq(Byte) /\ Len(buffer[e]) \in Nat
                            /\ limit[e] \in Nat /\ sizeRead[e] \in Nat
         /\ asked.len \in Nat /\ asked.len <= BufferLen
         /\ asked.size \in Nat /\ asked.size <= BufferLen
         /\ number \in Nat /\ toSend \in Nat /\ rest \in Nat
         /\ placed \in Seq(Byte) /\ Len(placed) \in Nat
         /\ "up" \in Dirs /\ "down" \in Dirs /\ "server" \in Ends /\ "client" \in Ends
<1>1. "up" \in Dirs /\ "down" \in Dirs /\ "server" \in Ends /\ "client" \in Ends
  BY DEF Dirs, Ends
<1>2. ASSUME NEW t \in Seq(Byte)
      PROVE  Len(t) \in Nat /\ (t = <<>> <=> Len(t) = 0)
  BY LenProperties, EmptySeq
<1>3. \A d \in Dirs : wire[d] \in Seq(Byte) /\ inbox[d] \in Seq(Byte)
  BY DEF Values, NetValues
<1>4. \A e \in Ends : buffer[e] \in Seq(Byte) /\ limit[e] \in 0 .. BufferLen /\ sizeRead[e] \in Nat
  BY DEF Values, ReadValues
<1>5. placed \in Seq(Byte)
  BY DEF Values, TaskValues
<1>6. /\ asked.len \in RequestLens \cup {0} /\ asked.size \in DataLens \cup {0}
      /\ number \in 0 .. MaxRequests /\ toSend \in Nat /\ rest \in 0 .. asked.size
  BY DEF Values, TaskValues
<1>7. /\ asked.len \in Nat /\ asked.len <= BufferLen
      /\ asked.size \in Nat /\ asked.size <= BufferLen
  BY <1>6, Sizes
<1>8. number \in Nat /\ toSend \in Nat /\ rest \in Nat
  BY <1>6, <1>7, Sizes
<1>9. \A e \in Ends : limit[e] \in Nat
  BY <1>4, Sizes
<1> QED BY <1>1, <1>2, <1>3, <1>4, <1>5, <1>7, <1>8, <1>9

LEMMA RoomLeft ==
  ASSUME Values
  PROVE  /\ Room \in Nat
         /\ inbox["down"] = <<>> /\ wire["down"] = <<>> => Room = SendSpace
<1>1. /\ Len(inbox["down"]) \in Nat /\ Len(wire["down"]) \in Nat
      /\ inbox["down"] = <<>> => Len(inbox["down"]) = 0
      /\ wire["down"] = <<>> => Len(wire["down"]) = 0
  BY Lengths
<1>2. PICK n \in Nat : n = OnTheWay("down")
  <2>1. PICK a \in Nat, c \in Nat : a = Len(inbox["down"]) /\ c = Len(wire["down"])
    BY <1>1, Zenon
  <2>2. a + c \in Nat
    OBVIOUS
  <2>3. OnTheWay("down") = a + c
    BY <2>1, Zenon DEF OnTheWay
  <2> QED BY <2>2, <2>3, Zenon
<1>3. inbox["down"] = <<>> /\ wire["down"] = <<>> => n = 0
  BY <1>1, <1>2 DEF OnTheWay
<1>4. Room = IF n < SendSpace THEN SendSpace - n ELSE 0
  BY <1>2 DEF Room
<1> QED BY <1>3, <1>4, Sizes

\* The messages, and where their bytes lie in the two streams.
LEMMA LengthBytes ==
  ASSUME number \in Nat
  PROVE  /\ Length \in Seq(Byte) /\ Len(Length) = HeaderLen
         /\ \A i \in 1 .. HeaderLen : Length[i] = <<number, "length", i - 1>>
<1>1. HeaderLen - 0 = HeaderLen /\ HeaderLen \in Nat
  BY Sizes
<1>2. Length = [i \in 1 .. HeaderLen |-> <<number, "length", 0 + i - 1>>]
  BY <1>1 DEF Length, Bytes
<1>3. ASSUME NEW i \in 1 .. HeaderLen
      PROVE  Length[i] = <<number, "length", i - 1>> /\ <<number, "length", 0 + i - 1>> \in Byte
  <2>1. Length[i] = <<number, "length", 0 + i - 1>>
    BY <1>2
  <2>2. PICK k \in Nat : k = 0 + i - 1 /\ k = i - 1
    OBVIOUS
  <2>3. <<number, "length", k>> \in Byte
    BY DEF Byte
  <2> QED BY <2>1, <2>2, <2>3, Zenon
<1>4. Length \in [1 .. HeaderLen -> Byte]
  BY <1>2, <1>3
<1> QED BY <1>1, <1>3, <1>4, Sequence

LEMMA BodyBytes ==
  ASSUME number \in Nat, NEW n \in Nat
  PROVE  /\ Body(n) \in Seq(Byte) /\ Len(Body(n)) = n
         /\ \A i \in 1 .. n : Body(n)[i] = <<number, "body", i - 1>>
<1>1. n - 0 = n /\ n \in Nat
  OBVIOUS
<1>2. Body(n) = [i \in 1 .. n |-> <<number, "body", 0 + i - 1>>]
  BY <1>1 DEF Body, Bytes
<1>3. ASSUME NEW i \in 1 .. n
      PROVE  Body(n)[i] = <<number, "body", i - 1>> /\ <<number, "body", 0 + i - 1>> \in Byte
  <2>1. Body(n)[i] = <<number, "body", 0 + i - 1>>
    BY <1>2
  <2>2. PICK k \in Nat : k = 0 + i - 1 /\ k = i - 1
    OBVIOUS
  <2>3. <<number, "body", k>> \in Byte
    BY DEF Byte
  <2> QED BY <2>1, <2>2, <2>3, Zenon
<1>4. Body(n) \in [1 .. n -> Byte]
  BY <1>2, <1>3
<1> QED BY <1>1, <1>3, <1>4, Sequence

LEMMA RequestByte ==
  ASSUME NEW j \in Nat, NEW k
  PROVE  /\ j <= HeaderLen /\ j - 1 = k => RequestStream[j] = <<number, "length", k>>
         /\ ~(j <= HeaderLen) /\ j - HeaderLen - 1 = k => RequestStream[j] = <<number, "body", k>>
<1>1. RequestStream[j] = IF j <= HeaderLen THEN <<number, "length", j - 1>>
                         ELSE <<number, "body", j - HeaderLen - 1>>
  BY DEF RequestStream
<1> QED BY <1>1, Zenon

LEMMA ReplyByte ==
  ASSUME NEW j \in Nat, NEW k
  PROVE  /\ j <= HeaderLen /\ j - 1 = k => ReplyStream[j] = <<number, "length", k>>
         /\ ~(j <= HeaderLen) /\ j <= HeaderLen + ReplyLen /\ j - HeaderLen - 1 = k =>
              ReplyStream[j] = <<number, "body", k>>
         /\ ~(j <= HeaderLen) /\ ~(j <= HeaderLen + ReplyLen) /\ j - HeaderLen - ReplyLen - 1 = k =>
              ReplyStream[j] = <<number, "data", k>>
<1>1. ReplyStream[j] = IF j <= HeaderLen THEN <<number, "length", j - 1>>
                       ELSE IF j <= HeaderLen + ReplyLen THEN <<number, "body", j - HeaderLen - 1>>
                       ELSE <<number, "data", j - HeaderLen - ReplyLen - 1>>
  BY DEF ReplyStream
<1> QED BY <1>1, Zenon

LEMMA Streams ==
  /\ \A i \in 1 .. HeaderLen : /\ RequestStream[i] = <<number, "length", i - 1>>
                               /\ ReplyStream[i] = <<number, "length", i - 1>>
  /\ \A i \in Nat \ {0} : RequestStream[HeaderLen + i] = <<number, "body", i - 1>>
  /\ \A i \in 1 .. ReplyLen : ReplyStream[HeaderLen + i] = <<number, "body", i - 1>>
  /\ \A i \in Nat \ {0} : ReplyStream[ReplyEnd + i] = <<number, "data", i - 1>>
<1>1. ASSUME NEW i \in 1 .. HeaderLen
      PROVE  /\ RequestStream[i] = <<number, "length", i - 1>>
             /\ ReplyStream[i] = <<number, "length", i - 1>>
  <2>1. PICK k : k = i - 1
    OBVIOUS
  <2>2. i \in Nat /\ i <= HeaderLen
    BY Sizes
  <2> QED BY <2>1, <2>2, RequestByte, ReplyByte, Zenon
<1>2. ASSUME NEW i \in Nat \ {0}
      PROVE  RequestStream[HeaderLen + i] = <<number, "body", i - 1>>
  <2>1. PICK j \in Nat, k \in Nat : j = HeaderLen + i /\ k = i - 1
    BY Sizes
  <2>2. ~(j <= HeaderLen) /\ j - HeaderLen - 1 = k
    BY <2>1, Sizes
  <2>3. RequestStream[j] = <<number, "body", k>>
    BY <2>2, RequestByte, Zenon
  <2> QED BY <2>1, <2>3, Zenon
<1>3. ASSUME NEW i \in 1 .. ReplyLen
      PROVE  ReplyStream[HeaderLen + i] = <<number, "body", i - 1>>
  <2>1. PICK j \in Nat, k \in Nat : j = HeaderLen + i /\ k = i - 1
    BY Sizes
  <2>2. ~(j <= HeaderLen) /\ j <= HeaderLen + ReplyLen /\ j - HeaderLen - 1 = k
    BY <2>1, Sizes
  <2>3. ReplyStream[j] = <<number, "body", k>>
    BY <2>2, ReplyByte, Zenon
  <2> QED BY <2>1, <2>3, Zenon
<1>4. ASSUME NEW i \in Nat \ {0}
      PROVE  ReplyStream[ReplyEnd + i] = <<number, "data", i - 1>>
  <2>1. PICK j \in Nat, k \in Nat : j = ReplyEnd + i /\ k = i - 1
    BY Sizes DEF ReplyEnd
  <2>2. ~(j <= HeaderLen) /\ ~(j <= HeaderLen + ReplyLen) /\ j - HeaderLen - ReplyLen - 1 = k
    BY <2>1, Sizes DEF ReplyEnd
  <2>3. ReplyStream[j] = <<number, "data", k>>
    BY <2>2, ReplyByte, Zenon
  <2> QED BY <2>1, <2>3, Zenon
<1> QED BY <1>1, <1>2, <1>3, <1>4, Zenon

\* The type comes right behind the length field, and nowhere else.
LEMMA TypeByte ==
  ASSUME NEW i \in Nat
  PROVE  /\ RequestStream[i + 1] = <<number, "body", 0>> => i = HeaderLen
         /\ ReplyStream[i + 1] = <<number, "body", 0>> => i = HeaderLen
<1>1. PICK j \in Nat : j = i + 1
  OBVIOUS
<1>2. PICK k \in Int, l \in Int, m \in Int :
        k = j - 1 /\ l = j - HeaderLen - 1 /\ m = j - HeaderLen - ReplyLen - 1
  BY Sizes
<1>3. l = 0 => i = HeaderLen
  BY <1>1, <1>2, Sizes
<1>4. \/ RequestStream[j] = <<number, "length", k>>
      \/ RequestStream[j] = <<number, "body", l>>
  BY <1>2, RequestByte, Zenon
<1>5. \/ ReplyStream[j] = <<number, "length", k>>
      \/ ReplyStream[j] = <<number, "body", l>>
      \/ ReplyStream[j] = <<number, "data", m>>
  BY <1>2, ReplyByte, Zenon
<1>6. /\ <<number, "length", k>> # <<number, "body", 0>>
      /\ <<number, "data", m>> # <<number, "body", 0>>
      /\ <<number, "body", l>> = <<number, "body", 0>> => l = 0
  OBVIOUS
<1> QED BY <1>1, <1>3, <1>4, <1>5, <1>6, Zenon

LEMMA RequestBytes ==
  number \in Nat /\ asked.len \in Nat =>
    /\ Length \o Body(asked.len) \in Seq(Byte) /\ Len(Length \o Body(asked.len)) = RequestEnd
    /\ Follow(Length \o Body(asked.len), RequestEnd, RequestStream, 0)
<1> SUFFICES ASSUME number \in Nat, asked.len \in Nat
             PROVE  /\ Length \o Body(asked.len) \in Seq(Byte)
                    /\ Len(Length \o Body(asked.len)) = RequestEnd
                    /\ Follow(Length \o Body(asked.len), RequestEnd, RequestStream, 0)
  OBVIOUS
<1>1. /\ Length \in Seq(Byte) /\ Len(Length) = HeaderLen
      /\ Body(asked.len) \in Seq(Byte) /\ Len(Body(asked.len)) = asked.len
  BY LengthBytes, BodyBytes
<1>2. Follow(Length, HeaderLen, RequestStream, 0)
  <2>1. ASSUME NEW i \in 1 .. HeaderLen
        PROVE  Length[i] = RequestStream[0 + i]
    <3>1. 0 + i = i
      OBVIOUS
    <3> QED BY <3>1, LengthBytes, Streams, Zenon
  <2> QED BY <2>1 DEF Follow
<1>3. Follow(Body(asked.len), asked.len, RequestStream, HeaderLen)
  <2>1. ASSUME NEW i \in 1 .. asked.len
        PROVE  Body(asked.len)[i] = RequestStream[HeaderLen + i]
    <3>1. i \in Nat \ {0}
      OBVIOUS
    <3> QED BY <3>1, BodyBytes, Streams, Zenon
  <2> QED BY <2>1 DEF Follow
<1>4. 0 + HeaderLen = HeaderLen /\ 0 \in Nat
  BY Sizes
<1>5. PICK s \in Seq(Byte), t \in Seq(Byte) : s = Length /\ t = Body(asked.len)
  BY <1>1, Zenon
<1>6. Follow(s, Len(s), RequestStream, 0) /\ Follow(t, Len(t), RequestStream, 0 + Len(s))
  BY <1>1, <1>2, <1>3, <1>4, <1>5, Zenon
<1>7. /\ s \o t \in Seq(Byte) /\ Len(s \o t) = Len(s) + Len(t)
      /\ Follow(s \o t, Len(s \o t), RequestStream, 0)
  BY <1>4, <1>6, FollowJoin, Zenon
<1>8. Len(s) + Len(t) = RequestEnd
  BY <1>1, <1>5, Zenon DEF RequestEnd
<1> QED BY <1>5, <1>7, <1>8, Zenon

LEMMA ReplyBytes ==
  ASSUME number \in Nat
  PROVE  /\ Length \o Body(ReplyLen) \in Seq(Byte) /\ Len(Length \o Body(ReplyLen)) = ReplyEnd
         /\ Follow(Length \o Body(ReplyLen), ReplyEnd, ReplyStream, 0)
<1>1. /\ Length \in Seq(Byte) /\ Len(Length) = HeaderLen
      /\ Body(ReplyLen) \in Seq(Byte) /\ Len(Body(ReplyLen)) = ReplyLen
  BY LengthBytes, BodyBytes, Sizes
<1>2. Follow(Length, HeaderLen, ReplyStream, 0)
  <2>1. ASSUME NEW i \in 1 .. HeaderLen
        PROVE  Length[i] = ReplyStream[0 + i]
    <3>1. 0 + i = i
      OBVIOUS
    <3> QED BY <3>1, LengthBytes, Streams, Zenon
  <2> QED BY <2>1 DEF Follow
<1>3. Follow(Body(ReplyLen), ReplyLen, ReplyStream, HeaderLen)
  <2>1. ReplyLen \in Nat
    BY Sizes
  <2>2. \A i \in 1 .. ReplyLen : Body(ReplyLen)[i] = ReplyStream[HeaderLen + i]
    BY <2>1, BodyBytes, Streams, Zenon
  <2> QED BY <2>2 DEF Follow
<1>4. 0 + HeaderLen = HeaderLen /\ 0 \in Nat
  BY Sizes
<1>5. PICK s \in Seq(Byte), t \in Seq(Byte) : s = Length /\ t = Body(ReplyLen)
  BY <1>1, Zenon
<1>6. Follow(s, Len(s), ReplyStream, 0) /\ Follow(t, Len(t), ReplyStream, 0 + Len(s))
  BY <1>1, <1>2, <1>3, <1>4, <1>5, Zenon
<1>7. /\ s \o t \in Seq(Byte) /\ Len(s \o t) = Len(s) + Len(t)
      /\ Follow(s \o t, Len(s \o t), ReplyStream, 0)
  BY <1>4, <1>6, FollowJoin, Zenon
<1>8. Len(s) + Len(t) = ReplyEnd
  BY <1>1, <1>5, Zenon DEF ReplyEnd
<1> QED BY <1>5, <1>7, <1>8, Zenon

LEMMA DataBytes ==
  ASSUME number \in Nat, NEW at \in Nat, NEW n \in Nat
  PROVE  /\ Bytes("data", at, at + n) \in Seq(Byte) /\ Len(Bytes("data", at, at + n)) = n
         /\ Follow(Bytes("data", at, at + n), n, ReplyStream, ReplyEnd + at)
<1>1. at + n - at = n
  OBVIOUS
<1>2. Bytes("data", at, at + n) = [i \in 1 .. n |-> <<number, "data", at + i - 1>>]
  BY <1>1 DEF Bytes
<1>3. ASSUME NEW i \in 1 .. n
      PROVE  /\ Bytes("data", at, at + n)[i] = ReplyStream[ReplyEnd + at + i]
             /\ <<number, "data", at + i - 1>> \in Byte
  <2>1. Bytes("data", at, at + n)[i] = <<number, "data", at + i - 1>>
    BY <1>2
  <2>2. PICK j \in Nat \ {0}, k \in Nat, m \in Nat :
          j = at + i /\ k = at + i - 1 /\ k = j - 1 /\ m = ReplyEnd + j /\ m = ReplyEnd + at + i
    BY Sizes DEF ReplyEnd
  <2>3. <<number, "data", k>> \in Byte
    BY DEF Byte
  <2>4. ReplyStream[ReplyEnd + j] = <<number, "data", j - 1>>
    BY Streams, Zenon
  <2> QED BY <2>1, <2>2, <2>3, <2>4, Zenon
<1>4. Bytes("data", at, at + n) \in [1 .. n -> Byte]
  BY <1>2, <1>3
<1> QED BY <1>3, <1>4, Sequence DEF Follow

\* A length field that is there is read right.
LEMMA LengthRead ==
  ASSUME Values, NEW e \in Ends, NEW sent, Len(buffer[e]) >= HeaderLen,
         \/ Follow(buffer[e], HeaderLen, RequestStream, 0)
         \/ Follow(buffer[e], HeaderLen, ReplyStream, 0)
  PROVE  LengthField(e, sent) = {sent}
<1>1. buffer[e] \in Seq(Byte) /\ HeaderLen \in 0 .. Len(buffer[e])
  BY Lengths, Sizes
<1>2. /\ SubSeq(buffer[e], 1, HeaderLen) \in Seq(Byte)
      /\ Len(SubSeq(buffer[e], 1, HeaderLen)) = HeaderLen
      /\ \A i \in 1 .. HeaderLen : SubSeq(buffer[e], 1, HeaderLen)[i] = buffer[e][i]
  BY <1>1, Cut, Zenon
<1>3. number \in Nat
  BY Lengths
<1>4. ASSUME NEW i \in 1 .. HeaderLen
      PROVE  buffer[e][i] = Length[i]
  <2>1. 0 + i = i
    OBVIOUS
  <2>2. buffer[e][i] = RequestStream[i] \/ buffer[e][i] = ReplyStream[i]
    BY <2>1, Zenon DEF Follow
  <2> QED BY <1>3, <2>2, Streams, LengthBytes, Zenon
<1>5. SubSeq(buffer[e], 1, HeaderLen) = Length
  BY <1>2, <1>3, <1>4, LengthBytes, SeqEqual, Zenon
<1> QED BY <1>5 DEF LengthField

\* So is a body.
LEMMA BodyRead ==
  ASSUME Values, NEW e \in Ends, NEW n \in Nat, n <= Len(buffer[e]),
         \/ Follow(buffer[e], n, RequestStream, HeaderLen)
         \/ n = ReplyLen /\ Follow(buffer[e], n, ReplyStream, HeaderLen)
  PROVE  Content(e, n) = Body(n)
<1>1. buffer[e] \in Seq(Byte) /\ n \in 0 .. Len(buffer[e])
  BY Lengths
<1>2. /\ SubSeq(buffer[e], 1, n) \in Seq(Byte) /\ Len(SubSeq(buffer[e], 1, n)) = n
      /\ \A i \in 1 .. n : SubSeq(buffer[e], 1, n)[i] = buffer[e][i]
  BY <1>1, Cut, Zenon
<1>3. number \in Nat
  BY Lengths
<1>4. ASSUME NEW i \in 1 .. n
      PROVE  buffer[e][i] = Body(n)[i]
  <2>1. i \in Nat \ {0}
    OBVIOUS
  <2>2. CASE Follow(buffer[e], n, RequestStream, HeaderLen)
    BY <1>3, <2>1, <2>2, Streams, BodyBytes, Zenon DEF Follow
  <2>3. CASE n = ReplyLen /\ Follow(buffer[e], n, ReplyStream, HeaderLen)
    BY <1>3, <2>1, <2>3, Streams, BodyBytes, Zenon DEF Follow
  <2> QED BY <2>2, <2>3
<1>5. SubSeq(buffer[e], 1, n) = Body(n)
  <2>1. PICK s \in Seq(Byte), t \in Seq(Byte) : s = SubSeq(buffer[e], 1, n) /\ t = Body(n)
    BY <1>2, <1>3, BodyBytes, Zenon
  <2>2. Len(s) = n /\ Len(t) = n /\ \A i \in 1 .. n : s[i] = t[i]
    BY <1>2, <1>3, <1>4, <2>1, BodyBytes, Zenon
  <2> QED BY <2>1, <2>2, SeqEqual, Zenon
<1> QED BY <1>5 DEF Content

\* A buffer that starts with a body starts where the body does.
LEMMA BodyPlace ==
  ASSUME Values, NEW e \in Ends, NEW n \in Nat \ {0}, n <= Len(buffer[e]),
         Content(e, n) = Body(n), NEW m \in Nat \ {0}, NEW b \in Nat,
         Follow(buffer[e], m, RequestStream, b) \/ Follow(buffer[e], m, ReplyStream, b)
  PROVE  b = HeaderLen
<1>1. buffer[e] \in Seq(Byte) /\ n \in 0 .. Len(buffer[e]) /\ 1 \in 1 .. n /\ 1 \in 1 .. m
  BY Lengths
<1>2. SubSeq(buffer[e], 1, n)[1] = buffer[e][1]
  BY <1>1, Cut, Zenon
<1>3. number \in Nat /\ n \in Nat
  BY Lengths
<1>4. PICK k \in Nat : k = 0 /\ k = 1 - 1
  OBVIOUS
<1>5. Body(n)[1] = <<number, "body", 0>>
  BY <1>1, <1>3, <1>4, BodyBytes, Zenon
<1>6. buffer[e][1] = RequestStream[b + 1] \/ buffer[e][1] = ReplyStream[b + 1]
  BY <1>1, Zenon DEF Follow
<1> QED BY <1>2, <1>5, <1>6, TypeByte, Zenon DEF Content

-----------------------------------------------------------------------------
(***************************************************************************)
(* What a step leaves alone.                                               *)
(***************************************************************************)
LEMMA StreamsKept ==
  ASSUME UNCHANGED <<number, asked>>
  PROVE  /\ RequestStream' = RequestStream /\ ReplyStream' = ReplyStream
         /\ RequestEnd' = RequestEnd /\ ReplyEnd' = ReplyEnd /\ DataEnd' = DataEnd
BY DEF RequestStream, ReplyStream, RequestEnd, ReplyEnd, DataEnd

LEMMA UpKept ==
  ASSUME UpStream, UNCHANGED <<splits, number, asked>>,
         wire'["up"] = wire["up"], inbox'["up"] = inbox["up"], cuts'["up"] = cuts["up"],
         buffer'["server"] = buffer["server"], limit'["server"] = limit["server"],
         sizeRead'["server"] = sizeRead["server"], pc'["server"] = pc["server"],
         pc'["client"] # "idle" => pc["client"] # "idle"
  PROVE  UpStream'
<1>1. SUFFICES ASSUME pc'["client"] # "idle"
               PROVE  \E b \in 0 .. RequestEnd' : UpAt(b)' /\ ("up" \notin splits' => UpWhole(b)')
  BY DEF UpStream
<1>2. PICK b \in 0 .. RequestEnd : UpAt(b) /\ ("up" \notin splits => UpWhole(b))
  BY <1>1 DEF UpStream
<1>3. RequestStream' = RequestStream /\ RequestEnd' = RequestEnd
  BY StreamsKept
<1>4. Fresh' = Fresh
  BY DEF Fresh
<1>5. UpAt(b)'
  BY <1>2, <1>3, <1>4, Zenon DEF UpAt, Follow
<1>6. UpWhole(b) => UpWhole(b)'
  BY <1>3, <1>4, Zenon DEF UpWhole
<1> QED BY <1>2, <1>3, <1>5, <1>6, Zenon

\* Nothing is left of the request once the server has answered it.
LEMMA UpNothing ==
  ASSUME Values', wire'["up"] = <<>>, inbox'["up"] = <<>>,
         pc'["server"] \notin {"length", "packet"}
  PROVE  UpStream'
<1>1. Len(<<>>) = 0
  BY EmptySeq
<1>2. Fresh' = 0
  BY DEF Fresh
<1>3. RequestEnd' \in Nat
  <2>1. asked'.len \in RequestLens \cup {0}
    BY DEF Values, TaskValues
  <2> QED BY <2>1, Sizes DEF RequestEnd
<1>4. UpAt(0)'
  BY <1>1, <1>2, <1>3 DEF UpAt, Follow
<1>5. UpWhole(0)'
  BY DEF UpWhole
<1>6. 0 \in 0 .. RequestEnd'
  BY <1>3
<1> QED BY <1>4, <1>5, <1>6, Zenon DEF UpStream

LEMMA DownKept ==
  ASSUME DownStream, UNCHANGED <<splits, taskVars>>,
         wire'["down"] = wire["down"], inbox'["down"] = inbox["down"], cuts'["down"] = cuts["down"],
         buffer'["client"] = buffer["client"], limit'["client"] = limit["client"],
         sizeRead'["client"] = sizeRead["client"],
         pc'["client"] \in {pc["client"], "dropped"},
         pc["client"] # "idle" \/ pc'["client"] = "idle",
         conn' = "open" => conn = "open",
         Unanswered' => Unanswered, Owing' => Owing
  PROVE  DownStream'
<1>1. SUFFICES ASSUME pc'["client"] # "idle"
               PROVE  \E b \in 0 .. DataEnd' : DownAt(b)' /\ ("down" \notin splits' => DownWhole(b)')
  BY DEF DownStream
<1>2. PICK b \in 0 .. DataEnd : DownAt(b) /\ ("down" \notin splits => DownWhole(b))
  BY <1>1 DEF DownStream
<1>3. ReplyStream' = ReplyStream /\ ReplyEnd' = ReplyEnd /\ DataEnd' = DataEnd
  BY StreamsKept DEF taskVars
<1>4. Arrived(b)' = Arrived(b) /\ (Dry => Dry')
  BY DEF Arrived, Dry
<1>5. pc'["client"] \in {"length", "packet", "data"} => pc'["client"] = pc["client"]
  OBVIOUS
<1>6. DownAt(b)'
  <2>1. /\ Follow(buffer["client"], sizeRead["client"], ReplyStream, b)'
        /\ Follow(inbox["down"], Len(inbox["down"]), ReplyStream, b + sizeRead["client"])'
        /\ Follow(wire["down"], Len(wire["down"]), ReplyStream, Arrived(b))'
    BY <1>2, <1>3, <1>4, Zenon DEF DownAt, DownBytes, DownCall, Follow
  <2>2. /\ (Arrived(b) + Len(wire["down"]) + toSend <= DataEnd)'
        /\ (Owing => Arrived(b) + Len(wire["down"]) + toSend = DataEnd)'
        /\ (Unanswered => b + sizeRead["client"] = 0)'
    BY <1>2, <1>3, <1>4, Zenon DEF DownAt, DownBytes, DownCall, taskVars
  <2>3. /\ (pc["client"] = "length" => b = 0 /\ (limit["client"] = HeaderLen \/ Dry))'
        /\ (pc["client"] = "packet" => b >= HeaderLen \/ (Dry /\ sizeRead["client"] = 0))'
        /\ (pc["client"] = "data" =>
              /\ b >= ReplyEnd + Len(placed) /\ rest = asked.size - Len(placed)
              /\ limit["client"] <= rest)'
    BY <1>2, <1>3, <1>4, <1>5, Zenon DEF DownAt, DownBytes, DownCall, taskVars
  <2> QED BY <2>1, <2>2, <2>3, Zenon DEF DownAt, DownBytes, DownCall
<1>7. DownWhole(b) => DownWhole(b)'
  BY <1>3, <1>4, <1>5, Zenon DEF DownWhole, taskVars
<1> QED BY <1>2, <1>3, <1>6, <1>7, Zenon

LEMMA DataKept ==
  ASSUME ReplyThenData, UNCHANGED <<splits, number, placed>>
  PROVE  ReplyThenData'
BY DEF ReplyThenData, DataInPlace, Bytes

\* A step of the server, or of the network, that only moves the request.
LEMMA RequestMoves ==
  ASSUME WInv, Values', UpStream', UNCHANGED <<splits, taskVars>>,
         wire'["down"] = wire["down"], inbox'["down"] = inbox["down"], cuts'["down"] = cuts["down"],
         buffer'["client"] = buffer["client"], limit'["client"] = limit["client"],
         sizeRead'["client"] = sizeRead["client"], pc'["client"] = pc["client"],
         conn' \in {conn, "closed"},
         pc["server"] # "send", pc'["server"] # "send",
         Unanswered' => Unanswered, "up" \in splits \/ Unanswered'
  PROVE  WInv'
<1>1. DownStream'
  <2>1. conn' = "open" => conn = "open"
    OBVIOUS
  <2>2. ~Owing'
    BY DEF Owing
  <2> QED BY <2>1, <2>2, DownKept DEF WInv
<1>2. ReplyThenData'
  BY DataKept DEF WInv, taskVars
<1>3. Turns'
  <2>1. /\ (pc["server"] = "send" <=> toSend > 0)'
        /\ (toSend <= asked.size)'
        /\ (pc["client"] # "idle" => asked.len # 0 /\ asked.size # 0)'
        /\ (pc["client"] = "idle" =>
              /\ ~Unanswered /\ toSend = 0 /\ rest = 0
              /\ inbox["down"] = <<>> /\ wire["down"] = <<>>)'
        /\ (pc["client"] \in {"length", "packet"} => rest = 0 /\ placed = <<>>)'
    BY DEF WInv, Turns, taskVars
  <2>2. (Unanswered => inbox["down"] = <<>> /\ wire["down"] = <<>> /\ toSend = 0)'
    BY DEF WInv, Turns, taskVars
  <2>3. (conn = "reset" => wire["down"] = <<>>)'
    BY DEF WInv, Turns
  <2> QED BY <2>1, <2>2, <2>3, Zenon DEF Turns
<1> QED BY <1>1, <1>2, <1>3 DEF WInv

\* One of the client, or of the network, that only moves the reply and its data.
LEMMA ReplyMoves ==
  ASSUME WInv, Values', DownStream', ReplyThenData',
         UNCHANGED <<splits, number, asked, toSend>>,
         wire'["up"] = wire["up"], inbox'["up"] = inbox["up"], cuts'["up"] = cuts["up"],
         buffer'["server"] = buffer["server"], limit'["server"] = limit["server"],
         sizeRead'["server"] = sizeRead["server"], pc'["server"] = pc["server"],
         conn' \in {conn, "closed"},
         wire["down"] = <<>> => wire'["down"] = <<>>,
         wire["down"] = <<>> /\ inbox["down"] = <<>> => inbox'["down"] = <<>>,
         pc'["client"] # "idle" => pc["client"] # "idle",
         pc'["client"] = "idle" =>
           /\ ~Unanswered /\ toSend = 0 /\ rest' = 0
           /\ inbox'["down"] = <<>> /\ wire'["down"] = <<>>,
         pc'["client"] \in {"length", "packet"} => rest' = 0 /\ placed' = <<>>
  PROVE  WInv'
<1>1. UpStream'
  BY UpKept DEF WInv
<1>2. Unanswered' = Unanswered
  BY DEF Unanswered
<1>3. Turns'
  <2>1. /\ (pc["server"] = "send" <=> toSend > 0)'
        /\ (toSend <= asked.size)'
        /\ (pc["client"] # "idle" => asked.len # 0 /\ asked.size # 0)'
    BY DEF WInv, Turns
  <2>2. /\ (pc["client"] = "idle" =>
              /\ ~Unanswered /\ toSend = 0 /\ rest = 0
              /\ inbox["down"] = <<>> /\ wire["down"] = <<>>)'
        /\ (pc["client"] \in {"length", "packet"} => rest = 0 /\ placed = <<>>)'
    BY <1>2, Zenon
  <2>3. (Unanswered => inbox["down"] = <<>> /\ wire["down"] = <<>> /\ toSend = 0)'
    BY <1>2 DEF WInv, Turns
  <2>4. (conn = "reset" => wire["down"] = <<>>)'
    BY DEF WInv, Turns
  <2> QED BY <2>1, <2>2, <2>3, <2>4, Zenon DEF Turns
<1> QED BY <1>1, <1>3 DEF WInv
-----------------------------------------------------------------------------
(***************************************************************************)
(* What the parts of a step do: arriving, writing, calling Socket::read    *)
(* and returning from it.                                                  *)
(***************************************************************************)
LEMMA FollowArrive ==
  ASSUME NEW box \in Seq(Byte), NEW w \in Seq(Byte), NEW n \in 0 .. Len(w), NEW stream,
         NEW at \in Nat, Follow(box, Len(box), stream, at), Follow(w, Len(w), stream, at + Len(box))
  PROVE  LET box2 == box \o SubSeq(w, 1, n)
             w2   == SubSeq(w, n + 1, Len(w))
         IN  Follow(box2, Len(box2), stream, at) /\ Follow(w2, Len(w2), stream, at + Len(box2))
<1> DEFINE box2 == box \o SubSeq(w, 1, n)
           w2   == SubSeq(w, n + 1, Len(w))
<1>1. Len(box) \in Nat /\ Len(w) \in Nat /\ at + Len(box) \in Nat
  BY LenProperties
<1>2. PICK t \in Seq(Byte) : t = SubSeq(w, 1, n) /\ Len(t) = n
  BY Cut, Zenon
<1>3. Follow(t, Len(t), stream, at + Len(box)) /\ Follow(w2, Len(w) - n, stream, at + Len(box) + n)
  BY <1>1, <1>2, FollowCut, Zenon
<1>4. box2 = box \o t
  BY <1>2, Zenon
<1>5. Len(box2) = Len(box) + Len(t) /\ Follow(box2, Len(box2), stream, at)
  <2>1. Len(box \o t) = Len(box) + Len(t) /\ Follow(box \o t, Len(box \o t), stream, at)
    BY <1>3, FollowJoin, Zenon
  <2> QED BY <1>4, <2>1, Zenon
<1>6. Len(w2) = Len(w) - n /\ at + Len(box) + n = at + Len(box2)
  <2>1. Len(w2) = Len(w) - n
    BY Cut, Zenon
  <2>2. \A l \in Nat : at + l + n = at + (l + n)
    OBVIOUS
  <2> QED BY <1>1, <1>2, <1>5, <2>1, <2>2, Zenon
<1> HIDE DEF box2, w2
<1>7. Follow(box2, Len(box2), stream, at) /\ Follow(w2, Len(w2), stream, at + Len(box2))
  BY <1>3, <1>5, <1>6, Zenon
<1> QED BY <1>7 DEF box2, w2

LEMMA FollowRead ==
  ASSUME NEW old \in Seq(Byte), NEW at \in 0 .. Len(old), NEW box \in Seq(Byte),
         NEW n \in 0 .. Len(box), NEW stream, NEW b \in Nat, NEW new, NEW box2,
         Follow(old, at, stream, b), Follow(box, Len(box), stream, b + at),
         new = Overwrite(old, at, SubSeq(box, 1, n)), box2 = SubSeq(box, n + 1, Len(box))
  PROVE  /\ Follow(new, at + n, stream, b)
         /\ Follow(box2, Len(box2), stream, b + (at + n))
<1>1. Len(box) \in Nat /\ Len(old) \in Nat /\ b + at \in Nat /\ b + at + n = b + (at + n)
  BY LenProperties
<1>2. PICK t \in Seq(Byte) : t = SubSeq(box, 1, n) /\ Len(t) = n
  BY Cut, Zenon
<1>3. Follow(t, Len(t), stream, b + at) /\ Follow(box2, Len(box) - n, stream, b + at + n)
  BY <1>1, <1>2, FollowCut, Zenon
<1>4. Follow(Overwrite(old, at, t), at + Len(t), stream, b)
  BY <1>3, FollowOverwritten, Zenon
<1>5. Len(box2) = Len(box) - n
  BY Cut, Zenon
<1> QED BY <1>1, <1>2, <1>3, <1>4, <1>5, Zenon

LEMMA NetKept ==
  ASSUME Values, UNCHANGED netVars
  PROVE  NetValues'
BY DEF Values, NetValues, netVars

LEMMA ReadKept ==
  ASSUME Values, UNCHANGED readVars
  PROVE  ReadValues'
BY DEF Values, ReadValues, readVars

LEMMA TaskKept ==
  ASSUME Values, UNCHANGED taskVars
  PROVE  TaskValues'
BY DEF Values, TaskValues, taskVars

LEMMA PlaceKept ==
  ASSUME Values, UNCHANGED <<pc, faults>>
  PROVE  PlaceValues'
BY DEF Values, PlaceValues

LEMMA Moved ==
  ASSUME Values, UNCHANGED faults,
         \/ \E label \in {"idle", "length", "packet", "send"} : Goto("server", label)
         \/ \E label \in {"idle", "length", "packet", "data", "dropped"} : Goto("client", label)
  PROVE  /\ PlaceValues'
         /\ pc'["server"] = pc["server"] \/ pc'["client"] = pc["client"]
         /\ \A e \in Ends : \A label : Goto(e, label) => pc'[e] = label
BY DEF Values, PlaceValues, Goto, Ends

LEMMA Arrives ==
  ASSUME Values, NEW d \in Dirs, Arrive(d)
  PROVE  /\ Values'
         /\ \E n \in 1 .. Len(wire[d]) :
              /\ d \notin splits => n \in cuts[d]
              /\ inbox'[d] = inbox[d] \o SubSeq(wire[d], 1, n)
              /\ wire'[d] = SubSeq(wire[d], n + 1, Len(wire[d]))
              /\ cuts'[d] = {k - n : k \in {c \in cuts[d] : c > n}}
              /\ Len(inbox'[d]) = Len(inbox[d]) + n /\ Len(wire'[d]) = Len(wire[d]) - n
         /\ \A o \in Dirs \ {d} :
              wire'[o] = wire[o] /\ inbox'[o] = inbox[o] /\ cuts'[o] = cuts[o]
<1>1. PICK n \in IF d \in splits THEN 1 .. Len(wire[d]) ELSE cuts[d] :
        /\ inbox' = [inbox EXCEPT ![d] = @ \o SubSeq(wire[d], 1, n)]
        /\ wire' = [wire EXCEPT ![d] = SubSeq(@, n + 1, Len(@))]
        /\ cuts' = [cuts EXCEPT ![d] = {k - n : k \in {c \in @ : c > n}}]
  BY DEF Arrive
<1>2. n \in 1 .. Len(wire[d]) /\ cuts[d] \subseteq 1 .. Len(wire[d])
  BY <1>1 DEF Values, NetValues
<1>3. wire[d] \in Seq(Byte) /\ inbox[d] \in Seq(Byte) /\ Len(wire[d]) \in Nat /\ n \in 0 .. Len(wire[d])
  BY <1>2, Lengths
<1>4. /\ inbox'[d] = inbox[d] \o SubSeq(wire[d], 1, n)
      /\ wire'[d] = SubSeq(wire[d], n + 1, Len(wire[d]))
      /\ cuts'[d] = {k - n : k \in {c \in cuts[d] : c > n}}
      /\ \A o \in Dirs \ {d} :
           wire'[o] = wire[o] /\ inbox'[o] = inbox[o] /\ cuts'[o] = cuts[o]
  BY <1>1 DEF Values, NetValues
<1>5. /\ SubSeq(wire[d], 1, n) \in Seq(Byte)
      /\ wire'[d] \in Seq(Byte) /\ Len(wire'[d]) = Len(wire[d]) - n
  BY <1>3, <1>4, Cut, Zenon
<1>6. inbox'[d] \in Seq(Byte) /\ Len(inbox'[d]) = Len(inbox[d]) + n
  <2>1. Len(SubSeq(wire[d], 1, n)) = n
    BY <1>3, Cut, Zenon
  <2>2. PICK q \in Seq(Byte), r \in Seq(Byte) : q = inbox[d] /\ r = SubSeq(wire[d], 1, n)
    BY <1>3, <1>5, Zenon
  <2>3. q \o r \in Seq(Byte) /\ Len(q \o r) = Len(q) + Len(r)
    BY ConcatProperties
  <2> QED BY <1>4, <2>1, <2>2, <2>3, Zenon
<1>7. cuts'[d] \in SUBSET Nat /\ cuts'[d] \subseteq 1 .. Len(wire'[d])
  BY <1>2, <1>3, <1>4, <1>5
<1>8. NetValues'
  <2>1. wire' \in [Dirs -> Seq(Byte)]
    BY <1>1, <1>4, <1>5, Zenon DEF Values, NetValues
  <2>2. inbox' \in [Dirs -> Seq(Byte)]
    BY <1>1, <1>4, <1>6, Zenon DEF Values, NetValues
  <2>3. cuts' \in [Dirs -> SUBSET Nat]
    BY <1>1, <1>4, <1>7, Zenon DEF Values, NetValues
  <2>4. \A o \in Dirs : cuts'[o] \subseteq 1 .. Len(wire'[o])
    BY <1>4, <1>7, Zenon DEF Values, NetValues
  <2>5. splits' \subseteq Splits /\ conn' \in {"open", "closed", "reset"}
    BY DEF Arrive, Values, NetValues
  <2> QED BY <2>1, <2>2, <2>3, <2>4, <2>5 DEF NetValues
<1>9. ReadValues' /\ TaskValues' /\ PlaceValues'
  BY ReadKept, TaskKept, PlaceKept DEF Arrive
<1>10. n \in 1 .. Len(wire[d]) /\ (d \notin splits => n \in cuts[d])
  BY <1>1, <1>2
<1> QED BY <1>4, <1>5, <1>6, <1>8, <1>9, <1>10, Zenon DEF Values

LEMMA Written ==
  ASSUME Values, NEW d \in Dirs, NEW bytes \in Seq(Byte), bytes # <<>>, Write(d, bytes),
         UNCHANGED <<splits, inbox, conn>>
  PROVE  /\ NetValues'
         /\ wire'[d] = wire[d] \o bytes /\ Len(wire'[d]) = Len(wire[d]) + Len(bytes)
         /\ cuts'[d] = IF d \in splits THEN cuts[d] ELSE cuts[d] \cup {Len(wire[d]) + Len(bytes)}
         /\ \A o \in Dirs \ {d} : wire'[o] = wire[o] /\ cuts'[o] = cuts[o]
<1>1. wire[d] \in Seq(Byte) /\ Len(wire[d]) \in Nat /\ Len(bytes) \in Nat \ {0}
  BY Lengths, EmptySeq
<1>2. /\ wire'[d] = wire[d] \o bytes
      /\ cuts'[d] = IF d \in splits THEN cuts[d] ELSE cuts[d] \cup {Len(wire[d]) + Len(bytes)}
      /\ \A o \in Dirs \ {d} : wire'[o] = wire[o] /\ cuts'[o] = cuts[o]
  BY DEF Write, Values, NetValues
<1>3. wire'[d] \in Seq(Byte) /\ Len(wire'[d]) = Len(wire[d]) + Len(bytes)
  BY <1>1, <1>2, ConcatProperties
<1>4. cuts'[d] \in SUBSET Nat /\ cuts'[d] \subseteq 1 .. Len(wire'[d])
  <2>1. cuts[d] \subseteq 1 .. Len(wire[d])
    BY DEF Values, NetValues
  <2>2. Len(wire[d]) + Len(bytes) \in 1 .. Len(wire'[d]) /\ 1 .. Len(wire[d]) \subseteq 1 .. Len(wire'[d])
    BY <1>1, <1>3
  <2>3. cuts'[d] \subseteq 1 .. Len(wire'[d])
    BY <1>2, <2>1, <2>2, Zenon
  <2> QED BY <1>1, <1>3, <2>3
<1>5. wire' \in [Dirs -> Seq(Byte)]
  BY <1>2, <1>3, Zenon DEF Write, Values, NetValues
<1>6. cuts' \in [Dirs -> SUBSET Nat]
  <2>1. cuts' \in [Dirs -> SUBSET Nat] \/ \E x : cuts' = [cuts EXCEPT ![d] = x]
    BY Zenon DEF Write, Values, NetValues
  <2> QED BY <1>4, <2>1, Zenon DEF Values, NetValues
<1>7. \A o \in Dirs : cuts'[o] \subseteq 1 .. Len(wire'[o])
  BY <1>2, <1>4, Zenon DEF Values, NetValues
<1>8. splits' \subseteq Splits /\ inbox' \in [Dirs -> Seq(Byte)] /\ conn' \in {"open", "closed", "reset"}
  BY DEF Values, NetValues
<1> QED BY <1>2, <1>3, <1>5, <1>6, <1>7, <1>8 DEF NetValues

LEMMA Called ==
  ASSUME Values, NEW e \in Ends, NEW n \in Nat, NEW label, Call(e, n, label), UNCHANGED buffer
  PROVE  /\ ReadValues'
         /\ limit'[e] = LimitOf(n) /\ sizeRead'[e] = 0
         /\ \A o \in Ends \ {e} : limit'[o] = limit[o] /\ sizeRead'[o] = sizeRead[o]
         /\ Goto(e, label)
<1>1. LimitOf(n) \in 0 .. BufferLen
  BY Limits
<1>2. /\ limit' \in [Ends -> 0 .. BufferLen] /\ limit'[e] = LimitOf(n)
      /\ \A o \in Ends \ {e} : limit'[o] = limit[o]
  BY <1>1, Zenon DEF Call, Values, ReadValues
<1>3. /\ sizeRead' \in [Ends -> Nat] /\ sizeRead'[e] = 0
      /\ \A o \in Ends \ {e} : sizeRead'[o] = sizeRead[o]
  <2>1. 0 \in Nat
    OBVIOUS
  <2> QED BY <2>1, Zenon DEF Call, Values, ReadValues
<1>4. \A o \in Ends : sizeRead'[o] <= Len(buffer'[o]) /\ Len(buffer'[o]) < BufferLen + ReadUnit
  <2>1. ASSUME NEW o \in Ends
        PROVE  sizeRead'[o] <= Len(buffer'[o]) /\ Len(buffer'[o]) < BufferLen + ReadUnit
    <3>1. Len(buffer[o]) \in Nat /\ sizeRead[o] <= Len(buffer[o]) /\ Len(buffer[o]) < BufferLen + ReadUnit
      BY Lengths DEF Values, ReadValues
    <3>2. sizeRead'[o] = 0 \/ sizeRead'[o] = sizeRead[o]
      BY <1>3, Zenon
    <3> QED BY <3>1, <3>2
  <2> QED BY <2>1
<1> QED BY <1>2, <1>3, <1>4 DEF Values, ReadValues, Call

LEMMA Returned ==
  ASSUME Values, NEW e \in Ends, NEW n \in Returns(e)
  PROVE  /\ Reading(e)
         /\ n = -1 \/ n = sizeRead[e]
         /\ n = -1 => e = "client" /\ conn = "closed" /\ inbox["down"] = <<>> /\ wire["down"] = <<>>
         /\ n # -1 => sizeRead[e] >= limit[e] \/ (e = "server" /\ inbox["up"] = <<>>)
BY Lengths DEF Returns, Incoming, Ends

LEMMA ReadsSome ==
  ASSUME Values, NEW e \in Ends, NEW d \in Dirs, d = Incoming(e), ReadSome(e)
  PROVE  /\ Values' /\ Reading(e)
         /\ \E n \in 1 .. Len(inbox[d]) :
              /\ n <= limit[e] /\ n <= ReadUnit /\ sizeRead[e] < limit[e]
              /\ n = LeastOf(LeastOf(limit[e], ReadUnit), Len(inbox[d]))
              /\ buffer'[e] = Overwrite(buffer[e], sizeRead[e], SubSeq(inbox[d], 1, n))
              /\ inbox'[d] = SubSeq(inbox[d], n + 1, Len(inbox[d]))
              /\ Len(inbox'[d]) = Len(inbox[d]) - n
              /\ sizeRead'[e] = sizeRead[e] + n
         /\ \A o \in Ends \ {e} : buffer'[o] = buffer[o] /\ sizeRead'[o] = sizeRead[o]
         /\ \A o \in Dirs \ {d} : inbox'[o] = inbox[o]
<1>1. d = Incoming(e)
  OBVIOUS
<1>2. PICK n : n = LeastOf(LeastOf(limit[e], ReadUnit), Len(inbox[d]))
  OBVIOUS
<1>3. /\ Reading(e)
      /\ n > 0 /\ sizeRead[e] < limit[e]
      /\ buffer' = [buffer EXCEPT ![e] = Overwrite(@, sizeRead[e], SubSeq(inbox[d], 1, n))]
      /\ inbox' = [inbox EXCEPT ![d] = SubSeq(@, n + 1, Len(@))]
      /\ sizeRead' = [sizeRead EXCEPT ![e] = @ + n]
      /\ UNCHANGED <<splits, wire, cuts, conn, pc, limit, taskVars, faults>>
  BY <1>1, <1>2, Zenon DEF ReadSome, AskFor
<1>4. /\ Len(inbox[d]) \in Nat /\ limit[e] \in Nat /\ limit[e] <= BufferLen /\ sizeRead[e] \in Nat
      /\ inbox[d] \in Seq(Byte) /\ buffer[e] \in Seq(Byte) /\ Len(buffer[e]) \in Nat
      /\ sizeRead[e] <= Len(buffer[e]) /\ Len(buffer[e]) < BufferLen + ReadUnit
  <2>1. limit[e] \in 0 .. BufferLen /\ BufferLen \in Nat
    BY Sizes, Zenon DEF Values, ReadValues
  <2>2. limit[e] \in Nat /\ limit[e] <= BufferLen
    BY <2>1
  <2> QED BY <2>2, Lengths, Zenon DEF Values, ReadValues
<1>5. n \in 1 .. Len(inbox[d]) /\ n \in 0 .. Len(inbox[d]) /\ n <= limit[e] /\ n <= ReadUnit
  <2>1. PICK l \in Nat, i \in Nat, u \in Nat :
          l = limit[e] /\ i = Len(inbox[d]) /\ u = ReadUnit
    BY <1>4, Sizes, Zenon
  <2>2. n = LeastOf(LeastOf(l, u), i) /\ n > 0
    BY <1>2, <1>3, <2>1, Zenon
  <2>3. n \in 1 .. i /\ n \in 0 .. i /\ n <= l /\ n <= u
    BY <2>2 DEF LeastOf
  <2> QED BY <2>1, <2>3, Zenon
<1>6. sizeRead[e] \in 0 .. Len(buffer[e])
  BY <1>4
<1>7. PICK t \in Seq(Byte), u \in Seq(Byte) :
        /\ t = SubSeq(inbox[d], 1, n) /\ Len(t) = n
        /\ u = SubSeq(inbox[d], n + 1, Len(inbox[d])) /\ Len(u) = Len(inbox[d]) - n
  <2>1. PICK box \in Seq(Byte) : box = inbox[d] /\ n \in 0 .. Len(box)
    BY <1>4, <1>5, Zenon
  <2>2. /\ SubSeq(box, 1, n) \in Seq(Byte) /\ Len(SubSeq(box, 1, n)) = n
        /\ SubSeq(box, n + 1, Len(box)) \in Seq(Byte)
        /\ Len(SubSeq(box, n + 1, Len(box))) = Len(box) - n
    BY <2>1, Cut
  <2> QED BY <2>1, <2>2, Zenon
<1>8. PICK new \in Seq(Byte) :
        /\ new = Overwrite(buffer[e], sizeRead[e], t)
        /\ Len(new) = IF Len(buffer[e]) > sizeRead[e] + Len(t) THEN Len(buffer[e])
                      ELSE sizeRead[e] + Len(t)
  <2>1. PICK old \in Seq(Byte), at \in Nat : old = buffer[e] /\ at = sizeRead[e] /\ at \in 0 .. Len(old)
    BY <1>4, <1>6, Zenon
  <2>2. /\ Overwrite(old, at, t) \in Seq(Byte)
        /\ Len(Overwrite(old, at, t)) = IF Len(old) > at + Len(t) THEN Len(old) ELSE at + Len(t)
    BY <2>1, Overwritten
  <2> QED BY <2>1, <2>2, Zenon
<1>9. /\ buffer' = [buffer EXCEPT ![e] = new] /\ inbox' = [inbox EXCEPT ![d] = u]
      /\ buffer'[e] = new /\ inbox'[d] = u
      /\ \A o \in Ends \ {e} : buffer'[o] = buffer[o]
      /\ \A o \in Dirs \ {d} : inbox'[o] = inbox[o]
  BY <1>3, <1>7, <1>8, Zenon DEF Values, NetValues, ReadValues
<1>10. PICK k \in Nat : k = sizeRead[e] + n
  BY <1>4, <1>5
<1>11. /\ sizeRead' = [sizeRead EXCEPT ![e] = k] /\ sizeRead'[e] = k
       /\ \A o \in Ends \ {e} : sizeRead'[o] = sizeRead[o]
  BY <1>3, <1>10, Zenon DEF Values, ReadValues
<1>12. NetValues'
  <2>1. inbox' \in [Dirs -> Seq(Byte)]
    BY <1>9, Zenon DEF Values, NetValues
  <2> QED BY <1>3, <2>1 DEF Values, NetValues
<1>13. ReadValues'
  <2>1. buffer' \in [Ends -> Seq(Byte)] /\ sizeRead' \in [Ends -> Nat]
    BY <1>9, <1>11, Zenon DEF Values, ReadValues
  <2>2. k <= Len(new) /\ Len(new) < BufferLen + ReadUnit
    BY <1>3, <1>4, <1>5, <1>7, <1>8, <1>10, Sizes
  <2>3. \A o \in Ends : sizeRead'[o] <= Len(buffer'[o]) /\ Len(buffer'[o]) < BufferLen + ReadUnit
    BY <1>9, <1>11, <2>2, Zenon DEF Values, ReadValues
  <2>4. limit' \in [Ends -> 0 .. BufferLen]
    BY <1>3 DEF Values, ReadValues
  <2> QED BY <2>1, <2>3, <2>4, Zenon DEF ReadValues
<1>14. TaskValues' /\ PlaceValues'
  BY <1>3, TaskKept, PlaceKept
<1>15. \E m \in 1 .. Len(inbox[d]) :
         /\ m <= limit[e] /\ m <= ReadUnit /\ sizeRead[e] < limit[e]
         /\ m = LeastOf(LeastOf(limit[e], ReadUnit), Len(inbox[d]))
         /\ buffer'[e] = Overwrite(buffer[e], sizeRead[e], SubSeq(inbox[d], 1, m))
         /\ inbox'[d] = SubSeq(inbox[d], m + 1, Len(inbox[d]))
         /\ Len(inbox'[d]) = Len(inbox[d]) - m
         /\ sizeRead'[e] = sizeRead[e] + m
  BY <1>2, <1>3, <1>5, <1>7, <1>8, <1>9, <1>10, <1>11, Zenon
<1> QED BY <1>1, <1>3, <1>9, <1>11, <1>12, <1>13, <1>14, <1>15, Zenon DEF Values
-----------------------------------------------------------------------------
(***************************************************************************)
(* The request on its way, and the server reading it.                      *)
(***************************************************************************)
LEMMA UpNumbers ==
  ASSUME Values
  PROVE  Fresh \in Nat /\ RequestEnd \in Nat
<1>1. sizeRead["server"] \in Nat /\ asked.len \in Nat /\ HeaderLen \in Nat
  BY Lengths, Sizes
<1> QED BY <1>1 DEF Fresh, RequestEnd

LEMMA ArriveUp == WInv /\ Arrive("up") => WInv'
<1> SUFFICES ASSUME WInv, Arrive("up") PROVE WInv'
  OBVIOUS
<1>1. Values /\ "up" \in Dirs /\ "down" \in Dirs \ {"up"}
  BY DEF WInv, Dirs
<1>2. PICK n \in 1 .. Len(wire["up"]) :
        /\ "up" \notin splits => n \in cuts["up"]
        /\ inbox'["up"] = inbox["up"] \o SubSeq(wire["up"], 1, n)
        /\ wire'["up"] = SubSeq(wire["up"], n + 1, Len(wire["up"]))
        /\ Len(inbox'["up"]) = Len(inbox["up"]) + n /\ Len(wire'["up"]) = Len(wire["up"]) - n
  BY <1>1, Arrives, Zenon
<1>3. /\ Values'
      /\ wire'["down"] = wire["down"] /\ inbox'["down"] = inbox["down"]
      /\ cuts'["down"] = cuts["down"]
  BY <1>1, Arrives, Zenon
<1>4. /\ UNCHANGED <<splits, number, asked, toSend, rest, placed, conn, pc, buffer, limit, sizeRead>>
      /\ wire["up"] # <<>>
  BY DEF Arrive, taskVars, readVars
<1>5. pc["server"] # "send" /\ Unanswered
  BY <1>4 DEF WInv, Turns, Unanswered
<1>6. UpStream'
  <2>1. SUFFICES ASSUME pc["client"] # "idle"
                 PROVE  \E b \in 0 .. RequestEnd' : UpAt(b)' /\ ("up" \notin splits' => UpWhole(b)')
    BY <1>4 DEF UpStream
  <2>2. PICK b \in 0 .. RequestEnd : UpAt(b) /\ ("up" \notin splits => UpWhole(b))
    BY <2>1 DEF UpStream, WInv
  <2>3. RequestStream' = RequestStream /\ RequestEnd' = RequestEnd /\ Fresh' = Fresh
    BY <1>4, StreamsKept DEF Fresh
  <2>4. /\ inbox["up"] \in Seq(Byte) /\ wire["up"] \in Seq(Byte) /\ Fresh \in Nat
        /\ Len(inbox["up"]) \in Nat /\ Len(wire["up"]) \in Nat /\ RequestEnd \in Nat
        /\ wire'["up"] = <<>> <=> Len(wire'["up"]) = 0
        /\ wire["up"] = <<>> <=> Len(wire["up"]) = 0
        /\ inbox["up"] = <<>> <=> Len(inbox["up"]) = 0
    <3>1. wire'["up"] \in Seq(Byte)
      BY <1>1, <1>3, Zenon DEF Values, NetValues
    <3>2. wire'["up"] = <<>> <=> Len(wire'["up"]) = 0
      BY <3>1, EmptySeq
    <3>3. Fresh \in Nat /\ RequestEnd \in Nat
      BY <1>1, UpNumbers
    <3> QED BY <1>1, <3>2, <3>3, Lengths, Zenon
  <2>5. PICK at \in Nat : at = b + Fresh
    BY <2>2, <2>4
  <2>6. /\ Follow(inbox'["up"], Len(inbox'["up"]), RequestStream, at)
        /\ Follow(wire'["up"], Len(wire'["up"]), RequestStream, at + Len(inbox'["up"]))
    <3>1. /\ Follow(inbox["up"], Len(inbox["up"]), RequestStream, at)
          /\ Follow(wire["up"], Len(wire["up"]), RequestStream, at + Len(inbox["up"]))
      BY <2>2, <2>5, Zenon DEF UpAt
    <3>2. PICK box \in Seq(Byte), w \in Seq(Byte) :
            /\ box = inbox["up"] /\ w = wire["up"] /\ n \in 0 .. Len(w)
            /\ inbox'["up"] = box \o SubSeq(w, 1, n) /\ wire'["up"] = SubSeq(w, n + 1, Len(w))
      <4>1. n \in 0 .. Len(wire["up"])
        BY <2>4
      <4> QED BY <1>2, <2>4, <4>1, Zenon
    <3>3. /\ Follow(box, Len(box), RequestStream, at)
          /\ Follow(w, Len(w), RequestStream, at + Len(box))
      BY <3>1, <3>2, Zenon
    <3>4. n \in 0 .. Len(w)
      BY <3>2, Zenon
    <3> QED BY <3>2, <3>3, <3>4, FollowArrive, ZenonT(40)
  <2>7. b + Fresh + Len(inbox'["up"]) + Len(wire'["up"]) <= RequestEnd
    BY <1>2, <2>2, <2>4 DEF UpAt
  <2>8. UpAt(b)'
    <3>1. Follow(buffer["server"], Fresh, RequestStream, b)
      BY <2>2 DEF UpAt
    <3> QED BY <1>4, <2>3, <2>5, <2>6, <2>7, <3>1, Zenon DEF UpAt
  <2>9. ASSUME "up" \notin splits
        PROVE  UpWhole(b)'
    <3>1. /\ pc["server"] = "idle" /\ inbox["up"] = <<>> /\ b = 0
          /\ Len(wire["up"]) = RequestEnd /\ cuts["up"] = {Len(wire["up"])}
      BY <1>4, <2>2, <2>9 DEF UpWhole
    <3>2. n = RequestEnd
      BY <1>2, <2>9, <3>1
    <3>3. Fresh = 0
      BY <3>1 DEF Fresh
    <3>4. wire'["up"] = <<>> /\ b + Fresh + Len(inbox'["up"]) = RequestEnd
      BY <1>2, <2>4, <3>1, <3>2, <3>3
    <3> QED BY <1>4, <2>3, <3>1, <3>4 DEF UpWhole
  <2> QED BY <1>4, <2>2, <2>3, <2>8, <2>9, Zenon
<1>7. Unanswered'
  <2>1. PICK l \in Nat : l = Len(inbox["up"])
    BY <1>1, Lengths
  <2>2. Len(inbox'["up"]) # 0
    BY <1>2, <2>1
  <2> QED BY <2>2, EmptySeq DEF Unanswered
<1> QED BY <1>3, <1>4, <1>5, <1>6, <1>7, RequestMoves DEF taskVars

LEMMA HandleEventStep == WInv /\ HandleEvent => WInv'
<1> SUFFICES ASSUME WInv, HandleEvent PROVE WInv'
  OBVIOUS
<1>1. Values /\ "server" \in Ends /\ "client" \in Ends \ {"server"} /\ HeaderLen \in Nat
  BY Sizes DEF WInv, Ends
<1>2. /\ pc["server"] = "idle" /\ inbox["up"] # <<>>
      /\ Call("server", HeaderLen, "length")
      /\ UNCHANGED <<netVars, buffer, taskVars, faults>>
  BY DEF HandleEvent
<1>3. /\ ReadValues'
      /\ limit'["server"] = HeaderLen /\ sizeRead'["server"] = 0
      /\ limit'["client"] = limit["client"] /\ sizeRead'["client"] = sizeRead["client"]
      /\ Goto("server", "length")
  <2>1. LimitOf(HeaderLen) = HeaderLen
    BY Limits, Sizes
  <2> QED BY <1>1, <1>2, <2>1, Called, Zenon
<1>4. pc'["server"] = "length" /\ pc'["client"] = pc["client"]
  BY <1>1, <1>3 DEF Goto, Values, PlaceValues
<1>5. Values'
  <2>1. PlaceValues'
    BY <1>1, <1>2, <1>3, Moved, Zenon
  <2> QED BY <1>1, <1>2, <1>3, <2>1, NetKept, TaskKept DEF Values
<1>6. UpStream'
  <2>1. SUFFICES ASSUME pc["client"] # "idle"
                 PROVE  \E b \in 0 .. RequestEnd' : UpAt(b)' /\ ("up" \notin splits' => UpWhole(b)')
    BY <1>4 DEF UpStream
  <2>2. PICK b \in 0 .. RequestEnd : UpAt(b) /\ ("up" \notin splits => UpWhole(b))
    BY <2>1 DEF UpStream, WInv
  <2>3. RequestStream' = RequestStream /\ RequestEnd' = RequestEnd
    BY <1>2, StreamsKept DEF taskVars
  <2>4. Fresh = 0 /\ Fresh' = 0
    BY <1>2, <1>3, <1>4 DEF Fresh
  <2>5. UpAt(b)'
    BY <1>2, <2>2, <2>3, <2>4, Zenon DEF UpAt, Follow, netVars
  <2>6. ASSUME "up" \notin splits
        PROVE  UpWhole(b)'
    <3>1. UpWhole(b)
      BY <2>2, <2>6
    <3>2. wire["up"] = <<>> /\ b = 0 /\ b + Fresh + Len(inbox["up"]) = RequestEnd
      BY <1>2, <3>1 DEF UpWhole
    <3> QED BY <1>2, <1>3, <1>4, <2>3, <2>4, <3>2 DEF UpWhole, netVars
  <2> QED BY <1>2, <2>2, <2>3, <2>5, <2>6, Zenon DEF netVars
<1>7. Unanswered /\ Unanswered'
  BY <1>2, <1>4 DEF Unanswered
<1> QED BY <1>2, <1>3, <1>4, <1>5, <1>6, <1>7, RequestMoves DEF netVars

LEMMA ReadSomeServer == WInv /\ ReadSome("server") => WInv'
<1> SUFFICES ASSUME WInv, ReadSome("server") PROVE WInv'
  OBVIOUS
<1>1. /\ Values /\ "server" \in Ends /\ "client" \in Ends \ {"server"}
      /\ "up" \in Dirs /\ "up" = Incoming("server") /\ "down" \in Dirs \ {"up"}
  BY DEF WInv, Ends, Dirs, Incoming
<1>2. PICK n \in 1 .. Len(inbox["up"]) :
        /\ sizeRead["server"] < limit["server"]
        /\ n = LeastOf(LeastOf(limit["server"], ReadUnit), Len(inbox["up"]))
        /\ buffer'["server"] = Overwrite(buffer["server"], sizeRead["server"], SubSeq(inbox["up"], 1, n))
        /\ inbox'["up"] = SubSeq(inbox["up"], n + 1, Len(inbox["up"]))
        /\ Len(inbox'["up"]) = Len(inbox["up"]) - n
        /\ sizeRead'["server"] = sizeRead["server"] + n
  BY <1>1, ReadsSome, Zenon
<1>3. /\ Values' /\ Reading("server")
      /\ buffer'["client"] = buffer["client"] /\ sizeRead'["client"] = sizeRead["client"]
      /\ inbox'["down"] = inbox["down"]
  BY <1>1, ReadsSome, Zenon
<1>4. UNCHANGED <<splits, wire, cuts, conn, pc, limit, taskVars>>
  BY DEF ReadSome
<1>5. pc["server"] \in {"length", "packet"}
  BY <1>1, <1>3 DEF Reading, Values, PlaceValues
<1>6. UpStream'
  <2>1. SUFFICES ASSUME pc["client"] # "idle"
                 PROVE  \E b \in 0 .. RequestEnd' : UpAt(b)' /\ ("up" \notin splits' => UpWhole(b)')
    BY <1>4 DEF UpStream
  <2>2. PICK b \in 0 .. RequestEnd : UpAt(b) /\ ("up" \notin splits => UpWhole(b))
    BY <2>1 DEF UpStream, WInv
  <2>3. RequestStream' = RequestStream /\ RequestEnd' = RequestEnd
    BY <1>4, StreamsKept DEF taskVars
  <2>4. PICK sr \in Nat : sr = sizeRead["server"]
    BY <1>1, Lengths
  <2>5. Fresh = sr /\ Fresh' = sr + n
    BY <1>2, <1>4, <1>5, <2>4 DEF Fresh
  <2>6. /\ inbox["up"] \in Seq(Byte) /\ buffer["server"] \in Seq(Byte)
        /\ Len(inbox["up"]) \in Nat /\ Len(wire["up"]) \in Nat /\ RequestEnd \in Nat
        /\ sr \in 0 .. Len(buffer["server"]) /\ n \in 0 .. Len(inbox["up"]) /\ b \in Nat
    <3>1. sr <= Len(buffer["server"]) /\ Len(buffer["server"]) \in Nat
      BY <1>1, <2>4, Lengths DEF Values, ReadValues
    <3>2. RequestEnd \in Nat
      BY <1>1, Lengths, Sizes DEF RequestEnd
    <3> QED BY <1>1, <3>1, <3>2, Lengths
  <2>7. /\ Follow(buffer'["server"], sr + n, RequestStream, b)
        /\ Follow(inbox'["up"], Len(inbox'["up"]), RequestStream, b + (sr + n))
    <3>1. /\ Follow(buffer["server"], sr, RequestStream, b)
          /\ Follow(inbox["up"], Len(inbox["up"]), RequestStream, b + sr)
      BY <2>2, <2>5, Zenon DEF UpAt
    <3>2. buffer'["server"] = Overwrite(buffer["server"], sr, SubSeq(inbox["up"], 1, n))
      BY <1>2, <2>4, Zenon
    <3> QED BY <1>2, <2>6, <3>1, <3>2, FollowRead, Zenon
  <2>8. b + sr + Len(inbox["up"]) = b + (sr + n) + Len(inbox'["up"])
    <3>1. \A l \in Nat : b + sr + l = b + (sr + n) + (l - n)
      BY <2>6
    <3> QED BY <1>2, <2>6, <3>1, Zenon
  <2>9. UpAt(b)'
    <3>1. /\ Follow(wire["up"], Len(wire["up"]), RequestStream, b + (sr + n) + Len(inbox'["up"]))
          /\ b + (sr + n) + Len(inbox'["up"]) + Len(wire["up"]) <= RequestEnd
      BY <2>2, <2>5, <2>8, Zenon DEF UpAt
    <3> QED BY <1>4, <2>3, <2>5, <2>7, <3>1, Zenon DEF UpAt
  <2>10. ASSUME "up" \notin splits
         PROVE  UpWhole(b)'
    <3>1. UpWhole(b)
      BY <2>2, <2>10
    <3>2. /\ wire["up"] = <<>> /\ b + sr + Len(inbox["up"]) = RequestEnd
          /\ pc["server"] = "length" =>
               b = 0 /\ limit["server"] = HeaderLen /\ sizeRead["server"] \in {0, HeaderLen}
          /\ pc["server"] = "packet" => b = HeaderLen /\ limit["server"] = asked.len
      BY <1>5, <2>5, <3>1, Zenon DEF UpWhole
    <3>3. b + (sr + n) + Len(inbox'["up"]) = RequestEnd
      BY <2>8, <3>2, Zenon
    <3>4. pc["server"] = "length" => sizeRead'["server"] = HeaderLen
      <4>1. SUFFICES ASSUME pc["server"] = "length" PROVE sizeRead'["server"] = HeaderLen
        OBVIOUS
      <4>2. sr = 0 /\ limit["server"] = HeaderLen /\ b = 0
        BY <1>2, <2>4, <3>2, <4>1, Sizes
      <4>3. Len(inbox["up"]) >= HeaderLen
        <5>1. PICK l \in Nat, h \in Nat, r \in Nat :
                l = Len(inbox["up"]) /\ h = HeaderLen /\ r = asked.len
          <6>1. asked.len \in Nat /\ HeaderLen \in Nat
            BY <1>1, Lengths, Sizes
          <6> QED BY <2>6, <6>1, Zenon
        <5>2. 0 + 0 + l = h + r
          BY <3>2, <4>2, <5>1, <2>5, Zenon DEF RequestEnd
        <5>3. l >= h
          BY <5>2
        <5> QED BY <5>1, <5>3, Zenon
      <4>4. n = HeaderLen
        BY <1>2, <2>6, <4>2, <4>3, Sizes DEF LeastOf
      <4> QED BY <1>2, <2>4, <4>2, <4>4, Sizes
    <3>5. (pc["server"] = "length" =>
             b = 0 /\ limit["server"] = HeaderLen /\ sizeRead["server"] \in {0, HeaderLen})'
      BY <1>4, <3>2, <3>4
    <3>6. (pc["server"] = "packet" => b = HeaderLen /\ limit["server"] = asked.len)'
      BY <1>4, <3>2 DEF taskVars
    <3>7. wire'["up"] = <<>> /\ pc'["server"] # "idle"
      BY <1>4, <1>5, <3>2
    <3> QED BY <2>3, <2>5, <3>3, <3>5, <3>6, <3>7, Zenon DEF UpWhole
  <2> QED BY <1>4, <2>2, <2>3, <2>9, <2>10, Zenon
<1>7. Unanswered /\ Unanswered' /\ pc["server"] # "send"
  BY <1>4, <1>5 DEF Unanswered
<1> QED BY <1>3, <1>4, <1>6, <1>7, RequestMoves DEF netVars

\* What the server has read is behind it when it reads anew.
LEMMA UpGoesOn ==
  ASSUME Values, NEW b \in 0 .. RequestEnd, UpAt(b), UNCHANGED <<number, asked>>,
         inbox'["up"] = inbox["up"], wire'["up"] = wire["up"], Fresh' = 0
  PROVE  /\ \E at \in 0 .. RequestEnd' : at = b + Fresh /\ UpAt(at)'
         /\ RequestEnd' = RequestEnd /\ RequestEnd \in Nat /\ Fresh \in Nat
<1>1. RequestStream' = RequestStream /\ RequestEnd' = RequestEnd
  BY StreamsKept
<1>2. /\ Len(inbox["up"]) \in Nat /\ Len(wire["up"]) \in Nat /\ RequestEnd \in Nat /\ Fresh \in Nat
      /\ b + Fresh + Len(inbox["up"]) + Len(wire["up"]) <= RequestEnd
  BY Lengths, UpNumbers DEF UpAt
<1>3. PICK at \in Nat : at = b + Fresh /\ at + 0 = at /\ at \in 0 .. RequestEnd
  <2>1. PICK f \in Nat, i \in Nat, w \in Nat, end \in Nat :
          f = Fresh /\ i = Len(inbox["up"]) /\ w = Len(wire["up"]) /\ end = RequestEnd
    BY <1>2
  <2>2. b \in 0 .. end /\ b + f + i + w <= end
    BY <1>2, <2>1, Zenon
  <2>3. b + f \in Nat /\ b + f + 0 = b + f /\ b + f \in 0 .. end
    BY <2>2
  <2> QED BY <2>1, <2>3, Zenon
<1>4. UpAt(at)'
  <2>1. /\ Follow(inbox["up"], Len(inbox["up"]), RequestStream, at + 0)
        /\ Follow(wire["up"], Len(wire["up"]), RequestStream, at + 0 + Len(inbox["up"]))
        /\ at + 0 + Len(inbox["up"]) + Len(wire["up"]) <= RequestEnd
    BY <1>2, <1>3, Zenon DEF UpAt
  <2>2. Follow(buffer'["server"], 0, RequestStream, at)
    BY DEF Follow
  <2> QED BY <1>1, <2>1, <2>2, Zenon DEF UpAt
<1> QED BY <1>1, <1>2, <1>3, <1>4, Zenon

LEMMA ReadPacketStep == WInv /\ ReadPacket => WInv'
<1> SUFFICES ASSUME WInv, ReadPacket PROVE WInv'
  OBVIOUS
<1>1. /\ Values /\ "server" \in Ends /\ "client" \in Ends \ {"server"}
      /\ asked.len \in Nat /\ asked.len <= BufferLen /\ BufferLen \in Nat
  BY Lengths, Sizes DEF WInv, Ends
<1>2. PICK n \in LengthField("server", asked.len) : Call("server", n, "packet")
  BY DEF ReadPacket
<1>3. /\ pc["server"] = "length" /\ Returns("server") # {}
      /\ UNCHANGED <<netVars, buffer, taskVars, faults>>
  BY DEF ReadPacket
<1>4. n \in Nat
  BY <1>1, <1>2 DEF LengthField
<1>5. /\ ReadValues'
      /\ limit'["server"] = LimitOf(n) /\ sizeRead'["server"] = 0
      /\ limit'["client"] = limit["client"] /\ sizeRead'["client"] = sizeRead["client"]
      /\ Goto("server", "packet")
  BY <1>1, <1>2, <1>3, <1>4, Called, Zenon
<1>6. pc'["server"] = "packet" /\ pc'["client"] = pc["client"]
  BY <1>1, <1>5 DEF Goto, Values, PlaceValues
<1>7. Values'
  <2>1. PlaceValues'
    BY <1>1, <1>3, <1>5, Moved, Zenon
  <2> QED BY <1>1, <1>3, <1>5, <2>1, NetKept, TaskKept DEF Values
<1>8. UpStream'
  <2>1. SUFFICES ASSUME pc["client"] # "idle"
                 PROVE  \E b \in 0 .. RequestEnd' : UpAt(b)' /\ ("up" \notin splits' => UpWhole(b)')
    BY <1>6 DEF UpStream
  <2>2. PICK b \in 0 .. RequestEnd : UpAt(b) /\ ("up" \notin splits => UpWhole(b))
    BY <2>1 DEF UpStream, WInv
  <2>3. Fresh' = 0 /\ Fresh = sizeRead["server"]
    BY <1>3, <1>5, <1>6 DEF Fresh
  <2>4. RequestEnd' = RequestEnd /\ RequestEnd \in Nat /\ Fresh \in Nat
    BY <1>1, <1>3, <2>2, <2>3, UpGoesOn DEF netVars, taskVars
  <2>6. PICK at \in 0 .. RequestEnd' : at = b + Fresh /\ UpAt(at)'
    BY <1>1, <1>3, <2>2, <2>3, UpGoesOn DEF netVars, taskVars
  <2>5. ASSUME "up" \notin splits
        PROVE  UpWhole(at)'
    <3>1. UpWhole(b)
      BY <2>2, <2>5
    <3>2. /\ wire["up"] = <<>> /\ b = 0 /\ b + Fresh + Len(inbox["up"]) = RequestEnd
          /\ limit["server"] = HeaderLen /\ sizeRead["server"] \in {0, HeaderLen}
      BY <1>3, <3>1 DEF UpWhole
    <3>3. sizeRead["server"] >= limit["server"] \/ inbox["up"] = <<>>
      <4>1. PICK r : r \in Returns("server")
        BY <1>3
      <4> QED BY <1>1, <4>1, Returned, Zenon
    <3>4. Fresh = HeaderLen
      <4>1. ASSUME Fresh = 0 PROVE FALSE
        <5>1. inbox["up"] = <<>> /\ Len(inbox["up"]) = 0
          BY <1>1, <2>3, <3>2, <3>3, <4>1, Lengths, Sizes
        <5> QED BY <1>1, <3>2, <4>1, <5>1, Sizes DEF RequestEnd
      <4> QED BY <2>3, <3>2, <4>1
    <3>5. LengthField("server", asked.len) = {asked.len}
      <4>1. Follow(buffer["server"], HeaderLen, RequestStream, 0)
        BY <2>2, <3>2, <3>4, Zenon DEF UpAt
      <4>2. Len(buffer["server"]) >= HeaderLen
        BY <1>1, <2>3, <3>4, Lengths, Sizes DEF Values, ReadValues
      <4> QED BY <1>1, <4>1, <4>2, LengthRead, Zenon
    <3>6. limit'["server"] = asked.len
      <4>1. asked.len # 0
        BY <2>1 DEF WInv, Turns
      <4> QED BY <1>1, <1>2, <1>5, <3>5, <4>1, Limits
    <3>7. at = HeaderLen /\ at + 0 + Len(inbox["up"]) = RequestEnd
      BY <1>1, <2>4, <2>6, <3>2, <3>4, Lengths, Sizes
    <3> QED BY <1>3, <1>6, <2>3, <2>4, <3>2, <3>6, <3>7 DEF UpWhole, netVars, taskVars
  <2> QED BY <1>3, <2>6, <2>5, Zenon DEF netVars
<1>9. Unanswered /\ Unanswered' /\ pc["server"] # "send"
  BY <1>3, <1>6 DEF Unanswered
<1> QED BY <1>3, <1>5, <1>6, <1>7, <1>8, <1>9, RequestMoves DEF netVars

\* A request that comes whole is read whole.
LEMMA HeardWhole ==
  ASSUME WInv, "up" \notin splits, pc["server"] = "packet", NEW n \in Returns("server")
  PROVE  n = asked.len /\ asked.len # 0 /\ Served(n)
<1>1. Values /\ "server" \in Ends /\ asked.len \in Nat /\ sizeRead["server"] \in Nat
  BY Lengths DEF WInv, Ends
<1>2. pc["client"] # "idle" /\ asked.len # 0
  BY DEF WInv, Turns, Unanswered
<1>3. PICK b \in 0 .. RequestEnd : UpAt(b) /\ UpWhole(b)
  BY <1>2 DEF UpStream, WInv
<1>4. Fresh = sizeRead["server"]
  BY DEF Fresh
<1>5. b = HeaderLen /\ limit["server"] = asked.len /\ b + Fresh + Len(inbox["up"]) = RequestEnd
  BY <1>3 DEF UpWhole
<1>6. n = sizeRead["server"] /\ (sizeRead["server"] >= asked.len \/ inbox["up"] = <<>>)
  <2>1. n # -1
    BY <1>1, Returned
  <2> QED BY <1>1, <1>5, <2>1, Returned, Zenon
<1>7. n = asked.len
  <2>1. HeaderLen \in Nat /\ Len(inbox["up"]) \in Nat /\ (inbox["up"] = <<>> <=> Len(inbox["up"]) = 0)
    BY <1>1, Lengths, Sizes
  <2>2. HeaderLen + n + Len(inbox["up"]) = HeaderLen + asked.len
    BY <1>4, <1>5, <1>6, Zenon DEF RequestEnd
  <2> QED BY <1>1, <1>6, <2>1, <2>2
<1>8. Content("server", asked.len) = Body(asked.len)
  <2>1. Follow(buffer["server"], asked.len, RequestStream, HeaderLen)
    BY <1>3, <1>4, <1>5, <1>6, <1>7, Zenon DEF UpAt
  <2>2. asked.len <= Len(buffer["server"])
    BY <1>1, <1>6, <1>7 DEF Values, ReadValues
  <2> QED BY <1>1, <2>1, <2>2, BodyRead, Zenon
<1> QED BY <1>1, <1>2, <1>7, <1>8 DEF Served

\* Back to epoll, with what was read behind it.
LEMMA ServerGivesUp ==
  ASSUME WInv, pc["server"] = "packet", Goto("server", "idle"),
         "up" \in splits, conn' \in {conn, "closed"},
         UNCHANGED <<splits, wire, cuts, inbox, readVars, taskVars, faults>>
  PROVE  WInv'
<1>1. Values /\ "server" \in Ends /\ "client" \in Ends \ {"server"}
  BY DEF WInv, Ends
<1>2. pc'["server"] = "idle" /\ pc'["client"] = pc["client"]
  BY <1>1 DEF Goto, Values, PlaceValues
<1>3. Values'
  <2>1. PlaceValues'
    BY <1>1, Moved, Zenon
  <2>2. NetValues'
    BY <1>1 DEF Values, NetValues
  <2> QED BY <1>1, <2>1, <2>2, ReadKept, TaskKept DEF Values
<1>4. UpStream'
  <2>1. SUFFICES ASSUME pc["client"] # "idle"
                 PROVE  \E b \in 0 .. RequestEnd' : UpAt(b)' /\ ("up" \notin splits' => UpWhole(b)')
    BY <1>2 DEF UpStream
  <2>2. PICK b \in 0 .. RequestEnd : UpAt(b)
    BY <2>1 DEF UpStream, WInv
  <2>3. Fresh' = 0
    BY <1>2 DEF Fresh
  <2>4. PICK at \in 0 .. RequestEnd' : UpAt(at)'
    BY <1>1, <2>2, <2>3, UpGoesOn DEF taskVars
  <2> QED BY <2>4, Zenon
<1>5. Unanswered
  BY DEF Unanswered
<1> QED BY <1>2, <1>3, <1>4, <1>5, RequestMoves DEF readVars

LEMMA NoPacketStep == WInv /\ NoPacket => WInv'
<1> SUFFICES ASSUME WInv, NoPacket PROVE WInv'
  OBVIOUS
<1>1. /\ pc["server"] = "packet" /\ 0 \in Returns("server") /\ Goto("server", "idle")
      /\ UNCHANGED <<netVars, readVars, taskVars, faults>>
  BY DEF NoPacket
<1>2. "up" \in splits
  BY <1>1, HeardWhole, Zenon
<1> QED BY <1>1, <1>2, ServerGivesUp DEF netVars

LEMMA RejectPacketStep == WInv /\ RejectPacket => WInv'
<1> SUFFICES ASSUME WInv, RejectPacket PROVE WInv'
  OBVIOUS
<1>1. /\ pc["server"] = "packet" /\ \E n \in Returns("server") : ~Served(n)
      /\ conn' \in {conn, "closed"} /\ Goto("server", "idle")
      /\ UNCHANGED <<splits, wire, cuts, inbox, readVars, taskVars, faults>>
  BY DEF RejectPacket
<1>2. "up" \in splits
  BY <1>1, HeardWhole, Zenon
<1> QED BY <1>1, <1>2, ServerGivesUp
-----------------------------------------------------------------------------
(***************************************************************************)
(* The reply on its way, and the client reading it.                        *)
(***************************************************************************)
LEMMA DownNumbers ==
  ASSUME Values
  PROVE  /\ DataEnd \in Nat /\ ReplyEnd \in Nat /\ ReplyEnd > 0 /\ DataEnd = ReplyEnd + asked.size
         /\ Len(inbox["down"]) \in Nat /\ Len(wire["down"]) \in Nat
         /\ Len(buffer["client"]) \in Nat
         /\ sizeRead["client"] \in Nat /\ limit["client"] \in Nat /\ Len(placed) \in Nat
         /\ sizeRead["client"] \in 0 .. Len(buffer["client"])
         /\ toSend \in Nat /\ rest \in Nat /\ asked.size \in Nat
<1>1. asked.size \in Nat
  BY Lengths
<1>2. DataEnd \in Nat /\ ReplyEnd \in Nat /\ ReplyEnd > 0 /\ DataEnd = ReplyEnd + asked.size
  BY <1>1, Sizes DEF DataEnd, ReplyEnd
<1>3. sizeRead["client"] <= Len(buffer["client"])
  BY DEF Values, ReadValues, Ends
<1> QED BY <1>1, <1>2, <1>3, Lengths

LEMMA DownSequences ==
  ASSUME Values
  PROVE  /\ inbox["down"] \in Seq(Byte) /\ wire["down"] \in Seq(Byte) /\ buffer["client"] \in Seq(Byte)
         /\ inbox["down"] = <<>> <=> Len(inbox["down"]) = 0
         /\ wire["down"] = <<>> <=> Len(wire["down"]) = 0
BY Lengths

LEMMA ArriveDown == WInv /\ Arrive("down") => WInv'
<1> SUFFICES ASSUME WInv, Arrive("down") PROVE WInv'
  OBVIOUS
<1>1. Values /\ "down" \in Dirs /\ "up" \in Dirs \ {"down"}
  BY DEF WInv, Dirs
<1>2. PICK n \in 1 .. Len(wire["down"]) :
        /\ "down" \notin splits => n \in cuts["down"]
        /\ inbox'["down"] = inbox["down"] \o SubSeq(wire["down"], 1, n)
        /\ wire'["down"] = SubSeq(wire["down"], n + 1, Len(wire["down"]))
        /\ Len(inbox'["down"]) = Len(inbox["down"]) + n /\ Len(wire'["down"]) = Len(wire["down"]) - n
  BY <1>1, Arrives, Zenon
<1>3. /\ Values'
      /\ wire'["up"] = wire["up"] /\ inbox'["up"] = inbox["up"]
      /\ cuts'["up"] = cuts["up"]
  BY <1>1, Arrives, Zenon
<1>4. /\ UNCHANGED <<splits, number, asked, toSend, rest, placed, conn, pc, buffer, limit, sizeRead>>
      /\ wire["down"] # <<>>
  BY DEF Arrive, taskVars, readVars
<1>5. pc["client"] # "idle" /\ ~Unanswered /\ ~Dry
  BY <1>4 DEF WInv, Turns, Dry
<1>6. ~Unanswered'
  BY <1>3, <1>4, <1>5 DEF Unanswered
<1>7. DownStream'
  <2>1. PICK b \in 0 .. DataEnd : DownAt(b) /\ ("down" \notin splits => DownWhole(b))
    BY <1>5 DEF DownStream, WInv
  <2>2. ReplyStream' = ReplyStream /\ ReplyEnd' = ReplyEnd /\ DataEnd' = DataEnd
    BY <1>4, StreamsKept
  <2>3. PICK at \in Nat : at = b + sizeRead["client"] /\ b \in Nat
    <3>1. b \in Nat /\ sizeRead["client"] \in Nat
      BY <1>1, DownNumbers
    <3> QED BY <3>1
  <2>4. Arrived(b) = at + Len(inbox["down"]) /\ Arrived(b)' = at + Len(inbox'["down"])
    BY <1>4, <2>3, Zenon DEF Arrived
  <2>5. Arrived(b)' = Arrived(b) + n /\ Arrived(b)' + Len(wire'["down"]) = Arrived(b) + Len(wire["down"])
    <3>1. \A l \in Nat, m \in Nat : at + (l + n) = at + l + n /\ at + l + n + (m - n) = at + l + m
      BY <2>3
    <3>2. PICK l \in Nat, m \in Nat : l = Len(inbox["down"]) /\ m = Len(wire["down"])
      BY <1>1, DownNumbers, Zenon
    <3>3. Arrived(b) = at + l /\ Arrived(b)' = at + (l + n) /\ Len(wire'["down"]) = m - n
      BY <1>2, <2>4, <3>2, Zenon
    <3>4. Arrived(b) + n = at + l + n /\ Arrived(b) + m = at + l + m
      BY <3>3, Zenon
    <3>5. Arrived(b)' + Len(wire'["down"]) = at + l + n + (m - n) /\ Arrived(b)' = at + l + n
      BY <3>1, <3>3, Zenon
    <3> QED BY <3>1, <3>2, <3>4, <3>5, Zenon
  <2>6. /\ Follow(inbox'["down"], Len(inbox'["down"]), ReplyStream, at)
        /\ Follow(wire'["down"], Len(wire'["down"]), ReplyStream, at + Len(inbox'["down"]))
    <3>1. /\ Follow(inbox["down"], Len(inbox["down"]), ReplyStream, at)
          /\ Follow(wire["down"], Len(wire["down"]), ReplyStream, at + Len(inbox["down"]))
      BY <2>1, <2>3, <2>4, Zenon DEF DownAt, DownBytes
    <3>2. PICK box \in Seq(Byte), w \in Seq(Byte) :
            /\ box = inbox["down"] /\ w = wire["down"] /\ n \in 0 .. Len(w)
            /\ inbox'["down"] = box \o SubSeq(w, 1, n) /\ wire'["down"] = SubSeq(w, n + 1, Len(w))
      <4>1. n \in 0 .. Len(wire["down"])
        BY <1>1, DownNumbers
      <4> QED BY <1>1, <1>2, <4>1, DownSequences, Zenon
    <3>3. /\ Follow(box, Len(box), ReplyStream, at)
          /\ Follow(w, Len(w), ReplyStream, at + Len(box))
      BY <3>1, <3>2, Zenon
    <3>4. n \in 0 .. Len(w)
      BY <3>2, Zenon
    <3> QED BY <3>2, <3>3, <3>4, FollowArrive, ZenonT(40)
  <2>7. DownBytes(b)'
    <3>1. Follow(buffer["client"], sizeRead["client"], ReplyStream, b)
      BY <2>1 DEF DownAt, DownBytes
    <3>2. /\ Arrived(b)' + Len(wire'["down"]) + toSend <= DataEnd
          /\ Owing => Arrived(b)' + Len(wire'["down"]) + toSend = DataEnd
      BY <2>1, <2>5, Zenon DEF DownAt, DownBytes
    <3>3. Owing' = Owing
      BY <1>4, <1>5, <1>6 DEF Owing
    <3> QED BY <1>4, <2>2, <2>3, <2>4, <2>6, <3>1, <3>2, <3>3, Zenon DEF DownBytes
  <2>8. DownCall(b)'
    BY <1>4, <1>5, <1>6, <2>1, <2>2, Zenon DEF DownAt, DownCall
  <2>9. ASSUME "down" \notin splits
        PROVE  DownWhole(b)'
    <3>1. DownWhole(b)
      BY <2>1, <2>9
    <3>2. Arrived(b)' >= ReplyEnd
      <4>1. Arrived(b) \in Nat /\ ReplyEnd \in Nat
        <5>1. Len(inbox["down"]) \in Nat /\ ReplyEnd \in Nat
          BY <1>1, DownNumbers
        <5> QED BY <2>3, <2>4, <5>1
      <4>2. CASE Arrived(b) = 0
        <5>1. n >= ReplyEnd
          BY <1>2, <2>9, <3>1, <4>2 DEF DownWhole
        <5> QED BY <2>5, <4>1, <4>2, <5>1
      <4>3. CASE Arrived(b) # 0
        <5>1. Arrived(b) >= ReplyEnd
          BY <3>1, <4>3 DEF DownWhole
        <5> QED BY <2>5, <4>1, <5>1
      <4> QED BY <4>2, <4>3
    <3>3. Arrived(b)' # 0
      BY <1>1, <2>2, <3>2, DownNumbers
    <3> QED BY <1>4, <1>5, <2>2, <3>1, <3>2, <3>3, Zenon DEF DownWhole
  <2> QED BY <1>4, <2>1, <2>2, <2>7, <2>8, <2>9, Zenon DEF DownStream, DownAt
<1>8. ReplyThenData'
  BY <1>4, DataKept DEF WInv
<1>9. pc["client"] \in {"length", "packet"} => rest = 0 /\ placed = <<>>
  BY DEF WInv, Turns
<1> QED BY <1>3, <1>4, <1>5, <1>7, <1>8, <1>9, ReplyMoves

LEMMA ReadSomeClient == WInv /\ ReadSome("client") => WInv'
<1> SUFFICES ASSUME WInv, ReadSome("client") PROVE WInv'
  OBVIOUS
<1>1. /\ Values /\ "client" \in Ends /\ "server" \in Ends \ {"client"}
      /\ "down" \in Dirs /\ "down" = Incoming("client") /\ "up" \in Dirs \ {"down"}
  BY DEF WInv, Ends, Dirs, Incoming
<1>2. PICK n \in 1 .. Len(inbox["down"]) :
        /\ sizeRead["client"] < limit["client"]
        /\ n = LeastOf(LeastOf(limit["client"], ReadUnit), Len(inbox["down"]))
        /\ buffer'["client"] = Overwrite(buffer["client"], sizeRead["client"], SubSeq(inbox["down"], 1, n))
        /\ inbox'["down"] = SubSeq(inbox["down"], n + 1, Len(inbox["down"]))
        /\ Len(inbox'["down"]) = Len(inbox["down"]) - n
        /\ sizeRead'["client"] = sizeRead["client"] + n
  BY <1>1, ReadsSome, Zenon
<1>3. /\ Values' /\ Reading("client")
      /\ buffer'["server"] = buffer["server"] /\ sizeRead'["server"] = sizeRead["server"]
      /\ inbox'["up"] = inbox["up"]
  BY <1>1, ReadsSome, Zenon
<1>4. UNCHANGED <<splits, wire, cuts, conn, pc, limit, number, asked, toSend, rest, placed>>
  BY DEF ReadSome, taskVars
<1>5. Len(inbox["down"]) # 0 /\ inbox["down"] # <<>>
  <2>1. Len(inbox["down"]) \in Nat
    BY <1>1, DownNumbers
  <2>2. Len(inbox["down"]) # 0
    BY <2>1
  <2> QED BY <1>1, <2>2, DownSequences
<1>6. pc["client"] \in {"length", "packet", "data"} /\ ~Unanswered /\ ~Dry
  BY <1>3, <1>5 DEF Reading, WInv, Turns, Dry
<1>7. ~Unanswered'
  BY <1>3, <1>4, <1>6 DEF Unanswered
<1>8. DownStream'
  <2>1. PICK b \in 0 .. DataEnd : DownAt(b) /\ ("down" \notin splits => DownWhole(b))
    BY <1>6 DEF DownStream, WInv
  <2>2. ReplyStream' = ReplyStream /\ ReplyEnd' = ReplyEnd /\ DataEnd' = DataEnd
    BY <1>4, StreamsKept
  <2>3. PICK sr \in Nat : sr = sizeRead["client"] /\ b \in Nat /\ sr \in 0 .. Len(buffer["client"])
    <3>1. b \in Nat
      BY <1>1, DownNumbers
    <3> QED BY <1>1, <3>1, DownNumbers, Zenon
  <2>4. Arrived(b)' = Arrived(b)
    <3>1. PICK l \in Nat : l = Len(inbox["down"]) /\ n \in 1 .. l
      BY <1>1, DownNumbers, Zenon
    <3>2. PICK c \in Nat, m \in Nat : c = b /\ m = n
      BY <2>3
    <3>3. c + sr + l = c + (sr + m) + (l - m)
      OBVIOUS
    <3> QED BY <1>2, <2>3, <3>1, <3>2, <3>3, Zenon DEF Arrived
  <2>5. /\ Follow(buffer'["client"], sr + n, ReplyStream, b)
        /\ Follow(inbox'["down"], Len(inbox'["down"]), ReplyStream, b + (sr + n))
    <3>1. PICK old \in Seq(Byte), box \in Seq(Byte) :
            /\ old = buffer["client"] /\ box = inbox["down"]
            /\ sr \in 0 .. Len(old) /\ n \in 0 .. Len(box)
            /\ buffer'["client"] = Overwrite(old, sr, SubSeq(box, 1, n))
            /\ inbox'["down"] = SubSeq(box, n + 1, Len(box))
      <4>1. n \in 0 .. Len(inbox["down"])
        BY <1>1, DownNumbers
      <4> QED BY <1>1, <1>2, <2>3, <4>1, DownSequences, Zenon
    <3>2. Follow(old, sr, ReplyStream, b) /\ Follow(box, Len(box), ReplyStream, b + sr)
      BY <2>1, <2>3, <3>1, Zenon DEF DownAt, DownBytes
    <3>3. PICK new : new = buffer'["client"]
      OBVIOUS
    <3>4. PICK box2 : box2 = inbox'["down"]
      OBVIOUS
    <3>5. /\ Follow(new, sr + n, ReplyStream, b)
          /\ Follow(box2, Len(box2), ReplyStream, b + (sr + n))
      BY <2>3, <3>1, <3>2, <3>3, <3>4, FollowRead, Zenon
    <3> QED BY <3>3, <3>4, <3>5, Zenon
  <2>6. DownBytes(b)'
    <3>1. /\ Follow(wire["down"], Len(wire["down"]), ReplyStream, Arrived(b))
          /\ Arrived(b) + Len(wire["down"]) + toSend <= DataEnd
          /\ Owing => Arrived(b) + Len(wire["down"]) + toSend = DataEnd
      BY <2>1 DEF DownAt, DownBytes
    <3>2. Owing' = Owing
      BY <1>4, <1>6, <1>7 DEF Owing
    <3> QED BY <1>2, <1>4, <2>2, <2>3, <2>4, <2>5, <3>1, <3>2, Zenon DEF DownBytes
  <2>7. DownCall(b)'
    BY <1>4, <1>6, <1>7, <2>1, <2>2, Zenon DEF DownAt, DownCall
  <2>8. ASSUME "down" \notin splits
        PROVE  DownWhole(b)'
    <3>1. DownWhole(b)
      BY <2>1, <2>8
    <3>2. Arrived(b) >= ReplyEnd /\ Arrived(b) = b + sr + Len(inbox["down"])
      <4>1. Arrived(b) # 0
        <5>1. PICK l \in Nat \ {0} : l = Len(inbox["down"])
          BY <1>1, <1>5, DownNumbers
        <5>2. b + sr + l # 0
          BY <2>3
        <5> QED BY <2>3, <5>1, <5>2, Zenon DEF Arrived
      <4> QED BY <2>3, <3>1, <4>1 DEF DownWhole, Arrived
    <3>3. pc["client"] = "length" => sizeRead'["client"] = HeaderLen
      <4>1. SUFFICES ASSUME pc["client"] = "length" PROVE sizeRead'["client"] = HeaderLen
        OBVIOUS
      <4>2. b = 0 /\ limit["client"] = HeaderLen
        BY <1>6, <2>1, <4>1 DEF DownAt, DownCall
      <4>3. sr = 0
        BY <1>2, <2>3, <3>1, <4>1, <4>2, Sizes DEF DownWhole
      <4>4. Len(inbox["down"]) >= HeaderLen
        BY <1>1, <3>2, <4>2, <4>3, DownNumbers, Sizes DEF ReplyEnd
      <4>5. n = HeaderLen
        BY <1>1, <1>2, <4>2, <4>4, DownNumbers, Sizes DEF LeastOf
      <4> QED BY <1>2, <2>3, <4>3, <4>5, Sizes
    <3>4. pc["client"] = "packet" =>
            b = HeaderLen /\ limit["client"] = ReplyLen /\ sizeRead'["client"] = ReplyLen
      <4>1. SUFFICES ASSUME pc["client"] = "packet"
                     PROVE  /\ b = HeaderLen /\ limit["client"] = ReplyLen
                            /\ sizeRead'["client"] = ReplyLen
        OBVIOUS
      <4>2. b = HeaderLen /\ limit["client"] = ReplyLen /\ sr \in {0, ReplyLen}
        BY <1>6, <2>3, <3>1, <4>1 DEF DownWhole
      <4>3. sr = 0
        BY <1>2, <2>3, <4>2, Sizes
      <4>4. Len(inbox["down"]) >= ReplyLen
        BY <1>1, <3>2, <4>2, <4>3, DownNumbers, Sizes DEF ReplyEnd
      <4>5. n = ReplyLen
        BY <1>1, <1>2, <4>2, <4>4, DownNumbers, Sizes DEF LeastOf
      <4> QED BY <1>2, <2>3, <4>2, <4>3, <4>5, Sizes
    <3>5. (pc["client"] = "length" => sizeRead["client"] \in {0, HeaderLen})'
      BY <1>4, <3>3
    <3>6. (pc["client"] = "packet" =>
             b = HeaderLen /\ limit["client"] = ReplyLen /\ sizeRead["client"] \in {0, ReplyLen})'
      BY <1>4, <3>4
    <3>7. (pc["client"] = "data" => b = ReplyEnd + Len(placed))'
      BY <1>4, <2>2, <3>1 DEF DownWhole
    <3>8. (Arrived(b) = 0 => \A k \in cuts["down"] : k >= ReplyEnd)'
      BY <1>4, <2>2, <2>4, <3>1, Zenon DEF DownWhole
    <3> QED BY <2>2, <2>4, <3>2, <3>5, <3>6, <3>7, <3>8, Zenon DEF DownWhole
  <2> QED BY <1>4, <2>1, <2>2, <2>6, <2>7, <2>8, Zenon DEF DownStream, DownAt
<1>9. ReplyThenData'
  BY <1>4, DataKept DEF WInv
<1>10. pc["client"] \in {"length", "packet"} => rest = 0 /\ placed = <<>>
  BY DEF WInv, Turns
<1>11. pc["client"] # "idle"
  BY <1>6
<1> QED BY <1>3, <1>4, <1>5, <1>9, <1>8, <1>10, <1>11, ReplyMoves

LEMMA OwingKept ==
  ASSUME wire'["up"] = wire["up"], inbox'["up"] = inbox["up"], pc'["server"] = pc["server"],
         UNCHANGED <<splits, conn>>
  PROVE  Owing' = Owing
BY DEF Owing, Unanswered

\* The data loop asks for no more than is left.
LEMMA DataLimits ==
  ASSUME NEW r \in Nat \ {0}
  PROVE  DataLimit(r) \in Nat /\ LimitOf(DataLimit(r)) <= r
BY Sizes DEF DataLimit, LimitOf, LeastOf

\* What the client has read is behind it when it reads anew.
LEMMA DownGoesOn ==
  ASSUME Values, NEW b \in 0 .. DataEnd, DownAt(b), UNCHANGED <<number, asked, toSend, conn>>,
         inbox'["down"] = inbox["down"], wire'["down"] = wire["down"],
         sizeRead'["client"] = 0, Owing' => Owing
  PROVE  \E at \in 0 .. DataEnd' :
           at = b + sizeRead["client"] /\ DownBytes(at)' /\ Arrived(at)' = Arrived(b)
<1>1. ReplyStream' = ReplyStream /\ DataEnd' = DataEnd
  BY StreamsKept
<1>2. PICK sr \in Nat, l \in Nat, w \in Nat, s \in Nat :
        /\ sr = sizeRead["client"] /\ l = Len(inbox["down"]) /\ w = Len(wire["down"]) /\ s = toSend
        /\ b \in Nat /\ DataEnd \in Nat
  <2>1. DataEnd \in Nat /\ b \in Nat
    BY DownNumbers
  <2> QED BY <2>1, DownNumbers, Zenon
<1>3. Arrived(b) = b + sr + l /\ Arrived(b) + w + s <= DataEnd
  BY <1>2, Zenon DEF Arrived, DownAt, DownBytes
<1>4. PICK at \in 0 .. DataEnd : at = b + sr /\ at \in Nat
  <2>1. b + sr + l + w + s <= DataEnd
    BY <1>3, Zenon
  <2>2. b \in Nat /\ DataEnd \in Nat
    BY <1>2, Zenon
  <2>3. b + sr \in 0 .. DataEnd /\ b + sr \in Nat
    BY <2>1, <2>2
  <2> QED BY <2>3, Zenon
<1>5. at + 0 = at /\ at + 0 + l = b + sr + l
  BY <1>2, <1>4
<1>6. Arrived(at)' = Arrived(b)
  BY <1>2, <1>3, <1>5, Zenon DEF Arrived
<1>7. DownBytes(at)'
  <2>1. /\ Follow(inbox["down"], Len(inbox["down"]), ReplyStream, at + 0)
        /\ Follow(wire["down"], Len(wire["down"]), ReplyStream, Arrived(b))
        /\ Arrived(b) + Len(wire["down"]) + toSend <= DataEnd
        /\ Owing => Arrived(b) + Len(wire["down"]) + toSend = DataEnd
    BY <1>2, <1>4, <1>5, Zenon DEF DownAt, DownBytes
  <2>2. Follow(buffer'["client"], 0, ReplyStream, at)
    BY DEF Follow
  <2> QED BY <1>1, <1>6, <2>1, <2>2, Zenon DEF DownBytes
<1> QED BY <1>1, <1>2, <1>4, <1>6, <1>7, Zenon

\* What the client's Socket::read gives it.
LEMMA ClientHas ==
  ASSUME Values, NEW n \in Returns("client")
  PROVE  /\ pc["client"] \in {"length", "packet", "data"}
         /\ n = -1 \/ n = sizeRead["client"]
         /\ n = -1 => Dry
         /\ n # -1 => sizeRead["client"] >= limit["client"]
<1>1. "client" \in Ends
  BY DEF Ends
<1>2. /\ Reading("client") /\ (n = -1 \/ n = sizeRead["client"])
      /\ n = -1 => conn = "closed" /\ inbox["down"] = <<>> /\ wire["down"] = <<>>
      /\ n # -1 => sizeRead["client"] >= limit["client"] \/ ("client" = "server" /\ inbox["up"] = <<>>)
  BY <1>1, Returned, Zenon
<1>3. "client" # "server"
  OBVIOUS
<1> QED BY <1>2, <1>3 DEF Reading, Dry

LEMMA ReadErrorStep == WInv /\ ReadError => WInv'
<1> SUFFICES ASSUME WInv, ReadError PROVE WInv'
  OBVIOUS
<1>1. Values /\ "client" \in Ends /\ "server" \in Ends \ {"client"}
  BY DEF WInv, Ends
<1>2. /\ pc["client"] \in {"length", "packet", "data"} /\ sizeRead["client"] < limit["client"]
      /\ inbox["down"] = <<>> /\ conn = "reset" /\ conn' = "closed"
      /\ limit' = [limit EXCEPT !["client"] = sizeRead["client"]]
      /\ UNCHANGED <<splits, wire, cuts, inbox, pc, buffer, sizeRead, taskVars, faults>>
  BY DEF ReadError, Reading
<1>3. wire["down"] = <<>>
  BY <1>2 DEF WInv, Turns
<1>4. Dry /\ Dry'
  BY <1>2, <1>3 DEF Dry
<1>5. limit'["server"] = limit["server"]
  BY <1>1, <1>2 DEF Values, ReadValues
<1>6. Values'
  <2>1. sizeRead["client"] \in 0 .. BufferLen
    <3>1. limit["client"] <= BufferLen /\ limit["client"] \in Nat /\ sizeRead["client"] \in Nat
      BY <1>1, Sizes DEF Values, ReadValues
    <3> QED BY <1>2, <3>1, Sizes
  <2>2. limit' \in [Ends -> 0 .. BufferLen]
    BY <1>1, <1>2, <2>1, Zenon DEF Values, ReadValues
  <2>3. ReadValues'
    BY <1>1, <1>2, <2>2 DEF Values, ReadValues
  <2>4. NetValues'
    BY <1>1, <1>2 DEF Values, NetValues
  <2> QED BY <1>1, <1>2, <2>3, <2>4, TaskKept, PlaceKept DEF Values
<1>7. DownStream'
  <2>1. PICK b \in 0 .. DataEnd : DownAt(b) /\ ("down" \notin splits => DownWhole(b))
    BY <1>2 DEF DownStream, WInv
  <2>2. ReplyStream' = ReplyStream /\ ReplyEnd' = ReplyEnd /\ DataEnd' = DataEnd
    BY <1>2, StreamsKept DEF taskVars
  <2>3. Arrived(b)' = Arrived(b) /\ Unanswered' = Unanswered
    BY <1>2, Zenon DEF Arrived, Unanswered
  <2>4. DownBytes(b)'
    <3>1. ~Owing'
      BY <1>2 DEF Owing
    <3> QED BY <1>2, <2>1, <2>2, <2>3, <3>1, Zenon DEF DownAt, DownBytes, Follow, taskVars
  <2>5. DownCall(b)'
    <3>1. pc["client"] = "data" => limit'["client"] <= rest
      <4>1. PICK sr \in Nat, l \in Nat, r \in Nat :
              sr = sizeRead["client"] /\ l = limit["client"] /\ r = rest
        BY <1>1, DownNumbers, Zenon
      <4>2. pc["client"] = "data" => l <= r
        BY <2>1, <4>1, Zenon DEF DownAt, DownCall
      <4>3. limit'["client"] = sr /\ sr < l
        BY <1>1, <1>2, <4>1, Zenon DEF Values, ReadValues
      <4> QED BY <4>1, <4>2, <4>3
    <3> QED BY <1>2, <1>4, <2>1, <2>2, <2>3, <3>1, Zenon DEF DownAt, DownCall, taskVars
  <2>6. ASSUME "down" \notin splits
        PROVE  DownWhole(b)'
    <3>1. DownWhole(b)
      BY <2>1, <2>6
    <3>2. pc["client"] = "packet" => sizeRead["client"] = 0
      BY <1>2, <3>1, Sizes DEF DownWhole
    <3> QED BY <1>2, <1>4, <2>2, <2>3, <3>1, <3>2, Zenon DEF DownWhole, taskVars
  <2> QED BY <1>2, <2>1, <2>2, <2>4, <2>5, <2>6, Zenon DEF DownStream, DownAt
<1>8. ReplyThenData'
  BY <1>2, DataKept DEF WInv, taskVars
<1>9. pc["client"] \in {"length", "packet"} => rest = 0 /\ placed = <<>>
  BY DEF WInv, Turns
<1>10. /\ conn' \in {conn, "closed"} /\ pc["client"] # "idle" /\ wire'["up"] = wire["up"]
       /\ inbox'["up"] = inbox["up"] /\ cuts'["up"] = cuts["up"]
       /\ UNCHANGED <<splits, number, asked, toSend, rest, placed, pc, buffer, sizeRead, inbox, wire>>
  BY <1>2 DEF taskVars
<1> QED BY <1>3, <1>5, <1>6, <1>7, <1>8, <1>9, <1>10, ReplyMoves

LEMMA ReadReplyStep == WInv /\ ReadReply => WInv'
<1> SUFFICES ASSUME WInv, ReadReply PROVE WInv'
  OBVIOUS
<1>1. /\ Values /\ "client" \in Ends /\ "server" \in Ends \ {"client"}
      /\ ReplyLen \in Nat \ {0} /\ BufferLen \in Nat /\ HeaderLen \in Nat \ {0}
  BY Sizes DEF WInv, Ends
<1>2. PICK n \in LengthField("client", ReplyLen) : Call("client", n, "packet")
  BY DEF ReadReply
<1>3. /\ pc["client"] = "length" /\ Returns("client") # {}
      /\ UNCHANGED <<netVars, buffer, taskVars, faults>>
  BY DEF ReadReply
<1>4. n \in Nat
  BY <1>1, <1>2 DEF LengthField
<1>5. /\ ReadValues'
      /\ limit'["client"] = LimitOf(n) /\ sizeRead'["client"] = 0
      /\ limit'["server"] = limit["server"] /\ sizeRead'["server"] = sizeRead["server"]
      /\ Goto("client", "packet")
  BY <1>1, <1>2, <1>3, <1>4, Called, Zenon
<1>6. pc'["client"] = "packet" /\ pc'["server"] = pc["server"]
  BY <1>1, <1>5 DEF Goto, Values, PlaceValues
<1>7. Values'
  <2>1. PlaceValues'
    BY <1>1, <1>3, <1>5, Moved, Zenon
  <2> QED BY <1>1, <1>3, <1>5, <2>1, NetKept, TaskKept DEF Values
<1>8. UNCHANGED <<splits, wire, cuts, inbox, conn, buffer, number, asked, toSend, rest, placed>>
  BY <1>3 DEF netVars, taskVars
<1>9. DownStream'
  <2>1. PICK b \in 0 .. DataEnd : DownAt(b) /\ ("down" \notin splits => DownWhole(b))
    BY <1>3 DEF DownStream, WInv
  <2>2. PICK at \in 0 .. DataEnd' :
          at = b + sizeRead["client"] /\ DownBytes(at)' /\ Arrived(at)' = Arrived(b)
    <3>1. Owing' = Owing
      BY <1>6, <1>8, OwingKept
    <3> QED BY <1>1, <1>5, <1>6, <1>8, <2>1, <3>1, DownGoesOn
  <2>3. ReplyEnd' = ReplyEnd /\ Unanswered' = Unanswered /\ Dry' = Dry
    BY <1>6, <1>8, StreamsKept DEF Unanswered, Dry
  <2>4. b = 0 /\ at = sizeRead["client"] /\ sizeRead["client"] \in Nat
    <3>1. sizeRead["client"] \in Nat
      BY <1>1, DownNumbers
    <3> QED BY <1>3, <2>1, <2>2, <3>1 DEF DownAt, DownCall
  <2>5. Dry \/ (limit["client"] = HeaderLen /\ at >= HeaderLen)
    <3>1. limit["client"] = HeaderLen \/ Dry
      BY <1>3, <2>1 DEF DownAt, DownCall
    <3>2. Dry \/ sizeRead["client"] >= limit["client"]
      <4>1. PICK r \in Returns("client") : TRUE
        BY <1>3
      <4> QED BY <1>1, <4>1, ClientHas, Zenon
    <3> QED BY <2>4, <3>1, <3>2
  <2>6. DownCall(at)'
    <3>1. Unanswered => at + 0 = 0
      BY <2>1, <2>2, <2>4 DEF DownAt, DownCall
    <3> QED BY <1>5, <1>6, <2>3, <2>5, <3>1 DEF DownCall
  <2>7. ASSUME "down" \notin splits
        PROVE  DownWhole(at)'
    <3>1. DownWhole(b)
      BY <2>1, <2>7
    <3>2. sizeRead["client"] \in {0, HeaderLen}
      BY <1>3, <3>1 DEF DownWhole
    <3>3. ASSUME ~Dry
          PROVE  at = HeaderLen /\ limit'["client"] = ReplyLen
      <4>1. sizeRead["client"] = HeaderLen
        BY <1>1, <2>4, <2>5, <3>2, <3>3
      <4>2. LengthField("client", ReplyLen) = {ReplyLen}
        <5>1. Follow(buffer["client"], HeaderLen, ReplyStream, 0)
          BY <2>1, <2>4, <4>1, Zenon DEF DownAt, DownBytes
        <5>2. Len(buffer["client"]) >= HeaderLen
          BY <1>1, <4>1, DownNumbers
        <5> QED BY <1>1, <5>1, <5>2, LengthRead, Zenon
      <4>3. n = ReplyLen /\ ReplyLen <= BufferLen
        BY <1>2, <4>2, Sizes
      <4> QED BY <1>1, <1>5, <2>4, <4>1, <4>3, Limits
    <3> QED BY <1>5, <1>6, <1>8, <2>2, <2>3, <3>1, <3>3 DEF DownWhole
  <2> QED BY <1>8, <2>2, <2>6, <2>7, Zenon DEF DownStream, DownAt
<1>10. ReplyThenData'
  BY <1>8, DataKept DEF WInv
<1>11. rest = 0 /\ placed = <<>>
  BY <1>3 DEF WInv, Turns
<1> QED BY <1>3, <1>5, <1>6, <1>7, <1>8, <1>9, <1>10, <1>11, ReplyMoves

LEMMA AcceptReplyStep == WInv /\ AcceptReply => WInv'
<1> SUFFICES ASSUME WInv, AcceptReply PROVE WInv'
  OBVIOUS
<1>1. /\ Values /\ "client" \in Ends /\ "server" \in Ends \ {"client"}
      /\ ReplyLen \in Nat \ {0} /\ HeaderLen \in Nat \ {0} /\ asked.size \in Nat
  BY Sizes, Lengths DEF WInv, Ends
<1>2. PICK n \in Returns("client") : n > 0 /\ SizeMatches(n)
  BY DEF AcceptReply
<1>3. /\ pc["client"] = "packet" /\ rest' = asked.size
      /\ Call("client", DataLimit(asked.size), "data")
      /\ UNCHANGED <<netVars, buffer, number, asked, toSend, placed, faults>>
  BY DEF AcceptReply
<1>4. DataLimit(asked.size) \in Nat /\ LimitOf(DataLimit(asked.size)) <= asked.size
  <2>1. asked.size # 0
    BY <1>3 DEF WInv, Turns
  <2> QED BY <1>1, <2>1, DataLimits
<1>5. /\ ReadValues' /\ sizeRead'["client"] = 0 /\ limit'["client"] = LimitOf(DataLimit(asked.size))
      /\ limit'["server"] = limit["server"] /\ sizeRead'["server"] = sizeRead["server"]
      /\ Goto("client", "data")
  BY <1>1, <1>3, <1>4, Called, Zenon
<1>6. pc'["client"] = "data" /\ pc'["server"] = pc["server"]
  BY <1>1, <1>5 DEF Goto, Values, PlaceValues
<1>7. Values'
  <2>1. PlaceValues'
    BY <1>1, <1>3, <1>5, Moved, Zenon
  <2>2. TaskValues'
    BY <1>1, <1>3 DEF Values, TaskValues
  <2> QED BY <1>1, <1>3, <1>5, <2>1, <2>2, NetKept DEF Values
<1>8. UNCHANGED <<splits, wire, cuts, inbox, conn, buffer, number, asked, toSend, placed>>
  BY <1>3 DEF netVars
<1>9. placed = <<>> /\ Len(placed) = 0
  BY <1>3, EmptySeq DEF WInv, Turns
<1>10. n = sizeRead["client"] /\ n \in Nat \ {0} /\ n >= ReplyLen
  <2>1. n # -1
    BY <1>2
  <2>2. n = sizeRead["client"]
    BY <1>1, <2>1, ClientHas, Zenon
  <2>3. n \in Nat
    BY <1>1, <2>2, DownNumbers
  <2> QED BY <1>2, <2>2, <2>3 DEF SizeMatches
<1>11. DownStream'
  <2>1. PICK b \in 0 .. DataEnd : DownAt(b) /\ ("down" \notin splits => DownWhole(b))
    BY <1>3 DEF DownStream, WInv
  <2>2. PICK at \in 0 .. DataEnd' :
          at = b + sizeRead["client"] /\ DownBytes(at)' /\ Arrived(at)' = Arrived(b)
    <3>1. Owing' = Owing
      BY <1>6, <1>8, OwingKept
    <3> QED BY <1>1, <1>5, <1>6, <1>8, <2>1, <3>1, DownGoesOn
  <2>3. ReplyEnd' = ReplyEnd /\ Unanswered' = Unanswered
    BY <1>6, <1>8, StreamsKept DEF Unanswered
  <2>4. b \in Nat
    BY <1>1, DownNumbers
  <2>5. b = HeaderLen
    <3>1. ReplyLen <= Len(buffer["client"])
      BY <1>1, <1>10, DownNumbers
    <3>2. Content("client", ReplyLen) = Body(ReplyLen)
      BY <1>2 DEF SizeMatches
    <3>3. Follow(buffer["client"], n, ReplyStream, b)
      BY <1>10, <2>1, Zenon DEF DownAt, DownBytes
    <3> QED BY <1>1, <1>10, <2>4, <3>1, <3>2, <3>3, BodyPlace, Zenon
  <2>6. at = HeaderLen + n /\ at >= ReplyEnd + 0 /\ ReplyEnd + 0 = ReplyEnd
    BY <1>1, <1>10, <2>2, <2>5 DEF ReplyEnd
  <2>7. ~Unanswered
    <3>1. b + sizeRead["client"] # 0
      BY <1>1, <1>10, <2>5
    <3> QED BY <2>1, <3>1 DEF DownAt, DownCall
  <2>8. DownCall(at)'
    <3>1. asked.size = asked.size - 0
      BY <1>1
    <3>2. limit'["client"] <= rest'
      BY <1>3, <1>4, <1>5, Zenon
    <3> QED BY <1>3, <1>6, <1>8, <1>9, <2>3, <2>6, <2>7, <3>1, <3>2 DEF DownCall
  <2>9. ASSUME "down" \notin splits
        PROVE  DownWhole(at)'
    <3>1. DownWhole(b)
      BY <2>1, <2>9
    <3>2. n = ReplyLen
      BY <1>3, <1>10, <3>1 DEF DownWhole
    <3>3. at = ReplyEnd + 0
      BY <2>6, <3>2 DEF ReplyEnd
    <3> QED BY <1>6, <1>8, <1>9, <2>2, <2>3, <3>1, <3>3 DEF DownWhole
  <2> QED BY <1>8, <2>2, <2>8, <2>9, Zenon DEF DownStream, DownAt
<1>12. ReplyThenData'
  BY <1>8, DataKept DEF WInv
<1>13. pc["client"] # "idle" /\ pc'["client"] # "idle" /\ pc'["client"] \notin {"length", "packet"}
  BY <1>3, <1>6
<1> QED BY <1>5, <1>6, <1>7, <1>8, <1>11, <1>12, <1>13, ReplyMoves

\* The data of a part, as a piece of the stream.
LEMMA DataFollows ==
  ASSUME number \in Nat, NEW s \in Seq(Byte)
  PROVE  s = Bytes("data", 0, Len(s)) <=> Follow(s, Len(s), ReplyStream, ReplyEnd)
<1>1. PICK n \in Nat : n = Len(s) /\ 0 + n = n
  BY LenProperties
<1>2. ReplyEnd + 0 = ReplyEnd /\ 0 \in Nat
  BY Sizes DEF ReplyEnd
<1>3. PICK t \in Seq(Byte) :
        t = Bytes("data", 0, n) /\ Len(t) = n /\ Follow(t, n, ReplyStream, ReplyEnd)
  <2>1. /\ Bytes("data", 0, 0 + n) \in Seq(Byte) /\ Len(Bytes("data", 0, 0 + n)) = n
        /\ Follow(Bytes("data", 0, 0 + n), n, ReplyStream, ReplyEnd + 0)
    BY <1>2, DataBytes, Zenon
  <2> QED BY <1>1, <1>2, <2>1, Zenon
<1>4. ASSUME Follow(s, n, ReplyStream, ReplyEnd)
      PROVE  s = t
  <2>1. \A i \in 1 .. n : s[i] = t[i]
    BY <1>3, <1>4, Zenon DEF Follow
  <2> QED BY <1>1, <1>3, <2>1, SeqEqual, Zenon
<1> QED BY <1>1, <1>3, <1>4, Zenon

LEMMA TakeDataStep == WInv /\ TakeData => WInv'
<1> SUFFICES ASSUME WInv, TakeData PROVE WInv'
  OBVIOUS
<1>1. /\ Values /\ "client" \in Ends /\ "server" \in Ends \ {"client"} /\ number \in Nat
      /\ placed \in Seq(Byte)
  BY Lengths DEF WInv, Ends
<1>2. PICK n \in Returns("client") :
        /\ n >= 0 /\ placed' = placed \o Content("client", n) /\ rest' = rest - n
        /\ IF MoreToCome(rest')
           THEN Call("client", DataLimit(rest'), "data")
           ELSE Goto("client", "idle") /\ UNCHANGED <<limit, sizeRead>>
  BY DEF TakeData
<1>3. /\ pc["client"] = "data"
      /\ UNCHANGED <<splits, wire, cuts, inbox, conn, buffer, number, asked, toSend, faults>>
  BY DEF TakeData, netVars
<1>4. n = sizeRead["client"] /\ n \in 0 .. Len(buffer["client"]) /\ n \in Nat
  <2>1. n # -1
    BY <1>2
  <2>2. n = sizeRead["client"]
    BY <1>1, <2>1, ClientHas, Zenon
  <2> QED BY <1>1, <2>2, DownNumbers, Zenon
<1>5. PICK b \in 0 .. DataEnd : DownAt(b) /\ ("down" \notin splits => DownWhole(b))
  BY <1>3 DEF DownStream, WInv
<1>6. PICK l \in Nat, w \in Nat, s \in Nat, p \in Nat, size \in Nat, re \in Nat, r \in Nat :
        /\ l = Len(inbox["down"]) /\ w = Len(wire["down"]) /\ s = toSend /\ p = Len(placed)
        /\ size = asked.size /\ re = ReplyEnd /\ r = rest
  BY <1>1, DownNumbers, Zenon
<1>7. b \in Nat /\ re > 0 /\ DataEnd = re + size
  <2>1. b \in Nat
    BY <1>1, DownNumbers
  <2> QED BY <1>1, <1>6, <2>1, DownNumbers, Zenon
<1>8. b + n + l + w + s <= re + size /\ b >= re + p /\ r = size - p /\ rest' = r - n
  BY <1>2, <1>3, <1>4, <1>5, <1>6, <1>7, Zenon DEF DownAt, DownBytes, DownCall, Arrived
<1>9. ~Unanswered /\ ~Unanswered'
  <2>1. b + n # 0
    BY <1>4, <1>7, <1>8
  <2>2. ~Unanswered
    BY <1>4, <1>5, <2>1, Zenon DEF DownAt, DownCall
  <2>3. pc'["server"] = pc["server"]
    BY <1>1, <1>2, Zenon DEF Call, Goto, Values, PlaceValues
  <2> QED BY <1>3, <2>2, <2>3 DEF Unanswered
<1>10. /\ rest' \in 0 .. size /\ rest' = size - (p + n) /\ b + n >= re + (p + n)
       /\ ~(rest' > 0) => rest' = 0 /\ l = 0 /\ w = 0 /\ s = 0
  <2>1. n \in Nat /\ b \in Nat /\ re > 0
    BY <1>4, <1>7, Zenon
  <2>2. /\ r - n \in 0 .. size /\ r - n = size - (p + n) /\ b + n >= re + (p + n)
        /\ ~(r - n > 0) => r - n = 0 /\ l = 0 /\ w = 0 /\ s = 0
    BY <1>8, <2>1
  <2> QED BY <1>8, <2>2, Zenon
<1>11. PICK c \in Seq(Byte) :
         /\ c = Content("client", n) /\ Len(c) = n
         /\ Follow(c, n, ReplyStream, b)
  <2>1. PICK box \in Seq(Byte) : box = buffer["client"] /\ n \in 0 .. Len(box)
    BY <1>1, <1>4, DownSequences, Zenon
  <2>2. Content("client", n) = SubSeq(box, 1, n)
    BY <2>1, Zenon DEF Content
  <2>3. SubSeq(box, 1, n) \in Seq(Byte) /\ Len(SubSeq(box, 1, n)) = n
    BY <2>1, Cut, Zenon
  <2>4. \A i \in 1 .. n : SubSeq(box, 1, n)[i] = box[i]
    BY <2>1, Cut, Zenon
  <2>5. Follow(box, n, ReplyStream, b)
    BY <1>4, <1>5, <2>1, Zenon DEF DownAt, DownBytes
  <2>6. Follow(SubSeq(box, 1, n), n, ReplyStream, b)
    BY <2>4, <2>5, Zenon DEF Follow
  <2> QED BY <2>2, <2>3, <2>6, Zenon
<1>12. placed' \in Seq(Byte) /\ Len(placed') = p + n
  <2>1. placed \o c \in Seq(Byte) /\ Len(placed \o c) = Len(placed) + Len(c)
    BY <1>1, ConcatProperties, Zenon
  <2> QED BY <1>2, <1>6, <1>11, <2>1, Zenon
<1>13. TaskValues' /\ NetValues'
  <2>1. TaskValues'
    BY <1>1, <1>3, <1>6, <1>10, <1>12 DEF Values, TaskValues
  <2> QED BY <1>1, <1>3, <2>1, NetKept DEF netVars
<1>14. ReplyThenData'
  <2>1. SUFFICES ASSUME "down" \notin splits
                 PROVE  DataInPlace'
    BY <1>3 DEF ReplyThenData
  <2>2. b = re + p
    BY <1>3, <1>5, <1>6, <2>1, Zenon DEF DownWhole
  <2>3. Follow(placed, Len(placed), ReplyStream, ReplyEnd)
    BY <1>1, <2>1, DataFollows, Zenon DEF WInv, ReplyThenData, DataInPlace
  <2>4. Follow(placed \o c, Len(placed \o c), ReplyStream, ReplyEnd)
    <3>1. Follow(c, Len(c), ReplyStream, ReplyEnd + Len(placed))
      BY <1>6, <1>11, <2>2, Zenon
    <3>2. ReplyEnd \in Nat
      BY <1>6, Zenon
    <3> QED BY <1>1, <2>3, <3>1, <3>2, FollowJoin, Zenon
  <2>5. Follow(placed', Len(placed'), ReplyStream, ReplyEnd)
    BY <1>2, <1>11, <2>4, Zenon
  <2>6. placed' = Bytes("data", 0, Len(placed'))
    <3>1. PICK t \in Seq(Byte) : t = placed'
      BY <1>12, Zenon
    <3>2. t = Bytes("data", 0, Len(t))
      BY <1>1, <2>5, <3>1, DataFollows, Zenon
    <3> QED BY <3>1, <3>2, Zenon
  <2> QED BY <1>3, <2>6 DEF DataInPlace, Bytes
<1>15. CASE rest' > 0
  <2>1. /\ Call("client", DataLimit(rest'), "data")
        /\ DataLimit(rest') \in Nat /\ LimitOf(DataLimit(rest')) <= rest'
    <3>1. rest' \in Nat \ {0}
      BY <1>10, <1>15
    <3>2. DataLimit(rest') \in Nat /\ LimitOf(DataLimit(rest')) <= rest'
      BY <3>1, DataLimits
    <3> QED BY <1>2, <1>15, <3>2, Zenon DEF MoreToCome
  <2>2. /\ ReadValues' /\ sizeRead'["client"] = 0 /\ limit'["client"] = LimitOf(DataLimit(rest'))
        /\ limit'["server"] = limit["server"] /\ sizeRead'["server"] = sizeRead["server"]
        /\ Goto("client", "data")
    BY <1>1, <1>3, <2>1, Called, Zenon
  <2>3. pc'["client"] = "data" /\ pc'["server"] = pc["server"]
    BY <1>1, <2>2 DEF Goto, Values, PlaceValues
  <2>4. Values'
    <3>1. PlaceValues'
      BY <1>1, <1>3, <2>2, Moved, Zenon
    <3> QED BY <1>13, <2>2, <3>1 DEF Values
  <2>5. DownStream'
    <3>1. PICK at \in 0 .. DataEnd' :
            at = b + sizeRead["client"] /\ DownBytes(at)' /\ Arrived(at)' = Arrived(b)
      <4>1. Owing' = Owing
        BY <1>3, <2>3, OwingKept
      <4> QED BY <1>1, <1>3, <1>5, <2>2, <2>3, <4>1, DownGoesOn
    <3>2. ReplyEnd' = ReplyEnd
      BY <1>3, StreamsKept
    <3>3. at >= ReplyEnd + Len(placed') /\ rest' = asked.size - Len(placed')
      BY <1>4, <1>6, <1>10, <1>12, <3>1, Zenon
    <3>4. DownCall(at)'
      <4>1. limit'["client"] <= rest'
        BY <2>1, <2>2, Zenon
      <4> QED BY <1>3, <1>9, <2>3, <3>2, <3>3, <4>1 DEF DownCall
    <3>5. ASSUME "down" \notin splits
          PROVE  DownWhole(at)'
      <4>1. DownWhole(b)
        BY <1>5, <3>5
      <4>2. at = re + (p + n)
        <5>1. b = re + p
          BY <1>3, <1>6, <4>1, Zenon DEF DownWhole
        <5> QED BY <1>4, <3>1, <5>1
      <4>3. at = ReplyEnd' + Len(placed')
        BY <1>6, <1>12, <3>2, <4>2, Zenon
      <4> QED BY <1>3, <2>3, <3>1, <3>2, <4>1, <4>3 DEF DownWhole
    <3> QED BY <1>3, <3>1, <3>4, <3>5, Zenon DEF DownStream, DownAt
  <2>6. pc'["client"] # "idle" /\ pc'["client"] \notin {"length", "packet"} /\ pc["client"] # "idle"
    BY <1>3, <2>3
  <2> QED BY <1>3, <1>14, <2>2, <2>3, <2>4, <2>5, <2>6, ReplyMoves
<1>16. CASE ~(rest' > 0)
  <2>1. Goto("client", "idle") /\ UNCHANGED <<limit, sizeRead>>
    BY <1>2, <1>16 DEF MoreToCome
  <2>2. pc'["client"] = "idle" /\ pc'["server"] = pc["server"]
    BY <1>1, <2>1 DEF Goto, Values, PlaceValues
  <2>3. Values'
    <3>1. PlaceValues'
      BY <1>1, <1>3, <2>1, Moved, Zenon
    <3>2. ReadValues'
      BY <1>1, <1>3, <2>1, ReadKept DEF readVars
    <3> QED BY <1>13, <3>1, <3>2 DEF Values
  <2>4. DownStream'
    BY <2>2 DEF DownStream
  <2>5. toSend = 0 /\ rest' = 0 /\ inbox'["down"] = <<>> /\ wire'["down"] = <<>>
    <3>1. Len(inbox["down"]) = 0 /\ Len(wire["down"]) = 0 /\ toSend = 0 /\ rest' = 0
      BY <1>6, <1>10, <1>16, Zenon
    <3> QED BY <1>1, <1>3, <3>1, DownSequences
  <2>6. pc'["client"] \notin {"length", "packet"} /\ conn' = conn
    BY <1>3, <2>2
  <2> QED BY <1>3, <1>9, <1>14, <2>1, <2>2, <2>3, <2>4, <2>5, <2>6, ReplyMoves
<1> QED BY <1>15, <1>16

LEMMA DropConnectionStep == WInv /\ DropConnection => WInv'
<1> SUFFICES ASSUME WInv, DropConnection PROVE WInv'
  OBVIOUS
<1>1. Values /\ "client" \in Ends /\ "server" \in Ends \ {"client"}
  BY DEF WInv, Ends
<1>2. /\ pc["client"] \in {"packet", "data"} /\ Goto("client", "dropped")
      /\ UNCHANGED <<netVars, readVars, taskVars, faults>>
  BY DEF DropConnection
<1>3. UNCHANGED <<splits, wire, cuts, inbox, conn, buffer, limit, sizeRead, number, asked, toSend,
                  rest, placed>>
  BY <1>2 DEF netVars, readVars, taskVars
<1>4. pc'["client"] = "dropped" /\ pc'["server"] = pc["server"]
  BY <1>1, <1>2 DEF Goto, Values, PlaceValues
<1>5. Values'
  <2>1. PlaceValues'
    BY <1>1, <1>2, Moved, Zenon
  <2> QED BY <1>1, <1>2, <2>1, NetKept, ReadKept, TaskKept DEF Values
<1>6. DownStream'
  <2>1. Unanswered' = Unanswered /\ UNCHANGED taskVars /\ DownStream
    BY <1>3, <1>4 DEF Unanswered, taskVars, WInv
  <2>2. Owing' = Owing
    BY <1>3, <1>4, OwingKept
  <2> QED BY <1>2, <1>3, <1>4, <2>1, <2>2, DownKept
<1>7. ReplyThenData'
  BY <1>3, DataKept DEF WInv
<1>8. pc'["client"] # "idle" /\ pc'["client"] \notin {"length", "packet"} /\ pc["client"] # "idle"
  BY <1>2, <1>4
<1> QED BY <1>3, <1>4, <1>5, <1>6, <1>7, <1>8, ReplyMoves
-----------------------------------------------------------------------------
(***************************************************************************)
(* The server answering, the connection ending, and the next request.      *)
(***************************************************************************)
\* The server answers when it has all of the request, and nobody has anything
\* of the reply.
LEMMA ReadyToAnswer ==
  ASSUME WInv, pc["server"] = "packet", NEW n \in Returns("server"), n > 0, Served(n)
  PROVE  /\ inbox["up"] = <<>> /\ wire["up"] = <<>>
         /\ inbox["down"] = <<>> /\ wire["down"] = <<>> /\ toSend = 0
         /\ Room = SendSpace /\ pc["client"] # "idle"
<1>1. Values /\ "server" \in Ends /\ asked.len \in Nat
  BY Lengths DEF WInv, Ends
<1>2. Unanswered
  BY DEF Unanswered
<1>3. /\ inbox["down"] = <<>> /\ wire["down"] = <<>> /\ toSend = 0
      /\ pc["client"] # "idle" /\ asked.len # 0
  BY <1>2 DEF WInv, Turns
<1>4. Room = SendSpace
  BY <1>1, <1>3, RoomLeft
<1>5. PICK b \in 0 .. RequestEnd : UpAt(b)
  BY <1>3 DEF UpStream, WInv
<1>6. n = sizeRead["server"] /\ n \in Nat \ {0} /\ n <= Len(buffer["server"]) /\ Fresh = n
  <2>1. n # -1
    OBVIOUS
  <2>2. n = sizeRead["server"]
    BY <1>1, <2>1, Returned, Zenon
  <2>3. sizeRead["server"] \in Nat /\ sizeRead["server"] <= Len(buffer["server"])
    BY <1>1 DEF Values, ReadValues
  <2> QED BY <2>2, <2>3 DEF Fresh
<1>7. RequestEnd = HeaderLen + asked.len /\ b \in Nat
  BY <1>1, Sizes DEF RequestEnd
<1>8. n >= asked.len /\ Content("server", asked.len) = Body(asked.len)
  BY DEF Served
<1>9. b = HeaderLen
  <2>1. Follow(buffer["server"], n, RequestStream, b)
    BY <1>5, <1>6, Zenon DEF UpAt
  <2>2. asked.len \in Nat \ {0} /\ asked.len <= Len(buffer["server"])
    <3>1. Len(buffer["server"]) \in Nat
      BY <1>1, Lengths
    <3> QED BY <1>1, <1>3, <1>6, <1>8, <3>1
  <2> QED BY <1>1, <1>6, <1>7, <1>8, <2>1, <2>2, BodyPlace, Zenon
<1>10. Len(inbox["up"]) = 0 /\ Len(wire["up"]) = 0
  <2>1. PICK l \in Nat, w \in Nat : l = Len(inbox["up"]) /\ w = Len(wire["up"])
    BY <1>1, Lengths, Zenon
  <2>2. b + n + l + w <= HeaderLen + asked.len
    BY <1>5, <1>6, <1>7, <2>1, Zenon DEF UpAt
  <2>3. n \in Nat /\ n >= asked.len /\ HeaderLen \in Nat
    BY <1>6, <1>8, Sizes
  <2>4. l = 0 /\ w = 0
    BY <1>1, <1>9, <2>2, <2>3
  <2> QED BY <2>1, <2>4, Zenon
<1>11. inbox["up"] = <<>> /\ wire["up"] = <<>>
  BY <1>1, <1>10, Lengths
<1> QED BY <1>3, <1>4, <1>11

LEMMA NoCuts ==
  ASSUME Values, NEW d \in Dirs, wire[d] = <<>>
  PROVE  cuts[d] = {} /\ Len(wire[d]) = 0
<1>1. Len(<<>>) = 0 /\ cuts[d] \subseteq 1 .. Len(wire[d])
  BY EmptySeq DEF Values, NetValues
<1> QED BY <1>1

LEMMA AnswerStep == WInv /\ Answer => WInv'
<1> SUFFICES ASSUME WInv, Answer PROVE WInv'
  OBVIOUS
<1>1. /\ Values /\ "server" \in Ends /\ "client" \in Ends \ {"server"}
      /\ "down" \in Dirs /\ "up" \in Dirs \ {"down"} /\ number \in Nat /\ asked.size \in Nat
  BY Lengths DEF WInv, Ends, Dirs
<1>2. /\ pc["server"] = "packet" /\ conn = "open" /\ toSend' = asked.size
      /\ Goto("server", "send") /\ WriteN("down", Length \o Body(ReplyLen))
      /\ UNCHANGED <<splits, inbox, conn, readVars, number, asked, rest, placed, faults>>
  BY DEF Answer
<1>3. /\ inbox["up"] = <<>> /\ wire["up"] = <<>>
      /\ inbox["down"] = <<>> /\ wire["down"] = <<>> /\ toSend = 0
      /\ Room = SendSpace /\ pc["client"] # "idle"
  <2>1. PICK n \in Returns("server") : n > 0 /\ Served(n)
    BY DEF Answer
  <2> QED BY <1>2, <2>1, ReadyToAnswer, Zenon
<1>4. PICK bytes \in Seq(Byte) :
        /\ bytes = Length \o Body(ReplyLen) /\ Len(bytes) = ReplyEnd
        /\ Follow(bytes, ReplyEnd, ReplyStream, 0) /\ bytes # <<>>
  <2>1. PICK t \in Seq(Byte) :
          /\ t = Length \o Body(ReplyLen) /\ Len(t) = ReplyEnd
          /\ Follow(t, ReplyEnd, ReplyStream, 0)
    BY <1>1, ReplyBytes, Zenon
  <2>2. ReplyEnd # 0
    BY Sizes DEF ReplyEnd
  <2>3. t # <<>>
    BY <2>1, <2>2, EmptySeq
  <2> QED BY <2>1, <2>3
<1>5. Write("down", bytes)
  <2>1. PICK n \in LeastOf(Room, Len(bytes)) .. Len(bytes) :
          IF n = 0 THEN UNCHANGED <<wire, cuts>> ELSE Write("down", SubSeq(bytes, 1, n))
    BY <1>2, <1>4, Zenon DEF WriteN
  <2>2. n = Len(bytes) /\ n # 0
    <3>1. PICK m \in Nat \ {0} : m = Len(bytes) /\ m <= SendSpace
      <4>1. ReplyEnd \in Nat \ {0} /\ ReplyEnd <= SendSpace
        BY Sizes DEF ReplyEnd
      <4> QED BY <1>4, <4>1, Zenon
    <3>2. n \in LeastOf(SendSpace, m) .. m
      BY <1>3, <2>1, <3>1, Zenon
    <3> QED BY <3>1, <3>2, Sizes DEF LeastOf
  <2>3. SubSeq(bytes, 1, n) = bytes
    BY <2>2, SubSeqFull, Zenon
  <2> QED BY <2>1, <2>2, <2>3, Zenon
<1>6. /\ NetValues' /\ wire'["down"] = wire["down"] \o bytes
      /\ cuts'["down"] = IF "down" \in splits THEN cuts["down"]
                         ELSE cuts["down"] \cup {Len(wire["down"]) + Len(bytes)}
      /\ wire'["up"] = wire["up"] /\ cuts'["up"] = cuts["up"]
  BY <1>1, <1>2, <1>4, <1>5, Written, Zenon
<1>7. /\ wire'["down"] = bytes
      /\ "down" \notin splits => cuts'["down"] = {ReplyEnd}
  <2>1. <<>> \o bytes = bytes
    BY ConcatEmptySeq
  <2>2. cuts["down"] = {} /\ Len(wire["down"]) = 0
    BY <1>1, <1>3, NoCuts, Zenon
  <2>3. 0 + ReplyEnd = ReplyEnd
    BY Sizes DEF ReplyEnd
  <2> QED BY <1>3, <1>4, <1>6, <2>1, <2>2, <2>3
<1>8. pc'["server"] = "send" /\ pc'["client"] = pc["client"]
  BY <1>1, <1>2 DEF Goto, Values, PlaceValues
<1>9. Values'
  <2>1. PlaceValues'
    BY <1>1, <1>2, Moved, Zenon
  <2>2. TaskValues'
    BY <1>1, <1>2 DEF Values, TaskValues
  <2> QED BY <1>1, <1>2, <1>6, <2>1, <2>2, ReadKept DEF Values
<1>10. ~Unanswered'
  BY <1>2, <1>3, <1>6, <1>8 DEF Unanswered
<1>11. UpStream'
  BY <1>2, <1>3, <1>6, <1>8, <1>9, UpNothing
<1>12. ReplyThenData'
  BY <1>2, DataKept DEF WInv
<1>13. DownStream'
  <2>1. PICK b \in 0 .. DataEnd : DownAt(b) /\ ("down" \notin splits => DownWhole(b))
    BY <1>3 DEF DownStream, WInv
  <2>2. b = 0 /\ sizeRead["client"] = 0
    <3>1. b + sizeRead["client"] = 0
      BY <1>2, <2>1 DEF DownAt, DownCall, Unanswered
    <3>2. b \in Nat /\ sizeRead["client"] \in Nat
      BY <1>1, DownNumbers
    <3> QED BY <3>1, <3>2
  <2>3. ReplyStream' = ReplyStream /\ ReplyEnd' = ReplyEnd /\ DataEnd' = DataEnd
    BY <1>2, StreamsKept
  <2>4. /\ ReplyEnd \in Nat /\ DataEnd = ReplyEnd + asked.size /\ ReplyEnd > 0
        /\ 0 + 0 = 0 /\ Len(<<>>) = 0 /\ 0 + 0 + 0 = 0
    BY <1>1, DownNumbers, EmptySeq
  <2>5. Arrived(0)' = 0
    BY <1>2, <1>3, <2>2, <2>4 DEF Arrived, readVars
  <2>6. 0 + ReplyEnd + asked.size = DataEnd /\ DataEnd <= DataEnd
    BY <1>1, <2>4
  <2>7. DownBytes(0)'
    <3>1. Follow(buffer'["client"], 0, ReplyStream, 0) /\ Follow(<<>>, 0, ReplyStream, 0)
      BY DEF Follow
    <3> QED BY <1>2, <1>3, <1>4, <1>7, <2>2, <2>3, <2>4, <2>5, <2>6, <3>1, Zenon
            DEF DownBytes, readVars
  <2>8. (pc["client"] = "length" /\ limit["client"] = HeaderLen) \/ pc["client"] = "dropped"
    <3>1. ~Dry
      BY <1>2 DEF Dry
    <3>2. ~(0 >= HeaderLen) /\ ~(0 >= ReplyEnd + Len(placed))
      BY <1>1, DownNumbers, Sizes
    <3>3. pc["client"] \in {"idle", "length", "packet", "data", "dropped"}
      BY <1>1 DEF Values, PlaceValues
    <3> QED BY <1>3, <2>1, <2>2, <3>1, <3>2, <3>3 DEF DownAt, DownCall
  <2>9. DownCall(0)'
    BY <1>2, <1>8, <1>10, <2>8 DEF DownCall, readVars
  <2>10. "down" \notin splits => DownWhole(0)'
    <3>1. "down" \notin splits => \A k \in cuts'["down"] : k >= ReplyEnd
      BY <1>7, <2>4
    <3> QED BY <1>2, <1>8, <2>2, <2>3, <2>5, <2>8, <3>1 DEF DownWhole, readVars
  <2>11. 0 \in 0 .. DataEnd'
    BY <1>1, <2>3, DownNumbers
  <2> QED BY <1>2, <2>7, <2>9, <2>10, <2>11, Zenon DEF DownStream, DownAt
<1>14. Turns'
  <2>1. asked.size # 0
    BY <1>3 DEF WInv, Turns
  <2>2. /\ (pc["server"] = "send" <=> toSend > 0)' /\ (toSend <= asked.size)'
    BY <1>1, <1>2, <1>8, <2>1
  <2>3. /\ (pc["client"] # "idle" => asked.len # 0 /\ asked.size # 0)'
        /\ pc'["client"] # "idle"
        /\ (pc["client"] \in {"length", "packet"} => rest = 0 /\ placed = <<>>)'
        /\ (conn = "reset" => wire["down"] = <<>>)'
    BY <1>2, <1>3, <1>8 DEF WInv, Turns
  <2> QED BY <1>10, <2>2, <2>3, Zenon DEF Turns
<1> QED BY <1>9, <1>11, <1>12, <1>13, <1>14 DEF WInv

LEMMA SendDataStep == WInv /\ SendData => WInv'
<1> SUFFICES ASSUME WInv, SendData PROVE WInv'
  OBVIOUS
<1>1. /\ Values /\ "server" \in Ends /\ "client" \in Ends \ {"server"}
      /\ "down" \in Dirs /\ "up" \in Dirs \ {"down"} /\ number \in Nat /\ asked.size \in Nat
  BY Lengths DEF WInv, Ends, Dirs
<1>2. PICK n \in 1 .. LeastOf(toSend, Room) :
        /\ Write("down", Bytes("data", asked.size - toSend, asked.size - toSend + n))
        /\ toSend' = toSend - n
  BY DEF SendData
<1>3. /\ pc["server"] = "send" /\ conn = "open"
      /\ Goto("server", IF toSend' = 0 THEN "idle" ELSE "send")
      /\ UNCHANGED <<splits, inbox, conn, readVars, number, asked, rest, placed, faults>>
  BY DEF SendData
<1>4. /\ toSend \in Nat /\ toSend <= asked.size /\ n \in Nat \ {0} /\ n <= toSend
      /\ toSend' \in Nat /\ toSend' <= asked.size
  <2>1. toSend \in Nat /\ toSend <= asked.size /\ Room \in Nat
    BY <1>1, RoomLeft, DownNumbers DEF WInv, Turns
  <2> QED BY <1>1, <1>2, <2>1 DEF LeastOf
<1>5. /\ ~Unanswered /\ pc["client"] # "idle"
      /\ inbox["up"] = <<>> /\ wire["up"] = <<>>
  <2>1. toSend # 0
    BY <1>4
  <2>2. ~Unanswered /\ pc["client"] # "idle"
    BY <2>1 DEF WInv, Turns
  <2> QED BY <2>2 DEF Unanswered
<1>6. PICK at \in Nat : at = asked.size - toSend
  BY <1>1, <1>4
<1>7. PICK bytes \in Seq(Byte) :
        /\ bytes = Bytes("data", asked.size - toSend, asked.size - toSend + n)
        /\ Len(bytes) = n /\ bytes # <<>>
        /\ Follow(bytes, n, ReplyStream, ReplyEnd + at)
  <2>1. n \in Nat
    BY <1>4
  <2>2. PICK t \in Seq(Byte) :
          /\ t = Bytes("data", at, at + n) /\ Len(t) = n
          /\ Follow(t, n, ReplyStream, ReplyEnd + at)
    BY <1>1, <2>1, DataBytes, Zenon
  <2>3. t # <<>>
    BY <1>4, <2>2, EmptySeq
  <2> QED BY <1>6, <2>2, <2>3, Zenon
<1>8. /\ NetValues' /\ wire'["down"] = wire["down"] \o bytes
      /\ Len(wire'["down"]) = Len(wire["down"]) + Len(bytes)
      /\ cuts'["down"] = IF "down" \in splits THEN cuts["down"]
                         ELSE cuts["down"] \cup {Len(wire["down"]) + Len(bytes)}
      /\ wire'["up"] = wire["up"] /\ cuts'["up"] = cuts["up"]
  BY <1>1, <1>2, <1>3, <1>7, Written, Zenon
<1>9. /\ pc'["server"] = IF toSend' = 0 THEN "idle" ELSE "send"
      /\ pc'["client"] = pc["client"]
  BY <1>1, <1>3 DEF Goto, Values, PlaceValues
<1>10. Values'
  <2>1. PlaceValues'
    <3>1. (IF toSend' = 0 THEN "idle" ELSE "send") \in {"idle", "length", "packet", "send"}
      OBVIOUS
    <3> QED BY <1>1, <1>3, <3>1, Moved, Zenon
  <2>2. TaskValues'
    BY <1>1, <1>3, <1>4 DEF Values, TaskValues
  <2> QED BY <1>1, <1>3, <1>8, <2>1, <2>2, ReadKept DEF Values
<1>11. ~Unanswered' /\ pc'["server"] \notin {"length", "packet"}
  BY <1>3, <1>5, <1>8, <1>9 DEF Unanswered
<1>12. UpStream'
  BY <1>3, <1>5, <1>8, <1>10, <1>11, UpNothing
<1>13. ReplyThenData'
  BY <1>3, DataKept DEF WInv
<1>14. DownStream'
  <2>1. PICK b \in 0 .. DataEnd : DownAt(b) /\ ("down" \notin splits => DownWhole(b))
    BY <1>5 DEF DownStream, WInv
  <2>2. ReplyStream' = ReplyStream /\ ReplyEnd' = ReplyEnd /\ DataEnd' = DataEnd
    BY <1>3, StreamsKept
  <2>3. PICK a \in Nat, w \in Nat, re \in Nat :
          /\ a = Arrived(b) /\ w = Len(wire["down"]) /\ re = ReplyEnd /\ DataEnd = re + asked.size
    <3>1. b \in Nat /\ sizeRead["client"] \in Nat /\ Len(inbox["down"]) \in Nat
      BY <1>1, DownNumbers
    <3>2. Arrived(b) \in Nat
      <4>1. PICK x \in Nat, y \in Nat, z \in Nat :
              x = b /\ y = sizeRead["client"] /\ z = Len(inbox["down"])
        BY <3>1, Zenon
      <4>2. x + y + z \in Nat
        OBVIOUS
      <4> QED BY <4>1, <4>2, Zenon DEF Arrived
    <3> QED BY <1>1, <3>2, DownNumbers, Zenon
  <2>4. a + w + toSend = re + asked.size
    <3>1. Owing
      BY <1>3 DEF Owing
    <3> QED BY <2>1, <2>3, <3>1, Zenon DEF DownAt, DownBytes
  <2>5. /\ a + w = re + at /\ a + (w + n) + (toSend - n) = re + asked.size /\ w = re + at - a
        /\ w + n >= w
    <3>1. PICK s \in Nat, size \in Nat : s = toSend /\ size = asked.size
      BY <1>1, <1>4, Zenon
    <3>2. a + w + s = re + size /\ at = size - s
      BY <1>6, <2>4, <3>1, Zenon
    <3>3. n \in Nat
      BY <1>4, Zenon
    <3>4. /\ a + w = re + at /\ a + (w + n) + (s - n) = re + size /\ w = re + at - a
          /\ w + n >= w
      BY <3>2, <3>3
    <3> QED BY <3>1, <3>4, Zenon
  <2>6. Arrived(b)' = a
    BY <1>3, <2>3, Zenon DEF Arrived, readVars
  <2>7. Follow(wire'["down"], Len(wire'["down"]), ReplyStream, a)
    <3>1. Follow(bytes, Len(bytes), ReplyStream, a + Len(wire["down"]))
      BY <1>7, <2>3, <2>5, Zenon
    <3>2. Follow(wire["down"], Len(wire["down"]), ReplyStream, a)
      BY <2>1, <2>3, Zenon DEF DownAt, DownBytes
    <3>3. PICK q \in Seq(Byte) : q = wire["down"]
      BY <1>1, DownSequences, Zenon
    <3>4. Follow(q \o bytes, Len(q \o bytes), ReplyStream, a)
      BY <3>1, <3>2, <3>3, FollowJoin, Zenon
    <3> QED BY <1>8, <3>3, <3>4, Zenon
  <2>8. DownBytes(b)'
    <3>1. a + Len(wire'["down"]) + toSend' = DataEnd
      BY <1>2, <1>7, <1>8, <2>3, <2>5, Zenon
    <3>2. DataEnd <= DataEnd
      BY <1>1, DownNumbers
    <3>3. /\ Follow(buffer["client"], sizeRead["client"], ReplyStream, b)
          /\ Follow(inbox["down"], Len(inbox["down"]), ReplyStream, b + sizeRead["client"])
      BY <2>1 DEF DownAt, DownBytes
    <3> QED BY <1>3, <2>2, <2>6, <2>7, <3>1, <3>2, <3>3, Zenon DEF DownBytes, readVars
  <2>9. ~Dry
    BY <1>3 DEF Dry
  <2>10. DownCall(b)'
    BY <1>3, <1>9, <1>11, <2>1, <2>2, <2>9, Zenon DEF DownAt, DownCall, readVars
  <2>11. ASSUME "down" \notin splits
         PROVE  DownWhole(b)'
    <3>1. DownWhole(b)
      BY <2>1, <2>11
    <3>2. a = 0 => \A k \in cuts'["down"] : k >= ReplyEnd
      <4>1. SUFFICES ASSUME a = 0, NEW k \in cuts'["down"] PROVE k >= ReplyEnd
        OBVIOUS
      <4>2. CASE k \in cuts["down"]
        BY <2>3, <3>1, <4>1, <4>2, Zenon DEF DownWhole
      <4>3. CASE k = w + n
        <5>1. k >= re
          BY <1>4, <2>5, <4>1, <4>3
        <5> QED BY <2>3, <5>1
      <4> QED BY <1>7, <1>8, <2>3, <2>11, <4>2, <4>3, Zenon
    <3> QED BY <1>3, <1>9, <2>2, <2>3, <2>6, <2>9, <3>1, <3>2, Zenon DEF DownWhole, readVars
  <2> QED BY <1>3, <2>1, <2>2, <2>8, <2>10, <2>11, Zenon DEF DownStream, DownAt
<1>15. Turns'
  <2>1. (pc["server"] = "send" <=> toSend > 0)' /\ (toSend <= asked.size)'
    BY <1>3, <1>4, <1>9
  <2>2. /\ (pc["client"] # "idle" => asked.len # 0 /\ asked.size # 0)'
        /\ pc'["client"] # "idle"
        /\ (pc["client"] \in {"length", "packet"} => rest = 0 /\ placed = <<>>)'
        /\ (conn = "reset" => wire["down"] = <<>>)'
    BY <1>3, <1>5, <1>9 DEF WInv, Turns
  <2> QED BY <1>11, <2>1, <2>2, Zenon DEF Turns
<1> QED BY <1>10, <1>12, <1>13, <1>14, <1>15 DEF WInv
LEMMA CloseEarlyStep == WInv /\ CloseEarly => WInv'
<1> SUFFICES ASSUME WInv, CloseEarly PROVE WInv'
  OBVIOUS
<1>1. /\ Values /\ faults' = faults + 1 /\ faults < MaxFaults /\ conn' = "closed"
      /\ UNCHANGED <<splits, wire, cuts, inbox, pc, readVars, taskVars>>
  BY DEF WInv, CloseEarly, Fault
<1>2. Values'
  <2>1. NetValues'
    BY <1>1 DEF Values, NetValues
  <2>2. PlaceValues'
    BY <1>1, Sizes DEF Values, PlaceValues
  <2> QED BY <1>1, <2>1, <2>2, ReadKept, TaskKept DEF Values
<1>3. UpStream'
  BY <1>1, UpKept DEF WInv, readVars, taskVars
<1>4. Unanswered' = Unanswered
  BY <1>1 DEF Unanswered
<1>5. DownStream'
  <2>1. ~Owing' /\ ~(conn' = "open")
    BY <1>1 DEF Owing
  <2> QED BY <1>1, <1>4, <2>1, DownKept DEF WInv, readVars
<1>6. ReplyThenData'
  BY <1>1, DataKept DEF WInv, taskVars
<1>7. Turns'
  BY <1>1, <1>4 DEF WInv, Turns, taskVars
<1> QED BY <1>2, <1>3, <1>5, <1>6, <1>7 DEF WInv

LEMMA ResetStep == WInv /\ Reset => WInv'
<1> SUFFICES ASSUME WInv, Reset PROVE WInv'
  OBVIOUS
<1>1. /\ Values /\ faults' = faults + 1 /\ faults < MaxFaults /\ conn = "open" /\ conn' = "reset"
      /\ wire' = [d \in {"up", "down"} |-> <<>>] /\ cuts' = [d \in {"up", "down"} |-> {}]
      /\ UNCHANGED <<splits, inbox, pc, readVars, taskVars>>
  BY DEF WInv, Reset, Fault
<1>2. /\ wire'["up"] = <<>> /\ wire'["down"] = <<>> /\ cuts'["down"] = {}
      /\ Len(<<>>) = 0 /\ <<>> \in Seq(Byte)
  BY <1>1, EmptySeq
<1>3. Values'
  <2>1. NetValues'
    BY <1>1, <1>2 DEF Values, NetValues, Dirs
  <2>2. PlaceValues'
    BY <1>1, Sizes DEF Values, PlaceValues
  <2> QED BY <1>1, <2>1, <2>2, ReadKept, TaskKept DEF Values
<1>4. Unanswered' => Unanswered
  BY <1>1, <1>2 DEF Unanswered
<1>5. /\ RequestStream' = RequestStream /\ RequestEnd' = RequestEnd
      /\ ReplyStream' = ReplyStream /\ ReplyEnd' = ReplyEnd /\ DataEnd' = DataEnd
  BY <1>1, StreamsKept DEF taskVars
<1>6. UpStream'
  <2>1. SUFFICES ASSUME pc["client"] # "idle" PROVE UpStream'
    BY <1>1 DEF UpStream
  <2>2. PICK b \in 0 .. RequestEnd : UpAt(b) /\ ("up" \notin splits => UpWhole(b))
    BY <2>1 DEF UpStream, WInv
  <2>3. Fresh' = Fresh
    BY <1>1 DEF Fresh, readVars
  <2>4. b + Fresh + Len(inbox["up"]) + 0 <= RequestEnd
    <3>1. PICK f \in Nat, l \in Nat, w \in Nat, end \in Nat :
            f = Fresh /\ l = Len(inbox["up"]) /\ w = Len(wire["up"]) /\ end = RequestEnd
      <4> QED BY <1>1, UpNumbers, Lengths, Zenon
    <3>2. b + f + l + w <= end /\ b \in 0 .. end
      BY <2>2, <3>1, Zenon DEF UpAt
    <3>3. b + f + l + 0 <= end
      BY <3>2
    <3> QED BY <3>1, <3>3, Zenon
  <2>5. Follow(<<>>, 0, RequestStream, b + Fresh + Len(inbox["up"]))
    BY DEF Follow
  <2>6. UpAt(b)'
    BY <1>1, <1>2, <1>5, <2>2, <2>3, <2>4, <2>5, Zenon DEF UpAt, readVars
  <2>7. UpWhole(b) => UpWhole(b)'
    BY <1>1, <1>2, <1>5, <2>3, Zenon DEF UpWhole, readVars, taskVars
  <2> QED BY <1>1, <1>5, <2>2, <2>6, <2>7, Zenon DEF UpStream
<1>7. DownStream'
  <2>1. SUFFICES ASSUME pc["client"] # "idle" PROVE DownStream'
    BY <1>1 DEF DownStream
  <2>2. PICK b \in 0 .. DataEnd : DownAt(b) /\ ("down" \notin splits => DownWhole(b))
    BY <2>1 DEF DownStream, WInv
  <2>3. Arrived(b)' = Arrived(b) /\ ~Dry
    BY <1>1 DEF Arrived, readVars, Dry
  <2>4. Arrived(b) + 0 + toSend <= DataEnd
    <3>1. PICK a \in Nat, w \in Nat, s \in Nat, end \in Nat :
            a = Arrived(b) /\ w = Len(wire["down"]) /\ s = toSend /\ end = DataEnd
      <4>1. b \in Nat /\ sizeRead["client"] \in Nat /\ Len(inbox["down"]) \in Nat
        BY <1>1, DownNumbers
      <4>2. PICK x \in Nat, y \in Nat, z \in Nat :
              x = b /\ y = sizeRead["client"] /\ z = Len(inbox["down"])
        BY <4>1, Zenon
      <4>3. x + y + z \in Nat
        OBVIOUS
      <4>4. Arrived(b) \in Nat
        BY <4>2, <4>3, Zenon DEF Arrived
      <4>5. DataEnd \in Nat
        BY <1>1, Lengths, Sizes DEF DataEnd, ReplyEnd
      <4> QED BY <1>1, <4>4, <4>5, DownNumbers, Zenon
    <3>2. a + w + s <= end
      BY <2>2, <3>1, Zenon DEF DownAt, DownBytes
    <3>3. a + 0 + s <= end
      BY <3>2
    <3> QED BY <3>1, <3>3, Zenon
  <2>5. Follow(<<>>, 0, ReplyStream, Arrived(b)) /\ ~Owing'
    BY <1>1 DEF Follow, Owing
  <2>6. DownBytes(b)'
    BY <1>1, <1>2, <1>5, <2>2, <2>3, <2>4, <2>5, Zenon DEF DownAt, DownBytes, readVars, taskVars
  <2>7. DownCall(b)'
    BY <1>1, <1>4, <1>5, <2>2, <2>3, Zenon DEF DownAt, DownCall, readVars, taskVars
  <2>8. DownWhole(b) => DownWhole(b)'
    <3>1. \A k \in cuts'["down"] : k >= ReplyEnd
      BY <1>2
    <3> QED BY <1>1, <1>5, <2>3, <3>1, Zenon DEF DownWhole, readVars, taskVars
  <2> QED BY <1>1, <1>5, <2>2, <2>6, <2>7, <2>8, Zenon DEF DownStream, DownAt
<1>8. ReplyThenData'
  BY <1>1, DataKept DEF WInv, taskVars
<1>9. Turns'
  BY <1>1, <1>2, <1>4 DEF WInv, Turns, taskVars
<1> QED BY <1>3, <1>6, <1>7, <1>8, <1>9 DEF WInv

LEMMA RequestStep == WInv /\ Request => WInv'
<1> SUFFICES ASSUME WInv, Request PROVE WInv'
  OBVIOUS
<1>1. /\ Values /\ "client" \in Ends /\ "server" \in Ends \ {"client"}
      /\ "up" \in Dirs /\ "down" \in Dirs \ {"up"} /\ number \in Nat
  BY Lengths DEF WInv, Ends, Dirs
<1>2. /\ pc["client"] = "idle" /\ number < MaxRequests /\ number' = number + 1 /\ placed' = <<>>
      /\ Write("up", (Length \o Body(asked.len))') /\ Call("client", HeaderLen, "length")
      /\ UNCHANGED <<splits, inbox, conn, buffer, toSend, rest, faults>>
  BY DEF Request
<1>3. PICK n \in RequestLens, s \in DataLens : asked' = [len |-> n, size |-> s]
  BY DEF Request
<1>4. /\ asked'.len \in Nat \ {0} /\ asked'.size \in Nat \ {0}
      /\ asked' \in [len : RequestLens \cup {0}, size : DataLens \cup {0}]
      /\ number' \in Nat /\ number' \in 0 .. MaxRequests
  BY <1>1, <1>2, <1>3, Sizes
<1>5. /\ pc["server"] = "idle" /\ toSend = 0 /\ rest = 0
      /\ inbox["up"] = <<>> /\ wire["up"] = <<>>
      /\ inbox["down"] = <<>> /\ wire["down"] = <<>>
  <2>1. ~Unanswered /\ toSend = 0 /\ rest = 0 /\ inbox["down"] = <<>> /\ wire["down"] = <<>>
    BY <1>2 DEF WInv, Turns
  <2>2. pc["server"] # "send"
    BY <2>1 DEF WInv, Turns
  <2> QED BY <1>1, <2>1, <2>2 DEF Unanswered, Values, PlaceValues
<1>6. /\ RequestEnd' \in Nat \ {0} /\ DataEnd' \in Nat /\ ReplyEnd' \in Nat
      /\ Len(<<>>) = 0 /\ 0 + 0 = 0 /\ 0 + 0 + 0 = 0 /\ 0 + 0 + 0 + 0 = 0
      /\ 0 + RequestEnd' = RequestEnd' /\ 0 + 0 + 0 + RequestEnd' = RequestEnd'
  BY <1>4, Sizes, EmptySeq DEF RequestEnd, DataEnd, ReplyEnd
<1>7. PICK bytes \in Seq(Byte) :
        /\ bytes = (Length \o Body(asked.len))' /\ Len(bytes) = RequestEnd' /\ bytes # <<>>
        /\ Follow(bytes, RequestEnd', RequestStream', 0)
  <2>1. (/\ Length \o Body(asked.len) \in Seq(Byte)
         /\ Len(Length \o Body(asked.len)) = RequestEnd
         /\ Follow(Length \o Body(asked.len), RequestEnd, RequestStream, 0))'
    <3>1. (number \in Nat /\ asked.len \in Nat)'
      BY <1>4
    <3> QED BY <3>1, RequestBytes, PTL
  <2>2. PICK t \in Seq(Byte) :
          /\ t = (Length \o Body(asked.len))' /\ Len(t) = RequestEnd'
          /\ Follow(t, RequestEnd', RequestStream', 0)
    BY <2>1, Zenon
  <2>3. t # <<>>
    BY <1>6, <2>2
  <2> QED BY <2>2, <2>3
<1>8. /\ NetValues' /\ wire'["up"] = wire["up"] \o bytes
      /\ cuts'["up"] = IF "up" \in splits THEN cuts["up"]
                       ELSE cuts["up"] \cup {Len(wire["up"]) + Len(bytes)}
      /\ wire'["down"] = wire["down"] /\ cuts'["down"] = cuts["down"]
  BY <1>1, <1>2, <1>7, Written, Zenon
<1>9. wire'["up"] = bytes /\ ("up" \notin splits => cuts'["up"] = {RequestEnd'})
  <2>1. <<>> \o bytes = bytes
    BY ConcatEmptySeq
  <2>2. cuts["up"] = {} /\ Len(wire["up"]) = 0
    BY <1>1, <1>5, NoCuts, Zenon
  <2> QED BY <1>5, <1>6, <1>7, <1>8, <2>1, <2>2
<1>10. /\ ReadValues' /\ limit'["client"] = HeaderLen /\ sizeRead'["client"] = 0
       /\ Goto("client", "length")
  <2>1. HeaderLen \in Nat /\ LimitOf(HeaderLen) = HeaderLen
    BY Limits, Sizes
  <2> QED BY <1>1, <1>2, <2>1, Called, Zenon
<1>11. pc'["client"] = "length" /\ pc'["server"] = "idle"
  BY <1>1, <1>5, <1>10 DEF Goto, Values, PlaceValues
<1>12. Values'
  <2>1. PlaceValues'
    BY <1>1, <1>2, <1>10, Moved, Zenon
  <2>2. TaskValues'
    BY <1>2, <1>4, <1>5, EmptySeq DEF TaskValues
  <2> QED BY <1>8, <1>10, <2>1, <2>2 DEF Values
<1>13. UpStream'
  <2>1. Fresh' = 0
    BY <1>11 DEF Fresh
  <2>2. UpAt(0)'
    <3>1. /\ Follow(buffer'["server"], 0, RequestStream', 0) /\ Follow(<<>>, 0, RequestStream', 0)
          /\ RequestEnd' <= RequestEnd'
      BY <1>6 DEF Follow
    <3> QED BY <1>2, <1>5, <1>6, <1>7, <1>9, <2>1, <3>1, Zenon DEF UpAt
  <2>3. "up" \notin splits' => UpWhole(0)'
    BY <1>2, <1>5, <1>7, <1>9, <1>11, Zenon DEF UpWhole
  <2>4. 0 \in 0 .. RequestEnd'
    BY <1>6
  <2> QED BY <2>2, <2>3, <2>4, Zenon DEF UpStream
<1>14. DownStream'
  <2>1. Arrived(0)' = 0 /\ 0 <= DataEnd'
    BY <1>2, <1>5, <1>6, <1>10 DEF Arrived
  <2>2. DownBytes(0)'
    <3>1. Follow(buffer'["client"], 0, ReplyStream', 0) /\ Follow(<<>>, 0, ReplyStream', 0)
      BY DEF Follow
    <3>2. ~Owing'
      BY <1>7, <1>9, <1>11 DEF Owing, Unanswered
    <3> QED BY <1>2, <1>5, <1>6, <1>8, <1>10, <2>1, <3>1, <3>2, Zenon DEF DownBytes
  <2>3. DownCall(0)'
    BY <1>6, <1>10, <1>11 DEF DownCall
  <2>4. DownWhole(0)'
    <3>1. cuts'["down"] = {}
      BY <1>1, <1>5, <1>8, NoCuts, Zenon
    <3> QED BY <1>10, <1>11, <2>1, <3>1 DEF DownWhole
  <2>5. 0 \in 0 .. DataEnd'
    BY <1>6
  <2> QED BY <2>2, <2>3, <2>4, <2>5, Zenon DEF DownStream, DownAt
<1>15. ReplyThenData'
  <2>1. PICK f : f = [i \in 1 .. 0 - 0 |-> <<number', "data", 0 + i - 1>>]
    OBVIOUS
  <2>2. f \in [1 .. 0 -> Byte]
    BY <2>1
  <2>3. f \in Seq(Byte) /\ Len(f) = 0
    BY <2>2, Sequence
  <2>4. f = <<>>
    BY <2>3, EmptySeq
  <2>5. Bytes("data", 0, 0)' = <<>>
    BY <2>1, <2>4, Zenon DEF Bytes
  <2> QED BY <1>2, <1>6, <2>5, Zenon DEF ReplyThenData, DataInPlace, Bytes
<1>16. Turns'
  <2>1. /\ (pc["server"] = "send" <=> toSend > 0)' /\ (toSend <= asked.size)'
        /\ (pc["client"] # "idle" => asked.len # 0 /\ asked.size # 0)'
        /\ pc'["client"] # "idle"
    BY <1>2, <1>4, <1>5, <1>11
  <2>2. /\ (pc["client"] \in {"length", "packet"} => rest = 0 /\ placed = <<>>)'
        /\ inbox'["down"] = <<>> /\ wire'["down"] = <<>> /\ toSend' = 0
    BY <1>2, <1>5, <1>8
  <2> QED BY <2>1, <2>2, Zenon DEF Turns
<1> QED BY <1>12, <1>13, <1>14, <1>15, <1>16 DEF WInv
-----------------------------------------------------------------------------
(***************************************************************************)
(* The theorems.                                                           *)
(***************************************************************************)
LEMMA WInvInit == Init => WInv
<1> SUFFICES ASSUME Init PROVE WInv
  OBVIOUS
<1>1. /\ splits \subseteq Splits /\ number = 0 /\ asked = [len |-> 0, size |-> 0]
      /\ wire = [d \in {"up", "down"} |-> <<>>] /\ inbox = [d \in {"up", "down"} |-> <<>>]
      /\ cuts = [d \in {"up", "down"} |-> {}] /\ conn = "open" /\ pc = [e \in Ends |-> "idle"]
      /\ buffer = [e \in Ends |-> <<>>] /\ limit = [e \in Ends |-> 0]
      /\ sizeRead = [e \in Ends |-> 0]
      /\ toSend = 0 /\ rest = 0 /\ placed = <<>> /\ faults = 0
  BY DEF Init
<1>2. Len(<<>>) = 0 /\ <<>> \in Seq(Byte)
  BY EmptySeq
<1>3. NetValues
  BY <1>1, <1>2 DEF NetValues, Dirs
<1>4. ReadValues
  <2>1. /\ 0 \in 0 .. BufferLen /\ 0 \in Nat /\ 0 <= 0 /\ 0 < BufferLen + ReadUnit
    BY Sizes
  <2> QED BY <1>1, <1>2, <2>1, Zenon DEF ReadValues
<1>5. TaskValues
  BY <1>1, <1>2, Sizes DEF TaskValues
<1>6. PlaceValues
  BY <1>1, Sizes DEF PlaceValues, Ends
<1>7. pc["server"] = "idle" /\ pc["client"] = "idle"
  BY <1>1 DEF Ends
<1>8. Turns
  BY <1>1, <1>7 DEF Turns, Unanswered
<1>9. ReplyThenData
  <2>1. PICK f : f = [i \in 1 .. 0 - 0 |-> <<number, "data", 0 + i - 1>>]
    OBVIOUS
  <2>2. f \in [1 .. 0 -> Byte]
    BY <2>1
  <2>3. f = <<>>
    BY <2>2, Sequence, EmptySeq
  <2>4. Bytes("data", 0, 0) = <<>>
    BY <2>1, <2>3, Zenon DEF Bytes
  <2> QED BY <1>1, <1>2, <2>4, Zenon DEF ReplyThenData, DataInPlace
<1> QED BY <1>3, <1>4, <1>5, <1>6, <1>7, <1>8, <1>9 DEF WInv, Values, UpStream, DownStream

LEMMA WInvStutter == WInv /\ UNCHANGED vars => WInv'
<1> SUFFICES ASSUME WInv, UNCHANGED vars PROVE WInv'
  OBVIOUS
<1>1. Values /\ UNCHANGED <<netVars, pc, readVars, taskVars, faults>>
  BY DEF WInv, vars
<1>2. Values'
  BY <1>1, NetKept, ReadKept, TaskKept, PlaceKept DEF Values
<1>3. UpStream'
  BY <1>1, UpKept DEF WInv, netVars, readVars, taskVars
<1>4. Unanswered' = Unanswered /\ Owing' = Owing
  BY <1>1 DEF Unanswered, Owing, netVars
<1>5. DownStream'
  BY <1>1, <1>4, DownKept DEF WInv, netVars, readVars
<1>6. ReplyThenData'
  BY <1>1, DataKept DEF WInv, netVars, taskVars
<1>7. Turns'
  BY <1>1, <1>4 DEF WInv, Turns, netVars, taskVars
<1> QED BY <1>2, <1>3, <1>5, <1>6, <1>7 DEF WInv

LEMMA WInvNext == WInv /\ [Next]_vars => WInv'
<1> SUFFICES ASSUME WInv, [Next]_vars PROVE WInv'
  OBVIOUS
<1>1. CASE \E d \in {"up", "down"} : Arrive(d)
  BY <1>1, ArriveUp, ArriveDown
<1>2. CASE Server
  BY <1>2, HandleEventStep, ReadSomeServer, ReadPacketStep, NoPacketStep, AnswerStep,
     RejectPacketStep, SendDataStep DEF Server
<1>3. CASE CloseEarly \/ Reset \/ Request
  BY <1>3, CloseEarlyStep, ResetStep, RequestStep
<1>4. CASE Client
  BY <1>4, ReadSomeClient, ReadErrorStep, ReadReplyStep, AcceptReplyStep, TakeDataStep,
     DropConnectionStep DEF Client
<1>5. CASE Finished \/ UNCHANGED vars
  BY <1>5, WInvStutter DEF Finished
<1> QED BY <1>1, <1>2, <1>3, <1>4, <1>5 DEF Next

\* The inductive invariant: every byte that is written, on its way or read is at
\* its place in the request or in the reply and its data, and no end is ahead of
\* the other.
THEOREM StreamsInvariant == Spec => []WInv
<1> QED BY WInvInit, WInvNext, PTL DEF Spec

\* Every variable of Wire has its type; above all Socket::read (Socket.cpp) never
\* counts more bytes than its buffer has, and goes past the end of the buffer by
\* less than a READ_UNIT.
THEOREM WireTypeCorrect == Spec => []TypeOK
<1>1. WInv => TypeOK
  <2> SUFFICES ASSUME WInv PROVE TypeOK
    OBVIOUS
  <2>1. Values
    BY DEF WInv
  <2>2. ASSUME NEW e \in Ends
        PROVE  /\ limit[e] \in 0 .. BufferLen /\ sizeRead[e] \in 0 .. Len(buffer[e])
               /\ Len(buffer[e]) < BufferLen + ReadUnit
    <3>1. /\ limit[e] \in 0 .. BufferLen /\ sizeRead[e] \in Nat /\ Len(buffer[e]) \in Nat
          /\ sizeRead[e] <= Len(buffer[e]) /\ Len(buffer[e]) < BufferLen + ReadUnit
      BY <2>1, Lengths DEF Values, ReadValues
    <3> QED BY <3>1
  <2> QED BY <2>1, <2>2, Zenon DEF TypeOK, Values, NetValues, TaskValues, PlaceValues
<1> QED BY <1>1, StreamsInvariant, PTL

\* When requests arrive whole, what Session::handle takes from its buffer, after
\* it read the length field whose result it does not look at, is the request the
\* client wrote, all of it and nothing else.
THEOREM RequestsStayFramed == Spec => []RequestsFramed
<1>1. WInv => RequestsFramed
  BY HeardWhole, Zenon DEF RequestsFramed
<1> QED BY <1>1, StreamsInvariant, PTL

\* "Followed by the binary data" (Protocol.h 36): when replies arrive whole, the
\* bytes the client writes to its file are those of the part it asked for, each at
\* its place, however the requests and the data are cut and whatever ended early.
THEOREM DataFollowsReply == Spec => []ReplyThenData
<1>1. WInv => ReplyThenData
  BY DEF WInv
<1> QED BY <1>1, StreamsInvariant, PTL

\* The client asks for the next part only when nothing of the last one is left in
\* the connection, in pieces or whole: downloadPart reads exactly what it asked for,
\* and drops the connection when it cannot.
THEOREM NothingIsLeftOver == Spec => []NothingLeftOver
<1>1. WInv => NothingLeftOver
  BY DEF WInv, Turns, NothingLeftOver
<1> QED BY <1>1, StreamsInvariant, PTL

\* rio_writen's result, which processDownload ignores (Session.cpp 137), never
\* hides a reply that was torn: the server's socket is empty when it answers.
THEOREM RepliesGoWhole == Spec => []RepliesWhole
<1>1. WInv => RepliesWhole
  BY ReadyToAnswer, Sizes DEF RepliesWhole
<1> QED BY <1>1, StreamsInvariant, PTL

\* If packets arrive whole, the client never waits in vain: when there is nothing
\* for it to read and the connection has not ended, something is on its way, or
\* the server has data to send and room for it, or a request to answer.
\* Without it Wire!PartArrives could not hold.
WaitsForSomething ==
  splits = {} /\ Reading("client") /\ Returns("client") = {} /\ inbox["down"] = <<>> =>
    \/ conn = "reset" \/ wire["down"] # <<>>
    \/ /\ conn = "open"
       /\ \/ toSend > 0 /\ Room > 0
          \/ wire["up"] # <<>> \/ inbox["up"] # <<>> \/ pc["server"] \in {"length", "packet"}

\* Nobody waits in vain: when packets arrive whole and the client has nothing to
\* read on a connection that lives, the server has its request to answer, or data
\* to send and room for it; what downloadPart asks of Socket::read is never more
\* than processDownload and handleWriting send for the part.
THEOREM NobodyWaitsInVain == Spec => []WaitsForSomething
<1>1. WInv => WaitsForSomething
  <2> SUFFICES ASSUME WInv, splits = {}, Reading("client"), Returns("client") = {},
                      inbox["down"] = <<>>, wire["down"] = <<>>, conn # "reset",
                      ~(conn = "open" /\ toSend > 0 /\ Room > 0),
                      ~(conn = "open" /\ Unanswered)
               PROVE  FALSE
    BY DEF WaitsForSomething, Unanswered
  <2>1. /\ Values /\ Turns /\ pc["client"] \in {"length", "packet", "data"}
        /\ conn \in {"open", "closed", "reset"}
    BY DEF WInv, Reading, Values, NetValues
  <2>2. conn = "open" /\ ~(sizeRead["client"] >= limit["client"]) /\ ~Dry
    BY <2>1 DEF Returns, Incoming, Dry
  <2>3. toSend = 0
    <3>1. Len(inbox["down"]) = 0 /\ Len(wire["down"]) = 0 /\ 0 < SendSpace /\ toSend \in Nat
      BY <2>1, Lengths, Sizes, EmptySeq
    <3>2. Room > 0
      BY <3>1, Sizes DEF Room, OnTheWay
    <3> QED BY <2>2, <3>1, <3>2
  <2>4. Owing
    BY <2>2 DEF Owing
  <2>5. PICK b \in 0 .. DataEnd : DownAt(b) /\ DownWhole(b)
    BY <2>1 DEF DownStream, WInv
  <2>6. PICK r \in Nat, l \in Nat, h \in Nat \ {0}, p \in Nat \ {0}, size \in Nat \ {0} :
          /\ r = sizeRead["client"] /\ l = limit["client"] /\ h = HeaderLen /\ p = ReplyLen
          /\ size = asked.size
    <3>1. "client" \in Ends /\ asked.size # 0
      BY <2>1 DEF Ends, Turns
    <3> QED BY <2>1, <3>1, Lengths, Sizes
  <2>7. b + r = h + p + size /\ r < l
    <3>1. b + r + 0 + 0 + 0 = DataEnd
      <4>1. Len(inbox["down"]) = 0 /\ Len(wire["down"]) = 0
        BY EmptySeq
      <4> QED BY <2>3, <2>4, <2>5, <2>6, <4>1, Zenon DEF DownAt, DownBytes, Arrived
    <3>2. DataEnd = h + p + size
      BY <2>6, Zenon DEF DataEnd, ReplyEnd
    <3>3. b \in Nat
      BY <2>1, DownNumbers
    <3>4. ~(r >= l)
      BY <2>2, <2>6, Zenon
    <3> QED BY <3>1, <3>2, <3>3, <3>4
  <2>8. CASE pc["client"] = "length"
    <3>1. b = 0 /\ l = h
      BY <2>2, <2>5, <2>6, <2>8, Zenon DEF DownAt, DownCall
    <3> QED BY <2>7, <3>1
  <2>9. CASE pc["client"] = "packet"
    <3>1. b = h /\ l = p
      BY <2>2, <2>5, <2>6, <2>9, Zenon DEF DownWhole
    <3> QED BY <2>7, <3>1
  <2>10. CASE pc["client"] = "data"
    <3>1. PICK m \in Nat : m = Len(placed)
      BY <2>1, LenProperties DEF Values, TaskValues
    <3>2. b = h + p + m /\ l <= size - m
      BY <2>5, <2>6, <2>10, <3>1, Zenon DEF DownAt, DownCall, DownWhole, ReplyEnd
    <3> QED BY <2>7, <3>2
  <2> QED BY <2>1, <2>8, <2>9, <2>10
<1> QED BY <1>1, StreamsInvariant, PTL
=============================================================================
