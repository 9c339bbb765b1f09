---------------------------------- MODULE Wire ----------------------------------
(***************************************************************************)
(* Packets on a connection's byte streams: Socket::read and its callers    *)
(* (Session::handle on the server, receiveResponse and the data loop of    *)
(* DownloadThread::downloadPart on the client), one connection, downloads  *)
(* one after the other.                                                    *)
(*                                                                         *)
(* A packet is a length field of HeaderLen bytes and a body whose first    *)
(* byte is the type.  The client writes a request; the server answers with *)
(* a BINARY packet and sends the data behind it.  A byte is abstracted to  *)
(* where it belongs: the number of the request it is part of or answers,   *)
(* "length", "body" or "data", and its index there.                        *)
(*                                                                         *)
(* What one end writes in one call arrives in one piece, or, in the        *)
(* directions of `splits`, TCP may deliver any part of it first.  Data     *)
(* goes out and arrives in pieces anyway.  Each ::read is a step: it       *)
(* returns what has arrived, up to what it asks for.  The server's socket  *)
(* does not block, the client's does; the server's takes SendSpace bytes   *)
(* that the client has not read.                                           *)
(***************************************************************************)
EXTENDS Integers, Sequences

CONSTANTS
  HeaderLen,    \* bytes of a packet's length field (4)
  RequestLens,  \* bodies of requests: how long they may be
  ReplyLen,     \* body of a BINARY packet (1 byte of type and 8 of size)
  DataLens,     \* sizes of the parts asked for
  ReadUnit,     \* READ_UNIT
  BufferLen,    \* size of a read buffer
  SendSpace,    \* bytes the server's socket takes before it is full
  Splits,       \* directions in which writes may arrive in pieces
  MaxRequests,  \* bound: requests
  MaxFaults     \* bound: connections that end early

ASSUME WireAssumption ==
  /\ HeaderLen \in Nat \ {0} /\ ReadUnit \in Nat
  /\ RequestLens \subseteq Nat \ {0} /\ DataLens \subseteq Nat \ {0}
  /\ ReplyLen \in Nat \ {0}
  /\ HeaderLen <= ReadUnit /\ ReplyLen <= ReadUnit
  /\ BufferLen \in Nat
  /\ SendSpace \in Nat /\ HeaderLen + ReplyLen <= SendSpace
  /\ \A n \in RequestLens \cup DataLens \cup {HeaderLen, ReplyLen, ReadUnit} : n <= BufferLen
  /\ Splits \subseteq {"up", "down"}
  /\ MaxRequests \in Nat /\ MaxFaults \in Nat

VARIABLES
  splits,    \* directions in which writes do arrive in pieces: it never changes
  number,    \* requests written so far
  asked,     \* the last one: the length of its body and the size of its part
  wire,      \* per direction: bytes on their way
  cuts,      \* per direction not in `splits`: where on the wire the writes end
  inbox,     \* per direction: bytes that have arrived
  conn,      \* the connection: "open", "closed" by the server, or "reset"
  pc,        \* per end: where it is
  buffer,    \* per end: its read buffer, as far as it was ever written
  limit,     \* per end: Socket::read's limit
  sizeRead,  \* per end: Socket::read's sizeRead
  toSend,    \* server: what is left to send of the part
  rest,      \* client: what is left to receive of the part
  placed,    \* client: the bytes written to the file for this part
  faults     \* history: connections ended early

netVars  == <<splits, wire, cuts, inbox, conn>>
readVars == <<buffer, limit, sizeRead>>
taskVars == <<number, asked, toSend, rest, placed>>
vars == <<netVars, pc, readVars, taskVars, faults>>

Ends == {"server", "client"}
Incoming(e) == IF e = "server" THEN "up" ELSE "down"

LeastOf(a, b) == IF a <= b THEN a ELSE b

Bytes(kind, from, to) == [i \in 1 .. to - from |-> <<number, kind, from + i - 1>>]
Length == Bytes("length", 0, HeaderLen)
Body(n) == Bytes("body", 0, n)

Init ==
  /\ splits \in SUBSET Splits
  /\ number = 0 /\ asked = [len |-> 0, size |-> 0]
  /\ wire = [d \in {"up", "down"} |-> <<>>]
  /\ cuts = [d \in {"up", "down"} |-> {}]
  /\ inbox = [d \in {"up", "down"} |-> <<>>]
  /\ conn = "open"
  /\ pc = [e \in Ends |-> "idle"]
  /\ buffer = [e \in Ends |-> <<>>]
  /\ limit = [e \in Ends |-> 0]
  /\ sizeRead = [e \in Ends |-> 0]
  /\ toSend = 0 /\ rest = 0 /\ placed = <<>>
  /\ faults = 0

Goto(e, label) == pc' = [pc EXCEPT ![e] = label]
Write(d, bytes) ==
  /\ wire' = [wire EXCEPT ![d] = @ \o bytes]
  /\ cuts' = IF d \in splits THEN cuts
             ELSE [cuts EXCEPT ![d] = @ \cup {Len(wire[d]) + Len(bytes)}]

\* What the server's socket takes now.
OnTheWay(d) == Len(inbox[d]) + Len(wire[d])
Room == IF OnTheWay("down") < SendSpace THEN SendSpace - OnTheWay("down") ELSE 0

-----------------------------------------------------------------------------
(***************************************************************************)
(* The network.                                                            *)
(***************************************************************************)
Arrive(d) ==
  /\ wire[d] # <<>>
  /\ \E n \in IF d \in splits THEN 1 .. Len(wire[d]) ELSE cuts[d] :
       /\ inbox' = [inbox EXCEPT ![d] = @ \o SubSeq(wire[d], 1, n)]
       /\ wire' = [wire EXCEPT ![d] = SubSeq(@, n + 1, Len(@))]
       /\ cuts' = [cuts EXCEPT ![d] = {k - n : k \in {c \in @ : c > n}}]
  /\ UNCHANGED <<splits, conn, pc, readVars, taskVars, faults>>

-----------------------------------------------------------------------------
(***************************************************************************)
(* Socket::read.                                                           *)
(***************************************************************************)
\* Call it with `n`: 0 stands for the whole buffer, and no more is read.
LimitOf_NoCap(n) == IF n = 0 THEN BufferLen ELSE n
LimitOf(n) == IF n = 0 THEN BufferLen ELSE LeastOf(n, BufferLen)

Call(e, n, label) ==
  /\ limit' = [limit EXCEPT ![e] = LimitOf(n)]
  /\ sizeRead' = [sizeRead EXCEPT ![e] = 0]
  /\ Goto(e, label)

\* What one ::read asks for.
AskFor_Unit(e) == ReadUnit
AskFor(e) == LeastOf(limit[e], ReadUnit)

\* The labels at which an end is in Socket::read.
Reading(e) == pc[e] \in {"length", "packet", "data"}

Overwrite(old, at, bytes) ==
  [i \in 1 .. IF Len(old) > at + Len(bytes) THEN Len(old) ELSE at + Len(bytes) |->
     IF i > at /\ i <= at + Len(bytes) THEN bytes[i - at] ELSE old[i]]

\* One ::read, which does not fill the limit.
ReadSome(e) ==
  LET d == Incoming(e)
      n == LeastOf(AskFor(e), Len(inbox[d]))
  IN  /\ Reading(e)
      /\ n > 0 /\ sizeRead[e] < limit[e]
      /\ buffer' = [buffer EXCEPT ![e] = Overwrite(@, sizeRead[e], SubSeq(inbox[d], 1, n))]
      /\ inbox' = [inbox EXCEPT ![d] = SubSeq(@, n + 1, Len(@))]
      /\ sizeRead' = [sizeRead EXCEPT ![e] = @ + n]
      /\ UNCHANGED <<splits, wire, cuts, conn, pc, limit, taskVars, faults>>

\* An error breaks the loop; the next ::read is at the end of the stream.
ReadError ==
  /\ Reading("client") /\ sizeRead["client"] < limit["client"]
  /\ conn = "reset" /\ inbox["down"] = <<>>
  /\ limit' = [limit EXCEPT !["client"] = sizeRead["client"]]
  /\ conn' = "closed"
  /\ UNCHANGED <<splits, wire, cuts, inbox, pc, buffer, sizeRead, taskVars, faults>>

\* What Socket::read returns, once it returns: -1 at the end of the stream, and
\* what it has when the limit is reached or a non-blocking socket is empty.
Returns(e) ==
  IF ~Reading(e) THEN {}
  ELSE IF sizeRead[e] >= limit[e] THEN {sizeRead[e]}
  ELSE IF inbox[Incoming(e)] # <<>> THEN {}
  ELSE IF e = "client" /\ conn = "closed" /\ wire["down"] = <<>> THEN {-1}
  ELSE IF e = "server" THEN {sizeRead[e]}
  ELSE {}

\* The length field in the buffer: what the sender wrote if all of it is there,
\* and any number if not.
LengthField(e, sent) ==
  IF Len(buffer[e]) >= HeaderLen /\ SubSeq(buffer[e], 1, HeaderLen) = Length
  THEN {sent}
  ELSE 0 .. BufferLen + 1

Content(e, n) == SubSeq(buffer[e], 1, n)

-----------------------------------------------------------------------------
(***************************************************************************)
(* The server: Session::handle.                                            *)
(***************************************************************************)
\* An event: bytes have come.
HandleEvent ==
  /\ pc["server"] = "idle" /\ conn = "open"
  /\ inbox["up"] # <<>>
  /\ Call("server", HeaderLen, "length")
  /\ UNCHANGED <<netVars, buffer, taskVars, faults>>

\* The result of read(4) is ignored.
ReadPacket ==
  /\ pc["server"] = "length"
  /\ Returns("server") # {}
  /\ \E n \in LengthField("server", asked.len) : Call("server", n, "packet")
  /\ UNCHANGED <<netVars, buffer, taskVars, faults>>

\* Nothing more to read: back to epoll.
NoPacket ==
  /\ pc["server"] = "packet"
  /\ 0 \in Returns("server")
  /\ Goto("server", "idle")
  /\ UNCHANGED <<netVars, readVars, taskVars, faults>>

Served(n) == n >= asked.len /\ Content("server", asked.len) = Body(asked.len)

\* rio_writen to a socket that does not block: it goes on until nothing is taken
\* any more, which is at the earliest when the room there is now is used up, and
\* what has gone out by then stays out.
WriteN(d, bytes) ==
  \E n \in LeastOf(Room, Len(bytes)) .. Len(bytes) :
    IF n = 0 THEN UNCHANGED <<wire, cuts>> ELSE Write(d, SubSeq(bytes, 1, n))

\* processDownload: the BINARY packet, sent whole or not, then handleWriting has
\* the data to send.
Answer ==
  /\ pc["server"] = "packet" /\ conn = "open"
  /\ \E n \in Returns("server") : n > 0 /\ Served(n)
  /\ WriteN("down", Length \o Body(ReplyLen))
  /\ toSend' = asked.size
  /\ Goto("server", "send")
  /\ UNCHANGED <<splits, inbox, conn, readVars, number, asked, rest, placed, faults>>

\* Anything else in the buffer is no request: a type that is unknown ends the
\* session, a DOWNLOAD too short gets no reply.
RejectPacket ==
  /\ pc["server"] = "packet"
  /\ \E n \in Returns("server") : n > 0 /\ ~Served(n)
  /\ conn' \in {conn, "closed"}
  /\ Goto("server", "idle")
  /\ UNCHANGED <<splits, wire, cuts, inbox, readVars, taskVars, faults>>

SendData_FromStart ==
  /\ pc["server"] = "send" /\ conn = "open"
  /\ \E n \in 1 .. LeastOf(toSend, Room) :
       /\ Write("down", Bytes("data", 0, n))
       /\ toSend' = toSend - n
  /\ Goto("server", IF toSend' = 0 THEN "idle" ELSE "send")
  /\ UNCHANGED <<splits, inbox, conn, readVars, number, asked, rest, placed, faults>>

\* sendfile, in pieces; a full socket makes it wait for EPOLLOUT.
SendData ==
  /\ pc["server"] = "send" /\ conn = "open"
  /\ \E n \in 1 .. LeastOf(toSend, Room) :
       /\ Write("down", Bytes("data", asked.size - toSend, asked.size - toSend + n))
       /\ toSend' = toSend - n
  /\ Goto("server", IF toSend' = 0 THEN "idle" ELSE "send")
  /\ UNCHANGED <<splits, inbox, conn, readVars, number, asked, rest, placed, faults>>

Fault == faults < MaxFaults /\ faults' = faults + 1

\* sendfile fails and the session ends.
CloseEarly ==
  /\ pc["server"] = "send" /\ conn = "open"
  /\ Fault
  /\ conn' = "closed"
  /\ UNCHANGED <<splits, wire, cuts, inbox, pc, readVars, taskVars>>

\* The connection breaks, and what was on its way is lost.
Reset ==
  /\ conn = "open" /\ Fault
  /\ conn' = "reset"
  /\ wire' = [d \in {"up", "down"} |-> <<>>]
  /\ cuts' = [d \in {"up", "down"} |-> {}]
  /\ UNCHANGED <<splits, inbox, pc, readVars, taskVars>>

-----------------------------------------------------------------------------
(***************************************************************************)
(* The client: sendRequest, receiveResponse and downloadPart.              *)
(***************************************************************************)
Request ==
  /\ pc["client"] = "idle" /\ number < MaxRequests
  /\ number' = number + 1
  /\ \E n \in RequestLens, s \in DataLens : asked' = [len |-> n, size |-> s]
  /\ Write("up", (Length \o Body(asked.len))')
  /\ placed' = <<>>
  /\ Call("client", HeaderLen, "length")
  /\ UNCHANGED <<splits, inbox, conn, buffer, toSend, rest, faults>>

ReadReply ==
  /\ pc["client"] = "length"
  /\ Returns("client") # {}
  /\ \E n \in LengthField("client", ReplyLen) : Call("client", n, "packet")
  /\ UNCHANGED <<netVars, buffer, taskVars, faults>>

\* The size in the reply is the size asked for.
SizeMatches(n) == n >= ReplyLen /\ Content("client", ReplyLen) = Body(ReplyLen)

\* How much the data loop wants of Socket::read.
DataLimit_WholeBuffer(r) == BufferLen
DataLimit(r) == LeastOf(BufferLen, r)

AcceptReply ==
  /\ pc["client"] = "packet"
  /\ \E n \in Returns("client") : n > 0 /\ SizeMatches(n)
  /\ rest' = asked.size
  /\ Call("client", DataLimit(asked.size), "data")
  /\ UNCHANGED <<netVars, buffer, number, asked, toSend, placed, faults>>

MoreToCome_ThanOne(r) == r > 1
MoreToCome(r) == r > 0

\* Receive data, write it to the file, ask for the rest if any is left.
TakeData ==
  /\ pc["client"] = "data"
  /\ \E n \in Returns("client") :
       /\ n >= 0
       /\ placed' = placed \o Content("client", n)
       /\ rest' = rest - n
       /\ IF MoreToCome(rest')
          THEN Call("client", DataLimit(rest'), "data")
          ELSE Goto("client", "idle") /\ UNCHANGED <<limit, sizeRead>>
  /\ UNCHANGED <<netVars, buffer, number, asked, toSend, faults>>

\* No reply, a reply of another size, or the end of the stream: the thread
\* drops the connection, and what Socket::read had of the data with it.
DropConnection_UsesItAgain ==
  /\ \/ pc["client"] = "packet" /\ \E n \in Returns("client") : n <= 0 \/ ~SizeMatches(n)
     \/ pc["client"] = "data" /\ -1 \in Returns("client")
  /\ Goto("client", "idle")
  /\ UNCHANGED <<netVars, readVars, taskVars, faults>>

DropConnection ==
  /\ \/ pc["client"] = "packet" /\ \E n \in Returns("client") : n <= 0 \/ ~SizeMatches(n)
     \/ pc["client"] = "data" /\ -1 \in Returns("client")
  /\ Goto("client", "dropped")
  /\ UNCHANGED <<netVars, readVars, taskVars, faults>>

Finished ==
  /\ pc["client"] = "dropped" \/ (pc["client"] = "idle" /\ number = MaxRequests)
  /\ UNCHANGED vars

-----------------------------------------------------------------------------
Server == HandleEvent \/ ReadSome("server") \/ ReadPacket \/ NoPacket \/ Answer
            \/ RejectPacket \/ SendData

Client == ReadSome("client") \/ ReadError \/ ReadReply \/ AcceptReply \/ TakeData \/ DropConnection

Next ==
  \/ \E d \in {"up", "down"} : Arrive(d)
  \/ Server \/ CloseEarly \/ Reset
  \/ Request \/ Client
  \/ Finished

Spec == Init /\ [][Next]_vars

\* Bytes arrive, and both ends run.
FairSpec ==
  /\ Spec
  /\ \A d \in {"up", "down"} : WF_vars(Arrive(d))
  /\ WF_vars(Server) /\ WF_vars(Client)

-----------------------------------------------------------------------------
(***************************************************************************)
(* Properties.                                                             *)
(***************************************************************************)
\* Every variable has its type, and a buffer holds what was read into it.  (An
\* over-read may run past the end of the buffer, by less than a unit.)
TypeOK ==
  /\ splits \subseteq Splits
  /\ number \in 0 .. MaxRequests
  /\ asked \in [len : RequestLens \cup {0}, size : DataLens \cup {0}]
  /\ conn \in {"open", "closed", "reset"}
  /\ pc["server"] \in {"idle", "length", "packet", "send"}
  /\ pc["client"] \in {"idle", "length", "packet", "data", "dropped"}
  /\ \A e \in Ends :
       /\ limit[e] \in 0 .. BufferLen
       /\ sizeRead[e] \in 0 .. Len(buffer[e])
       /\ Len(buffer[e]) < BufferLen + ReadUnit
  /\ toSend \in Nat /\ rest \in 0 .. asked.size
  /\ faults \in 0 .. MaxFaults

\* If requests arrive whole, the server serves what the client sent and nothing
\* else: the packet in its buffer is never a mixture of two, or a part of one.
RequestsFramed ==
  "up" \notin splits /\ pc["server"] = "packet" =>
    \A n \in Returns("server") : n = asked.len /\ Served(n)

\* "Followed by the binary data" (Protocol.h 36): what the client writes to its
\* file for a part are the bytes of that part, each at its place.
DataInPlace == placed = Bytes("data", 0, Len(placed))

\* If replies arrive whole, that is so, even after an earlier part was cut
\* short and however the requests arrive.
ReplyThenData == "down" \notin splits => DataInPlace

\* A connection is used for the next part only with nothing of the last one
\* left in it, which would be taken for the next reply.
NothingLeftOver ==
  pc["client"] = "idle" =>
    inbox["down"] = <<>> /\ wire["down"] = <<>> /\ rest = 0

\* When the server answers, its socket has room for the whole reply: the result
\* of the write, which nobody looks at (Session.cpp 137), is never a failure that
\* has torn the reply.  The client keeps it so, by asking for a part only when it
\* has read all of the last one.
RepliesWhole ==
  pc["server"] = "packet" /\ (\E n \in Returns("server") : n > 0 /\ Served(n)) =>
    Room >= HeaderLen + ReplyLen

\* If packets arrive whole, every part that was asked for arrives, or the
\* connection ends: neither end waits for bytes the other will not send.
PartArrives ==
  splits = {} /\ pc["client"] = "length" ~> pc["client"] \in {"idle", "dropped"}
=============================================================================
