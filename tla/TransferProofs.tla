----------------------------- MODULE TransferProofs -----------------------------
(***************************************************************************)
(* What is proved of the dialogue between a client and its session, for    *)
(* every number of connections and threads, every set of requests, sizes   *)
(* of the file and of the send buffers, and any number of faults: types,   *)
(* a file behind every transfer, no unit of it lost or made up, no         *)
(* response without room, no session asleep that could go on, and, for     *)
(* whole requests, none that is lost.                                      *)
(***************************************************************************)
EXTENDS ReactorProofs

\* The types that ReactorProofs has no need of.
Values ==
  /\ want \in [Conns -> Nat]
  /\ request \in [Conns -> Requests \cup {None}]
  /\ response \in [Conns -> Packets \cup {None}]
  /\ data \in [Conns -> Nat]
  /\ \A c \in Conns : InFlight(c) <= SendSpace
  /\ fin \in [Conns -> BOOLEAN]
  /\ status \in [Conns -> {"READING", "WRITING", "END"}]
  /\ fileProcess \in [Conns -> FileProcesses \cup {None}]
  /\ packet \in [ServerThreads -> Requests \cup {None}]
  /\ up \in BOOLEAN
  /\ faults \in 0 .. MaxFaults

\* What a thread does to a session, and what epoll waits for, is what the
\* session's status says; a session is handled for the first time as READING.
Follows ==
  /\ \A t \in ServerThreads :
       /\ pc[t] \in {"read", "process"} => status[cur[t]] = "READING"
       /\ pc[t] = "send" => status[cur[t]] = "WRITING"
       /\ pc[t] = "rearm" => status[cur[t]] # "END"
       /\ pc[t] = "process" => packet[t] \in Requests
  /\ \A c \in Conns :
       /\ armed[c] = "in" => status[c] = "READING"
       /\ armed[c] = "out" => status[c] = "WRITING"
       /\ listener[c] = "none" => status[c] = "READING"

\* An event of a session that reads, wherever it is, has something to read.
Called(c) ==
  \/ c \in ready
  \/ \E t \in ServerThreads : c \in batch[t] \/ (cur[t] = c /\ pc[t] = "read")

SomethingToRead ==
  \A c \in Conns :
    Called(c) /\ status[c] = "READING" => request[c] # None \/ fin[c]

\* The request of connection c that a thread has read and not yet answered.
InHand(c) == \E t \in ServerThreads : cur[t] = c /\ pc[t] = "process"

\* What the client still expects of the file, told or yet to be told so; what
\* the session has yet to send.
Announced(p) == IF p.type = "BINARY" THEN p.size ELSE 0
Due(c) ==
  IF response[c] # None THEN Announced(response[c])
  ELSE IF client[c] = "waiting" THEN 0 ELSE want[c]
ToSend(c) == IF status[c] = "WRITING" THEN fileProcess[c].rest ELSE 0

\* One request at a time, one answer to it.
Talk(c) ==
  /\ fin[c] => client[c] = "closed"
  /\ client[c] = "closed" =>
       /\ response[c] = None /\ data[c] = 0
       /\ fin[c] \/ ~up \/ listener[c] = "freed"
  /\ client[c] \in {"off", "idle", "receiving"} =>
       request[c] = None /\ response[c] = None /\ ~InHand(c)
  /\ request[c] # None \/ response[c] # None => ~InHand(c)
  /\ request[c] # None => response[c] = None
  /\ client[c] \in {"off", "idle"} => want[c] = 0
  /\ client[c] # "closed" =>
       /\ Due(c) >= data[c] + ToSend(c)
       /\ status[c] # "END" => Due(c) = data[c] + ToSend(c)

Dialogue == \A c \in Conns : Talk(c)

TInv == Values /\ Follows /\ SomethingToRead /\ WritingHasFile /\ Dialogue

LEMMA InitTInv == Init => TInv
<1> SUFFICES ASSUME Init PROVE TInv
  OBVIOUS
<1> USE SessionAssumption, ReactorAssumption DEF Init, SessionInit
<1>1. Values
  BY DEF Values, InFlight
<1>2. Follows /\ SomethingToRead /\ WritingHasFile
  BY DEF Follows, SomethingToRead, Called, WritingHasFile
<1>3. Dialogue
  <2> SUFFICES \A c \in Conns : Talk(c)
    BY DEF Dialogue
  <2> TAKE c \in Conns
  <2>1. ~InHand(c) /\ Due(c) = 0 /\ ToSend(c) = 0
    BY DEF InHand, Due, ToSend
  <2>2. data[c] = 0 /\ client[c] = "off" /\ ~fin[c]
    OBVIOUS
  <2> QED BY <2>1, <2>2 DEF Talk
<1> QED BY <1>1, <1>2, <1>3 DEF TInv

-----------------------------------------------------------------------------
(***************************************************************************)
(* The steps of a thread around its sessions change none of them.          *)
(***************************************************************************)
Around(t) ==
  \/ Wait(t) \/ Dispatch(t) \/ AcceptOne(t) \/ AcceptNone(t) \/ AcceptFails(t)
  \/ AttachFails(t) \/ Detach(t) \/ Rearm(t) \/ RearmFails(t) \/ Free(t)

\* Connection c is as it was.
Same(c) ==
  /\ client'[c] = client[c] /\ want'[c] = want[c]
  /\ request'[c] = request[c] /\ response'[c] = response[c]
  /\ data'[c] = data[c] /\ fin'[c] = fin[c]
  /\ status'[c] = status[c] /\ fileProcess'[c] = fileProcess[c]

\* A connection as it was keeps its dialogue, if no request comes into hand.
LEMMA TalkKept ==
  ASSUME NEW c \in Conns, Talk(c), Same(c), InHand(c)' => InHand(c), ~up => ~up',
         listener[c] = "freed" => listener'[c] = "freed"
  PROVE  Talk(c)'
BY DEF Talk, Same, Due, ToSend

LEMMA AroundSteps ==
  ASSUME IInv, NEW t \in ServerThreads, Around(t)
  PROVE  /\ UNCHANGED connVars /\ UNCHANGED <<packet, up>>
         /\ \A u \in ServerThreads :
              pc'[u] = "process" => pc[u] = "process" /\ cur'[u] = cur[u]
         /\ \A c \in Conns : listener[c] = "freed" => listener'[c] = "freed"
         /\ faults' = faults \/ (faults < MaxFaults /\ faults' = faults + 1)
<1> USE ReactorAssumption DEF IInv, Shape, epollVars, threadVars, Goto, NextEvent
<1>1. CASE Wait(t)
  BY <1>1 DEF Wait
<1>2. CASE Dispatch(t)
  <2>1. PICK x \in batch[t] :
          /\ cur' = [cur EXCEPT ![t] = x]
          /\ \E l \in {"accept", "read", "send", "detach"} : pc' = [pc EXCEPT ![t] = l]
    BY <1>2 DEF Dispatch
  <2> QED BY <1>2, <2>1 DEF Dispatch
<1>3. CASE AcceptOne(t)
  BY <1>3 DEF AcceptOne, Fresh
<1>4. CASE AcceptNone(t) \/ AcceptFails(t) \/ RearmFails(t)
  BY <1>4 DEF AcceptNone, AcceptFails, RearmFails, Fault
<1>5. CASE AttachFails(t)
  BY <1>5 DEF AttachFails, Fault, Fresh
<1>6. CASE Detach(t)
  BY <1>6 DEF Detach
<1>7. CASE Rearm(t)
  BY <1>7 DEF Rearm
<1>8. CASE Free(t)
  BY <1>8 DEF Free
<1> QED BY <1>1, <1>2, <1>3, <1>4, <1>5, <1>6, <1>7, <1>8 DEF Around

LEMMA AroundValues ==
  ASSUME IInv, TInv, NEW t \in ServerThreads, Around(t)
  PROVE  Values' /\ WritingHasFile' /\ Dialogue'
<1> USE DEF connVars, peerVars, socketVars, sessionVars
<1>1. Values'
  BY AroundSteps, ReactorAssumption DEF TInv, Values, InFlight
<1>2. WritingHasFile'
  BY AroundSteps DEF TInv, WritingHasFile
<1>3. ASSUME NEW c \in Conns PROVE Talk(c)'
  <2>1. InHand(c)' => InHand(c)
    BY AroundSteps DEF InHand
  <2>2. Same(c) /\ up' = up /\ (listener[c] = "freed" => listener'[c] = "freed")
    BY AroundSteps DEF Same
  <2> QED BY <2>1, <2>2, TalkKept DEF TInv, Dialogue
<1> QED BY <1>1, <1>2, <1>3 DEF Dialogue

LEMMA AroundFollows ==
  ASSUME IInv, TInv, NEW t \in ServerThreads, Around(t)
  PROVE  Follows'
<1> USE ReactorAssumption DEF IInv, Shape, Follows, TInv, Goto, NextEvent
<1>1. UNCHANGED <<status, packet>>
  BY AroundSteps DEF connVars, sessionVars
<1>2. CASE Wait(t)
  BY <1>1, <1>2 DEF Wait
<1>3. CASE Dispatch(t)
  <2>1. PICK x \in batch[t] :
          /\ cur' = [cur EXCEPT ![t] = x]
          /\ IF x = ServerSocket
             THEN pc' = [pc EXCEPT ![t] = "accept"]
             ELSE pc' = [pc EXCEPT ![t] = CASE status[x] = "READING" -> "read"
                                            [] status[x] = "WRITING" -> "send"
                                            [] OTHER -> "detach"]
    BY <1>3 DEF Dispatch
  <2>2. UNCHANGED <<armed, listener>>
    BY <1>3 DEF Dispatch, epollVars
  <2>3. /\ pc'[t] \in {"read", "process"} => status[x] = "READING"
        /\ pc'[t] = "send" => status[x] = "WRITING"
        /\ pc'[t] \notin {"rearm", "process"}
    BY <2>1
  <2> QED BY <1>1, <2>1, <2>2, <2>3
<1>4. CASE AcceptOne(t)
  BY <1>1, <1>4 DEF AcceptOne, Fresh, threadVars
<1>5. CASE AcceptNone(t) \/ AcceptFails(t) \/ RearmFails(t)
  BY <1>1, <1>5 DEF AcceptNone, AcceptFails, RearmFails, epollVars
<1>6. CASE AttachFails(t)
  BY <1>1, <1>6 DEF AttachFails, threadVars
<1>7. CASE Detach(t)
  BY <1>1, <1>7 DEF Detach, epollVars
<1>8. CASE Rearm(t)
  BY <1>1, <1>8 DEF Rearm, Handling, Values
<1>9. CASE Free(t)
  BY <1>1, <1>9 DEF Free
<1> QED BY <1>2, <1>3, <1>4, <1>5, <1>6, <1>7, <1>8, <1>9 DEF Around

LEMMA AroundSomethingToRead ==
  ASSUME IInv, TInv, NEW t \in ServerThreads, Around(t)
  PROVE  SomethingToRead'
<1> USE ReactorAssumption DEF IInv, Shape, Goto, NextEvent
<1>1. UNCHANGED <<status, request, fin>>
  BY AroundSteps DEF connVars, sessionVars, socketVars
\* An event moves on, or is new and then what the poll reported.
<1>2. ASSUME \A c \in Conns : Called(c)' => Called(c) \/ (armed'[c] = "in" /\ Reports(c)')
      PROVE  SomethingToRead'
  BY <1>1, <1>2 DEF TInv, SomethingToRead, Reports
<1>3. ASSUME NEW c \in Conns, Notify(c), armed'[c] = "in" \/ status[c] # "READING",
             UNCHANGED batch,
             \A u \in ServerThreads :
               pc'[u] = "read" => pc[u] = "read" /\ cur'[u] = cur[u]
      PROVE  SomethingToRead'
  BY <1>1, <1>3 DEF TInv, SomethingToRead, Called, Notify, Reports
<1>4. CASE Wait(t)
  <2>1. PICK S \in Takeable :
          /\ ready' = ready \ S
          /\ batch' = [batch EXCEPT ![t] = IF backlog = {} THEN S \ {ServerSocket} ELSE S]
    BY <1>4 DEF Wait
  <2>2. S \subseteq ready
    BY DEF Takeable
  <2>3. \A u \in ServerThreads : pc'[u] = "read" => pc[u] = "read" /\ cur'[u] = cur[u]
    BY <1>4 DEF Wait
  <2> QED BY <1>2, <2>1, <2>2, <2>3 DEF Called
<1>5. CASE Dispatch(t)
  <2>1. PICK x \in batch[t] :
          /\ cur' = [cur EXCEPT ![t] = x]
          /\ batch' = [batch EXCEPT ![t] = @ \ {x}]
    BY <1>5 DEF Dispatch
  <2>2. \A u \in ServerThreads : u # t => pc'[u] = pc[u]
    BY <1>5 DEF Dispatch
  <2>3. ready' = ready
    BY <1>5 DEF Dispatch, epollVars
  <2> QED BY <1>2, <2>1, <2>2, <2>3 DEF Called
<1>6. CASE AcceptOne(t)
  <2>1. PICK c \in backlog : armed' = [armed EXCEPT ![c] = "in"] /\ Notify(c)
    BY <1>6 DEF AcceptOne
  <2> QED BY <1>3, <1>6, <2>1 DEF AcceptOne, threadVars
<1>7. CASE AcceptNone(t) \/ AcceptFails(t) \/ RearmFails(t) \/ AttachFails(t) \/ Detach(t)
  <2>1. UNCHANGED <<ready, batch>>
    BY <1>7 DEF AcceptNone, AcceptFails, RearmFails, AttachFails, Detach, epollVars, threadVars
  <2>2. \A u \in ServerThreads : pc'[u] = "read" => pc[u] = "read" /\ cur'[u] = cur[u]
    BY <1>7 DEF AcceptNone, AcceptFails, RearmFails, AttachFails, Detach, threadVars
  <2> QED BY <1>2, <2>1, <2>2 DEF Called
<1>8. CASE Rearm(t)
  <2>1. PICK c \in Conns :
          /\ armed' = [armed EXCEPT ![c] = IF status[c] = "READING" THEN "in" ELSE "out"]
          /\ Notify(c)
    BY <1>8 DEF Rearm
  <2>2. \A u \in ServerThreads : pc'[u] = "read" => pc[u] = "read" /\ cur'[u] = cur[u]
    BY <1>8 DEF Rearm
  <2> QED BY <1>3, <1>8, <2>1, <2>2 DEF Rearm
<1>9. CASE Free(t)
  <2>1. ready' \subseteq ready /\ batch' = batch
    BY <1>9 DEF Free
  <2>2. \A u \in ServerThreads : pc'[u] = "read" => pc[u] = "read" /\ cur'[u] = cur[u]
    BY <1>9 DEF Free
  <2> QED BY <1>2, <2>1, <2>2 DEF Called
<1> QED BY <1>4, <1>5, <1>6, <1>7, <1>8, <1>9 DEF Around

-----------------------------------------------------------------------------
(***************************************************************************)
(* A handler works on the connection whose event it holds, alone.          *)
(***************************************************************************)
Handles(t) == HandleRead(t) \/ HandleProcess(t) \/ HandleSend(t)

LEMMA HandlerPlace ==
  ASSUME IInv, NEW t \in ServerThreads, pc[t] \in {"read", "process", "send"}
  PROVE  /\ cur[t] \in Conns /\ listener[cur[t]] = "live"
         /\ armed[cur[t]] = "off" /\ cur[t] \notin ready
         /\ \A u \in ServerThreads : cur[t] \notin batch[u] /\ (cur[u] = cur[t] => u = t)
         /\ readBuffer[cur[t]] = t
<1> USE ReactorAssumption DEF IInv
<1>1. cur[t] \in Conns
  BY DEF Places, HandlerLabels
<1>2. Owns(t, cur[t])
  BY <1>1 DEF Owns, Holds
<1>3. listener[cur[t]] = "live"
  BY <1>1, <1>2 DEF NoDanglingEvent, Owns
<1>4. armed[cur[t]] = "off" /\ cur[t] \notin ready
  BY <1>1, <1>2 DEF OneHandler
<1>5. ASSUME NEW u \in ServerThreads
      PROVE  cur[t] \notin batch[u] /\ (cur[u] = cur[t] => u = t)
  <2>1. Owns(u, cur[t]) => u = t
    BY <1>1, <1>2 DEF OneHandler
  <2>2. cur[t] \notin batch[t]
    BY DEF Places
  <2> QED BY <1>1, <2>1, <2>2 DEF Owns, Holds
<1>6. readBuffer[cur[t]] = t
  BY <1>1 DEF BufferOfHandler
<1> QED BY <1>1, <1>3, <1>4, <1>5, <1>6

\* What the request in hand finds: an empty socket, and a client that waits for
\* the answer or is gone.
LEMMA AnswerHasRoom ==
  ASSUME IInv, TInv, up, NEW t \in ServerThreads, pc[t] = "process"
  PROVE  LET c == cur[t]
         IN  /\ c \in Conns /\ status[c] = "READING" /\ Packet(t) \in Requests
             /\ request[c] = None /\ response[c] = None /\ data[c] = 0
             /\ \/ client[c] = "waiting" /\ ~fin[c]
                \/ client[c] = "closed" /\ fin[c]
<1> DEFINE c == cur[t]
<1>1. c \in Conns /\ listener[c] = "live" /\ readBuffer[c] = t
  BY HandlerPlace
<1>2. status[c] = "READING" /\ Packet(t) \in Requests
  BY <1>1 DEF TInv, Follows, Packet
<1>3. InHand(c)
  BY DEF InHand
<1>4. Talk(c)
  BY <1>1 DEF TInv, Dialogue
<1>5. request[c] = None /\ response[c] = None
  BY <1>3, <1>4 DEF Talk
<1>6. CASE client[c] = "closed"
  BY <1>1, <1>2, <1>4, <1>5, <1>6 DEF Talk, TInv, Values
<1>7. CASE client[c] # "closed"
  <2>1. client[c] = "waiting" /\ ~fin[c]
    BY <1>1, <1>3, <1>4, <1>7 DEF Talk, IInv, Shape
  <2>2. Due(c) = 0 /\ ToSend(c) = 0
    BY <1>2, <1>5, <2>1 DEF Due, ToSend
  <2>3. data[c] = 0
    BY <1>1, <1>4, <1>7, <2>2 DEF Talk, TInv, Values
  <2> QED BY <1>1, <1>2, <1>5, <2>1, <2>3
<1> QED BY <1>6, <1>7

\* A handler leaves every other connection alone.
LEMMA HandlerElsewhere ==
  ASSUME IInv, TInv, NEW t \in ServerThreads, Handles(t)
  PROVE  /\ UNCHANGED <<client, want>>
         /\ \A c \in Conns : c # cur[t] => Same(c) /\ (InHand(c)' => InHand(c))
         /\ ~up => ~up'
<1> USE DEF Handling, Goto, Values, peerVars, socketVars, sessionVars, connVars
<1>1. UNCHANGED <<client, want>>
  BY DEF Handles, HandleRead, HandleProcess, HandleSend, Process, ProcessCommand, IgnoreShort,
     RefuseDownload, ReplyInfo, StartDownload, RejectGarbage, ReadRequest, ReadEnd, SendSome,
     SendPauses, SendEnds, SendFinished
<1>2. ASSUME NEW c \in Conns, c # cur[t]
      PROVE  /\ request'[c] = request[c] /\ response'[c] = response[c]
             /\ data'[c] = data[c] /\ fin'[c] = fin[c]
             /\ status'[c] = status[c] /\ fileProcess'[c] = fileProcess[c]
  <2>1. CASE HandleRead(t)
    BY <1>2, <2>1 DEF HandleRead, ReadRequest, ReadEnd, Then, TInv
  <2>2. CASE HandleProcess(t)
    BY <1>2, <2>2 DEF HandleProcess, Process, ProcessCommand, IgnoreShort, RefuseDownload,
       ReplyInfo, StartDownload, RejectGarbage, Respond, Then, TInv
  <2>3. CASE HandleSend(t)
    BY <1>2, <2>3 DEF HandleSend, SendSome, SendPauses, SendEnds, SendFinished, Then, TInv
  <2> QED BY <2>1, <2>2, <2>3 DEF Handles
<1>3. ASSUME NEW c \in Conns, c # cur[t], InHand(c)' PROVE InHand(c)
  BY <1>3, HandlerSteps DEF InHand, Handles, IInv, Shape
<1>4. ~up => ~up'
  BY DEF Handles, HandleRead, HandleProcess, HandleSend
<1> QED BY <1>1, <1>2, <1>3, <1>4 DEF Same

\* So what a handler has to show of the dialogue is about its own connection.
LEMMA HandlerDialogue ==
  ASSUME IInv, TInv, NEW t \in ServerThreads, Handles(t),
         NEW own \in Conns, own = cur[t], Talk(own)'
  PROVE  Dialogue'
<1> SUFFICES ASSUME NEW c \in Conns, c # own PROVE Talk(c)'
  BY DEF Dialogue
<1>1. listener' = listener
  BY HandlerSteps DEF Handles
<1>2. Same(c) /\ (InHand(c)' => InHand(c)) /\ (~up => ~up')
  BY HandlerElsewhere
<1> QED BY <1>1, <1>2, TalkKept DEF TInv, Dialogue

LEMMA ReadTalk ==
  ASSUME IInv, TInv, NEW t \in ServerThreads, HandleRead(t)
  PROVE  Values' /\ WritingHasFile' /\ Dialogue'
<1> USE DEF HandleRead, Handling, Goto, peerVars, socketVars, sessionVars
<1>0. PICK c \in Conns : c = cur[t]
  BY HandlerPlace
<1>1. /\ pc[t] = "read" /\ up /\ up' = up /\ faults' = faults
      /\ UNCHANGED <<client, want, response, data, fin, fileProcess, cur, listener>>
  BY DEF ReadRequest, ReadEnd, epollVars
<1>2. /\ status[c] = "READING" /\ listener[c] = "live" /\ readBuffer[c] = t
      /\ Talk(c)
  BY <1>0, <1>1, HandlerPlace DEF TInv, Follows, Dialogue
<1>3. Values'
  <2>1. request' \in [Conns -> Requests \cup {None}] /\ status' \in [Conns -> {"READING", "WRITING", "END"}]
    BY <1>0, <1>2 DEF ReadRequest, ReadEnd, Then, TInv, Values
  <2>2. packet' \in [ServerThreads -> Requests \cup {None}]
    BY <1>0, <1>2 DEF ReadRequest, ReadEnd, TInv, Values
  <2>3. \A d \in Conns : InFlight(d)' <= SendSpace
    BY <1>1 DEF InFlight, TInv, Values
  <2> QED BY <1>1, <2>1, <2>2, <2>3 DEF TInv, Values
<1>4. WritingHasFile'
  BY <1>0, <1>1, <1>2 DEF ReadRequest, ReadEnd, Then, TInv, Values, WritingHasFile
<1>5. Talk(c)'
  <2>1. CASE ReadRequest(c) /\ pc' = [pc EXCEPT ![t] = "process"]
    <3>1. request[c] # None /\ request'[c] = None /\ status' = status
      BY <1>0, <1>2, <2>1 DEF ReadRequest, TInv, Values
    <3>2. client[c] \notin {"off", "idle", "receiving"} /\ response[c] = None
      BY <1>2, <3>1 DEF Talk
    <3> QED BY <1>1, <1>2, <3>1, <3>2 DEF Talk, Due, ToSend
  <2>2. CASE ReadEnd(c) /\ pc' = [pc EXCEPT ![t] = "detach"]
    <3>1. client[c] = "closed" /\ request' = request
      BY <1>0, <1>2, <2>2 DEF ReadEnd, Talk
    <3>2. ~InHand(c)'
      BY <1>0, <1>1, <1>2, <2>2, HandlerPlace DEF InHand, IInv, Shape
    <3> QED BY <1>1, <1>2, <3>1, <3>2 DEF Talk
  <2> QED BY <1>0, <2>1, <2>2
<1> QED BY <1>0, <1>3, <1>4, <1>5, HandlerDialogue DEF Handles

\* A response that finds room is what the client is told next.
LEMMA ResponseKinds ==
  /\ Text \in Packets /\ Announced(Text) = 0
  /\ \A n \in Nat : Info(n) \in Packets /\ Announced(Info(n)) = 0
  /\ \A n \in Nat : Header(n) \in Packets /\ Announced(Header(n)) = n
BY DEF Text, Info, Header, Packets, Announced

\* What a handler does with a request: nothing, an answer, or a file to send
\* with the answer that announces it; it may end the session.
MayEnd(c) == status' = status \/ status' = [status EXCEPT ![c] = "END"]

NoAnswer(c) == UNCHANGED <<response, fileProcess>> /\ MayEnd(c)

SmallAnswer(c) ==
  \E p \in Packets :
    Announced(p) = 0 /\ Respond(c, p) /\ fileProcess' = fileProcess /\ MayEnd(c)

FileAnswer(c) ==
  \E off, n \in Nat :
    /\ off + n <= FileSize
    /\ Respond(c, Header(n))
    /\ fileProcess' = [fileProcess EXCEPT ![c] = [pos |-> off, rest |-> n]]
    /\ status' = [status EXCEPT ![c] = "WRITING"]

LEMMA Answers ==
  ASSUME IInv, TInv, up, NEW t \in ServerThreads, HandleProcess(t),
         NEW c \in Conns, c = cur[t]
  PROVE  /\ UNCHANGED <<request, data, fin>>
         /\ NoAnswer(c) \/ SmallAnswer(c) \/ FileAnswer(c)
<1> DEFINE r == Packet(t)
<1>1. Process(c, r) /\ r \in Requests
  BY AnswerHasRoom DEF HandleProcess, Handling
<1> HIDE DEF r
<1> USE DEF connVars, socketVars, sessionVars, Then, MayEnd
<1>2. CASE ProcessCommand(c, r)
  <2>1. UNCHANGED <<request, data, fin, fileProcess>> /\ Respond(c, Text) /\ MayEnd(c)
    BY <1>2 DEF ProcessCommand
  <2> QED BY <2>1, ResponseKinds DEF SmallAnswer
<1>3. CASE IgnoreShort(c, r)
  BY <1>3 DEF IgnoreShort, NoAnswer
<1>4. CASE RefuseDownload(c, r)
  <2>1. UNCHANGED <<request, data, fin, fileProcess>> /\ Respond(c, Text) /\ MayEnd(c)
    BY <1>4 DEF RefuseDownload
  <2> QED BY <2>1, ResponseKinds DEF SmallAnswer
<1>5. CASE ReplyInfo(c, r)
  <2>1. AskedSize(r) \in Nat
    BY <1>1, <1>5, RequestAssumption, SessionAssumption DEF ReplyInfo, IsDownload, AskedSize
  <2>2. /\ UNCHANGED <<request, data, fin, fileProcess>> /\ MayEnd(c)
        /\ Respond(c, Info(AskedSize(r)))
    BY <1>5 DEF ReplyInfo
  <2> QED BY <2>1, <2>2, ResponseKinds DEF SmallAnswer
<1>6. CASE StartDownload(c, r)
  <2>1. r.offset \in Nat /\ AskedSize(r) \in Nat /\ r.offset + AskedSize(r) <= FileSize
    BY <1>1, <1>6, RequestAssumption, SessionAssumption
       DEF StartDownload, IsDownload, AskedSize, InFile
  <2>2. /\ UNCHANGED <<request, data, fin>>
        /\ fileProcess' = [fileProcess EXCEPT ![c] = [pos |-> r.offset, rest |-> AskedSize(r)]]
        /\ status' = [status EXCEPT ![c] = "WRITING"]
        /\ Respond(c, Header(AskedSize(r)))
    BY <1>6 DEF StartDownload
  <2> QED BY <2>1, <2>2 DEF FileAnswer
<1>7. CASE RejectGarbage(c, r)
  BY <1>7 DEF RejectGarbage, NoAnswer
<1> QED BY <1>1, <1>2, <1>3, <1>4, <1>5, <1>6, <1>7 DEF Process

LEMMA ProcessTalk ==
  ASSUME IInv, TInv, NEW t \in ServerThreads, HandleProcess(t)
  PROVE  Values' /\ WritingHasFile' /\ Dialogue'
<1> USE SessionAssumption, NoneAssumption
<1>1. /\ pc[t] = "process" /\ up /\ pc' = [pc EXCEPT ![t] = "detach"]
      /\ faults' = faults /\ cur' = cur /\ listener' = listener /\ up' \in BOOLEAN
      /\ packet' = [packet EXCEPT ![readBuffer[cur[t]]] = None]
      /\ UNCHANGED <<client, want>>
  BY HandlerElsewhere DEF HandleProcess, Handling, Goto, epollVars, Handles
<1>2. PICK c \in Conns : c = cur[t]
  BY <1>1, HandlerPlace
<1>3. /\ status[c] = "READING" /\ request[c] = None /\ response[c] = None /\ data[c] = 0
      /\ (client[c] = "waiting" /\ ~fin[c]) \/ (client[c] = "closed" /\ fin[c])
      /\ Talk(c)
  BY <1>1, <1>2, AnswerHasRoom DEF TInv, Dialogue
<1>4. /\ UNCHANGED <<request, data, fin>>
      /\ NoAnswer(c) \/ SmallAnswer(c) \/ FileAnswer(c)
  BY <1>1, <1>2, Answers
<1>5. ~InHand(c)'
  BY <1>1, <1>2, HandlerPlace DEF InHand, IInv, Shape
\* The response has room.
<1>6. ASSUME NEW p \in Packets, Respond(c, p)
      PROVE  /\ response' \in [Conns -> Packets \cup {None}]
             /\ \A d \in Conns : InFlight(d)' <= SendSpace
             /\ fin[c] => response' = response
             /\ ~fin[c] => response'[c] = p /\ p # None
  <2>1. InFlight(c) = 0
    BY <1>3 DEF InFlight
  <2>2. response' = IF fin[c] THEN response ELSE [response EXCEPT ![c] = p]
    BY <1>6, <2>1 DEF Respond, Room
  <2>3. \A d \in Conns : d # c => InFlight(d)' <= SendSpace
    BY <1>4, <2>2 DEF InFlight, TInv, Values
  <2>4. InFlight(c)' <= SendSpace
    BY <1>3, <1>4, <2>1, <2>2 DEF InFlight, TInv, Values
  <2> QED BY <2>2, <2>3, <2>4 DEF TInv, Values
<1>7. packet' \in [ServerThreads -> Requests \cup {None}]
  BY <1>1 DEF TInv, Values
<1>8. CASE NoAnswer(c)
  <2>1. Values'
    BY <1>1, <1>4, <1>7, <1>8 DEF NoAnswer, MayEnd, TInv, Values, InFlight
  <2>2. WritingHasFile'
    BY <1>3, <1>8 DEF NoAnswer, MayEnd, TInv, Values, WritingHasFile
  <2>3. Talk(c)'
    BY <1>1, <1>3, <1>4, <1>5, <1>8 DEF NoAnswer, MayEnd, TInv, Values, Talk, Due, ToSend
  <2> QED BY <1>2, <2>1, <2>2, <2>3, HandlerDialogue DEF Handles
<1>9. CASE SmallAnswer(c)
  <2>1. PICK p \in Packets :
          Announced(p) = 0 /\ Respond(c, p) /\ fileProcess' = fileProcess /\ MayEnd(c)
    BY <1>9 DEF SmallAnswer
  <2>2. Values'
    BY <1>1, <1>4, <1>6, <1>7, <2>1 DEF MayEnd, TInv, Values
  <2>3. WritingHasFile'
    BY <1>3, <2>1 DEF MayEnd, TInv, Values, WritingHasFile
  <2>4. Talk(c)'
    BY <1>1, <1>3, <1>4, <1>5, <1>6, <2>1 DEF MayEnd, TInv, Values, Talk, Due, ToSend
  <2> QED BY <1>2, <2>2, <2>3, <2>4, HandlerDialogue DEF Handles
<1>10. CASE FileAnswer(c)
  <2>1. PICK off \in Nat, n \in Nat :
          /\ off + n <= FileSize
          /\ Respond(c, Header(n))
          /\ fileProcess' = [fileProcess EXCEPT ![c] = [pos |-> off, rest |-> n]]
          /\ status' = [status EXCEPT ![c] = "WRITING"]
    BY <1>10 DEF FileAnswer
  <2>2. Header(n) \in Packets /\ Announced(Header(n)) = n
    BY ResponseKinds
  <2>3. [pos |-> off, rest |-> n] \in FileProcesses
    BY DEF FileProcesses
  <2>4. Values'
    BY <1>1, <1>4, <1>6, <1>7, <2>1, <2>2, <2>3 DEF TInv, Values
  <2>5. fileProcess'[c] = [pos |-> off, rest |-> n] /\ status'[c] = "WRITING"
    BY <2>1 DEF TInv, Values
  <2>6. WritingHasFile'
    BY <2>1, <2>3, <2>5 DEF TInv, Values, WritingHasFile
  <2>7. Talk(c)'
    <3>1. client[c] # "closed" => Due(c)' = n /\ ToSend(c)' = n /\ data'[c] = 0
      BY <1>1, <1>3, <1>4, <1>6, <2>1, <2>2, <2>5 DEF Due, ToSend
    <3> QED BY <1>1, <1>3, <1>4, <1>5, <1>6, <2>1, <2>2, <2>5, <3>1 DEF Talk
  <2> QED BY <1>2, <2>4, <2>6, <2>7, HandlerDialogue DEF Handles
<1> QED BY <1>4, <1>8, <1>9, <1>10

LEMMA SendTalk ==
  ASSUME IInv, TInv, NEW t \in ServerThreads, HandleSend(t)
  PROVE  Values' /\ WritingHasFile' /\ Dialogue'
<1> USE SessionAssumption, NoneAssumption DEF peerVars, socketVars, sessionVars, connVars
<1>1. /\ pc[t] = "send" /\ up /\ up' = up /\ cur' = cur /\ listener' = listener
      /\ UNCHANGED <<client, want, packet>>
      /\ faults' \in 0 .. MaxFaults
  <2>1. faults' = faults \/ (faults < MaxFaults /\ faults' = faults + 1)
    BY DEF HandleSend, Fault
  <2>2. faults' \in 0 .. MaxFaults
    BY <2>1, ReactorAssumption DEF TInv, Values
  <2> QED BY <2>2, HandlerElsewhere DEF HandleSend, Handling, epollVars, Handles
<1>2. PICK c \in Conns : c = cur[t]
  BY <1>1, HandlerPlace
<1>3. /\ status[c] = "WRITING" /\ listener[c] = "live" /\ Talk(c)
      /\ fileProcess[c] \in FileProcesses
      /\ fileProcess[c].pos + fileProcess[c].rest <= FileSize
  BY <1>1, <1>2, HandlerPlace DEF TInv, Follows, Dialogue, Values, WritingHasFile
<1>4. InHand(c)' = InHand(c) /\ ~InHand(c)
  <2>1. \A u \in ServerThreads : cur[u] = c => u = t
    BY <1>1, <1>2, HandlerPlace
  <2>2. pc'[t] # "process"
    BY <1>1 DEF HandleSend, Goto, IInv, Shape
  <2> QED BY <1>1, <2>1, <2>2 DEF InHand
\* One sendfile: what it takes off the rest it puts on the way.
<1>5. CASE SendSome(c)
  <2>1. PICK n \in 1 .. SendSpace :
          /\ n <= fileProcess[c].rest /\ n <= SendSpace - InFlight(c)
          /\ fileProcess' =
               [fileProcess EXCEPT ![c] = [pos |-> @.pos + n, rest |-> @.rest - n]]
          /\ data' = [data EXCEPT ![c] = @ + n]
    BY <1>5 DEF SendSome
  <2>2. /\ UNCHANGED <<request, response, fin, status>>
        /\ ~fin[c]
    BY <1>5 DEF SendSome
  <2>3. PICK a, b \in Nat : fileProcess[c] = [pos |-> a, rest |-> b]
    BY <1>3 DEF FileProcesses
  <2>4. /\ fileProcess' = [fileProcess EXCEPT ![c] = [pos |-> a + n, rest |-> b - n]]
        /\ n <= b
    BY <2>1, <2>3
  <2>5. a + n \in Nat /\ b - n \in Nat /\ (a + n) + (b - n) <= FileSize
    BY <1>3, <2>1, <2>3, <2>4
  <2>6. [pos |-> a + n, rest |-> b - n] \in FileProcesses
    BY <2>5 DEF FileProcesses
  <2>7. fileProcess'[c] = [pos |-> a + n, rest |-> b - n]
    BY <2>4 DEF TInv, Values
  <2>8. /\ data[c] \in Nat /\ data'[c] = data[c] + n
        /\ \A d \in Conns : d # c => data'[d] = data[d]
        /\ data' \in [Conns -> Nat]
    BY <2>1 DEF TInv, Values
  <2>9. \A d \in Conns : InFlight(d)' <= SendSpace
    <3>1. \A d \in Conns : d # c => InFlight(d)' <= SendSpace
      BY <2>2, <2>8 DEF InFlight, TInv, Values
    <3>2. InFlight(c)' = InFlight(c) + n
      BY <2>2, <2>8 DEF InFlight
    <3>3. InFlight(c) \in Nat
      BY <2>8 DEF InFlight
    <3> QED BY <2>1, <3>1, <3>2, <3>3
  <2>10. Values'
    BY <1>1, <2>2, <2>4, <2>6, <2>8, <2>9 DEF TInv, Values
  <2>11. WritingHasFile'
    BY <2>2, <2>4, <2>5, <2>6, <2>7 DEF TInv, Values, WritingHasFile
  <2>12. Talk(c)'
    <3>1. /\ Due(c)' = Due(c)
          /\ ToSend(c) = b /\ ToSend(c)' = b - n
      BY <1>1, <1>3, <2>2, <2>3, <2>7 DEF Due, ToSend
    <3>2. data'[c] + (b - n) = data[c] + b
      BY <2>4, <2>8
    <3>3. client[c] # "closed"
      BY <1>1, <1>3, <2>2 DEF Talk
    <3> QED BY <1>1, <1>3, <1>4, <2>2, <3>1, <3>2, <3>3 DEF Talk
  <2> QED BY <1>2, <2>10, <2>11, <2>12, HandlerDialogue DEF Handles
<1>6. CASE SendPauses(c) \/ SendEnds(c) \/ SendFinished(c)
  <2>1. /\ UNCHANGED <<request, response, data, fin, fileProcess>>
        /\ \/ status' = status
           \/ status' = [status EXCEPT ![c] = "END"]
           \/ status' = [status EXCEPT ![c] = "READING"] /\ fileProcess[c].rest = 0
    BY <1>6 DEF SendPauses, SendEnds, SendFinished, Then
  <2>2. Values'
    BY <1>1, <2>1 DEF TInv, Values, InFlight
  <2>3. WritingHasFile'
    BY <2>1 DEF TInv, Values, WritingHasFile
  <2>4. Due(c)' = Due(c) /\ ToSend(c) = fileProcess[c].rest /\ ToSend(c) \in Nat
    BY <1>1, <1>3, <2>1 DEF Due, ToSend, FileProcesses
  <2>5. /\ ToSend(c)' <= ToSend(c)
        /\ status'[c] # "END" => ToSend(c)' = ToSend(c)
    BY <1>3, <2>1, <2>4 DEF ToSend, TInv, Values
  <2>6. /\ data[c] \in Nat /\ ToSend(c)' \in Nat
        /\ Due(c) = data[c] + ToSend(c) \/ client[c] = "closed"
    BY <1>3, <2>1, <2>4 DEF Talk, ToSend, TInv, Values
  <2>7. client[c] # "closed" =>
          /\ Due(c)' >= data'[c] + ToSend(c)'
          /\ status'[c] # "END" => Due(c)' = data'[c] + ToSend(c)'
    BY <2>1, <2>4, <2>5, <2>6
  <2>8. Talk(c)'
    BY <1>1, <1>3, <1>4, <2>1, <2>7 DEF Talk
  <2> QED BY <1>2, <2>2, <2>3, <2>8, HandlerDialogue DEF Handles
<1> QED BY <1>2, <1>5, <1>6 DEF HandleSend

LEMMA HandlerFollows ==
  ASSUME IInv, TInv, NEW t \in ServerThreads, Handles(t)
  PROVE  Follows' /\ SomethingToRead'
<1>1. PICK c \in Conns : c = cur[t]
  BY HandlerSteps, HandlerPlace DEF Handles
<1>2. /\ pc[t] \in {"read", "process", "send"}
      /\ UNCHANGED <<armed, ready, listener, batch, cur>>
      /\ listener[c] = "live" /\ armed[c] = "off" /\ c \notin ready /\ readBuffer[c] = t
      /\ \A u \in ServerThreads : c \notin batch[u] /\ (cur[u] = c => u = t)
  BY <1>1, HandlerSteps, HandlerPlace DEF Handles
<1>3. \A d \in Conns : d # c => Same(d)
  BY <1>1, HandlerElsewhere
<1>4. /\ \A u \in ServerThreads : u # t => pc'[u] = pc[u]
      /\ pc'[t] \in {"process", "send", "detach"}
  BY HandlerSteps DEF Handles, HandleRead, HandleProcess, HandleSend, Handling, Goto, IInv, Shape
<1>5. /\ pc'[t] = "process" => status'[c] = "READING" /\ packet'[t] \in Requests
      /\ pc'[t] = "send" => status'[c] = "WRITING"
  <2>1. CASE HandleRead(t)
    BY <1>1, <1>2, <2>1 DEF HandleRead, Handling, Goto, ReadRequest, ReadEnd, sessionVars,
       IInv, Shape, TInv, Values, Follows
  <2>2. CASE HandleProcess(t)
    BY <2>2 DEF HandleProcess, Goto, IInv, Shape
  <2>3. CASE HandleSend(t)
    BY <1>1, <1>2, <2>3 DEF HandleSend, Handling, Goto, SendSome, SendPauses, IInv, Shape,
       TInv, Follows
  <2> QED BY <2>1, <2>2, <2>3 DEF Handles
<1>6. \A u \in ServerThreads : u # t => packet'[u] = packet[u]
  BY <1>1, <1>2 DEF Handles, HandleRead, HandleProcess, HandleSend, TInv, Values
<1>7. Follows'
  <2>1. ASSUME NEW u \in ServerThreads
        PROVE  /\ pc'[u] \in {"read", "process"} => status'[cur'[u]] = "READING"
               /\ pc'[u] = "send" => status'[cur'[u]] = "WRITING"
               /\ pc'[u] = "rearm" => status'[cur'[u]] # "END"
               /\ pc'[u] = "process" => packet'[u] \in Requests
    <3>1. CASE u = t
      BY <1>1, <1>2, <1>4, <1>5, <3>1
    <3>2. CASE u # t
      <4>1. pc'[u] = pc[u] /\ packet'[u] = packet[u] /\ cur'[u] = cur[u]
        BY <1>2, <1>4, <1>6, <3>2
      <4>2. pc[u] \in HandlerLabels => cur[u] \in Conns /\ cur[u] # c
        BY <1>1, <1>2, <3>2 DEF IInv, Places
      <4>3. pc[u] \in HandlerLabels => status'[cur[u]] = status[cur[u]]
        BY <1>3, <4>2 DEF Same
      <4> QED BY <4>1, <4>3 DEF TInv, Follows, HandlerLabels
    <3> QED BY <3>1, <3>2
  <2>2. ASSUME NEW d \in Conns
        PROVE  /\ armed'[d] = "in" => status'[d] = "READING"
               /\ armed'[d] = "out" => status'[d] = "WRITING"
               /\ listener'[d] = "none" => status'[d] = "READING"
    BY <1>2, <1>3 DEF Same, TInv, Follows
  <2> QED BY <2>1, <2>2 DEF Follows
<1>8. SomethingToRead'
  <2> SUFFICES ASSUME NEW d \in Conns, Called(d)', status'[d] = "READING"
               PROVE  request'[d] # None \/ fin'[d]
    BY DEF SomethingToRead
  <2>1. d # c
    BY <1>2, <1>4 DEF Called
  <2>2. Called(d)
    BY <1>2, <1>4 DEF Called
  <2> QED BY <1>3, <2>1, <2>2 DEF Same, TInv, SomethingToRead
<1> QED BY <1>7, <1>8

-----------------------------------------------------------------------------
(***************************************************************************)
(* The clients' steps: each changes its own connection, no thread and      *)
(* nothing of the session.                                                 *)
(***************************************************************************)
LEMMA ConnectTInv ==
  ASSUME IInv, TInv, NEW c \in Conns, Connect(c)
  PROVE  TInv'
<1> USE ReactorAssumption DEF IInv, Shape, peerVars, socketVars, sessionVars, threadVars
<1>1. /\ client[c] = "off" /\ client' = [client EXCEPT ![c] = "idle"]
      /\ ready' = ready \cup {ServerSocket}
      /\ UNCHANGED <<want, request, response, data, fin, status, fileProcess, listener, armed,
                     pc, batch, cur, packet, up, faults>>
  BY DEF Connect
<1>2. Values' /\ Follows' /\ WritingHasFile'
  BY <1>1 DEF TInv, Values, InFlight, Follows, WritingHasFile
<1>3. SomethingToRead'
  BY <1>1 DEF TInv, SomethingToRead, Called
<1>4. Dialogue'
  <2> SUFFICES ASSUME NEW d \in Conns PROVE Talk(d)'
    BY DEF Dialogue
  <2>1. Talk(d) /\ InHand(d)' = InHand(d) /\ ToSend(d)' = ToSend(d)
    BY <1>1 DEF TInv, Dialogue, InHand, ToSend
  <2>2. Due(d)' = Due(d)
    BY <1>1 DEF Due
  <2> QED BY <1>1, <2>1, <2>2 DEF Talk
<1> QED BY <1>2, <1>3, <1>4 DEF TInv

\* What the client does of its own accord, or with what it is sent.
Peer(c) == SendRequest(c) \/ Close(c) \/ TakeResponse(c) \/ TakeData(c) \/ SeeEnd(c)

LEMMA PeerSteps ==
  ASSUME IInv, TInv, NEW c \in Conns, PeerActs(c) \/ PeerTakes(c)
  PROVE  /\ Peer(c) /\ Notify(c)
         /\ UNCHANGED <<status, fileProcess, listener, armed, pc, batch, cur, packet, up, faults>>
         /\ \A d \in Conns : d # c => Same(d)
         /\ SeeEnd(c) => listener[c] = "freed" \/ ~up \/ Close(c)
<1> USE DEF threadVars, sessionVars, socketVars
<1>1. /\ Peer(c) /\ Notify(c)
      /\ UNCHANGED <<status, fileProcess, listener, armed, pc, batch, cur, packet, up, faults>>
  BY DEF PeerActs, PeerTakes, Peer, SendRequest, Close, TakeResponse, TakeData, SeeEnd
<1>2. ASSUME NEW d \in Conns, d # c PROVE Same(d)
  BY <1>1, <1>2 DEF Same, Peer, SendRequest, Close, TakeResponse, TakeData, SeeEnd, TInv,
     Values, IInv, Shape
<1>3. SeeEnd(c) => listener[c] = "freed" \/ ~up \/ Close(c)
  <2>1. CASE TakeResponse(c)
    BY <2>1 DEF TakeResponse, SeeEnd
  <2>2. CASE TakeData(c)
    BY <2>2 DEF TakeData, SeeEnd, TInv, Values
  <2>3. CASE SendRequest(c)
    BY <2>3 DEF SendRequest, SeeEnd, IInv, Shape
  <2> QED BY <2>1, <2>2, <2>3 DEF PeerActs, PeerTakes
<1> QED BY <1>1, <1>2, <1>3

LEMMA PeerValues ==
  ASSUME IInv, TInv, NEW c \in Conns, PeerActs(c) \/ PeerTakes(c), Talk(c)
  PROVE  Values'
<1> USE SessionAssumption, NoneAssumption
        DEF TInv, Values, InFlight, socketVars, sessionVars, peerVars
<1>1. /\ Peer(c)
      /\ UNCHANGED <<status, fileProcess, packet, up, faults>>
  BY PeerSteps
<1>2. CASE SendRequest(c)
  BY <1>1, <1>2 DEF SendRequest
<1>3. CASE Close(c)
  BY <1>1, <1>3 DEF Close
<1>4. CASE TakeResponse(c)
  <2>1. response[c] \in Packets
    BY <1>4 DEF TakeResponse
  <2>2. /\ response' = [response EXCEPT ![c] = None]
        /\ want' \in [Conns -> Nat]
        /\ UNCHANGED <<request, data, fin>>
    BY <1>4, <2>1 DEF TakeResponse, Packets
  <2> QED BY <1>1, <2>2
<1>5. CASE TakeData(c)
  <2>1. PICK n \in 1 .. data[c] :
          /\ data' = [data EXCEPT ![c] = @ - n]
          /\ want' = [want EXCEPT ![c] = @ - n]
    BY <1>5 DEF TakeData
  <2>2. response[c] = None /\ client[c] = "receiving"
    BY <1>5 DEF TakeData, Talk
  <2>3. Due(c) = want[c] /\ ToSend(c) \in Nat
    BY <2>2 DEF Due, ToSend, WritingHasFile, FileProcesses
  <2>4. want[c] >= data[c]
    BY <2>2, <2>3 DEF Talk
  <2>5. want[c] - n \in Nat /\ data[c] - n \in Nat /\ data[c] - n <= data[c]
    BY <2>1, <2>4
  <2>6. UNCHANGED <<request, response, fin>>
    BY <1>5 DEF TakeData
  <2> QED BY <1>1, <2>1, <2>5, <2>6
<1>6. CASE SeeEnd(c)
  BY <1>1, <1>6 DEF SeeEnd
<1> QED BY <1>1, <1>2, <1>3, <1>4, <1>5, <1>6 DEF Peer

LEMMA PeerTalk ==
  ASSUME IInv, TInv, NEW c \in Conns, PeerActs(c) \/ PeerTakes(c), Talk(c)
  PROVE  Talk(c)'
<1> USE SessionAssumption DEF socketVars, sessionVars, peerVars
<1>1. /\ Peer(c)
      /\ UNCHANGED <<status, fileProcess, listener, pc, cur, up>>
      /\ SeeEnd(c) => listener[c] = "freed" \/ ~up \/ Close(c)
  BY PeerSteps
<1>2. InHand(c)' = InHand(c) /\ ToSend(c)' = ToSend(c)
  BY <1>1 DEF InHand, ToSend
<1>3. ToSend(c) \in Nat /\ data[c] \in Nat
  BY DEF ToSend, TInv, Values, WritingHasFile, FileProcesses
<1>4. CASE SendRequest(c)
  <2>1. /\ client[c] = "idle" /\ client'[c] = "waiting" /\ request'[c] # None
        /\ UNCHANGED <<want, response, data, fin>>
    BY <1>4 DEF SendRequest, IInv, Shape, TInv, Values
  <2>2. Due(c)' = 0 /\ Due(c) = 0
    BY <2>1 DEF Talk, Due
  <2> QED BY <1>1, <1>2, <2>1, <2>2 DEF Talk
<1>5. CASE Close(c)
  <2>1. /\ client'[c] = "closed" /\ fin'[c] /\ response'[c] = None /\ data'[c] = 0
        /\ request' = request
    BY <1>5 DEF Close, IInv, Shape, TInv, Values
  <2>2. request[c] # None => ~InHand(c)
    BY DEF Talk
  <2> QED BY <1>1, <1>2, <2>1, <2>2 DEF Talk
<1>6. CASE TakeResponse(c)
  <2>1. /\ client[c] = "waiting" /\ response[c] # None
        /\ response'[c] = None /\ want'[c] = Announced(response[c])
        /\ client'[c] = IF Announced(response[c]) > 0 THEN "receiving" ELSE "idle"
        /\ UNCHANGED <<request, data, fin>>
    BY <1>6 DEF TakeResponse, Announced, IInv, Shape, TInv, Values
  <2>2. Announced(response[c]) \in Nat
    BY <2>1 DEF TInv, Values, Announced, Packets
  <2>3. Due(c) = Announced(response[c]) /\ Due(c)' = Announced(response[c])
    BY <2>1 DEF Due
  <2> QED BY <1>1, <1>2, <2>1, <2>2, <2>3 DEF Talk
<1>7. CASE TakeData(c)
  <2>1. PICK n \in 1 .. data[c] :
          /\ data' = [data EXCEPT ![c] = @ - n]
          /\ want' = [want EXCEPT ![c] = @ - n]
          /\ client' = [client EXCEPT ![c] = IF want[c] = n THEN "idle" ELSE @]
    BY <1>7 DEF TakeData
  <2>2. /\ client[c] = "receiving" /\ data'[c] = data[c] - n /\ want'[c] = want[c] - n
        /\ client'[c] = IF want[c] = n THEN "idle" ELSE "receiving"
        /\ UNCHANGED <<request, response, fin>>
    BY <1>7, <2>1 DEF TakeData, IInv, Shape, TInv, Values
  <2>3. Due(c) = want[c] /\ Due(c)' = want[c] - n /\ want[c] \in Nat /\ n \in Nat
    BY <2>2, <1>3 DEF Talk, Due, TInv, Values
  <2> QED BY <1>1, <1>2, <1>3, <2>2, <2>3 DEF Talk
<1>8. CASE SeeEnd(c) /\ ~Close(c)
  <2>1. /\ client'[c] = "closed" /\ response[c] = None /\ data[c] = 0
        /\ UNCHANGED <<want, request, response, data, fin>>
    BY <1>8 DEF SeeEnd, IInv, Shape
  <2> QED BY <1>1, <1>2, <1>8, <2>1 DEF Talk
<1> QED BY <1>1, <1>4, <1>5, <1>6, <1>7, <1>8 DEF Peer

LEMMA PeerTInv ==
  ASSUME IInv, TInv, NEW c \in Conns, PeerActs(c) \/ PeerTakes(c)
  PROVE  TInv'
<1>1. /\ Peer(c) /\ Notify(c)
      /\ UNCHANGED <<status, fileProcess, listener, armed, pc, batch, cur, packet, up, faults>>
      /\ \A d \in Conns : d # c => Same(d)
  BY PeerSteps
<1>2. Talk(c)
  BY DEF TInv, Dialogue
<1>3. Values'
  BY <1>2, PeerValues
<1>4. Follows' /\ WritingHasFile'
  BY <1>1 DEF TInv, Follows, WritingHasFile
<1>5. SomethingToRead'
  <2>1. ASSUME NEW d \in Conns, request[d] # None \/ fin[d] PROVE request'[d] # None \/ fin'[d]
    <3>1. CASE d = c
      BY <1>1, <2>1, <3>1, SessionAssumption
         DEF Peer, SendRequest, Close, TakeResponse, TakeData, SeeEnd, socketVars, TInv, Values
    <3>2. CASE d # c
      BY <1>1, <2>1, <3>2 DEF Same
    <3> QED BY <3>1, <3>2
  <2>2. ASSUME NEW d \in Conns, Called(d)', status[d] = "READING"
        PROVE  Called(d) \/ request'[d] # None \/ fin'[d]
    BY <1>1, <2>2 DEF Called, Notify, Reports, TInv, Follows
  <2> QED BY <1>1, <2>1, <2>2 DEF TInv, SomethingToRead
<1>6. Dialogue'
  <2> SUFFICES ASSUME NEW d \in Conns, d # c PROVE Talk(d)'
    BY <1>2, PeerTalk DEF Dialogue
  <2>1. InHand(d)' => InHand(d)
    BY <1>1 DEF InHand
  <2> QED BY <1>1, <2>1, TalkKept DEF TInv, Dialogue
<1> QED BY <1>3, <1>4, <1>5, <1>6 DEF TInv

-----------------------------------------------------------------------------
LEMMA StutterTInv == TInv /\ UNCHANGED vars => TInv'
<1> SUFFICES ASSUME TInv, UNCHANGED vars PROVE TInv'
  OBVIOUS
<1> USE DEF vars, connVars, peerVars, socketVars, sessionVars, epollVars, threadVars
<1>1. Values' /\ Follows' /\ WritingHasFile'
  BY DEF TInv, Values, InFlight, Follows, WritingHasFile
<1>2. SomethingToRead'
  BY DEF TInv, SomethingToRead, Called
<1>3. ASSUME NEW c \in Conns PROVE Talk(c)'
  BY TalkKept DEF TInv, Dialogue, Same, InHand
<1> QED BY <1>1, <1>2, <1>3 DEF TInv, Dialogue

LEMMA NextTInv == IInv /\ TInv /\ [Next]_vars => TInv'
<1> SUFFICES ASSUME IInv, TInv, [Next]_vars PROVE TInv'
  OBVIOUS
<1>1. ASSUME NEW t \in ServerThreads, Around(t) PROVE TInv'
  BY <1>1, AroundValues, AroundFollows, AroundSomethingToRead DEF TInv
<1>2. ASSUME NEW t \in ServerThreads, Handles(t) PROVE TInv'
  BY <1>2, ReadTalk, ProcessTalk, SendTalk, HandlerFollows DEF TInv, Handles
<1>3. ASSUME NEW c \in Conns, Connect(c) \/ PeerActs(c) \/ PeerTakes(c) PROVE TInv'
  BY <1>3, ConnectTInv, PeerTInv
<1>4. ASSUME NEW t \in ServerThreads, Serve(t) \/ Fail(t) PROVE Around(t) \/ Handles(t)
  BY <1>4 DEF Serve, Fail, Around, Handles
<1> QED BY <1>1, <1>2, <1>3, <1>4, StutterTInv DEF Next, Quiet

LEMMA TalkInvariant == Spec => [](IInv /\ TInv)
<1>1. Init => IInv /\ TInv
  BY InitIInv, InitTInv
<1>2. IInv /\ TInv /\ [Next]_vars => (IInv /\ TInv)'
  BY NextIInv, NextTInv
<1> QED BY <1>1, <1>2, PTL DEF Spec

\* Every variable of the reactor, its sessions, sockets and clients has its
\* type; no send buffer is overfilled.
THEOREM ReactorTypeCorrect == Spec => []TypeOK
<1>1. IInv /\ TInv => TypeOK
  <2> SUFFICES ASSUME IInv, TInv PROVE TypeOK
    OBVIOUS
  <2>1. data \in [Conns -> 0 .. SendSpace]
    <3>1. ASSUME NEW c \in Conns PROVE data[c] \in 0 .. SendSpace
      <4>1. data[c] \in Nat /\ InFlight(c) <= SendSpace
        BY DEF TInv, Values
      <4> QED BY <4>1, SessionAssumption DEF InFlight
    <3> QED BY <3>1 DEF TInv, Values
  <2>2. Shape /\ Values
    BY DEF IInv, TInv
  <2> QED BY <2>1, <2>2, Zenon DEF Shape, Values, TypeOK
<1> QED BY <1>1, TalkInvariant, PTL

\* A session that writes has a file with all that its header announced, so
\* handleWriting (Session.cpp 192) never runs on without one.
THEOREM WritersHaveFiles == Spec => []WritingHasFile
<1>1. IInv /\ TInv => WritingHasFile
  BY DEF TInv
<1> QED BY <1>1, TalkInvariant, PTL

\* While a session lives, what the client expects of the file is what is on
\* its way plus what the session has yet to send (Session.cpp 198-231).
THEOREM TransfersAddUp == Spec => []TransferConserved
<1>1. ASSUME IInv, TInv PROVE TransferConserved
  <2> SUFFICES ASSUME NEW c \in Conns, ~fin[c], status[c] # "END"
               PROVE  /\ client[c] \in {"idle", "receiving"} => want[c] = data[c] + ToSend(c)
                      /\ response[c] # None => Announced(response[c]) = data[c] + ToSend(c)
    BY DEF TransferConserved, ToSend, Announced
  <2>1. Talk(c)
    BY <1>1 DEF TInv, Dialogue
  <2>2. CASE client[c] \in {"idle", "receiving"}
    BY <2>1, <2>2 DEF Talk, Due
  <2>3. CASE response[c] # None
    BY <2>1, <2>3 DEF Talk, Due
  <2> QED BY <2>2, <2>3
<1> QED BY <1>1, TalkInvariant, PTL

\* A response finds room, although sendResponse's result is ignored
\* (Session.cpp 160), and a handler that reads finds something to read.
THEOREM HandlersFindRoom == Spec => []HandlerNeverStarved
<1>1. ASSUME IInv, TInv PROVE HandlerNeverStarved
  <2> SUFFICES ASSUME NEW t \in ServerThreads, up
               PROVE  /\ pc[t] = "process" => fin[cur[t]] \/ InFlight(cur[t]) = 0
                      /\ pc[t] = "read" => request[cur[t]] # None \/ fin[cur[t]]
    BY DEF HandlerNeverStarved
  <2>1. CASE pc[t] = "process"
    BY <1>1, <2>1, AnswerHasRoom DEF InFlight
  <2>2. CASE pc[t] = "read"
    BY <1>1, <2>2, HandlerPlace DEF TInv, SomethingToRead, Called, Follows
  <2> QED BY <2>1, <2>2
<1> QED BY <1>1, TalkInvariant, PTL

\* A session that could go on is queued or in hand: what ConnectionListener
\* arms for (Server.cpp 33-42) follows the status, and while a session writes
\* nothing but room or the client's end can come, since a client that has a
\* request on its way has taken all of the last transfer.
THEOREM WorkIsNeverLeft == Spec => []WorkIsTakenUp
<1>1. ASSUME IInv, TInv, Watched PROVE WorkIsTakenUp
  <2> SUFFICES ASSUME NEW c \in Conns, HasWork(c), armed[c] # "off"
               PROVE  Reports(c)
    BY <1>1 DEF WorkIsTakenUp, Forgotten, Watched, Polled
  <2>1. armed[c] = "in" \/ armed[c] = "out"
    BY <1>1 DEF IInv, Shape
  <2>2. CASE armed[c] = "in"
    BY <1>1, <2>2 DEF HasWork, Reports, TInv, Follows
  <2>3. CASE armed[c] = "out"
    <3>1. status[c] = "WRITING"
      BY <1>1, <2>3 DEF TInv, Follows
    <3>2. CASE fin[c] \/ Room(c)
      BY <2>3, <3>2 DEF Reports
    <3>3. CASE request[c] # None
      <4>1. Talk(c)
        BY <1>1 DEF TInv, Dialogue
      <4>2. response[c] = None /\ client[c] \in {"waiting", "closed"}
        BY <1>1, <3>3, <4>1 DEF Talk, IInv, Shape
      <4>3. data[c] \in Nat /\ ToSend(c) \in Nat
        BY <1>1 DEF TInv, Values, ToSend, WritingHasFile, FileProcesses
      <4>4. data[c] = 0
        BY <3>1, <4>1, <4>2, <4>3 DEF Talk, Due
      <4>5. Room(c)
        BY <4>2, <4>4, SessionAssumption DEF Room, InFlight
      <4> QED BY <2>3, <4>5 DEF Reports
    <3> QED BY <3>1, <3>2, <3>3 DEF HasWork
  <2> QED BY <2>1, <2>2, <2>3
<1> QED BY <1>1, TalkInvariant, WatchedAlways, PTL

-----------------------------------------------------------------------------
(***************************************************************************)
(* No request is lost, if every DOWNLOAD is long enough for its header     *)
(* (Session.cpp 109 drops one that is not, and answers nothing).           *)
(***************************************************************************)
WholeRequests == \A r \in Requests : IsDownload(r) => r.whole

\* The answer to what a client waits for is somewhere.
Somewhere(c) ==
  client[c] = "waiting" /\ up =>
    request[c] # None \/ response[c] # None \/ InHand(c) \/ status[c] = "END"

LEMMA SomewhereAround ==
  ASSUME IInv, TInv, NEW t \in ServerThreads, Around(t), NEW c \in Conns, Somewhere(c)
  PROVE  Somewhere(c)'
<1>1. UNCHANGED connVars /\ up' = up
  BY AroundSteps
<1>2. InHand(c) => InHand(c)'
  BY DEF InHand, Around, IInv, Shape, Wait, Dispatch, AcceptOne, AcceptNone, AcceptFails,
     AttachFails, Detach, Rearm, RearmFails, Free, Handling, NextEvent, Goto, threadVars
<1> QED BY <1>1, <1>2 DEF Somewhere, connVars, peerVars, socketVars, sessionVars

\* Reading takes the request in hand; processing leaves an answer or the end.
LEMMA SomewhereRead ==
  ASSUME IInv, TInv, NEW t \in ServerThreads, HandleRead(t),
         NEW c \in Conns, c = cur[t], Somewhere(c)
  PROVE  Somewhere(c)'
<1> USE DEF HandleRead, Handling, Goto
<1>1. cur' = cur /\ pc[t] = "read"
  OBVIOUS
<1>2. CASE ReadRequest(c) /\ pc' = [pc EXCEPT ![t] = "process"]
  <2>1. InHand(c)'
    BY <1>1, <1>2 DEF InHand, IInv, Shape
  <2> QED BY <1>1, <2>1 DEF Somewhere
<1>3. CASE ReadEnd(c)
  <2>1. status'[c] = "END"
    BY <1>3 DEF ReadEnd, Then, TInv, Values
  <2> QED BY <1>1, <2>1 DEF Somewhere
<1> QED BY <1>2, <1>3

LEMMA SomewhereProcess ==
  ASSUME WholeRequests, IInv, TInv, NEW t \in ServerThreads, HandleProcess(t),
         NEW c \in Conns, c = cur[t]
  PROVE  Somewhere(c)'
<1>1. pc[t] = "process" /\ up /\ cur' = cur /\ UNCHANGED <<client, want>>
  BY HandlerElsewhere DEF HandleProcess, Handling, Handles
<1>2. /\ response[c] = None /\ data[c] = 0 /\ Packet(t) \in Requests
      /\ client[c] = "waiting" => ~fin[c]
  BY <1>1, AnswerHasRoom
<1>3. ASSUME NEW p \in Packets, Respond(c, p), client[c] = "waiting"
      PROVE  response'[c] # None
  <2>1. Room(c) /\ ~fin[c]
    BY <1>2, <1>3, SessionAssumption DEF Room, InFlight
  <2> QED BY <1>3, <2>1, NoneAssumption DEF Respond, TInv, Values
<1>4. client[c] = "waiting" => response'[c] # None \/ status'[c] = "END"
  <2> DEFINE r == Packet(t)
  <2>1. Process(c, r) /\ r \in Requests
    BY <1>2 DEF HandleProcess
  <2> HIDE DEF r
  <2>2. CASE ProcessCommand(c, r)
    BY <1>3, <2>2, ResponseKinds DEF ProcessCommand
  <2>3. CASE IgnoreShort(c, r)
    BY <2>1, <2>3 DEF IgnoreShort, WholeRequests
  <2>4. CASE RefuseDownload(c, r)
    BY <1>3, <2>4, ResponseKinds DEF RefuseDownload
  <2>5. CASE ReplyInfo(c, r) \/ StartDownload(c, r)
    <3>1. AskedSize(r) \in Nat
      BY <2>1, <2>5, RequestAssumption, SessionAssumption
         DEF ReplyInfo, StartDownload, IsDownload, AskedSize
    <3> QED BY <1>3, <2>5, <3>1, ResponseKinds DEF ReplyInfo, StartDownload
  <2>6. CASE RejectGarbage(c, r)
    BY <2>6 DEF RejectGarbage, Then, TInv, Values
  <2> QED BY <2>1, <2>2, <2>3, <2>4, <2>5, <2>6 DEF Process
<1> QED BY <1>1, <1>4 DEF Somewhere

LEMMA SomewhereSend ==
  ASSUME IInv, TInv, NEW t \in ServerThreads, HandleSend(t),
         NEW c \in Conns, c = cur[t], Somewhere(c)
  PROVE  Somewhere(c)'
<1>1. status[c] = "WRITING" /\ pc[t] = "send" /\ cur' = cur /\ up' = up
  BY DEF HandleSend, Handling, TInv, Follows
<1>2. UNCHANGED <<client, request, response>>
  BY DEF HandleSend, SendSome, SendPauses, SendEnds, SendFinished, connVars, socketVars, peerVars
<1>3. ~InHand(c)
  BY <1>1, HandlerPlace DEF InHand
<1> QED BY <1>1, <1>2, <1>3 DEF Somewhere

LEMMA SomewherePeer ==
  ASSUME IInv, TInv, NEW c \in Conns, PeerActs(c) \/ PeerTakes(c), Somewhere(c)
  PROVE  Somewhere(c)'
<1>1. Peer(c) /\ UNCHANGED <<status, pc, cur, up>>
  BY PeerSteps
<1>2. InHand(c)' = InHand(c)
  BY <1>1 DEF InHand
<1>3. CASE SendRequest(c)
  BY <1>3, SessionAssumption DEF SendRequest, Somewhere, TInv, Values
<1>4. CASE TakeResponse(c) \/ TakeData(c) \/ Close(c) \/ SeeEnd(c)
  <2>1. client'[c] # "waiting"
    BY <1>4 DEF TakeResponse, TakeData, Close, SeeEnd, IInv, Shape
  <2> QED BY <2>1 DEF Somewhere
<1> QED BY <1>1, <1>3, <1>4 DEF Peer

LEMMA NextSomewhere ==
  ASSUME WholeRequests, IInv, TInv, \A c \in Conns : Somewhere(c), [Next]_vars
  PROVE  \A c \in Conns : Somewhere(c)'
<1> TAKE c \in Conns
<1>1. ASSUME NEW t \in ServerThreads, Around(t) PROVE Somewhere(c)'
  BY <1>1, SomewhereAround
<1>2. ASSUME NEW t \in ServerThreads, Handles(t) PROVE Somewhere(c)'
  <2>1. CASE c = cur[t]
    BY <1>2, <2>1, SomewhereRead, SomewhereProcess, SomewhereSend DEF Handles
  <2>2. CASE c # cur[t]
    <3>1. Same(c) /\ (up' => up)
      BY <1>2, <2>2, HandlerElsewhere DEF TInv, Values
    <3>2. InHand(c) => InHand(c)'
      BY <1>2, <2>2, HandlerSteps DEF InHand, Handles, IInv, Shape
    <3> QED BY <3>1, <3>2 DEF Same, Somewhere
  <2> QED BY <2>1, <2>2
<1>3. ASSUME NEW d \in Conns, PeerActs(d) \/ PeerTakes(d) PROVE Somewhere(c)'
  <2>1. /\ d # c => Same(c)
        /\ UNCHANGED <<pc, cur, up>>
    BY <1>3, PeerSteps
  <2>2. InHand(c)' = InHand(c)
    BY <2>1 DEF InHand
  <2> QED BY <1>3, <2>1, <2>2, SomewherePeer DEF Same, Somewhere
<1>4. ASSUME NEW d \in Conns, Connect(d) PROVE Somewhere(c)'
  BY <1>4 DEF Connect, Somewhere, InHand, IInv, Shape, socketVars, sessionVars, threadVars
<1>5. ASSUME UNCHANGED vars PROVE Somewhere(c)'
  BY <1>5 DEF vars, connVars, peerVars, socketVars, sessionVars, threadVars, Somewhere, InHand
<1>6. ASSUME NEW t \in ServerThreads, Serve(t) \/ Fail(t) PROVE Around(t) \/ Handles(t)
  BY <1>6 DEF Serve, Fail, Around, Handles
<1> QED BY <1>1, <1>2, <1>3, <1>4, <1>5, <1>6 DEF Next, Quiet

\* Every whole request is answered, under way to an answer, or its session has
\* been ended (Session.cpp 41-66, 104-167).
THEOREM NoRequestIsLost ==
  ASSUME WholeRequests PROVE Spec => []RequestNotLost
<1> DEFINE Inv == IInv /\ TInv /\ \A c \in Conns : Somewhere(c)
<1>1. Init => Inv
  BY InitIInv, InitTInv DEF Init, SessionInit, Somewhere
<1>2. Inv /\ [Next]_vars => Inv'
  BY WholeRequests, NextIInv, NextTInv, NextSomewhere
<1>3. Inv => RequestNotLost
  BY DEF RequestNotLost, Somewhere, InHand
<1> QED BY <1>1, <1>2, <1>3, PTL DEF Spec
=============================================================================
