----------------------------- MODULE ReactorProofs -----------------------------
(***************************************************************************)
(* What is proved of Reactor for every number of connections and threads,  *)
(* every set of requests, every size of epoll's event buffer and any       *)
(* number of faults: a session has one handler at a time, no event points  *)
(* to a freed listener, buffers are not shared, and only a fault leaves a  *)
(* connection that nobody watches.                                         *)
(***************************************************************************)
EXTENDS Reactor, FiniteSetTheorems, TLAPS

\* The types the argument needs.
Shape ==
  /\ client \in [Conns -> {"off", "idle", "waiting", "receiving", "closed"}]
  /\ backlog \subseteq Conns
  /\ listener \in [Conns -> {"none", "live", "freed"}]
  /\ armed \in [Conns -> {"off", "in", "out"}]
  /\ ready \subseteq Entries
  /\ pc \in [ServerThreads -> {"wait", "loop", "accept"} \cup HandlerLabels]
  /\ batch \in [ServerThreads -> SUBSET Entries]
  /\ cur \in [ServerThreads -> Entries \cup {None}]
  /\ readBuffer \in [Conns -> ServerThreads \cup {None}]

\* Where a thread is and what it holds agree.
Places ==
  \A t \in ServerThreads :
    /\ pc[t] \in HandlerLabels <=> cur[t] \in Conns
    /\ pc[t] = "accept" <=> cur[t] = ServerSocket
    /\ cur[t] \notin batch[t]
    /\ pc[t] = "wait" => batch[t] = {}

\* A connection has no listener before it is accepted.
Fresh ==
  \A c \in Conns :
    /\ client[c] = "off" => c \notin backlog /\ listener[c] = "none"
    /\ c \in backlog => listener[c] = "none"

IInv == Shape /\ Places /\ Fresh /\ OneHandler /\ NoDanglingEvent /\ BufferOfHandler

LEMMA InitIInv == Init => IInv
<1> SUFFICES ASSUME Init PROVE IInv
  OBVIOUS
<1> USE ReactorAssumption DEF Init, SessionInit
<1>1. Shape
  BY DEF Shape
<1>2. Places
  BY DEF Places, HandlerLabels
<1>3. Fresh /\ OneHandler /\ NoDanglingEvent
  BY DEF Fresh, OneHandler, NoDanglingEvent, Owns, Holds
<1>4. BufferOfHandler
  BY DEF BufferOfHandler
<1> QED BY <1>1, <1>2, <1>3, <1>4 DEF IInv

\* The steps of a session and of its client leave the listener, the threads and
\* epoll to Reactor, and an event is queued only for what is armed.
LEMMA NotifyAdds ==
  ASSUME NEW c \in Conns, Notify(c)
  PROVE  \/ ready' = ready
         \/ ready' = ready \cup {c} /\ armed'[c] # "off"
BY DEF Notify, Reports

LEMMA HandlerSteps ==
  ASSUME NEW t \in ServerThreads,
         HandleRead(t) \/ HandleProcess(t) \/ HandleSend(t)
  PROVE  /\ pc[t] \in {"read", "process", "send"}
         /\ \E l \in {"process", "send", "detach"} : pc' = pc \/ pc' = [pc EXCEPT ![t] = l]
         /\ UNCHANGED <<client, backlog, listener, armed, ready, batch, cur, readBuffer>>
<1> USE DEF epollVars, Handling, Goto
<1>1. CASE HandleRead(t)
  BY <1>1 DEF HandleRead, ReadRequest, ReadEnd, peerVars
<1>2. CASE HandleProcess(t)
  BY <1>2 DEF HandleProcess, Process, ProcessCommand, IgnoreShort, RefuseDownload, ReplyInfo,
       StartDownload, RejectGarbage, peerVars, connVars
<1>3. CASE HandleSend(t)
  BY <1>3 DEF HandleSend, SendSome, SendPauses, SendEnds, SendFinished, peerVars, connVars
<1> QED BY <1>1, <1>2, <1>3

-----------------------------------------------------------------------------
(***************************************************************************)
(* Every step preserves IInv.  A thread that holds a connection's event    *)
(* holds it alone and the connection is disarmed: so only that thread can  *)
(* arm or free it, and epoll can hand it to nobody else.                   *)
(***************************************************************************)
LEMMA WaitIInv ==
  ASSUME IInv, NEW t \in ServerThreads, Wait(t)
  PROVE  IInv'
<1> USE ReactorAssumption DEF IInv, connVars, peerVars, Entries
<1>1. PICK S \in Takeable :
        LET events == IF backlog = {} THEN S \ {ServerSocket} ELSE S
        IN  /\ ready' = ready \ S
            /\ armed' = [c \in Conns |-> IF c \in S THEN "off" ELSE armed[c]]
            /\ batch' = [batch EXCEPT ![t] = events]
            /\ Goto(t, IF events = {} THEN "wait" ELSE "loop")
  BY DEF Wait
<1> DEFINE events == IF backlog = {} THEN S \ {ServerSocket} ELSE S
<1>2. S \subseteq ready
  BY DEF Takeable
<1>3. /\ ready' = ready \ S
      /\ armed' = [c \in Conns |-> IF c \in S THEN "off" ELSE armed[c]]
      /\ batch' = [batch EXCEPT ![t] = events]
      /\ pc' = [pc EXCEPT ![t] = IF events = {} THEN "wait" ELSE "loop"]
      /\ UNCHANGED <<client, backlog, listener, cur, readBuffer>>
      /\ events \subseteq S
      /\ pc[t] = "wait"
  BY <1>1 DEF Wait, Goto
<1> HIDE DEF events
<1>4. Shape'
  BY <1>2, <1>3 DEF Shape, HandlerLabels
<1>5. Places'
  BY <1>2, <1>3 DEF Shape, Places, HandlerLabels
<1>6. Fresh'
  BY <1>3 DEF Fresh
<1>7. OneHandler'
  BY <1>2, <1>3 DEF OneHandler, Owns, Holds, Shape, Places, HandlerLabels
<1>8. NoDanglingEvent'
  BY <1>2, <1>3 DEF NoDanglingEvent, Holds, Shape
<1>9. BufferOfHandler'
  BY <1>3 DEF BufferOfHandler, Shape, Places, HandlerLabels
<1> QED BY <1>4, <1>5, <1>6, <1>7, <1>8, <1>9

\* Dispatch moves an event from the batch to `cur`.
LEMMA DispatchHolds ==
  ASSUME IInv, NEW t \in ServerThreads, Dispatch(t)
  PROVE  \A u \in ServerThreads : Holds(u)' = Holds(u)
<1> USE ReactorAssumption DEF IInv, Entries
<1>1. PICK x \in batch[t] :
        cur' = [cur EXCEPT ![t] = x] /\ batch' = [batch EXCEPT ![t] = @ \ {x}]
  BY DEF Dispatch
<1>2. cur[t] = None
  BY DEF Dispatch, Shape, Places, HandlerLabels
<1> QED BY <1>1, <1>2 DEF Holds, Shape

LEMMA DispatchIInv ==
  ASSUME IInv, NEW t \in ServerThreads, Dispatch(t)
  PROVE  IInv'
<1> USE ReactorAssumption DEF IInv, connVars, peerVars, epollVars, Entries
<1>1. PICK x \in batch[t] :
        /\ cur' = [cur EXCEPT ![t] = x]
        /\ batch' = [batch EXCEPT ![t] = @ \ {x}]
        /\ IF x = ServerSocket
           THEN /\ Goto(t, "accept")
                /\ UNCHANGED readBuffer
           ELSE /\ Goto(t, CASE status[x] = "READING" -> "read"
                             [] status[x] = "WRITING" -> "send"
                             [] OTHER -> "detach")
                /\ readBuffer' = [readBuffer EXCEPT ![x] = t]
  BY DEF Dispatch
<1>2. /\ pc[t] = "loop"
      /\ UNCHANGED <<client, backlog, listener, armed, ready>>
  BY DEF Dispatch
<1>3. cur[t] = None
  BY <1>2 DEF Shape, Places, HandlerLabels
<1>4. \A u \in ServerThreads : Holds(u)' = Holds(u)
  BY DispatchHolds
<1>5. CASE x = ServerSocket
  <2>1. Shape'
    BY <1>1, <1>2, <1>5 DEF Shape, HandlerLabels, Goto
  <2>2. Places'
    BY <1>1, <1>2, <1>5 DEF Shape, Places, HandlerLabels, Goto
  <2>3. BufferOfHandler'
    BY <1>1, <1>2, <1>3, <1>5 DEF BufferOfHandler, Shape, Places, HandlerLabels, Goto
  <2> QED
    BY <1>2, <1>4, <2>1, <2>2, <2>3 DEF Fresh, OneHandler, NoDanglingEvent, Owns
<1>6. CASE x # ServerSocket
  <2>0. x \in Conns
    BY <1>1, <1>6 DEF Shape
  <2>1. PICK l \in {"read", "send", "detach"} : pc' = [pc EXCEPT ![t] = l]
    BY <1>1, <1>6 DEF Goto
  <2>2. readBuffer' = [readBuffer EXCEPT ![x] = t]
    BY <1>1, <1>6
  <2>3. Shape'
    BY <1>1, <1>2, <2>0, <2>1, <2>2 DEF Shape, HandlerLabels
  <2>4. Places'
    BY <1>1, <1>2, <2>0, <2>1 DEF Shape, Places, HandlerLabels
  <2>5. \A u \in ServerThreads : cur[u] # x
    BY <1>1, <1>3, <2>0 DEF OneHandler, Owns, Holds, Places
  <2>6. BufferOfHandler'
    BY <1>1, <1>2, <1>3, <2>0, <2>1, <2>2, <2>5 DEF BufferOfHandler, Shape
  <2> QED
    BY <1>2, <1>4, <2>3, <2>4, <2>6 DEF Fresh, OneHandler, NoDanglingEvent, Owns
<1> QED BY <1>5, <1>6

\* A connection of the backlog, being new, has no event and is nobody's.
LEMMA BacklogIsFresh ==
  ASSUME IInv, NEW c \in backlog
  PROVE  /\ c \in Conns /\ listener[c] = "none" /\ armed[c] = "off" /\ c \notin ready
         /\ \A t \in ServerThreads : c \notin Holds(t)
BY DEF IInv, Shape, Fresh, NoDanglingEvent

LEMMA AcceptIInv ==
  ASSUME IInv, NEW t \in ServerThreads, AcceptOne(t) \/ AttachFails(t)
  PROVE  IInv'
<1> USE ReactorAssumption DEF connVars, peerVars, threadVars
<1>1. PICK c \in backlog :
        /\ backlog' = backlog \ {c}
        /\ listener' = [listener EXCEPT ![c] = "live"]
        /\ armed' = armed \/ armed' = [armed EXCEPT ![c] = "in"]
        /\ ready' = ready \/ (ready' = ready \cup {c} /\ armed'[c] # "off")
  BY BacklogIsFresh, NotifyAdds DEF AcceptOne, AttachFails
<1>2. UNCHANGED <<client, pc, batch, cur, readBuffer>>
  BY DEF AcceptOne, AttachFails
<1>3. /\ c \in Conns /\ listener[c] = "none" /\ armed[c] = "off" /\ c \notin ready
      /\ \A u \in ServerThreads : c \notin Holds(u)
  BY BacklogIsFresh
<1>4. \A u \in ServerThreads : Holds(u)' = Holds(u)
  BY <1>2 DEF Holds
<1> USE DEF IInv
<1>5. Shape'
  BY <1>1, <1>2, <1>3 DEF Shape, Entries
<1>6. Places'
  BY <1>2 DEF Places
<1>7. Fresh'
  BY <1>1, <1>2, <1>3 DEF Fresh, Shape
<1>8. OneHandler'
  BY <1>1, <1>3, <1>4 DEF OneHandler, Owns, Shape
<1>9. NoDanglingEvent'
  BY <1>1, <1>3, <1>4 DEF NoDanglingEvent, Shape
<1>10. BufferOfHandler'
  BY <1>2 DEF BufferOfHandler
<1> QED BY <1>5, <1>6, <1>7, <1>8, <1>9, <1>10

LEMMA NextEventIInv ==
  ASSUME IInv, NEW t \in ServerThreads, AcceptNone(t) \/ AcceptFails(t) \/ RearmFails(t)
  PROVE  IInv'
<1> USE ReactorAssumption DEF connVars, peerVars, epollVars
<1>1. /\ cur' = [cur EXCEPT ![t] = None]
      /\ pc' = [pc EXCEPT ![t] = IF batch[t] = {} THEN "wait" ELSE "loop"]
      /\ UNCHANGED <<client, backlog, listener, armed, ready, batch, readBuffer>>
      /\ pc[t] \in {"accept", "rearm"}
  BY DEF AcceptNone, AcceptFails, RearmFails, NextEvent, Handling, Goto
<1> USE DEF IInv
<1>2. \A u \in ServerThreads : Holds(u)' \subseteq Holds(u)
  BY <1>1 DEF Holds, Shape
<1>3. Shape'
  BY <1>1 DEF Shape, HandlerLabels
<1>4. Places'
  BY <1>1 DEF Shape, Places, HandlerLabels, Entries
<1>5. BufferOfHandler'
  BY <1>1 DEF Shape, BufferOfHandler
<1>6. Fresh' /\ OneHandler' /\ NoDanglingEvent'
  BY <1>1, <1>2 DEF Fresh, OneHandler, NoDanglingEvent, Owns
<1> QED BY <1>3, <1>4, <1>5, <1>6

LEMMA HandleIInv ==
  ASSUME IInv, NEW t \in ServerThreads,
         HandleRead(t) \/ HandleProcess(t) \/ HandleSend(t)
  PROVE  IInv'
<1>1. PICK l \in {"process", "send", "detach"} : pc' = pc \/ pc' = [pc EXCEPT ![t] = l]
  BY HandlerSteps
<1>2. /\ pc[t] \in {"read", "process", "send"}
      /\ UNCHANGED <<client, backlog, listener, armed, ready, batch, cur, readBuffer>>
  BY HandlerSteps
<1> USE DEF IInv
<1>3. Shape'
  BY <1>1, <1>2 DEF Shape, HandlerLabels
<1>4. Places'
  BY <1>1, <1>2 DEF Shape, Places, HandlerLabels
<1>5. BufferOfHandler'
  BY <1>1, <1>2 DEF Shape, BufferOfHandler
<1>6. Fresh' /\ OneHandler' /\ NoDanglingEvent'
  BY <1>2 DEF Fresh, OneHandler, NoDanglingEvent, Owns, Holds
<1> QED BY <1>3, <1>4, <1>5, <1>6

LEMMA DetachIInv ==
  ASSUME IInv, NEW t \in ServerThreads, Detach(t)
  PROVE  IInv'
<1> USE ReactorAssumption DEF connVars, peerVars, epollVars
<1>1. PICK l \in {"free", "rearm"} : pc' = [pc EXCEPT ![t] = l]
  BY DEF Detach, Goto
<1>2. /\ pc[t] = "detach"
      /\ readBuffer' = [readBuffer EXCEPT ![cur[t]] = None]
      /\ UNCHANGED <<client, backlog, listener, armed, ready, batch, cur>>
  BY DEF Detach, Handling
<1> USE DEF IInv
<1>3. cur[t] \in Conns
  BY <1>2 DEF Places, HandlerLabels
<1>4. Shape'
  BY <1>1, <1>2, <1>3 DEF Shape, HandlerLabels
<1>5. Places'
  BY <1>1, <1>2 DEF Shape, Places, HandlerLabels
<1>6. \A u \in ServerThreads : cur[u] = cur[t] => u = t
  BY <1>3 DEF OneHandler, Owns, Holds
<1>7. BufferOfHandler'
  BY <1>1, <1>2, <1>3, <1>6 DEF Shape, BufferOfHandler
<1>8. Fresh' /\ OneHandler' /\ NoDanglingEvent'
  BY <1>2 DEF Fresh, OneHandler, NoDanglingEvent, Owns, Holds
<1> QED BY <1>4, <1>5, <1>7, <1>8

\* A thread gives back or frees only what it alone holds, and holds it no more.
LEMMA HandsOver ==
  ASSUME IInv, NEW t \in ServerThreads, cur[t] \in Conns, NextEvent(t), UNCHANGED batch
  PROVE  /\ cur' = [cur EXCEPT ![t] = None]
         /\ pc' = [pc EXCEPT ![t] = IF batch[t] = {} THEN "wait" ELSE "loop"]
         /\ armed[cur[t]] = "off" /\ cur[t] \notin ready /\ listener[cur[t]] = "live"
         /\ \A u \in ServerThreads :
              cur[t] \notin Holds(u)' /\ Holds(u)' \subseteq Holds(u)
<1> USE ReactorAssumption DEF IInv
<1>1. /\ cur' = [cur EXCEPT ![t] = None]
      /\ pc' = [pc EXCEPT ![t] = IF batch[t] = {} THEN "wait" ELSE "loop"]
      /\ batch' = batch
  BY DEF NextEvent, Goto
<1>2. cur[t] \in Holds(t)
  BY DEF Holds
<1>3. /\ armed[cur[t]] = "off" /\ cur[t] \notin ready /\ listener[cur[t]] = "live"
      /\ \A u \in ServerThreads : cur[t] \in Holds(u) => u = t
  BY <1>2 DEF OneHandler, NoDanglingEvent, Owns
<1>4. \A u \in ServerThreads : Holds(u)' \subseteq Holds(u)
  BY <1>1 DEF Holds, Shape
<1>5. cur[t] \notin Holds(t)'
  BY <1>1 DEF Holds, Shape, Places
<1> QED BY <1>1, <1>3, <1>4, <1>5

LEMMA RearmIInv ==
  ASSUME IInv, NEW t \in ServerThreads, Rearm(t)
  PROVE  IInv'
<1> USE ReactorAssumption DEF connVars, peerVars
<1>1. /\ pc[t] = "rearm" /\ NextEvent(t)
      /\ UNCHANGED <<client, backlog, listener, batch, readBuffer>>
  BY DEF Rearm, Handling
<1>2. cur[t] \in Conns
  BY <1>1 DEF IInv, Places, HandlerLabels
<1> DEFINE c == cur[t]
<1>3. /\ \E a \in {"in", "out"} : armed' = [armed EXCEPT ![c] = a]
      /\ ready' = ready \/ ready' = ready \cup {c}
  BY <1>2, NotifyAdds DEF Rearm
<1>4. /\ cur' = [cur EXCEPT ![t] = None]
      /\ pc' = [pc EXCEPT ![t] = IF batch[t] = {} THEN "wait" ELSE "loop"]
      /\ armed[c] = "off" /\ c \notin ready /\ listener[c] = "live"
      /\ \A u \in ServerThreads : c \notin Holds(u)' /\ Holds(u)' \subseteq Holds(u)
  BY <1>1, <1>2, HandsOver
<1> USE DEF IInv
<1>5. Shape'
  BY <1>1, <1>2, <1>3, <1>4 DEF Shape, HandlerLabels, Entries
<1>6. Places'
  BY <1>1, <1>4 DEF Shape, Places, HandlerLabels, Entries
<1>7. BufferOfHandler'
  BY <1>1, <1>4 DEF Shape, BufferOfHandler
<1> HIDE DEF c
<1>8. c \in Conns
  BY <1>2 DEF c
<1>9. Fresh'
  BY <1>1 DEF Fresh
<1>10. OneHandler'
  BY <1>3, <1>4, <1>8 DEF OneHandler, Owns, Shape
<1>11. NoDanglingEvent'
  BY <1>1, <1>3, <1>4, <1>8 DEF NoDanglingEvent, Shape
<1> QED BY <1>5, <1>6, <1>7, <1>9, <1>10, <1>11

LEMMA FreeIInv ==
  ASSUME IInv, NEW t \in ServerThreads, Free(t)
  PROVE  IInv'
<1> USE ReactorAssumption DEF connVars, peerVars
<1>1. /\ pc[t] = "free" /\ NextEvent(t)
      /\ UNCHANGED <<client, backlog, batch, readBuffer>>
  BY DEF Free, Handling
<1>2. cur[t] \in Conns
  BY <1>1 DEF IInv, Places, HandlerLabels
<1> DEFINE c == cur[t]
<1>3. /\ armed' = [armed EXCEPT ![c] = "off"]
      /\ listener' = [listener EXCEPT ![c] = "freed"]
      /\ ready' = ready \ {c}
  BY DEF Free
<1>4. /\ cur' = [cur EXCEPT ![t] = None]
      /\ pc' = [pc EXCEPT ![t] = IF batch[t] = {} THEN "wait" ELSE "loop"]
      /\ armed[c] = "off" /\ c \notin ready /\ listener[c] = "live"
      /\ \A u \in ServerThreads : c \notin Holds(u)' /\ Holds(u)' \subseteq Holds(u)
  BY <1>1, <1>2, HandsOver
<1> USE DEF IInv
<1>5. Shape'
  BY <1>1, <1>2, <1>3, <1>4 DEF Shape, HandlerLabels, Entries
<1>6. Places'
  BY <1>1, <1>4 DEF Shape, Places, HandlerLabels, Entries
<1>7. BufferOfHandler'
  BY <1>1, <1>4 DEF Shape, BufferOfHandler
<1> HIDE DEF c
<1>8. c \in Conns
  BY <1>2 DEF c
<1>9. Fresh'
  BY <1>1, <1>3, <1>4, <1>8 DEF Fresh, Shape
<1>10. OneHandler'
  BY <1>3, <1>4, <1>8 DEF OneHandler, Owns, Shape
<1>11. NoDanglingEvent'
  BY <1>3, <1>4, <1>8 DEF NoDanglingEvent, Shape
<1> QED BY <1>5, <1>6, <1>7, <1>9, <1>10, <1>11

LEMMA PeerIInv ==
  ASSUME IInv, NEW c \in Conns, Connect(c) \/ PeerActs(c) \/ PeerTakes(c)
  PROVE  IInv'
<1> USE ReactorAssumption DEF threadVars, socketVars, sessionVars
<1>1. UNCHANGED <<listener, armed, pc, batch, cur, readBuffer>>
  BY DEF Connect, PeerActs, PeerTakes
<1>2. /\ \E s \in {"idle", "waiting", "receiving", "closed"} :
           client' = client \/ client' = [client EXCEPT ![c] = s]
      /\ \/ backlog' = backlog
         \/ client[c] = "off" /\ client'[c] # "off" /\ backlog' = backlog \cup {c}
      /\ \/ ready' = ready \/ ready' = ready \cup {ServerSocket}
         \/ ready' = ready \cup {c} /\ armed'[c] # "off"
  <2>1. CASE Connect(c)
    BY <2>1 DEF Connect, IInv, Shape
  <2>2. CASE PeerActs(c)
    BY <2>2, NotifyAdds DEF PeerActs, SendRequest, Close
  <2>3. CASE PeerTakes(c)
    <3>1. PICK s \in {"idle", "waiting", "receiving", "closed"} :
            client' = client \/ client' = [client EXCEPT ![c] = s]
      BY <2>3 DEF PeerTakes, TakeResponse, TakeData, SeeEnd
    <3>2. backlog' = backlog /\ Notify(c)
      BY <2>3 DEF PeerTakes
    <3> QED BY <3>1, <3>2, NotifyAdds
  <2> QED BY <2>1, <2>2, <2>3
<1> USE DEF IInv
<1>3. Shape'
  BY <1>1, <1>2 DEF Shape, Entries
<1>4. Places'
  BY <1>1 DEF Places
<1>5. Fresh'
  BY <1>1, <1>2 DEF Fresh, Shape
<1>6. OneHandler'
  BY <1>1, <1>2 DEF OneHandler, Owns, Holds, Shape
<1>7. NoDanglingEvent'
  BY <1>1, <1>2 DEF NoDanglingEvent, Holds, Shape
<1>8. BufferOfHandler'
  BY <1>1 DEF BufferOfHandler
<1> QED BY <1>3, <1>4, <1>5, <1>6, <1>7, <1>8

LEMMA NextIInv == IInv /\ [Next]_vars => IInv'
<1> SUFFICES ASSUME IInv, [Next]_vars PROVE IInv'
  OBVIOUS
<1>1. ASSUME NEW t \in ServerThreads, Serve(t) PROVE IInv'
  BY <1>1, WaitIInv, DispatchIInv, AcceptIInv, NextEventIInv, HandleIInv, DetachIInv,
     RearmIInv, FreeIInv DEF Serve
<1>2. ASSUME NEW t \in ServerThreads, Fail(t) PROVE IInv'
  BY <1>2, AcceptIInv, NextEventIInv DEF Fail
<1>3. ASSUME NEW c \in Conns, Connect(c) \/ PeerActs(c) \/ PeerTakes(c) PROVE IInv'
  BY <1>3, PeerIInv
<1>4. ASSUME UNCHANGED vars PROVE IInv'
  BY <1>4 DEF vars, connVars, peerVars, epollVars, threadVars, IInv, Shape, Places, Fresh,
       OneHandler, NoDanglingEvent, BufferOfHandler, Owns, Holds
<1> QED BY <1>1, <1>2, <1>3, <1>4 DEF Next, Quiet

LEMMA InductiveInvariant == Spec => []IInv
BY InitIInv, NextIInv, PTL DEF Spec

-----------------------------------------------------------------------------
\* A session is handled by one thread at a time, however many threads wait on
\* the epoll instance (EPOLLONESHOT and the MOD of ConnectionListener::onEvent).
THEOREM HandlersAreAlone == Spec => []OneHandler
<1>1. IInv => OneHandler
  BY DEF IInv
<1> QED BY <1>1, InductiveInvariant, PTL

\* No event of epoll, in the kernel or in a thread's buffer, points to a
\* listener that ConnectionListener::onEvent has deleted.
THEOREM EventsStayValid == Spec => []NoDanglingEvent
<1>1. IInv => NoDanglingEvent
  BY DEF IInv
<1> QED BY <1>1, InductiveInvariant, PTL

\* A session has its handler's buffer while it is handled, and none after.
THEOREM BuffersAreLent == Spec => []BufferOfHandler
<1>1. IInv => BufferOfHandler
  BY DEF IInv
<1> QED BY <1>1, InductiveInvariant, PTL

-----------------------------------------------------------------------------
(***************************************************************************)
(* Who is watched.  What changes at a connection is either its handler's   *)
(* doing, while it is disarmed, or is followed by Notify, the poll; a      *)
(* connection that is neither armed nor held was left so by a fault.       *)
(***************************************************************************)
\* epoll keeps its word: an armed entry with something to report is queued.
Polled == \A c \in Conns : Reports(c) => c \in ready

Sockets ==
  /\ request = [c \in Conns |-> request[c]] /\ response = [c \in Conns |-> response[c]]
  /\ data = [c \in Conns |-> data[c]] /\ fin = [c \in Conns |-> fin[c]]

Watched ==
  faults \in Nat /\ Sockets /\ IsFiniteSet(Forgotten) /\ LiveIsWatched /\ Polled

LEMMA SocketsStep ==
  ASSUME Sockets, [Next]_vars
  PROVE  Sockets'
<1> USE DEF Sockets, socketVars, connVars
<1>1. ASSUME UNCHANGED socketVars PROVE Sockets'
  BY <1>1
<1>2. ASSUME NEW t \in ServerThreads, HandleRead(t) PROVE Sockets'
  BY <1>2 DEF HandleRead, ReadRequest, ReadEnd
<1>3. ASSUME NEW t \in ServerThreads, HandleProcess(t) PROVE Sockets'
  BY <1>3 DEF HandleProcess, Process, ProcessCommand, IgnoreShort, RefuseDownload, ReplyInfo,
       StartDownload, RejectGarbage, Respond
<1>4. ASSUME NEW t \in ServerThreads, HandleSend(t) PROVE Sockets'
  BY <1>4 DEF HandleSend, SendSome, SendPauses, SendEnds, SendFinished
<1>5. ASSUME NEW c \in Conns, PeerActs(c) \/ PeerTakes(c) PROVE Sockets'
  BY <1>5 DEF PeerActs, PeerTakes, SendRequest, Close, TakeResponse, TakeData, SeeEnd
<1>6. ASSUME NEW t \in ServerThreads, Fail(t) PROVE Sockets'
  BY <1>1, <1>6 DEF Fail, AcceptFails, AttachFails, RearmFails
<1>7. ASSUME NEW t \in ServerThreads,
             Wait(t) \/ Dispatch(t) \/ AcceptOne(t) \/ AcceptNone(t) \/ Detach(t)
               \/ Rearm(t) \/ Free(t)
      PROVE  Sockets'
  BY <1>1, <1>7 DEF Wait, Dispatch, AcceptOne, AcceptNone, Detach, Rearm, Free
<1>8. ASSUME NEW c \in Conns, Connect(c) PROVE Sockets'
  BY <1>1, <1>8 DEF Connect
<1> QED
  BY <1>1, <1>2, <1>3, <1>4, <1>5, <1>6, <1>7, <1>8 DEF Next, Serve, Quiet, vars

\* Nothing that epoll looks at changes except at `c`.
OnlyAt(c) ==
  \A d \in Conns \ {c} :
    /\ armed'[d] = armed[d] /\ request'[d] = request[d] /\ fin'[d] = fin[d]
    /\ response'[d] = response[d] /\ data'[d] = data[d]

LEMMA WakeupKept ==
  ASSUME Polled, NEW c \in Conns, OnlyAt(c),
         Reports(c)' => c \in ready', ready \ {c} \subseteq ready'
  PROVE  Polled'
BY DEF Polled, OnlyAt, Reports, Room, InFlight

LEMMA WakeupSame ==
  ASSUME Polled, UNCHANGED <<socketVars, armed>>, ready \subseteq ready'
  PROVE  Polled'
BY DEF Polled, Reports, Room, InFlight, socketVars

LEMMA NotifyTells ==
  ASSUME NEW c \in Conns, Notify(c)
  PROVE  (Reports(c)' => c \in ready') /\ ready \subseteq ready'
BY DEF Notify

\* A handler changes its own connection only.
LEMMA HandlerIsLocal ==
  ASSUME Sockets, NEW t \in ServerThreads, UNCHANGED armed,
         HandleRead(t) \/ HandleProcess(t) \/ HandleSend(t)
  PROVE  \A c \in Conns : c = cur[t] => OnlyAt(c)
<1> USE DEF OnlyAt, Sockets, socketVars, connVars
<1>1. CASE HandleRead(t)
  BY <1>1 DEF HandleRead, ReadRequest, ReadEnd
<1>2. CASE HandleProcess(t)
  BY <1>2 DEF HandleProcess, Process, ProcessCommand, IgnoreShort, RefuseDownload, ReplyInfo,
       StartDownload, RejectGarbage, Respond
<1>3. CASE HandleSend(t)
  BY <1>3 DEF HandleSend, SendSome, SendPauses, SendEnds, SendFinished
<1> QED BY <1>1, <1>2, <1>3

\* A client changes its own connection only.
LEMMA PeerIsLocal ==
  ASSUME Sockets, NEW c \in Conns, PeerActs(c) \/ PeerTakes(c)
  PROVE  OnlyAt(c)
<1> USE DEF OnlyAt, Sockets, socketVars
<1>1. CASE PeerActs(c)
  BY <1>1 DEF PeerActs, SendRequest, Close
<1>2. CASE PeerTakes(c)
  BY <1>2 DEF PeerTakes, TakeResponse, TakeData, SeeEnd
<1> QED BY <1>1, <1>2

LEMMA WakeupStep ==
  ASSUME IInv, Sockets, Polled, [Next]_vars
  PROVE  Polled'
<1> USE DEF connVars, epollVars, socketVars
<1>1. ASSUME NEW t \in ServerThreads, Wait(t) PROVE Polled'
  BY <1>1 DEF Wait, Polled, Reports, Room, InFlight
<1>2. ASSUME NEW t \in ServerThreads,
             Dispatch(t) \/ AcceptNone(t) \/ AcceptFails(t) \/ AttachFails(t)
               \/ Detach(t) \/ RearmFails(t)
      PROVE  Polled'
  BY <1>2, WakeupSame DEF Dispatch, AcceptNone, AcceptFails, AttachFails, Detach, RearmFails
<1>3. ASSUME NEW t \in ServerThreads, AcceptOne(t) \/ Rearm(t) PROVE Polled'
  <2>1. PICK c \in Conns, a \in {"in", "out"} :
          armed' = [armed EXCEPT ![c] = a] /\ UNCHANGED connVars /\ Notify(c)
    BY <1>3 DEF AcceptOne, Rearm, IInv, Shape
  <2>2. OnlyAt(c)
    BY <2>1 DEF OnlyAt, IInv, Shape
  <2> QED BY <2>1, <2>2, NotifyTells, WakeupKept
<1>4. ASSUME NEW t \in ServerThreads,
             HandleRead(t) \/ HandleProcess(t) \/ HandleSend(t)
      PROVE  Polled'
  <2>1. /\ pc[t] \in {"read", "process", "send"}
        /\ UNCHANGED <<armed, ready>>
    BY <1>4, HandlerSteps
  <2>2. PICK c \in Conns : c = cur[t]
    BY <2>1 DEF IInv, Places, HandlerLabels
  <2>3. armed[c] = "off"
    BY <2>2, ReactorAssumption DEF IInv, OneHandler, Owns, Holds
  <2>4. OnlyAt(c)
    BY <1>4, <2>1, <2>2, HandlerIsLocal DEF OnlyAt
  <2>5. ~Reports(c)'
    BY <2>1, <2>3 DEF Reports
  <2> QED BY <2>1, <2>4, <2>5, WakeupKept
<1>5. ASSUME NEW t \in ServerThreads, Free(t) PROVE Polled'
  BY <1>5 DEF Free, Polled, Reports, Room, InFlight, IInv, Shape
<1>6. ASSUME NEW c \in Conns, Connect(c) PROVE Polled'
  BY <1>6, WakeupSame DEF Connect
<1>7. ASSUME NEW c \in Conns, PeerActs(c) \/ PeerTakes(c) PROVE Polled'
  <2>1. Notify(c)
    BY <1>7 DEF PeerActs, PeerTakes
  <2> QED BY <1>7, <2>1, PeerIsLocal, NotifyTells, WakeupKept
<1>8. ASSUME UNCHANGED vars PROVE Polled'
  BY <1>8, WakeupSame DEF vars
<1> QED
  BY <1>1, <1>2, <1>3, <1>4, <1>5, <1>6, <1>7, <1>8 DEF Next, Serve, Fail, Quiet

\* What a fault can do to the count: one connection more, one fault more.
LEMMA OneMoreForgotten ==
  ASSUME faults \in Nat, IsFiniteSet(Forgotten), LiveIsWatched,
         \/ Forgotten' \subseteq Forgotten /\ faults' \in {faults, faults + 1}
         \/ faults' = faults + 1 /\ \E c : Forgotten' \subseteq Forgotten \cup {c}
  PROVE  faults' \in Nat /\ IsFiniteSet(Forgotten') /\ LiveIsWatched'
<1>1. Cardinality(Forgotten) \in Nat /\ Cardinality(Forgotten) <= faults
  BY FS_CardinalityType DEF LiveIsWatched
<1>2. ASSUME NEW n \in Nat, NEW S, IsFiniteSet(S), Forgotten' \subseteq S,
             Cardinality(S) <= n, faults' = n
      PROVE  faults' \in Nat /\ IsFiniteSet(Forgotten') /\ LiveIsWatched'
  <2>1. /\ IsFiniteSet(Forgotten') /\ Cardinality(Forgotten') \in Nat
        /\ Cardinality(Forgotten') <= Cardinality(S) /\ Cardinality(S) \in Nat
    BY <1>2, FS_Subset, FS_CardinalityType
  <2>2. Cardinality(Forgotten') <= faults'
    BY <1>2, <2>1
  <2> QED BY <1>2, <2>1, <2>2 DEF LiveIsWatched
<1>3. CASE Forgotten' \subseteq Forgotten /\ faults' \in {faults, faults + 1}
  <2>1. faults' \in Nat /\ Cardinality(Forgotten) <= faults'
    BY <1>1, <1>3
  <2> QED BY <1>2, <1>3, <2>1
<1>4. CASE faults' = faults + 1 /\ \E c : Forgotten' \subseteq Forgotten \cup {c}
  <2>1. PICK c : Forgotten' \subseteq Forgotten \cup {c}
    BY <1>4
  <2>2. /\ IsFiniteSet(Forgotten \cup {c})
        /\ \/ Cardinality(Forgotten \cup {c}) = Cardinality(Forgotten)
           \/ Cardinality(Forgotten \cup {c}) = Cardinality(Forgotten) + 1
    BY FS_AddElement
  <2>3. Cardinality(Forgotten \cup {c}) <= faults + 1 /\ faults + 1 \in Nat
    BY <1>1, <2>2
  <2> QED BY <1>2, <1>4, <2>1, <2>2, <2>3
<1> QED BY <1>3, <1>4

\* A step without a fault forgets nobody; one with a fault, one connection.
LEMMA ForgottenStep ==
  ASSUME IInv, [Next]_vars
  PROVE  \/ Forgotten' \subseteq Forgotten /\ faults' \in {faults, faults + 1}
         \/ faults' = faults + 1 /\ \E c : Forgotten' \subseteq Forgotten \cup {c}
<1> USE DEF connVars, epollVars, threadVars
<1>1. ASSUME NEW t \in ServerThreads, Wait(t)
      PROVE  Forgotten' \subseteq Forgotten /\ faults' = faults
  <2>1. PICK S \in Takeable :
          /\ armed' = [c \in Conns |-> IF c \in S THEN "off" ELSE armed[c]]
          /\ batch' = [batch EXCEPT ![t] = IF backlog = {} THEN S \ {ServerSocket} ELSE S]
    BY <1>1 DEF Wait
  <2>2. /\ UNCHANGED <<listener, cur, faults>>
        /\ batch[t] = {}
    BY <1>1 DEF Wait, IInv, Places
  <2>3. \A u \in ServerThreads : Holds(u) \subseteq Holds(u)'
    BY <2>1, <2>2 DEF Holds, IInv, Shape
  <2>4. \A c \in Conns : c \in S => Owns(t, c)'
    BY <2>1, ReactorAssumption DEF Owns, Holds, IInv, Shape
  <2> QED BY <2>1, <2>2, <2>3, <2>4 DEF Forgotten, Owns
<1>2. ASSUME NEW t \in ServerThreads, Dispatch(t)
      PROVE  Forgotten' \subseteq Forgotten /\ faults' = faults
  BY <1>2, DispatchHolds DEF Dispatch, Forgotten, Owns
<1>3. ASSUME NEW t \in ServerThreads, AcceptNone(t) \/ AcceptFails(t)
      PROVE  Forgotten' \subseteq Forgotten /\ faults' \in {faults, faults + 1}
  <2>1. /\ cur' = [cur EXCEPT ![t] = None]
        /\ UNCHANGED <<listener, armed, batch>>
        /\ faults' \in {faults, faults + 1}
        /\ cur[t] = ServerSocket
    BY <1>3 DEF AcceptNone, AcceptFails, NextEvent, Fault, IInv, Places
  <2>2. \A u \in ServerThreads : \A c \in Conns : Owns(u, c)' <=> Owns(u, c)
    BY <2>1, ReactorAssumption DEF Owns, Holds, IInv, Shape
  <2> QED BY <2>1, <2>2 DEF Forgotten
<1>4. ASSUME NEW t \in ServerThreads, AttachFails(t)
      PROVE  faults' = faults + 1 /\ \E c : Forgotten' \subseteq Forgotten \cup {c}
  <2>1. PICK c \in backlog : listener' = [listener EXCEPT ![c] = "live"]
    BY <1>4 DEF AttachFails
  <2>2. Forgotten' \subseteq Forgotten \cup {c}
    BY <1>4, <2>1 DEF AttachFails, Forgotten, Owns, Holds, IInv, Shape
  <2> QED BY <1>4, <2>2 DEF AttachFails, Fault
<1>5. ASSUME NEW t \in ServerThreads, RearmFails(t)
      PROVE  faults' = faults + 1 /\ \E c : Forgotten' \subseteq Forgotten \cup {c}
  <2>1. Forgotten' \subseteq Forgotten \cup {cur[t]}
    BY <1>5 DEF RearmFails, NextEvent, Forgotten, Owns, Holds, IInv, Shape
  <2> QED BY <1>5, <2>1 DEF RearmFails, Fault
<1>6. ASSUME NEW t \in ServerThreads, AcceptOne(t)
      PROVE  Forgotten' \subseteq Forgotten /\ faults' = faults
  BY <1>6 DEF AcceptOne, Forgotten, Owns, Holds, IInv, Shape
<1>7. ASSUME NEW t \in ServerThreads, HandleRead(t) \/ HandleProcess(t) \/ HandleSend(t)
      PROVE  Forgotten' \subseteq Forgotten /\ faults' \in {faults, faults + 1}
  <2>1. faults' \in {faults, faults + 1}
    BY <1>7 DEF HandleRead, HandleProcess, HandleSend, Fault
  <2> QED BY <1>7, <2>1, HandlerSteps DEF Forgotten, Owns, Holds
<1>8. ASSUME NEW t \in ServerThreads, Detach(t)
      PROVE  Forgotten' \subseteq Forgotten /\ faults' = faults
  BY <1>8 DEF Detach, Forgotten, Owns, Holds
<1>9. ASSUME NEW t \in ServerThreads, Rearm(t)
      PROVE  Forgotten' \subseteq Forgotten /\ faults' = faults
  BY <1>9 DEF Rearm, NextEvent, Forgotten, Owns, Holds, IInv, Shape
<1>10. ASSUME NEW t \in ServerThreads, Free(t)
      PROVE  Forgotten' \subseteq Forgotten /\ faults' = faults
  BY <1>10 DEF Free, NextEvent, Forgotten, Owns, Holds, IInv, Shape
<1>11. ASSUME NEW c \in Conns, Connect(c) \/ PeerActs(c) \/ PeerTakes(c)
      PROVE  Forgotten' \subseteq Forgotten /\ faults' = faults
  BY <1>11 DEF Connect, PeerActs, PeerTakes, Forgotten, Owns, Holds
<1>12. ASSUME UNCHANGED vars PROVE Forgotten' \subseteq Forgotten /\ faults' = faults
  BY <1>12 DEF vars, Forgotten, Owns, Holds
<1> QED
  BY <1>1, <1>2, <1>3, <1>4, <1>5, <1>6, <1>7, <1>8, <1>9, <1>10, <1>11, <1>12
     DEF Next, Serve, Fail, Quiet

LEMMA WatchedAlways == Spec => []Watched
<1>1. ASSUME Init PROVE Watched
  <2>1. Forgotten = {} /\ faults = 0
    BY <1>1 DEF Init, Forgotten
  <2>2. IsFiniteSet(Forgotten) /\ LiveIsWatched
    BY <2>1, FS_EmptySet DEF LiveIsWatched
  <2> QED BY <1>1, <2>1, <2>2 DEF Init, SessionInit, Watched, Sockets, Polled, Reports
<1>2. ASSUME IInv, Watched, [Next]_vars PROVE Watched'
  <2>1. Polled' /\ Sockets'
    BY <1>2, WakeupStep, SocketsStep DEF Watched
  <2>2. faults' \in Nat /\ IsFiniteSet(Forgotten') /\ LiveIsWatched'
    BY <1>2, ForgottenStep, OneMoreForgotten DEF Watched
  <2> QED BY <2>1, <2>2 DEF Watched
<1> QED BY <1>1, <1>2, InductiveInvariant, PTL DEF Spec

\* Only a failed attach or modifyTo forgets a connection, and one each: every
\* other live connection is armed or has a handler.
THEOREM NobodyIsForgotten == Spec => []LiveIsWatched
<1>1. Watched => LiveIsWatched
  BY DEF Watched
<1> QED BY <1>1, WatchedAlways, PTL
=============================================================================
