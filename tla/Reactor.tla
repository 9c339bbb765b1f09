-------------------------------- MODULE Reactor --------------------------------
(***************************************************************************)
(* The server's threads and its epoll instance: ServerThread (an           *)
(* EpollEventReceiverThread), ServerSocketListener, ConnectionListener,    *)
(* and the lifetime of the listeners, around the sessions of Session.      *)
(*                                                                         *)
(* All threads wait on one epoll instance, whose events carry pointers to  *)
(* listeners.  A connection is watched with EPOLLONESHOT: an event disarms *)
(* it until the handler, done with the session, modifies the entry.        *)
(* epoll_ctl polls the descriptor, so arming one that is already readable  *)
(* (or writable) queues an event at once.  The server's own socket is      *)
(* edge-triggered: only a new connection queues an event.                  *)
(*                                                                         *)
(* A fault is an error of accept, of epoll_ctl, or a file that shrank.     *)
(***************************************************************************)
EXTENDS Session, FiniteSets

CONSTANTS
  ServerThreads, \* threadPool
  ServerSocket,  \* the listening socket, as an entry of epoll
  MaxEvents,     \* Epoll::maxEvents
  MaxFaults      \* bound: faults in a behaviour

ASSUME ReactorAssumption ==
  /\ ServerSocket \notin Conns
  /\ None \notin ServerThreads /\ None \notin Conns /\ None # ServerSocket
  /\ MaxEvents \in Nat \ {0}
  /\ MaxFaults \in Nat

VARIABLES
  backlog,     \* connections the kernel holds for accept
  listener,    \* the ConnectionListener of a connection: "none", "live", "freed"
  armed,       \* its entry in epoll: "off", "in", "out"
  ready,       \* entries with an event queued
  pc,          \* where each thread is
  batch,       \* eventBuffer: events taken and not yet dispatched
  cur,         \* the event a thread dispatches, or None
  readBuffer,  \* Session::readBuffer: the thread it belongs to, or None
  packet,      \* what a thread's localReadBuffer holds
  up,          \* the process lives
  faults       \* history: faults so far

epollVars  == <<listener, armed, ready>>
threadVars == <<pc, batch, cur, readBuffer, packet>>
vars == <<connVars, backlog, epollVars, threadVars, up, faults>>

Entries == Conns \cup {ServerSocket}

Init ==
  /\ SessionInit
  /\ backlog = {}
  /\ listener = [c \in Conns |-> "none"]
  /\ armed = [c \in Conns |-> "off"]
  /\ ready = {}
  /\ pc = [t \in ServerThreads |-> "wait"]
  /\ batch = [t \in ServerThreads |-> {}]
  /\ cur = [t \in ServerThreads |-> None]
  /\ readBuffer = [c \in Conns |-> None]
  /\ packet = [t \in ServerThreads |-> None]
  /\ up = TRUE
  /\ faults = 0

-----------------------------------------------------------------------------
(***************************************************************************)
(* epoll.                                                                  *)
(***************************************************************************)
\* Whether the poll of an armed entry reports something.
Reports(c) ==
  \/ armed[c] = "in"  /\ (request[c] # None \/ fin[c])
  \/ armed[c] = "out" /\ (Room(c) \/ fin[c])

\* What changed may queue an event for `c`.
Notify(c) == ready' = IF Reports(c)' THEN ready \cup {c} ELSE ready

\* epoll_wait takes every queued event, or MaxEvents of them.
Takeable ==
  IF Cardinality(ready) <= MaxEvents
  THEN {ready}
  ELSE {S \in SUBSET ready : Cardinality(S) = MaxEvents}

Goto(t, label) == pc' = [pc EXCEPT ![t] = label]

\* An event of the server's socket is dropped if its connections are gone.
Wait_KeepsArmed(t) ==
  /\ up /\ pc[t] = "wait"
  /\ ready # {}
  /\ \E S \in Takeable :
       LET events == IF backlog = {} THEN S \ {ServerSocket} ELSE S
       IN  /\ ready' = ready \ S
           /\ batch' = [batch EXCEPT ![t] = events]
           /\ Goto(t, IF events = {} THEN "wait" ELSE "loop")
  /\ UNCHANGED <<connVars, backlog, listener, armed, cur, readBuffer, packet, up, faults>>

Wait(t) ==
  /\ up /\ pc[t] = "wait"
  /\ ready # {}
  /\ \E S \in Takeable :
       LET events == IF backlog = {} THEN S \ {ServerSocket} ELSE S
       IN  /\ ready' = ready \ S
           /\ armed' = [c \in Conns |-> IF c \in S THEN "off" ELSE armed[c]]
           /\ batch' = [batch EXCEPT ![t] = events]
           /\ Goto(t, IF events = {} THEN "wait" ELSE "loop")
  /\ UNCHANGED <<connVars, backlog, listener, cur, readBuffer, packet, up, faults>>

-----------------------------------------------------------------------------
(***************************************************************************)
(* EpollEventReceiverThread::run: the loop over the events.                *)
(***************************************************************************)
\* On to the next event, or back to epoll_wait.
NextEvent(t) ==
  /\ cur' = [cur EXCEPT ![t] = None]
  /\ Goto(t, IF batch[t] = {} THEN "wait" ELSE "loop")

\* Call onEvent.  A connection's listener lends its session the thread's
\* buffer, and Session::handle branches on the status.
Dispatch(t) ==
  /\ up /\ pc[t] = "loop"
  /\ \E x \in batch[t] :
       /\ cur' = [cur EXCEPT ![t] = x]
       /\ batch' = [batch EXCEPT ![t] = @ \ {x}]
       /\ IF x = ServerSocket
          THEN /\ Goto(t, "accept")
               /\ UNCHANGED readBuffer
          ELSE /\ Goto(t, CASE status[x] = "READING" -> "read"
                            [] status[x] = "WRITING" -> "send"
                            [] OTHER -> "detach")
               /\ readBuffer' = [readBuffer EXCEPT ![x] = t]
  /\ UNCHANGED <<connVars, backlog, epollVars, packet, up, faults>>

-----------------------------------------------------------------------------
(***************************************************************************)
(* ServerSocketListener::onEvent: accept until there is nothing to accept. *)
(***************************************************************************)
AcceptOne_AndNoMore(t) ==
  /\ up /\ pc[t] = "accept"
  /\ \E c \in backlog :
       /\ backlog' = backlog \ {c}
       /\ listener' = [listener EXCEPT ![c] = "live"]
       /\ armed' = [armed EXCEPT ![c] = "in"]
       /\ UNCHANGED connVars
       /\ Notify(c)
  /\ NextEvent(t)
  /\ UNCHANGED <<batch, readBuffer, packet, up, faults>>

AcceptOne(t) ==
  /\ up /\ pc[t] = "accept"
  /\ \E c \in backlog :
       /\ backlog' = backlog \ {c}
       /\ listener' = [listener EXCEPT ![c] = "live"]
       /\ armed' = [armed EXCEPT ![c] = "in"]
       /\ UNCHANGED connVars
       /\ Notify(c)
  /\ UNCHANGED <<threadVars, up, faults>>

AcceptNone(t) ==
  /\ up /\ pc[t] = "accept"
  /\ backlog = {}
  /\ NextEvent(t)
  /\ UNCHANGED <<connVars, backlog, epollVars, batch, readBuffer, packet, up, faults>>

Fault == faults < MaxFaults /\ faults' = faults + 1

\* accept fails for another reason than an empty backlog; the loop ends alike.
AcceptFails(t) ==
  /\ up /\ pc[t] = "accept"
  /\ backlog # {}
  /\ Fault
  /\ NextEvent(t)
  /\ UNCHANGED <<connVars, backlog, epollVars, batch, readBuffer, packet, up>>

\* The listener was created but epoll does not take it: nobody frees it.
AttachFails(t) ==
  /\ up /\ pc[t] = "accept"
  /\ \E c \in backlog :
       /\ backlog' = backlog \ {c}
       /\ listener' = [listener EXCEPT ![c] = "live"]
  /\ Fault
  /\ UNCHANGED <<connVars, armed, ready, threadVars, up>>

-----------------------------------------------------------------------------
(***************************************************************************)
(* ConnectionListener::onEvent.                                            *)
(***************************************************************************)
Handling(t, label) == up /\ pc[t] = label

HandleRead(t) ==
  /\ Handling(t, "read")
  /\ \/ /\ ReadRequest(cur[t])
        /\ packet' = [packet EXCEPT ![readBuffer[cur[t]]] = request[cur[t]]]
        /\ Goto(t, "process")
     \/ /\ ReadEnd(cur[t])
        /\ Goto(t, "detach")
        /\ UNCHANGED packet
  /\ UNCHANGED <<backlog, epollVars, batch, cur, readBuffer, up, faults>>

\* The packet is taken from the buffer the session was lent.  Server::kill
\* sends SIGKILL to a thread, which kills the process.
Packet(t) == packet[readBuffer[cur[t]]]

HandleProcess(t) ==
  /\ Handling(t, "process")
  /\ Process(cur[t], Packet(t))
  /\ up' = (Packet(t) # Command("shutdown"))
  /\ packet' = [packet EXCEPT ![readBuffer[cur[t]]] = None]
  /\ Goto(t, "detach")
  /\ UNCHANGED <<backlog, epollVars, batch, cur, readBuffer, faults>>

HandleSend(t) ==
  /\ Handling(t, "send")
  /\ \/ SendSome(cur[t]) /\ UNCHANGED <<pc, faults>>
     \/ SendPauses(cur[t]) /\ Goto(t, "detach") /\ UNCHANGED faults
     \/ /\ SendEnds(cur[t])
        /\ fin[cur[t]] \/ fileProcess[cur[t]].pos >= FileSize
        /\ Goto(t, "detach") /\ UNCHANGED faults
     \/ SendEnds(cur[t]) /\ Fault /\ Goto(t, "detach")
     \/ SendFinished(cur[t]) /\ Goto(t, "detach") /\ UNCHANGED faults
  /\ UNCHANGED <<backlog, epollVars, batch, cur, readBuffer, packet, up>>

Detach_KeepsBuffer(t) ==
  /\ Handling(t, "detach")
  /\ Goto(t, IF status[cur[t]] = "END" THEN "free" ELSE "rearm")
  /\ UNCHANGED <<connVars, backlog, epollVars, batch, cur, readBuffer, packet, up, faults>>

Detach_NeverFrees(t) ==
  /\ Handling(t, "detach")
  /\ readBuffer' = [readBuffer EXCEPT ![cur[t]] = None]
  /\ Goto(t, "rearm")
  /\ UNCHANGED <<connVars, backlog, epollVars, batch, cur, packet, up, faults>>

Detach_RearmsFirst(t) ==
  /\ Handling(t, "detach")
  /\ \E c \in Conns :
       /\ c = cur[t]
       /\ readBuffer' = [readBuffer EXCEPT ![c] = None]
       /\ armed' = [armed EXCEPT ![c] = "in"]
       /\ UNCHANGED connVars
       /\ Notify(c)
  /\ Goto(t, IF status[cur[t]] = "END" THEN "free" ELSE "rearm")
  /\ UNCHANGED <<backlog, listener, batch, cur, packet, up, faults>>

Detach(t) ==
  /\ Handling(t, "detach")
  /\ readBuffer' = [readBuffer EXCEPT ![cur[t]] = None]
  /\ Goto(t, IF status[cur[t]] = "END" THEN "free" ELSE "rearm")
  /\ UNCHANGED <<connVars, backlog, epollVars, batch, cur, packet, up, faults>>

Rearm_ForReadingOnly(t) ==
  /\ Handling(t, "rearm")
  /\ \E c \in Conns :
       /\ c = cur[t]
       /\ armed' = [armed EXCEPT ![c] = IF status[c] = "READING" THEN "in" ELSE @]
       /\ UNCHANGED connVars
       /\ Notify(c)
  /\ NextEvent(t)
  /\ UNCHANGED <<backlog, listener, batch, readBuffer, packet, up, faults>>

Rearm_ForReading(t) ==
  /\ Handling(t, "rearm")
  /\ \E c \in Conns :
       /\ c = cur[t]
       /\ armed' = [armed EXCEPT ![c] = "in"]
       /\ UNCHANGED connVars
       /\ Notify(c)
  /\ NextEvent(t)
  /\ UNCHANGED <<backlog, listener, batch, readBuffer, packet, up, faults>>

\* modifyTo, the last use of the listener: another thread may have it at once.
Rearm(t) ==
  /\ Handling(t, "rearm")
  /\ \E c \in Conns :
       /\ c = cur[t]
       /\ armed' = [armed EXCEPT ![c] = IF status[c] = "READING" THEN "in" ELSE "out"]
       /\ UNCHANGED connVars
       /\ Notify(c)
  /\ NextEvent(t)
  /\ UNCHANGED <<backlog, listener, batch, readBuffer, packet, up, faults>>

\* epoll_ctl fails, and the error is only logged.
RearmFails(t) ==
  /\ Handling(t, "rearm")
  /\ Fault
  /\ NextEvent(t)
  /\ UNCHANGED <<connVars, backlog, epollVars, batch, readBuffer, packet, up>>

\* delete event: the socket is closed with it, and leaves epoll.
Free(t) ==
  /\ Handling(t, "free")
  /\ listener' = [listener EXCEPT ![cur[t]] = "freed"]
  /\ armed' = [armed EXCEPT ![cur[t]] = "off"]
  /\ ready' = ready \ {cur[t]}
  /\ NextEvent(t)
  /\ UNCHANGED <<connVars, backlog, batch, readBuffer, packet, up, faults>>

-----------------------------------------------------------------------------
(***************************************************************************)
(* The clients: what they do reaches the server as events.                 *)
(***************************************************************************)
Connect(c) ==
  /\ up
  /\ client[c] = "off"
  /\ client' = [client EXCEPT ![c] = "idle"]
  /\ backlog' = backlog \cup {c}
  /\ ready' = ready \cup {ServerSocket}
  /\ UNCHANGED <<want, socketVars, sessionVars, listener, armed, threadVars, up, faults>>

PeerActs(c) ==
  /\ SendRequest(c) \/ Close(c)
  /\ UNCHANGED <<backlog, listener, armed, threadVars, up, faults>>
  /\ Notify(c)

PeerTakes(c) ==
  /\ \/ TakeResponse(c) \/ TakeData(c)
     \/ (listener[c] = "freed" \/ ~up) /\ SeeEnd(c)
  /\ UNCHANGED <<backlog, listener, armed, threadVars, up, faults>>
  /\ Notify(c)

\* Nobody has anything left to do.
Quiet ==
  /\ \A c \in Conns :
       /\ client[c] = "off" => ~up
       /\ client[c] \in {"off", "closed"}
       /\ up => listener[c] = "freed"
  /\ UNCHANGED vars

Serve(t) ==
  \/ Wait(t) \/ Dispatch(t)
  \/ AcceptOne(t) \/ AcceptNone(t)
  \/ HandleRead(t) \/ HandleProcess(t) \/ HandleSend(t)
  \/ Detach(t) \/ Rearm(t) \/ Free(t)

Fail(t) == AcceptFails(t) \/ AttachFails(t) \/ RearmFails(t)

Next ==
  \/ \E t \in ServerThreads : Serve(t) \/ Fail(t)
  \/ \E c \in Conns : Connect(c) \/ PeerActs(c) \/ PeerTakes(c)
  \/ Quiet

Spec == Init /\ [][Next]_vars

\* Every thread that can run does, and every client reads what it is sent.
FairSpec ==
  /\ Spec
  /\ \A t \in ServerThreads : WF_vars(Serve(t))
  /\ \A c \in Conns : WF_vars(PeerTakes(c))

-----------------------------------------------------------------------------
(***************************************************************************)
(* Properties.                                                             *)
(***************************************************************************)
HandlerLabels == {"read", "process", "send", "detach", "rearm", "free"}

\* Every variable has its type.
TypeOK ==
  /\ client \in [Conns -> {"off", "idle", "waiting", "receiving", "closed"}]
  /\ want \in [Conns -> Nat]
  /\ request \in [Conns -> Requests \cup {None}]
  /\ response \in [Conns -> Packets \cup {None}]
  /\ data \in [Conns -> 0 .. SendSpace]
  /\ fin \in [Conns -> BOOLEAN]
  /\ status \in [Conns -> {"READING", "WRITING", "END"}]
  /\ fileProcess \in [Conns -> FileProcesses \cup {None}]
  /\ backlog \subseteq Conns
  /\ listener \in [Conns -> {"none", "live", "freed"}]
  /\ armed \in [Conns -> {"off", "in", "out"}]
  /\ ready \subseteq Entries
  /\ pc \in [ServerThreads -> {"wait", "loop", "accept"} \cup HandlerLabels]
  /\ batch \in [ServerThreads -> SUBSET Entries]
  /\ cur \in [ServerThreads -> Entries \cup {None}]
  /\ readBuffer \in [Conns -> ServerThreads \cup {None}]
  /\ packet \in [ServerThreads -> Requests \cup {None}]
  /\ up \in BOOLEAN
  /\ faults \in 0 .. MaxFaults

\* The events a thread has taken from epoll and may still touch.
Holds(t) == batch[t] \cup (IF cur[t] = None THEN {} ELSE {cur[t]})

\* Thread t has not yet given connection c back to epoll.
Owns(t, c) == c \in Holds(t)

\* A session is handled by one thread at a time: no two threads hold an event
\* of the same connection, and none is armed while a thread holds one
\* (EPOLLONESHOT, Server.cpp 20 and 34).
OneHandler ==
  \A c \in Conns :
    /\ \A t, u \in ServerThreads : Owns(t, c) /\ Owns(u, c) => t = u
    /\ (\E t \in ServerThreads : Owns(t, c)) => armed[c] = "off" /\ c \notin ready

\* No event anywhere points to a listener that was freed, or not yet made.
NoDanglingEvent ==
  /\ \A c \in Conns : armed[c] # "off" => listener[c] = "live"
  /\ \A c \in Conns \cap ready : listener[c] = "live"
  /\ \A t \in ServerThreads : \A c \in Conns \cap Holds(t) : listener[c] = "live"

\* A session uses the buffer of the thread that handles it and of no other,
\* and no two sessions use the same buffer.
BufferOfHandler ==
  \A c \in Conns : \A t \in ServerThreads :
    readBuffer[c] = t <=>
      cur[t] = c /\ pc[t] \in {"read", "process", "send", "detach"}

\* Accepted and not closed, but epoll does not watch it and no thread has it.
Forgotten ==
  {c \in Conns :
     /\ listener[c] = "live" /\ armed[c] = "off"
     /\ \A t \in ServerThreads : ~Owns(t, c)}

\* Only a failed attach or modifyTo (Server.cpp 20 and 37) forgets a connection,
\* and the one it failed for: no session ever slips away otherwise, between two
\* threads, two events of a batch, or by any way out of its handler.
LiveIsWatched == Cardinality(Forgotten) <= faults

\* The session could go on: a request or the end of the client has arrived, the
\* socket takes more of the file it sends, or it is to be deleted.
HasWork(c) ==
  \/ request[c] # None \/ fin[c]
  \/ status[c] = "WRITING" /\ Room(c)
  \/ status[c] = "END"

\* A session that could go on has its event queued or is in a thread's hands:
\* what ConnectionListener armed the entry for (Server.cpp 33-42) is what the
\* session waits for, and all it can wait for, whatever its client did while it
\* was handled; armed for the wrong thing it would sleep for ever.
WorkIsTakenUp ==
  \A c \in Conns :
    listener[c] = "live" /\ HasWork(c) =>
      c \in ready \/ c \in Forgotten \/ \E t \in ServerThreads : Owns(t, c)

\* The answer to a whole request is always somewhere: the request waits in the
\* socket or is in the handler's hands, the answer is on its way, or the server
\* has ended the session.
RequestNotLost ==
  \A c \in Conns :
    client[c] = "waiting" /\ up =>
      \/ request[c] # None
      \/ response[c] # None
      \/ \E t \in ServerThreads : cur[t] = c /\ pc[t] = "process"
      \/ status[c] = "END"

\* What a client still expects of the file is what is on its way plus what the
\* session has yet to send; an announced size is what follows.
TransferConserved ==
  \A c \in Conns :
    ~fin[c] /\ status[c] # "END" =>
      LET toSend == IF status[c] = "WRITING" THEN fileProcess[c].rest ELSE 0
      IN  /\ client[c] \in {"idle", "receiving"} => want[c] = data[c] + toSend
          /\ response[c] # None =>
               (IF response[c].type = "BINARY" THEN response[c].size ELSE 0)
                 = data[c] + toSend

\* A session that writes has a file, so "Server internal error" (Session.cpp
\* 193), after which the code runs on into the missing file, is never reached;
\* and the file has what the header announced, so sendfile does not end early.
WritingHasFile ==
  \A c \in Conns :
    status[c] = "WRITING" =>
      /\ fileProcess[c] # None
      /\ fileProcess[c].pos + fileProcess[c].rest <= FileSize

\* A response finds room in the socket, so ignoring the result of sendResponse
\* loses nothing; and a handler that reads finds something to read.
HandlerNeverStarved ==
  \A t \in ServerThreads :
    /\ up /\ pc[t] = "process" => fin[cur[t]] \/ InFlight(cur[t]) = 0
    /\ up /\ pc[t] = "read" => request[cur[t]] # None \/ fin[cur[t]]

\* Every request gets its answer, every transfer ends.
RequestsAnswered ==
  \A c \in Conns : client[c] \in {"waiting", "receiving"} ~> client[c] \in {"idle", "closed"}

\* Every connection is accepted (or the server is shut down).
ConnectionsAccepted == \A c \in Conns : c \in backlog ~> (c \notin backlog \/ ~up)

\* The session of a client that is gone is freed, listener and socket.
SessionsReclaimed ==
  \A c \in Conns : client[c] = "closed" ~> (listener[c] = "freed" \/ ~up)
=============================================================================
