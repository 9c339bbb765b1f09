-------------------------------- MODULE Session --------------------------------
(***************************************************************************)
(* The server's session with one client connection (class Session), its    *)
(* socket, and the client at the other end, for every connection at once.  *)
(*                                                                         *)
(* A handler reads one request packet, answers it, and for a DOWNLOAD goes *)
(* on to send the file with sendfile whenever the socket takes more of it. *)
(* The operators below are the handler's steps; which thread takes them    *)
(* and when is Reactor's business.                                         *)
(*                                                                         *)
(* The client (Client and DownloadThread) has one request outstanding per  *)
(* connection and writes it in one piece; it may close at any time.  The   *)
(* socket holds at most one request one way, and SendSpace units the       *)
(* other way: a response packet is one unit and so is a unit of the file.  *)
(***************************************************************************)
EXTENDS Integers

CONSTANTS
  Conns,      \* connections
  Requests,   \* request packets the clients send
  FileSize,   \* size of the shared file, in units
  SendSpace,  \* capacity of a socket's send buffer, in units
  None        \* no request, no response, no file, no thread

ASSUME SessionAssumption ==
  /\ FileSize \in Nat
  /\ SendSpace \in Nat \ {0}
  /\ None \notin Requests /\ None \notin Nat

\* What the server sends, and where a session stands in its file.
Packets == [type : {"PLAIN_TEXT", "DOWNLOAD_INFO_REPLY", "BINARY"}, size : Nat]
FileProcesses == [pos : Nat, rest : Nat]

ASSUME NoneAssumption == None \notin Packets /\ None \notin FileProcesses

VARIABLES
  client,      \* the client: where it stands in its protocol
  want,        \* the client: units of the file it still expects
  request,     \* the request waiting in the server's socket, or None
  response,    \* the response packet on its way to the client, or None
  data,        \* units of the file on their way behind it
  fin,         \* the server's socket has seen the client's end
  status,      \* Session::status
  fileProcess  \* Session::fileProcess: where its file stands and the rest, or None

peerVars    == <<client, want>>
socketVars  == <<request, response, data, fin>>
sessionVars == <<status, fileProcess>>
connVars    == <<peerVars, socketVars, sessionVars>>

(***************************************************************************)
(* Requests.  An `offset` and a `size` are in units of the file; `found`   *)
(* says that validatePath accepts the path and the file opens, `whole`     *)
(* that the packet is long enough for its header.                          *)
(***************************************************************************)
Command(name) == [type |-> "COMMAND", name |-> name]
Download(info, offset, size, found, whole) ==
  [type |-> IF info THEN "DOWNLOAD_INFO" ELSE "DOWNLOAD",
   offset |-> offset, size |-> size, found |-> found, whole |-> whole]
Garbage == [type |-> "?"]

Text       == [type |-> "PLAIN_TEXT", size |-> 0]
Info(size) == [type |-> "DOWNLOAD_INFO_REPLY", size |-> size]
Header(size) == [type |-> "BINARY", size |-> size]

IsDownload(r) == r.type \in {"DOWNLOAD", "DOWNLOAD_INFO"}

ASSUME RequestAssumption ==
  \A r \in Requests : IsDownload(r) => r.offset \in Nat /\ r.size \in Nat

\* What a DOWNLOAD or DOWNLOAD_INFO asks for: size 0 is the whole file.
AskedSize(r) == IF r.size = 0 THEN FileSize ELSE r.size
InFile_IgnoresOffset(r) == r.offset <= FileSize /\ AskedSize(r) <= FileSize
InFile(r) ==
  /\ r.offset <= FileSize /\ AskedSize(r) <= FileSize
  /\ r.offset + AskedSize(r) <= FileSize

InFlight(c) == data[c] + (IF response[c] = None THEN 0 ELSE 1)
Room(c) == InFlight(c) < SendSpace

SessionInit ==
  /\ client = [c \in Conns |-> "off"]
  /\ want = [c \in Conns |-> 0]
  /\ request = [c \in Conns |-> None]
  /\ response = [c \in Conns |-> None]
  /\ data = [c \in Conns |-> 0]
  /\ fin = [c \in Conns |-> FALSE]
  /\ status = [c \in Conns |-> "READING"]
  /\ fileProcess = [c \in Conns |-> None]

-----------------------------------------------------------------------------
(***************************************************************************)
(* The handler.  A response is written with rio_writen to a non-blocking   *)
(* socket and the result is ignored: with no room it is lost.  It is one   *)
(* unit whatever its length: the assumption is that an empty send buffer   *)
(* takes any response whole, the text of `ls` (at most 64 KB) included.    *)
(***************************************************************************)
Respond(c, packet) ==
  response' = IF ~fin[c] /\ Room(c) THEN [response EXCEPT ![c] = packet]
                                   ELSE response

Then(c, s) == status' = [status EXCEPT ![c] = s]

\* Socket::read meets the client's end: -1.
ReadEnd(c) ==
  /\ request[c] = None
  /\ fin[c]
  /\ Then(c, "END")
  /\ UNCHANGED <<peerVars, socketVars, fileProcess>>

\* A whole packet is read into the thread's buffer.
ReadRequest(c) ==
  /\ request[c] # None
  /\ request' = [request EXCEPT ![c] = None]
  /\ UNCHANGED <<peerVars, response, data, fin, sessionVars>>

\* processCommand: "quit" ends the session; every other command gets one text
\* (what it lists or why it does not), "shutdown" too.
ProcessCommand(c, r) ==
  /\ r.type = "COMMAND"
  /\ Respond(c, Text)
  /\ IF r.name = "quit" THEN Then(c, "END") ELSE UNCHANGED status
  /\ UNCHANGED <<peerVars, request, data, fin, fileProcess>>

\* processDownload, one action per way out of it.
IgnoreShort(c, r) ==
  /\ IsDownload(r)
  /\ ~r.whole
  /\ UNCHANGED connVars

RefuseDownload(c, r) ==
  /\ IsDownload(r)
  /\ r.whole /\ ~(r.found /\ InFile(r))
  /\ Respond(c, Text)
  /\ UNCHANGED <<peerVars, request, data, fin, sessionVars>>

ReplyInfo(c, r) ==
  /\ r.type = "DOWNLOAD_INFO"
  /\ r.whole /\ r.found /\ InFile(r)
  /\ Respond(c, Info(AskedSize(r)))
  /\ UNCHANGED <<peerVars, request, data, fin, sessionVars>>

StartDownload_RestOfFile(c, r) ==
  /\ r.type = "DOWNLOAD"
  /\ r.whole /\ r.found /\ InFile(r)
  /\ Respond(c, Header(AskedSize(r)))
  /\ fileProcess' =
       [fileProcess EXCEPT ![c] = [pos |-> r.offset, rest |-> FileSize - r.offset]]
  /\ Then(c, "WRITING")
  /\ UNCHANGED <<peerVars, request, data, fin>>

StartDownload_NoHeader(c, r) ==
  /\ r.type = "DOWNLOAD"
  /\ r.whole /\ r.found /\ InFile(r)
  /\ fileProcess' = [fileProcess EXCEPT ![c] = [pos |-> r.offset, rest |-> AskedSize(r)]]
  /\ Then(c, "WRITING")
  /\ UNCHANGED <<peerVars, request, response, data, fin>>

StartDownload(c, r) ==
  /\ r.type = "DOWNLOAD"
  /\ r.whole /\ r.found /\ InFile(r)
  /\ Respond(c, Header(AskedSize(r)))
  /\ fileProcess' = [fileProcess EXCEPT ![c] = [pos |-> r.offset, rest |-> AskedSize(r)]]
  /\ Then(c, "WRITING")
  /\ UNCHANGED <<peerVars, request, data, fin>>

\* A type byte that is none of the three.
RejectGarbage(c, r) ==
  /\ r.type \notin {"COMMAND", "DOWNLOAD", "DOWNLOAD_INFO"}
  /\ Then(c, "END")
  /\ UNCHANGED <<peerVars, socketVars, fileProcess>>

Process(c, r) ==
  \/ ProcessCommand(c, r)
  \/ IgnoreShort(c, r) \/ RefuseDownload(c, r) \/ ReplyInfo(c, r) \/ StartDownload(c, r)
  \/ RejectGarbage(c, r)

SendSome_PastTheRest(c) ==
  /\ ~fin[c] /\ Room(c)
  /\ \E n \in 1 .. SendSpace :
       /\ n <= SendSpace - InFlight(c)
       /\ n <= FileSize - fileProcess[c].pos
       /\ fileProcess' =
            [fileProcess EXCEPT ![c] = [pos |-> @.pos + n, rest |-> @.rest - n]]
       /\ data' = [data EXCEPT ![c] = @ + n]
  /\ UNCHANGED <<peerVars, request, response, fin, status>>

\* handleWriting: one sendfile.  It keeps `rest` in a local until it pauses;
\* nobody else reads fileProcess meanwhile, so the model counts it down.
SendSome(c) ==
  /\ ~fin[c] /\ Room(c)
  /\ \E n \in 1 .. SendSpace :
       /\ n <= fileProcess[c].rest /\ n <= SendSpace - InFlight(c)
       /\ n <= FileSize - fileProcess[c].pos
       /\ fileProcess' =
            [fileProcess EXCEPT ![c] = [pos |-> @.pos + n, rest |-> @.rest - n]]
       /\ data' = [data EXCEPT ![c] = @ + n]
  /\ UNCHANGED <<peerVars, request, response, fin, status>>

\* EAGAIN: the transfer pauses.
SendPauses(c) ==
  /\ fileProcess[c].rest > 0
  /\ ~fin[c] /\ ~Room(c)
  /\ UNCHANGED connVars

\* The socket is broken, or sendfile is at the end of the file.
SendEnds(c) ==
  /\ fileProcess[c].rest > 0
  /\ Then(c, "END")
  /\ UNCHANGED <<peerVars, socketVars, fileProcess>>

SendFinished(c) ==
  /\ fileProcess[c].rest = 0
  /\ Then(c, "READING")
  /\ UNCHANGED <<peerVars, socketVars, fileProcess>>

-----------------------------------------------------------------------------
(***************************************************************************)
(* The client.                                                             *)
(***************************************************************************)
SendRequest(c) ==
  /\ client[c] = "idle"
  /\ client' = [client EXCEPT ![c] = "waiting"]
  /\ \E r \in Requests : request' = [request EXCEPT ![c] = r]
  /\ UNCHANGED <<want, response, data, fin, sessionVars>>

TakeResponse(c) ==
  /\ client[c] = "waiting"
  /\ response[c] # None
  /\ response' = [response EXCEPT ![c] = None]
  /\ LET size == IF response[c].type = "BINARY" THEN response[c].size ELSE 0
     IN  /\ want' = [want EXCEPT ![c] = size]
         /\ client' = [client EXCEPT ![c] = IF size > 0 THEN "receiving" ELSE "idle"]
  /\ UNCHANGED <<request, data, fin, sessionVars>>

TakeData(c) ==
  /\ client[c] = "receiving"
  /\ \E n \in 1 .. data[c] :
       /\ data' = [data EXCEPT ![c] = @ - n]
       /\ want' = [want EXCEPT ![c] = @ - n]
       /\ client' = [client EXCEPT ![c] = IF want[c] = n THEN "idle" ELSE @]
  /\ UNCHANGED <<request, response, fin, sessionVars>>

\* The client goes, and what was on its way to it is lost.
Close(c) ==
  /\ client[c] \in {"idle", "waiting", "receiving"}
  /\ client' = [client EXCEPT ![c] = "closed"]
  /\ fin' = [fin EXCEPT ![c] = TRUE]
  /\ response' = [response EXCEPT ![c] = None]
  /\ data' = [data EXCEPT ![c] = 0]
  /\ UNCHANGED <<want, request, sessionVars>>

\* The client reads the end of a connection the server has closed.
SeeEnd(c) ==
  /\ client[c] \in {"idle", "waiting", "receiving"}
  /\ response[c] = None /\ data[c] = 0
  /\ client' = [client EXCEPT ![c] = "closed"]
  /\ UNCHANGED <<want, socketVars, sessionVars>>
=============================================================================
