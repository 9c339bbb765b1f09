---------------------------- MODULE DownloadManager ----------------------------
(***************************************************************************)
(* The client's resumable, multi-threaded download of one file:            *)
(* DownloadManager::downloadWait (the main thread), DownloadThread::run    *)
(* and DownloadThread::downloadPart (the pool's threads), the destination  *)
(* file, and the part status file "<dest>.dlinfo" from which a later run   *)
(* of the client resumes.                                                  *)
(*                                                                         *)
(* The file is a set of units 0 .. TotalSize-1.  Its contents are          *)
(* abstracted to `written`, the units that hold the server's data.  The    *)
(* offset and size fields of a PartStatus never change, so a record keeps  *)
(* its id and its rest, and Offset and PartLen give the other two.         *)
(*                                                                         *)
(* The server, the network and the operating system are the environment: a *)
(* request may fail, a read may be cut short by an error or end in EOF, a  *)
(* thread may not start (a fault, at most MaxFaults of them), and the      *)
(* client may die at any point (a crash, at most MaxCrashes) and be run    *)
(* again with the same arguments.                                          *)
(*                                                                         *)
(* A thread's read buffer (READ_BUFFER_PER_THREAD) is as large as a part   *)
(* (PART_SIZE), so one undisturbed Socket::read takes all that is left of  *)
(* the part.  A File's seek puts the next write where FileStream says: the *)
(* status file has less than a stdio buffer's worth of records (128, for   *)
(* 8 GB), and of the destination's seeks those are modelled that go where  *)
(* they should.                                                            *)
(***************************************************************************)
EXTENDS Integers

CONSTANTS
  NThreads,     \* Client::downloadThreads
  TotalSize,    \* size of the remote file, as DOWNLOAD_INFO reported it
  PartSize,     \* PART_SIZE
  MaxFaults,    \* bound: faults in a behaviour
  MaxCrashes    \* bound: deaths of the client process in a behaviour

ASSUME ConstantsAssumption ==
  /\ NThreads   \in Nat \ {0}
  /\ TotalSize  \in Nat
  /\ PartSize   \in Nat \ {0}
  /\ MaxFaults  \in Nat
  /\ MaxCrashes \in Nat

VARIABLES
  phase,        \* where downloadWait is, or how the process ended
  parts,        \* the vector `parts`: index -> record
  nPart,        \* its size
  resumed,      \* partFile was opened to read it first, with mode "r+b"
  using,        \* usingOffsets: part id -> taken
  partsLock,    \* holder of the mutex, or Free
  pc,           \* where each download thread is
  part,         \* DownloadThread::part: an index of `parts`, or NoPart
  startPart,    \* DownloadThread::startPart
  connSocket,   \* the thread's connection: "none", "open" or "broken"
  written,      \* destination file: units that hold the server's data
  statusExists, \* whether <dest>.dlinfo exists
  status,       \* <dest>.dlinfo: slot -> record
  statusLen,    \* its size, in records
  statusPos,    \* the descriptor's offset, shared by all threads
  clean,        \* history: no connection failed in this run of downloadWait
  faults,       \* history: faults so far
  crashes       \* history: crashes so far

threadVars == <<pc, part, startPart, connSocket>>
diskVars   == <<written, statusExists, status, statusLen>>
boundVars  == <<faults, crashes>>
vars == <<phase, parts, nPart, resumed, using, partsLock, threadVars, diskVars,
          statusPos, clean, boundVars>>

Threads == 0 .. NThreads - 1
Units   == 0 .. TotalSize - 1
NoPart  == -1
Free    == -1

(***************************************************************************)
(* The partition of the file: as many parts of PartSize as fit, then one   *)
(* for what is left, if anything is.                                       *)
(***************************************************************************)
FullParts == TotalSize \div PartSize
TailLen == TotalSize % PartSize
NumParts_DropsTail == FullParts
NumParts == IF TailLen > 0 THEN FullParts + 1 ELSE FullParts
PartIds == 0 .. NumParts - 1
Offset(id) == id * PartSize
PartLen(id) == IF id < FullParts THEN PartSize ELSE TailLen

PartStatus == {r \in [id : PartIds, rest : Nat] : r.rest <= PartLen(r.id)}

\* The units from `lo` on, `n` of them.
Span(lo, n) == lo .. lo + n - 1

\* The units a record says are already on disk.
Received(r) == Span(Offset(r.id), PartLen(r.id) - r.rest)

NewParts == [i \in 0 .. NumParts - 1 |-> [id |-> i, rest |-> PartLen(i)]]
NoParts  == [i \in 0 .. -1 |-> [id |-> i, rest |-> 0]]

(***************************************************************************)
(* No thread runs: before a download, after it, after a crash.             *)
(***************************************************************************)
Init ==
  /\ phase = "start"
  /\ parts = NoParts /\ nPart = 0 /\ resumed = FALSE
  /\ using = [i \in 0 .. -1 |-> FALSE]
  /\ partsLock = Free
  /\ pc = [t \in Threads |-> "idle"]
  /\ part = [t \in Threads |-> NoPart]
  /\ startPart = [t \in Threads |-> 0]
  /\ connSocket = [t \in Threads |-> "none"]
  /\ written = {}
  /\ statusExists = FALSE /\ status = NoParts /\ statusLen = 0
  /\ statusPos = 0
  /\ clean = TRUE
  /\ faults = 0 /\ crashes = 0

ForgetVolatile ==
  /\ parts' = NoParts /\ nPart' = 0 /\ resumed' = FALSE
  /\ using' = [i \in 0 .. -1 |-> FALSE]
  /\ partsLock' = Free
  /\ pc' = [t \in Threads |-> "idle"]
  /\ part' = [t \in Threads |-> NoPart]
  /\ startPart' = [t \in Threads |-> 0]
  /\ connSocket' = [t \in Threads |-> "none"]
  /\ statusPos' = 0
  /\ clean' = TRUE

-----------------------------------------------------------------------------
(***************************************************************************)
(* downloadWait.                                                           *)
(***************************************************************************)

\* usingOffsets.assign and the threads' parameters: `n` is the number of parts.
StartThreads_SkipsFirst(n) ==
  /\ phase' = "running"
  /\ nPart' = n
  /\ using' = [i \in 0 .. n - 1 |-> FALSE]
  /\ pc' = [t \in Threads |-> "created"]
  /\ startPart' = [t \in Threads |-> ((t + 1) * n) \div NThreads]
  /\ statusPos' = n
  /\ UNCHANGED <<partsLock, part, connSocket, clean, boundVars>>

StartThreads(n) ==
  /\ phase' = "running"
  /\ nPart' = n
  /\ using' = [i \in 0 .. n - 1 |-> FALSE]
  /\ pc' = [t \in Threads |-> "created"]
  /\ startPart' = [t \in Threads |-> (t * n) \div NThreads]
  /\ statusPos' = n
  /\ UNCHANGED <<partsLock, part, connSocket, clean, boundVars>>

\* A status file is there: take the parts from it.
Resume ==
  /\ phase = "start"
  /\ statusExists
  /\ parts' = status /\ resumed' = TRUE
  /\ StartThreads(statusLen)
  /\ UNCHANGED diskVars

\* None is: partition the file and open a status file with mode "wb", empty
\* until WriteStatusFile.
CreateStatusFile ==
  /\ phase = "start"
  /\ ~statusExists
  /\ phase' = "creating"
  /\ parts' = NewParts /\ nPart' = NumParts /\ resumed' = FALSE
  /\ statusExists' = TRUE /\ status' = NoParts /\ statusLen' = 0
  /\ UNCHANGED <<using, partsLock, threadVars, written, statusPos, clean,
                 boundVars>>

WriteStatusFile ==
  /\ phase = "creating"
  /\ status' = parts /\ statusLen' = nPart
  /\ StartThreads(nPart)
  /\ UNCHANGED <<parts, resumed, written, statusExists>>

\* threadPool->start() starts the threads one by one, so the first ones work
\* while the others are still to come; a thread that cannot be started ends the
\* loop, and downloadWait only prints a message.
NextToStart(t) ==
  /\ phase = "running" /\ pc[t] = "created"
  /\ \A u \in Threads : pc[u] = "created" => t <= u

StartThread(t) ==
  /\ NextToStart(t)
  /\ pc' = [pc EXCEPT ![t] = "select"]
  /\ UNCHANGED <<phase, parts, nPart, resumed, using, partsLock, part,
                 startPart, connSocket, diskVars, statusPos, clean, boundVars>>

StartFails(t) ==
  /\ NextToStart(t)
  /\ faults < MaxFaults
  /\ faults' = faults + 1
  /\ pc' = [u \in Threads |-> IF pc[u] = "created" THEN "unborn" ELSE pc[u]]
  /\ UNCHANGED <<phase, parts, nPart, resumed, using, partsLock, part,
                 startPart, connSocket, diskVars, statusPos, clean, crashes>>

\* joinAll returned: drop the parts and the pool, remove the status file,
\* report success.
AnyThreadEnded == \E t \in Threads : pc[t] = "end"
SkipsUnborn == \A t \in Threads : pc[t] \in {"end", "unborn"}
JoinAll == \A t \in Threads : pc[t] = "end"

FinishDownload_LeavesStatusFile ==
  /\ phase = "running"
  /\ JoinAll
  /\ phase' = "done"
  /\ ForgetVolatile
  /\ UNCHANGED <<diskVars, boundVars>>

FinishDownload ==
  /\ phase = "running"
  /\ JoinAll
  /\ phase' = "done"
  /\ ForgetVolatile
  /\ statusExists' = FALSE /\ status' = NoParts /\ statusLen' = 0
  /\ UNCHANGED <<written, boundVars>>

-----------------------------------------------------------------------------
(***************************************************************************)
(* DownloadThread::run: choosing a part.  The scan runs under partsLock    *)
(* and re-reads the parts until it can claim one or finds nothing left     *)
(* from startPart on, so a thread that can do neither stays in "scan" and  *)
(* keeps the lock.  `rest` is read without synchronisation with the owner  *)
(* of a part in use; only whether it is zero matters, it never leaves      *)
(* zero, and the rest of a part nobody uses does not change, so reading    *)
(* the vector in one step loses no outcome.                                *)
(***************************************************************************)
At(t, label) == phase = "running" /\ pc[t] = label
Goto(t, label) == pc' = [pc EXCEPT ![t] = label]

Lock(t) ==
  /\ At(t, "select")
  /\ partsLock = Free
  /\ partsLock' = t
  /\ Goto(t, "scan")
  /\ UNCHANGED <<phase, parts, nPart, resumed, using, part, startPart,
                 connSocket, diskVars, statusPos, clean, boundVars>>

Scanned_DropsLast(t) == startPart[t] .. nPart - 2
Scanned(t) == startPart[t] .. nPart - 1
Unfinished(i) == parts[i].rest # 0
Claimable(t) == {i \in Scanned(t) : Unfinished(i) /\ ~using[parts[i].id]}

Claim(t, i) ==
  /\ using' = [using EXCEPT ![parts[i].id] = TRUE]
  /\ part' = [part EXCEPT ![t] = i]
  /\ partsLock' = Free
  /\ Goto(t, "request")
  /\ UNCHANGED <<phase, parts, nPart, resumed, startPart, connSocket, diskVars,
                 statusPos, clean, boundVars>>

ClaimPart_IgnoresUse(t) ==
  /\ At(t, "scan")
  /\ \E i \in Scanned(t) :
       /\ Unfinished(i)
       /\ \A j \in Scanned(t) : Unfinished(j) => i <= j
       /\ Claim(t, i)

ClaimPart_KeepsLock(t) ==
  /\ At(t, "scan")
  /\ \E i \in Claimable(t) :
       /\ \A j \in Claimable(t) : i <= j
       /\ using' = [using EXCEPT ![parts[i].id] = TRUE]
       /\ part' = [part EXCEPT ![t] = i]
       /\ Goto(t, "request")
       /\ UNCHANGED <<phase, parts, nPart, resumed, startPart, connSocket,
                      partsLock, diskVars, statusPos, clean, boundVars>>

ClaimPart(t) ==
  /\ At(t, "scan")
  /\ \E i \in Claimable(t) :
       /\ \A j \in Claimable(t) : i <= j
       /\ Claim(t, i)

EndThread(t) ==
  /\ At(t, "scan")
  /\ \A i \in Scanned(t) : ~Unfinished(i)
  /\ partsLock' = Free
  /\ Goto(t, "end")
  /\ UNCHANGED <<phase, parts, nPart, resumed, using, part, startPart,
                 connSocket, diskVars, statusPos, clean, boundVars>>

\* Leaving the loop body: free the part, move startPart past it.  The critical
\* section is one assignment, so taking and leaving the lock is one step.
ReleasePart_KeepsUse(t) ==
  /\ At(t, "release")
  /\ partsLock = Free
  /\ startPart' = [startPart EXCEPT ![t] = (parts[part[t]].id + 1) % nPart]
  /\ part' = [part EXCEPT ![t] = NoPart]
  /\ Goto(t, "select")
  /\ UNCHANGED <<phase, parts, nPart, resumed, using, partsLock, connSocket,
                 diskVars, statusPos, clean, boundVars>>

ReleasePart(t) ==
  /\ At(t, "release")
  /\ partsLock = Free
  /\ using' = [using EXCEPT ![parts[part[t]].id] = FALSE]
  /\ startPart' = [startPart EXCEPT ![t] = (parts[part[t]].id + 1) % nPart]
  /\ part' = [part EXCEPT ![t] = NoPart]
  /\ Goto(t, "select")
  /\ UNCHANGED <<phase, parts, nPart, resumed, partsLock, connSocket, diskVars,
                 statusPos, clean, boundVars>>
-----------------------------------------------------------------------------
(***************************************************************************)
(* DownloadThread::downloadPart.  While a thread uses a part nobody else   *)
(* writes its record, so the local `rest` and part->rest agree wherever    *)
(* the thread stands between two steps.                                    *)
(***************************************************************************)
Mine(t) == parts[part[t]]

\* Where the next byte of `r` goes: offset + size - rest.
ReadPos(r) == Offset(r.id) + PartLen(r.id) - r.rest

Fault ==
  /\ faults < MaxFaults
  /\ faults' = faults + 1
  /\ clean' = FALSE
  /\ UNCHANGED crashes

\* Connect if need be, send the request, take the reply, seek the file.
RequestPart(t) ==
  /\ At(t, "request")
  /\ connSocket[t] # "broken"
  /\ connSocket' = [connSocket EXCEPT ![t] = "open"]
  /\ Goto(t, "receive")
  /\ UNCHANGED <<phase, parts, nPart, resumed, using, partsLock, part,
                 startPart, diskVars, statusPos, clean, boundVars>>

\* The send fails, and the socket stays; or there is no reply, or one for
\* another size, and the socket goes.
RequestFails(t) ==
  /\ At(t, "request")
  /\ connSocket[t] # "broken"
  /\ \E c \in {"broken", "none"} : connSocket' = [connSocket EXCEPT ![t] = c]
  /\ Fault
  /\ Goto(t, "release")
  /\ UNCHANGED <<phase, parts, nPart, resumed, using, partsLock, part,
                 startPart, diskVars, statusPos>>

\* Read `n` units, write them at the file's position, count them off.
Receive(t, n) ==
  /\ written' = written \cup Span(ReadPos(Mine(t)), n)
  /\ parts' = [parts EXCEPT ![part[t]].rest = @ - n]
  /\ Goto(t, "seek")
  /\ UNCHANGED <<phase, nPart, resumed, using, partsLock, part, startPart,
                 statusExists, status, statusLen, statusPos>>

ReceiveChunk_WholePart(t) ==
  /\ At(t, "receive")
  /\ connSocket[t] = "open"
  /\ Mine(t).rest > 0
  /\ Receive(t, PartSize)
  /\ UNCHANGED <<connSocket, clean, boundVars>>

ReceiveChunk(t) ==
  /\ At(t, "receive")
  /\ connSocket[t] = "open"
  /\ Mine(t).rest > 0
  /\ Receive(t, Mine(t).rest)
  /\ UNCHANGED <<connSocket, clean, boundVars>>

\* An error cuts the read short: Socket::read returns what it has.
ReceiveShort_CountsLimit(t) ==
  /\ At(t, "receive")
  /\ connSocket[t] = "open"
  /\ Mine(t).rest > 0
  /\ \E n \in 0 .. Mine(t).rest - 1 :
       written' = written \cup Span(ReadPos(Mine(t)), n)
  /\ parts' = [parts EXCEPT ![part[t]].rest = 0]
  /\ connSocket' = [connSocket EXCEPT ![t] = "broken"]
  /\ Fault
  /\ Goto(t, "seek")
  /\ UNCHANGED <<phase, nPart, resumed, using, partsLock, part, startPart,
                 statusExists, status, statusLen, statusPos>>

ReceiveShort(t) ==
  /\ At(t, "receive")
  /\ connSocket[t] = "open"
  /\ Mine(t).rest > 0
  /\ \E n \in 0 .. Mine(t).rest - 1 : Receive(t, n)
  /\ connSocket' = [connSocket EXCEPT ![t] = "broken"]
  /\ Fault

\* EOF: Socket::read returns -1 and what it had read is dropped.
DropConnection(t) ==
  /\ Mine(t).rest > 0
  /\ connSocket' = [connSocket EXCEPT ![t] = "none"]
  /\ Goto(t, "release")
  /\ UNCHANGED <<phase, parts, nPart, resumed, using, partsLock, part,
                 startPart, diskVars, statusPos>>

ConnectionClosed(t) ==
  /\ At(t, "receive")
  /\ connSocket[t] = "open"
  /\ DropConnection(t)
  /\ Fault

\* After an error a connection has nothing but EOF to give.
ReadAfterError(t) ==
  /\ At(t, "receive")
  /\ connSocket[t] = "broken"
  /\ DropConnection(t)
  /\ UNCHANGED <<clean, boundVars>>

\* Where File::seek leaves the descriptor for record `id`: there, but if the
\* file was read first all of it is in the stream's buffer, and the descriptor
\* goes to the buffer's end (see FileStream).
StatusPlace(id) == IF resumed THEN nPart ELSE id

\* updateDownloadStatus: partFile->seek, then partFile->write.  All threads
\* share the descriptor, and nothing keeps another thread out in between.
SeekStatus_ByOffset(t) ==
  /\ At(t, "seek")
  /\ statusPos' = Offset(Mine(t).id)
  /\ Goto(t, "write")
  /\ UNCHANGED <<phase, parts, nPart, resumed, using, partsLock, part,
                 startPart, connSocket, diskVars, clean, boundVars>>

SeekStatus(t) ==
  /\ At(t, "seek")
  /\ statusPos' = StatusPlace(Mine(t).id)
  /\ Goto(t, "write")
  /\ UNCHANGED <<phase, parts, nPart, resumed, using, partsLock, part,
                 startPart, connSocket, diskVars, clean, boundVars>>

WriteStatus(t) ==
  /\ At(t, "write")
  /\ statusLen' = IF statusPos < statusLen THEN statusLen ELSE statusPos + 1
  /\ status' = [s \in 0 .. statusLen' - 1 |->
                  IF s = statusPos THEN Mine(t) ELSE status[s]]
  /\ statusPos' = statusPos + 1
  /\ Goto(t, IF Mine(t).rest > 0 THEN "receive" ELSE "release")
  /\ UNCHANGED <<phase, parts, nPart, resumed, using, partsLock, part,
                 startPart, connSocket, written, statusExists, clean,
                 boundVars>>

-----------------------------------------------------------------------------
(***************************************************************************)
(* The end of the process before downloadWait returns, and the next run of *)
(* the client.                                                             *)
(***************************************************************************)
Die ==
  /\ phase' = "crashed"
  /\ ForgetVolatile
  /\ UNCHANGED <<diskVars, faults>>

\* Killed from outside, a failed write of the file (exit(1)), or a failed
\* connect (downloadPart uses the null socket).
Crash ==
  /\ phase \in {"creating", "running"}
  /\ crashes < MaxCrashes
  /\ crashes' = crashes + 1
  /\ Die

\* joinAll joins in order, and takes the handle of a thread that was never
\* started, 0, for one of a thread: pthread_join reads through it, and the
\* process is gone once the threads that were started have ended.
JoinUnborn ==
  /\ phase = "running"
  /\ \E t \in Threads : pc[t] = "unborn"
  /\ \A t \in Threads : pc[t] \in {"end", "unborn"}
  /\ Die
  /\ UNCHANGED crashes

\* Sending on a broken connection raises SIGPIPE, and its handler exits.
BrokenPipe(t) ==
  /\ At(t, "request")
  /\ connSocket[t] = "broken"
  /\ Die
  /\ UNCHANGED crashes

Restart ==
  /\ phase = "crashed"
  /\ phase' = "start"
  /\ UNCHANGED <<parts, nPart, resumed, using, partsLock, threadVars, diskVars,
                 statusPos, clean, boundVars>>

Terminated == phase = "done" /\ UNCHANGED vars

-----------------------------------------------------------------------------
Main ==
  \/ Resume \/ CreateStatusFile \/ WriteStatusFile
  \/ \E t \in Threads : StartThread(t)
  \/ FinishDownload \/ JoinUnborn

\* What thread t does of its own accord.
Run(t) ==
  \/ Lock(t) \/ ClaimPart(t) \/ EndThread(t)
  \/ RequestPart(t) \/ BrokenPipe(t)
  \/ ReceiveChunk(t) \/ ReadAfterError(t)
  \/ SeekStatus(t) \/ WriteStatus(t)
  \/ ReleasePart(t)

\* What the network does to thread t.
Disturb(t) == RequestFails(t) \/ ReceiveShort(t) \/ ConnectionClosed(t)

Next ==
  \/ Main \/ Crash \/ Restart \/ Terminated
  \/ \E t \in Threads : Run(t) \/ Disturb(t) \/ StartFails(t)

Spec == Init /\ [][Next]_vars

\* The scheduler runs every thread that can run, and the server answers.
FairSpec ==
  /\ Spec
  /\ WF_vars(Main)
  /\ \A t \in Threads : WF_vars(Run(t))

-----------------------------------------------------------------------------
(***************************************************************************)
(* Properties.                                                             *)
(***************************************************************************)
Records(n) == [0 .. n - 1 -> PartStatus]

\* Every variable has its type, and the lengths agree with the functions.
TypeOK ==
  /\ phase \in {"start", "creating", "running", "done", "crashed"}
  /\ nPart \in Nat /\ parts \in Records(nPart) /\ resumed \in BOOLEAN
  /\ phase = "running" => using \in [0 .. nPart - 1 -> BOOLEAN]
  /\ partsLock \in Threads \cup {Free}
  /\ pc \in [Threads -> {"idle", "created", "unborn", "select", "scan",
                         "request", "receive", "seek", "write", "release",
                         "end"}]
  /\ part \in [Threads -> 0 .. nPart - 1 \cup {NoPart}]
  /\ startPart \in [Threads -> Nat]
  /\ connSocket \in [Threads -> {"none", "open", "broken"}]
  /\ written \subseteq Units
  /\ statusExists \in BOOLEAN
  /\ statusLen \in Nat /\ status \in Records(statusLen)
  /\ statusPos \in Nat
  /\ clean \in BOOLEAN
  /\ faults \in 0 .. MaxFaults /\ crashes \in 0 .. MaxCrashes

\* Two threads never work on the same part (the "part in use" table,
\* DownloadManager.h 49, is there for this).
ExclusiveParts ==
  \A t, u \in Threads :
    t # u /\ part[t] # NoPart /\ part[u] # NoPart => Mine(t).id # Mine(u).id

\* usingOffsets marks exactly the parts some thread works on: no part is
\* left marked after its thread let go of it, and so lost to every thread.
UsingIffHeld ==
  phase = "running" =>
    \A i \in 0 .. nPart - 1 :
      using[i] <=> \E t \in Threads : part[t] # NoPart /\ Mine(t).id = i

\* No index leaves its vector: ids index usingOffsets, and a seek never
\* leaves a hole in the status file, whatever a crash left of that file and
\* however the threads' seeks and writes interleave.
IdsInRange ==
  /\ phase = "running" =>
       /\ \A i \in 0 .. nPart - 1 : parts[i].id < nPart
       /\ nPart <= statusLen
       /\ statusPos <= statusLen
  /\ phase = "creating" => nPart = NumParts
  /\ statusLen > 0 => NumParts <= statusLen

\* No record says of a unit that it is on disk before it is: neither the
\* records in memory, from which a thread asks the server for the rest, nor
\* those in the status file, from which a later run resumes.
ProgressNeverAhead ==
  /\ \A i \in 0 .. nPart - 1 : Received(parts[i]) \subseteq written
  /\ \A s \in 0 .. statusLen - 1 : Received(status[s]) \subseteq written

\* The parts of this run of downloadWait are the whole partition, in order:
\* what a new download has, and a resumed one whose status file is intact.
Aligned ==
  /\ nPart = NumParts
  /\ \A i \in 0 .. nPart - 1 : parts[i].id = i

\* Where thread t's next scan begins, at the latest.
Front(t) == IF part[t] = NoPart THEN startPart[t] ELSE part[t]

\* The scan never wraps around, so each unfinished part must have a thread
\* before it that has yet to come by, be it one that could not be started.  That
\* is so while no connection fails.
EveryPartCovered ==
  phase = "running" /\ clean /\ Aligned =>
    \A i \in 0 .. nPart - 1 :
      Unfinished(i) => \E t \in Threads : pc[t] # "end" /\ Front(t) <= i

\* While no connection fails, when joinAll returns every part is finished, also
\* after earlier crashes, in a resumed download, and if the pool could not start
\* all of its threads.
CleanSessionCompletes ==
  phase = "running" /\ clean /\ Aligned /\ JoinAll =>
    \A i \in 0 .. nPart - 1 : ~Unfinished(i)

\* "Successful written ... Bytes" (Client.cpp 116): the whole file is here.
SuccessMeansComplete == phase = "done" => written = Units

\* A status file that was written keeps a record of every part: what a resumed
\* download takes its parts from lacks none (updateDownloadStatus, lines 95-98).
StatusKeepsEveryPart ==
  phase = "start" /\ statusExists /\ statusLen > 0 =>
    \A id \in PartIds : \E s \in 0 .. statusLen - 1 : status[s].id = id

\* A thread that has left downloadPart frees its part (DownloadManager.cpp
\* 150) and goes on.
PartIsReleased == \A t \in Threads : pc[t] = "release" ~> pc[t] # "release"

\* The download comes to its end.
DownloadEnds == <>(phase = "done")

-----------------------------------------------------------------------------
(***************************************************************************)
(* What the client promises its user, see ResumableDownload.               *)
(***************************************************************************)
ClaimedOnDisk == UNION {Received(status[s]) : s \in 0 .. statusLen - 1}

Promise == INSTANCE ResumableDownload
  WITH Bytes <- Units, have <- written, claimed <- ClaimedOnDisk,
       reported <- (phase = "done")

ImplementsResumableDownload == Promise!LiveSpec
=============================================================================
