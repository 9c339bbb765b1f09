# SiFtp in TLA+

Specifications of the file transfer server and client of this repository
(`src/server.cpp`, `src/client.cpp` and `src/src/`): a server whose threads share
one epoll instance, and a client that downloads a file with several threads and
can resume an interrupted download. The modules are checked with TLC; the
client and its download, the server's event handling and transfers, the byte
streams between them, the use of files and the bytes of a packet are also proved
about with TLAPS.

Line numbers below are those of the sources; `Session.cpp:141` is line 141 of
`src/src/server/Session.cpp`. `PROJECT.json` maps every definition to its lines.

## 1. The system

### Components

| Component | State | Operations |
|---|---|---|
| Download manager (`client/DownloadManager`) | part table, `usingOffsets`, `partsLock`, per thread: `part`, `startPart`, connection; the destination file; the status file `<dest>.dlinfo` | `downloadWait`, `DownloadThread::run`, `downloadPart`, `updateDownloadStatus` |
| Session (`server/Session`) | `status`, `fileProcess`, the borrowed `readBuffer` | `handle`, `processCommand`, `processDownload`, `handleWriting`, `sendResponse` |
| Reactor (`server/Server`, `Events`, `Epoll`) | listeners, epoll entries and their queue, each thread's `eventBuffer` | `EpollEventReceiverThread::run`, `ServerSocketListener::onEvent`, `ConnectionListener::onEvent`, `Server::kill` |
| Threads (`server/Thread`, `ThreadPool`) | the pool's threads | `start`, `joinAll`, `kill` |
| Socket, rio (`network/Socket`, `util/rio`) | a descriptor | `accept`, `connect`, `read`, `write` |
| Protocol (`protocol/Protocol`) | none | `sendRequest`, `receiveResponse` |
| File (`util/File`) | a stdio stream and the descriptor below it | `open`, `getSize`, `seek`, `read`, `write`, `allocate`, `remove`, `popen` |
| Client REPL (`client/Client`) | one connection, the destination file | `sendCommand`, `handleResponse`, `runRepl` |
| Utilities (`util/ByteBuffer`, `Int`, `Byte`, `StringUtil`) | none | pure functions |
| Entry points, the raw socket sniffer (`raw_socket.cpp`) | none | start-up, printing |

### How they interact

The client's main thread asks for a file's size (`DOWNLOAD_INFO`), then
`downloadWait` builds or resumes the part table and starts the pool. Each thread
claims an unfinished part under `partsLock`, asks the server for what is left of
it over a connection of its own (`DOWNLOAD` with offset and size), writes what it
receives to the destination and its record to the status file, frees the part
and looks for the next. When all threads have ended the status file is removed
and success is printed.

On the server an event of a connection goes to one thread (`EPOLLONESHOT`), which
lends its read buffer to the session, lets it handle one packet or send a piece
of a file, takes the buffer back, and rearms the connection for reading or
writing, or deletes the listener and with it the session and the socket.

The two sides share the byte stream: packets of a 4-byte length and a body, and
after a `BINARY` reply the raw bytes of the file, which `sendfile` takes from the
descriptor of the `File` that `Session` has seeked.

### What is hard

* Concurrency: the part table under a mutex, the records and the status file
  without one; several reactor threads on one epoll instance, whose events hold
  plain pointers.
* Failure: connections that break in mid-part, a client that dies and resumes,
  `accept` and `epoll_ctl` that fail.
* Ordering: data before record, reply before data, stdio positions against
  descriptor positions, the one-shot rearming against the next edge.
* Boundaries: files that are no multiple of `PART_SIZE`, or smaller than a stdio
  block; reads that stop anywhere.

`PROJECT.json` lists these as hazards, each at its line with the properties
that watch it.

## 2. The modules

### DownloadManager (and ResumableDownload)

Main thread: `Resume`, `CreateStatusFile`, `WriteStatusFile`, `StartThread` (one
thread after the other, as `ThreadPool::start` does; those started are at work
meanwhile), `JoinAll`, `FinishDownload`. `StartFails` is a `pthread_create` that
fails: `downloadWait` only says so and goes on to `joinAll`, where the join of a
thread that was never started (a null handle) ends the process, `JoinUnborn`.
Thread `t`: `Lock`, `ClaimPart` or `EndThread` (the scan of lines 121-141, under
`partsLock`), `RequestPart`, `ReceiveChunk` (read, write, `rest -= receive`),
`SeekStatus` and `WriteStatus` (lines 97 and 98, two steps on a descriptor all
threads share), `ReleasePart`. Environment: `RequestFails`, `ReceiveShort` (an
error in mid-read), `ConnectionClosed` (EOF), `Crash`, `BrokenPipe` (the SIGPIPE
handler of `client.cpp` exits), `Restart`. The file is a set of units; `written`
says which hold the server's data. A record is `[id, rest]`.

The scan never leaves the critical section without a claim or an end, so a
thread that can do neither stays at "scan" and keeps the lock: that is the
code's busy loop, and nothing but its own next look can end it.

Where a seek of the status file leaves the descriptor follows FileStream: at the
record if the file was created by this run (mode "wb"), at the end of the old
file if the download was resumed (mode "r+b", already in stdio's buffer).

`ResumableDownload` is the abstract promise: bytes arrive and stay, the recorded
progress claims only bytes that have arrived, success is reported once, with
every byte on disk, and in the end it is reported. `DownloadManager` refines it
(`have <- written`, `claimed <-` what the status file says, `reported <- phase =
"done"`) as long as nothing fails; the violation runs show how it breaks.

### Client

`Client` EXTENDS DownloadManager with the process around it: `main`, the REPL and
the single command (`SendCommand`, `SendFails`, `SendBroken`, `RefuseCommand`),
the command connection and `handleResponse` (`PrintText`, `StartDownload`,
`NoReply`), and the downloads of one destination that follow each other in one
process (`Report`, and the prompt again) and in later ones (`StartClient`). A step
of a download is a step of DownloadManager's `Next` without its `Restart`. The
environment answers (`Serve`), goes away (`LoseServer`: by a FIN, after which a
write still succeeds, or a reset, after which the first write fails and the next
raises SIGPIPE), and changes the file: `ChangeFile` empties `written`, for what is
on disk is no longer data of the file asked for. `since` remembers whether that
has happened since the unfinished download began.

### Session and Reactor

`Session` holds, for every connection, the session's variables, the socket and
the client at the other end, with one operator per way through
`Session::handle`. `Reactor` EXTENDS it with epoll, listeners, threads and their
steps: `Wait`, `Dispatch`, `AcceptOne`/`AcceptNone`, `HandleRead`,
`HandleProcess`, `HandleSend`, `Detach`, `Rearm`, `Free`; the faults
`AcceptFails`, `AttachFails`, `RearmFails` and a `sendfile` error; and the
clients' `Connect`, `PeerActs`, `PeerTakes`. Arming an entry that has something
to report queues an event at once, as `epoll_ctl` does. `Server::kill` ends the
process (`up`): a thread sent SIGKILL takes the process with it.

### Wire

The bytes of one connection and `Socket::read` at both ends: each `::read` is a
step that returns some of what has arrived, up to `AskFor`, which is
`min(limit, READ_UNIT)` and not what is still missing (`Socket.cpp:118`). The
client's socket blocks, the server's does not. The result of the first read is
ignored on both sides (`Session.cpp:19`, `Protocol.cpp:24`), so the length may be
read from bytes that are not one. A byte is abstracted to where it belongs
(request number, "length", "body" or "data", index), so a byte in the wrong
place is seen. What is on its way in a direction is one sequence of bytes. `splits`
says in which directions TCP may deliver any part of it first; in the others
`cuts` keeps where the writes end, and bytes arrive up to one of these places.
The server's socket takes `SendSpace` bytes the client has not read; `WriteN` is
`rio_writen` on it, which may put out a part of a packet and return 0, with no
one told (`Session.cpp:160`).

### FileStream

`File` over glibc's buffered streams: `fseek` of a stream that may read goes to
the start of a block and reads on (or stays in the buffer if the place is
there), while `::write` and `sendfile` use the descriptor, wherever that left it.
POSIX leaves this open; the definitions follow glibc's `fileops.c`. The four
users of File (`Session`, new and resumed status file, destination) are the four
values of `user`.

### PacketFormat

No state: what `ByteBuffer` does with its bytes (`push_back`, `[]`, `slice`,
`write(UInt)`, `readUInt`, at their widths), how a packet is put together
(`Packet`) and taken apart (`AfterLength`, `ReadLen`, `AfterPacket`, `Received...`) in a read
buffer that keeps what was in it before, and `processDownload`'s check of offset
and size in 64 bits (`Accepts`). The module is there for its theorems; TLC could
only sample its operators.

### How they compose

Reactor composes Session with epoll and threads, Client composes the REPL with
the downloads it starts. DownloadManager takes the
server as its environment (a request is answered, fails, or is cut short); what
that stands on, that after a whole reply a part's bytes arrive in order and
nothing of them is left for the next reply, is what Wire checks. FileStream gives
the position of a seek to DownloadManager (`StatusPlace`) and to Session (a file
of at least a block is sent from the offset asked for).

## 3. The runs

| Run | Shows |
|---|---|
| `download_clean` | 3 threads, 2 full parts and a tail, no fault: the download ends, success means the whole file, and ResumableDownload is implemented, liveness included |
| `download_faults` | 2 threads, 2 faults, 1 crash and restart: exclusive parts, exact use table, indices in range, no record ahead of the disk, coverage of the parts by the scans, and completion of every run without faults |
| `download_scan_ends` (violation) | the scan does not wrap around: after failures threads end with parts unfinished before their start, and success is reported |
| `download_spin` (violation) | a thread scans for ever with the lock its part's owner needs to free it |
| `download_status_race` (violation) | two threads seek, then one writes: its record lands in the slot of the other, and the client dies before that one writes; the resumed download lacks a part |
| `client_session` | a user's commands, a server that goes away, downloads one after the other in a process and over several, a thread that does not start or a connection that fails, a crash, a file that changes: the status file is there exactly while a download is unfinished, what it claims is on disk while the file is the same, success is honest in runs without failed connections, and a client told to quit ends |
| `reactor_safety` | 2 threads, 2 connections, every way through `handle`, 1 fault: one handler per session, no event of a freed listener, buffers lent to one session, nobody forgotten but by a fault, no session asleep that could go on, transfers that add up |
| `reactor_service` | the same without faults, with liveness: requests answered, connections accepted, sessions of gone clients freed. Deadlock is checked |
| `wire_framing` | 2 downloads on a connection, pieces in any directions, a send buffer that fills, 1 fault: nothing left over and room for every reply, however bytes arrive; requests framed, data in place, and every part arriving or the connection ending, while the packets these depend on arrive whole. Deadlock is checked |
| `wire_split_reply` (violation) | a reply in two pieces: bytes of the file are taken for the reply |
| `file_in_place` | where raw reads and writes go where the last seek meant them to, and how far a resumed status file can grow where they do not |
| `file_serve` (violation) | a shared file shorter than a stdio block is never sent |

### Bounds

* `TotalSize = 5`, `PartSize = 2`: two parts and a tail, so starting points,
  the last part and an odd length all differ. Two threads and two faults are
  enough for a part to be given up and met again; one crash for a resume. The
  violations need 1 or 2 threads.
* Client: 2 threads, `TotalSize = 3` and `PartSize = 2`, one fault, one crash; three
  commands, so that a download can be interrupted, gone on with and followed by
  another (or by quit), and one change of the file, at any time.
* Reactor: two connections and two threads, so both can wait on one event, and
  `SendSpace = 1`, so that a transfer of 2 units pauses for EPOLLOUT. `MaxEvents`
  2 or 3. Threads are symmetric in the safety run (no liveness there).
* Wire: a header of 2, a unit of 3, a buffer of 5; requests of 2 and 4 and parts
  of 1 and 4 are shorter and longer than a unit, the order of the code's 4, 256
  and 64 MB. Two requests: one whose remains could disturb the next. `SendSpace = 5`
  is one reply exactly, the least the code can work with.
* FileStream: blocks of 4, sizes around 0, 1, 2 and over 2 blocks, 1 to 8 records
  (within a block, a whole one, over it), parts of two blocks, four seeks: one to
  read or create, and enough to leave a block, come back and leave again.

`MaxFaults`, `MaxCrashes`, `MaxRequests`, `MaxSeeks`, `MaxCommands`, `MaxChanges` are
the only caps. CHECK_DEADLOCK
is off where a model really stops: when its faults or seeks are used up, a thread
spins for ever, or a client is never answered.

### Fairness

* `DownloadManager!FairSpec`: weak fairness of the main thread and of each
  thread's own steps. The scheduler runs every thread that can run; a blocking
  read returns because the server answers. Faults and crashes have no fairness.
* `Reactor!FairSpec`: weak fairness of each thread and of each client's reading.
  A client owes nothing else: it may never connect, ask or close.
* `Wire!FairSpec`: bytes arrive and both ends run.
* `Client!ClientFairSpec`: weak fairness of the server's answer (`Serve`) and of
  `handleResponse`. That the user types, or that a download ends, is not assumed:
  `ToldToQuit` needs neither.

### Properties with a condition

Several properties hold under a condition, stated in them, which is where the
code draws the line: `EveryPartCovered` and `CleanSessionCompletes` need a run of
`downloadWait` without faults; `LiveIsWatched` allows one forgotten connection per
fault (a failed `epoll_ctl` is only logged), and `WorkIsTakenUp` leaves these out;
`RequestsFramed`, `ReplyThenData` and `PartArrives` need
the packets of a direction, or of both, to arrive whole (`NothingLeftOver` and
`RepliesWhole` do not); `SuccessHonest` needs a run without a failed connection, over
the partition, of an unchanged file; `BelievedIfSame` an unchanged file;
`LargeFilesServed` needs a block, `PartsInPlace` at most one seek into the middle of a
block. The violation runs show the other side of each line.

## 4. The proofs

Seven modules of proofs hold for every value of the constants that satisfies the
assumptions of the modules they are about (`ConstantsAssumption`,
`ClientAssumption`, `SessionAssumption`, `NoneAssumption`, `RequestAssumption`,
`ReactorAssumption`, `WireAssumption`, `FileAssumption`, `PartLenAssumption`); TLC
evaluates each of these in a run.

| Module | Theorems |
|---|---|
| `DownloadManagerProofs` | `TypeCorrect`, `IdsStayInRange`, `PartsAreExclusive`, `UsingIsExact`, `ProgressIsSafe`, `PartsStayCovered`, `CleanSessionsComplete`, `UndisturbedSuccess`, `KeepsPromise` (with no faults and no crashes, `Spec => Promise!Spec`) |
| `ClientProofs` | `ClientTypeCorrect`, `StatusFileKept`, `ResumedDataIsThere`, `SuccessIsHonest` (an action property) |
| `ReactorProofs` | `HandlersAreAlone`, `EventsStayValid`, `BuffersAreLent`, `NobodyIsForgotten` |
| `TransferProofs` | `ReactorTypeCorrect`, `WritersHaveFiles`, `TransfersAddUp`, `HandlersFindRoom`, `WorkIsNeverLeft`, `NoRequestIsLost` (for requests that are whole) |
| `WireProofs` | `StreamsInvariant`, `WireTypeCorrect`, `RequestsStayFramed`, `DataFollowsReply`, `NothingIsLeftOver`, `RepliesGoWhole`, `NobodyWaitsInVain` |
| `FileStreamProofs` | `LargeFilesAreServed`, `NewRecordsInPlace`, `RecordsReadBack`, `FileStates`, `FileTypeCorrect`, `StatusGrowsByOneRecord`, `ReceivedPartsInPlace` |
| `PacketFormatProofs` | `LengthReadBack`, `PacketReadBack`, `RangeCheckIsExact` |

**DownloadManager.** The inductive invariant is `IInv`, the conjunction of

* `Typed`: types, `IdsInRange`, and which labels hold a part. They need each
  other: a write extends the status file by one record only because the
  descriptor is never beyond its end, and a record indexes `usingOffsets` only
  because its id is in range, also when it was read from a file that a crash left;
* `Exclusion`: the use table and the parts threads hold say the same;
* `ProgressNeverAhead`: preserved because data is written before the record, and
  a record never claims more than its thread received;
* `Diligent`: without a fault a thread that holds a part has work left and an
  open connection, so it finishes the part before it frees it;
* `EveryPartCovered`: every unfinished part has a thread at or before it that
  has not ended. It is needed because the scan does not wrap around: when a
  thread moves on from a finished part it starts behind it, and only because the
  parts between are finished or held is nothing passed over;
* `Undisturbed`: without fault or crash the part table is the partition and
  what is finished is on disk, from which `UnitInPart` (every unit belongs to a
  part) gives the whole file.

**Reactor.** `IInv == Shape /\ Places /\ Fresh /\ OneHandler /\ NoDanglingEvent /\
BufferOfHandler`: `Shape` has the functions' domains, `Places` ties a thread's
label to the event it holds, `Fresh` says that what is not yet accepted has no
listener. `OneHandler` is the heart: an entry is armed, queued, in one thread's
batch or in its hands, and in one of these places only; then a freed listener is
nowhere. `NobodyIsForgotten` counts: every step leaves the set `Forgotten` as it was
or smaller, and a failed `attach` or `modifyTo`, which counts as a fault, adds the
one connection it failed for.

**Client.** `CInv` takes `Typed`, `Exclusion`, `Diligent` and `EveryPartCovered`
over from DownloadManager, whose lemmas about its steps are cited for a
`DownloadStep`; every other step of the client leaves the download `Apart`. To
them come `StatusFileIffUnfinished`, `BelievedIfSame` (which weakens
`ProgressNeverAhead` to an unchanged file) and `Between`: a prompt lies outside
`downloadWait`. `Undisturbed` does not survive crashes, so `SuccessIsHonest`
rests on what the record claims instead: a run without failed connections ends
with every part finished, and what is finished is on disk.

**Transfers.** `TInv == Values /\ Follows /\ SomethingToRead /\ WritingHasFile /\
Dialogue`, preserved together with ReactorProofs' `IInv`. `Follows` ties the step
a thread is at, and what epoll waits for, to the session's status; with
`SomethingToRead` (an event queued for reading has something to read) it excludes
the handler that finds nothing. `Dialogue` says, per connection, that there is one
request or one answer at a time and that what the client is still `Due` is
what is on its way and what the session has `ToSend`. While a session has an END
ahead of it the sum may fall short, which is why that is an inequality there.
That connections do not disturb each other is `OneHandler` again.
`WorkIsNeverLeft` puts these together with `Polled` (epoll queues what it can report,
a lemma about the kernel's model): an entry is armed for what its session's status
says, and a session that writes has no request to read, since a client whose
request is on its way has taken all of the last transfer, so that the socket has
room and EPOLLOUT comes. `NoRequestIsLost` adds `Somewhere`: the request is in the
socket or in a hand, the answer on its way, or the session has ended.

**Wire.** `WInv == Values /\ Turns /\ UpStream /\ DownStream /\ ReplyThenData`. A
request is one stream of bytes, the reply and the data behind it another. For
each end there is a place `b` of its stream at which it called `Socket::read`: what
the buffer has from this call, what is in the socket and what is on the wire are
the bytes from `b` on, without a gap, and go no further than the stream does. Cuts
do not disturb that; what they disturb is where `b` is. So `UpWhole` and
`DownWhole` say, for a direction whose packets arrive whole, that a call is made
where the packet's part begins: `b` is 0 for a length, `HeaderLen` for a body,
and behind the reply and what was placed for data. From there `LengthField` gives
the length that was written, and the content is what was sent. `Turns` says that
only one side has anything to say: while a request is unanswered nothing comes
down, and while the client is between parts there is nothing anywhere. That is
what makes `NothingLeftOver` and `RepliesWhole` hold even when packets arrive in
pieces: then the client has lost bytes, so it waits for more than will come, and
ends with the connection instead of using it again. `Owing` marks the states in
which not one byte of the reply or its data has been lost: what has arrived, what is
on the wire and what the server has yet to send then add up to the whole stream.
From that equation `NobodyWaitsInVain` follows: a client that waits with nothing on
its way would have had all of it, and asks for no more than that. The runs check
it only through `PartArrives` and the absence of deadlock.

**Files.** `FInv` says for each user of File where the descriptor and the stream
stand: for a served file of a block or more, `getSize` leaves the descriptor at the
start and nothing buffered (the last block is not the first), and the one seek
that follows reads up to where it aims and no further; in a file opened for
writing only nothing is buffered, so a seek moves the descriptor; a resumed
status file is read through the stream alone. `GInv == FInv /\ Values /\ OldRecords
/\ Parts` goes on where raw writes follow reads of the stream. The buffer holds
a block at most, all of it in the file (`Values`). A resumed status file of one
block is in the buffer whole, so every seek stays there and every write is
appended; in a longer one the buffer ends at the end of a block at most, which a
write extends by one record. In a destination the buffer is empty until a seek goes
to the middle of a block; then it holds units of one part that the part already had,
and a seek to the start of another block is never among them. The lemmas on
`BlockStart` (`Division`, `Quotient`, `StartsInOrder`, `PartStarts`) carry the
arithmetic of a block of any size, which is not linear.

**Packets.** `PacketReadBack` cuts the packet into its first four bytes and the
rest, and follows both into the read buffer; that the digits of a 32-bit number
give it back (`LengthReadBack`) rests on the fourth digit being the last.
`RangeCheckIsExact` needs a file of less than 2^63 bytes, which `off_t` ensures.

**Only model-checked:** what is beyond the prover, which does neither liveness
under fairness nor ENABLED: `DownloadEnds`, `ToldToQuit`, `RequestsAnswered`,
`ConnectionsAccepted`, `SessionsReclaimed`, `PartArrives` (`NobodyWaitsInVain`
excludes the states in which it would fail for good), the liveness half of
`ImplementsResumableDownload` (its safety half is `KeepsPromise`), and the absence
of deadlock. What the violation runs refute is no theorem. Every other property of
the runs is proved.

## 5. What the runs found

1. `DownloadManager.cpp:124`: the scan goes from `startPart` to the last part.
   After connection failures all threads may be past an unfinished part; they
   end, the status file goes, and success is printed for a file with a hole.
2. `DownloadManager.cpp:121`: the scan repeats with `partsLock` held while every
   unfinished part is in use. An owner that loses its connection cannot free its
   part, and the download hangs in a busy loop.
3. `DownloadManager.cpp:97`: seek and write of the shared status file are not
   atomic; a record can land in another part's slot, and a resumed download
   lacks that part.
4. `Socket.cpp:118`: every `::read` asks for `min(limit, 256)`; after a short
   read it takes bytes behind the packet. A reply in two pieces loses the first
   bytes of the part.
5. `File.cpp:31`: for files below a stdio block `getSize` and `seek` leave the
   descriptor at the end, `sendfile` sends nothing, and the session ends.

Seen while modelling, with no run of their own: a crash between creating and
writing the status file leaves an empty one, which means "nothing left to do" to
the next run, and success is reported with nothing received
(`DownloadManager.cpp:62`; the model has the steps, `CreateStatusFile`, `Crash`,
`Restart`, `Resume`, and `SuccessMeansComplete` fails with one thread, no fault and
one crash; `StatusKeepsEveryPart` leaves the empty file out, so that
`download_status_race` is about the race); nothing ties a status file to the file it
is about, and if that has changed since, or the destination was replaced, the
next run goes on all the same (`DownloadManager.cpp:33`; `ChangeFile` is the step,
and `BelievedIfSame` and `SuccessHonest` leave it out); a thread that
cannot be started makes `joinAll` join a null handle; `accept`
treats an error as an empty backlog, which on the edge-triggered socket leaves
connections waiting for the next client (`Server.cpp:13`; the model has the step,
`AcceptFails`, and `ConnectionsAccepted` fails with it); a failed `attach` or
`modifyTo` orphans a connection (`LiveIsWatched`: that one and no other); a part
whose reply never has the size asked for, as when the remote file has shrunk, is
asked for again without end (`DownloadManager.cpp:183`; faults are bounded here, so
no run shows it); the updates of a resumed status file of one block are
appended behind it, those of a longer one may overwrite the first record of the
next block (`StatusGrowthBounded`: they lose no place, and the file grows to one
record past the end of the last block at most); `slice` does not assert that its
start is before its end, which its two callers see to; a second seek into the
middle of a block misplaces data (`PartsInPlace`); the comments of `Protocol.h:30`
and 32 say that offset and size are ignored for now, but `Session.cpp` honours
both; a `DOWNLOAD` packet too short for its header gets no reply; `validatePath`
does not look at the result of `realpath`.

## 6. Limits

### Not modelled

* The terminal, printing, logging and the command line, and path checking (a path
  is accepted or refused) and `popen`: text in and out, with no state.
* The server's entry point: it parses options, ignores SIGPIPE (used in Session)
  and runs the server.
* `Int`, `LittleEndianByte`, `next32Pow2`, `ByteBuffer::hex` and `<<`: neither
  program calls them. `StringUtil::split` and `endsWith` tell commands apart, which
  are values of their own in the models.
* `externals/json`: a vendored library no program of the repository calls. It is
  nine tenths of the repository's lines.
* The raw socket sniffer (`raw_socket.cpp`): a loop that prints packets.
* The flag `active` of the reactor (a thread that reads it late is killed anyway);
  on the command connection, replies of a type the server does not send there.

Assumptions: a thread's read buffer is as large as a part (64 MB both), so an
undisturbed read takes all that is left; the status file is shorter than a
stdio block (128 records, a file of 8 GB); in DownloadManager the destination's
seeks go where they mean to, which FileStream shows while a thread goes on in the
middle of a block once at most; in Session a shared file has at least a block, and
an empty send buffer takes any reply whole (the text of `ls` may be 64 KB, and a
small buffer would cut it); `fseek` behaves as in glibc; a record's `rest`, read in
the scan (`DownloadManager.cpp:126`) without the owner's knowledge, is read and
written in one piece.

## 7. Plan

Done in this order, the most important first: DownloadManager with its proofs,
Session and Reactor with theirs, Wire, FileStream, Client with its proofs, the
transfers' proofs, those of new status files, shared files and packets, the byte
streams', and those of resumed status files and destinations.

What could come next:

1. The destination's seeks in DownloadManager: a stream per thread, so that a
   part gone on with in mid-block a second time is written where FileStream says.
2. A size that changes with the file (`TotalSize` as a variable of Client), which
   makes a status file disagree with the partition.
