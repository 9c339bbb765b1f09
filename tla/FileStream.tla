------------------------------ MODULE FileStream ------------------------------
(***************************************************************************)
(* File, and the places its users' bytes go to.                            *)
(*                                                                         *)
(* A File seeks and reads with stdio (fseek, ftell, fread) but writes, and *)
(* is sent, through the descriptor below (::write, sendfile on getFd()).   *)
(* POSIX leaves the descriptor's offset open after an fseek; where it      *)
(* stands is the C library's business, modelled as glibc's fileops.c has   *)
(* it: a stream that may read seeks to the start of a block, reads on from *)
(* there to the place it wants (exactly to it if its buffer was empty, a   *)
(* whole block if not), and stays in its buffer if the place is there.     *)
(*                                                                         *)
(* The File's four users: Session sends a file (mode "rb"); the status     *)
(* file is written anew ("wb") or resumed from ("r+b"); a download thread  *)
(* writes the parts it receives ("r+b").  Units are status records, or     *)
(* pieces of a file; a stdio buffer holds Block of them.                   *)
(***************************************************************************)
EXTENDS Integers

CONSTANTS
  Users,      \* which users to look at
  Block,      \* units in a stdio buffer (st_blksize)
  FileSizes,  \* sizes of files the server shares
  Records,    \* numbers of records a status file may have
  NumParts,   \* parts of the file a download thread writes
  PartLen,    \* their length: a multiple of Block
  MaxSeeks    \* bound: requests, or status updates

ASSUME FileAssumption ==
  /\ Users \subseteq {"serve", "new status", "old status", "download"}
  /\ Block \in Nat \ {0}
  /\ FileSizes \subseteq Nat /\ Records \subseteq Nat \ {0}
  /\ NumParts \in Nat \ {0}
  /\ PartLen \in Nat \ {0}
  /\ MaxSeeks \in Nat

ASSUME PartLenAssumption == PartLen % Block = 0

VARIABLES
  user,      \* who uses the file
  file,      \* the File: stream and descriptor
  pc,        \* where the user is
  aim,       \* where the user means its next byte to be read or written
  left,      \* units it still reads or writes there
  count,     \* status file: records it has, as far as its user knows
  received,  \* download: units received of each part
  midBlock,  \* history: earlier seeks of a "download" to the middle of a block
  seeks      \* history: seeks so far

vars == <<user, file, pc, aim, left, count, received, midBlock, seeks>>

LeastOf(a, b) == IF a <= b THEN a ELSE b

-----------------------------------------------------------------------------
(***************************************************************************)
(* File.  `size` and `fd` are the kernel's: the file's length and the      *)
(* descriptor's offset.  The stream's buffer holds the `held` units before *)
(* `top`, and the next unit to read from it is its number `ptr`.           *)
(***************************************************************************)
Open(mode, n) == [mode |-> mode, size |-> n, fd |-> 0, top |-> 0, held |-> 0, ptr |-> 0]

Buffered(f, p) == f.top - f.held <= p /\ p < f.top

\* lseek, and the buffer is emptied.
SeekFd(f, p) == [f EXCEPT !.fd = p, !.top = p, !.held = 0, !.ptr = 0]

\* fseek(p, SEEK_SET), if the place is in the buffer, and if not.
SeekInBuffer(f, p) == [f EXCEPT !.fd = f.top, !.ptr = p - (f.top - f.held)]

BlockStart(p) == p - (p % Block)

SeekByBlock(f, p) ==
  LET start == BlockStart(p)
      want  == IF f.held = 0 THEN p - start ELSE Block
      got   == LeastOf(want, f.size - start)
  IN  IF p = start \/ f.size - start < p - start
      THEN SeekFd(f, p)
      ELSE [f EXCEPT !.fd = start + got, !.top = start + got, !.held = got,
                     !.ptr = p - start]

Fseek(f, p) ==
  IF f.mode = "wb" THEN SeekFd(f, p)
  ELSE IF Buffered(f, p) THEN SeekInBuffer(f, p)
  ELSE SeekByBlock(f, p)

\* Where the stream stands: what fread reads next.
Tell(f) == f.top - f.held + f.ptr

\* File::seek.
Seek_Never(f, p) == f
Seek_FromHere(f, p) == Fseek(f, Tell(f) + p)
Seek(f, p) == Fseek(f, p)

\* fseek to the end, ftell, fseek to the start.
GetSize_StaysAtEnd(f) == Fseek(f, f.size)
GetSize(f) == Fseek(Fseek(f, f.size), 0)

\* fread of one unit: from the buffer, which is filled first if nothing is left.
Read(f) ==
  IF f.ptr < f.held THEN [f EXCEPT !.ptr = @ + 1]
  ELSE LET got == LeastOf(Block, f.size - f.fd)
       IN  [f EXCEPT !.fd = @ + got, !.top = @ + got, !.held = got, !.ptr = 1]

\* ::write of `n` units.
Write(f, n) ==
  [f EXCEPT !.fd = @ + n, !.size = IF f.fd + n > @ THEN f.fd + n ELSE @]

\* sendfile of `n` units.
Send(f, n) == [f EXCEPT !.fd = @ + n]

-----------------------------------------------------------------------------
Init ==
  /\ user \in Users
  /\ file = Open("closed", 0)
  /\ pc = "start"
  /\ aim = 0 /\ left = 0 /\ count = 0
  /\ received = [i \in 0 .. NumParts - 1 |-> 0]
  /\ midBlock = 0 /\ seeks = 0

Goto(label) == pc' = label

\* The bound on seeks.
MaySeek == seeks < MaxSeeks /\ seeks' = seeks + 1

SeekFor(f, p, n) ==
  /\ file' = Seek(f, p)
  /\ aim' = p /\ left' = n
  /\ Goto("io")

(***************************************************************************)
(* Session: open, getSize, seek to the offset asked for, sendfile.         *)
(***************************************************************************)
Serve ==
  /\ user = "serve" /\ pc = "start"
  /\ \E n \in FileSizes : \E p \in 0 .. n :
       \E len \in 0 .. n - p : SeekFor(GetSize(Open("rb", n)), p, len)
  /\ MaySeek
  /\ UNCHANGED <<user, count, received, midBlock>>

\* One sendfile, which stops at the end of the file.
SendPart ==
  /\ user = "serve" /\ pc = "io"
  /\ \E n \in 1 .. left :
       /\ file.fd + n <= file.size
       /\ file' = Send(file, n)
       /\ aim' = aim + n /\ left' = left - n
  /\ UNCHANGED <<user, pc, count, received, midBlock, seeks>>

\* All is sent, or sendfile is at the end of the file.
SendEnds ==
  /\ user = "serve" /\ pc = "io"
  /\ left = 0 \/ file.fd >= file.size
  /\ Goto("end")
  /\ UNCHANGED <<user, file, aim, left, count, received, midBlock, seeks>>

(***************************************************************************)
(* DownloadManager: the status file.                                       *)
(***************************************************************************)
CreateStatus_ToReadBack ==
  /\ user = "new status" /\ pc = "start"
  /\ \E n \in Records :
       /\ file' = Write(Open("r+b", 0), n)
       /\ count' = n
  /\ Goto("ready")
  /\ UNCHANGED <<user, aim, left, received, midBlock, seeks>>

CreateStatus ==
  /\ user = "new status" /\ pc = "start"
  /\ \E n \in Records :
       /\ file' = Write(Open("wb", 0), n)
       /\ count' = n
  /\ Goto("ready")
  /\ UNCHANGED <<user, aim, left, received, midBlock, seeks>>

\* Resume: count the records, then read one after the other.
ResumeStatus ==
  /\ user = "old status" /\ pc = "start"
  /\ \E n \in Records :
       /\ file' = GetSize(Open("r+b", n))
       /\ count' = n
  /\ Goto("resume")
  /\ UNCHANGED <<user, aim, left, received, midBlock, seeks>>

SeekOldRecord ==
  /\ pc = "resume" /\ aim < count
  /\ file' = Seek(file, aim)
  /\ Goto("read")
  /\ UNCHANGED <<user, aim, left, count, received, midBlock, seeks>>

ReadOldRecord ==
  /\ pc = "read"
  /\ file' = Read(file)
  /\ aim' = aim + 1
  /\ Goto(IF aim' < count THEN "resume" ELSE "ready")
  /\ UNCHANGED <<user, left, count, received, midBlock, seeks>>

\* updateDownloadStatus (of one thread at a time): seek to the record, write it.
SeekRecord ==
  /\ user \in {"new status", "old status"} /\ pc = "ready"
  /\ \E id \in 0 .. count - 1 : SeekFor(file, id, 1)
  /\ MaySeek
  /\ UNCHANGED <<user, count, received, midBlock>>

WriteRecord ==
  /\ user \in {"new status", "old status"} /\ pc = "io"
  /\ file' = Write(file, 1)
  /\ left' = 0
  /\ Goto("ready")
  /\ UNCHANGED <<user, aim, count, received, midBlock, seeks>>

(***************************************************************************)
(* DownloadThread: the destination file, opened and allocated.  Other      *)
(* threads receive other parts of the parts, through Files of their own.   *)
(***************************************************************************)
OpenDestination ==
  /\ user = "download" /\ pc = "start"
  /\ file' = Open("r+b", NumParts * PartLen)
  /\ \E r \in [DOMAIN received -> 0 .. PartLen] : received' = r
  /\ Goto("ready")
  /\ UNCHANGED <<user, aim, left, count, midBlock, seeks>>

RequestPart_WholePart ==
  /\ user = "download" /\ pc = "ready"
  /\ \E i \in DOMAIN received :
       /\ received[i] < PartLen
       /\ SeekFor(file, i * PartLen + received[i], PartLen)
  /\ midBlock' = IF aim' % Block = 0 THEN midBlock ELSE midBlock + 1
  /\ MaySeek
  /\ UNCHANGED <<user, count, received>>

RequestPart ==
  /\ user = "download" /\ pc = "ready"
  /\ \E i \in DOMAIN received :
       /\ received[i] < PartLen
       /\ SeekFor(file, i * PartLen + received[i], PartLen - received[i])
  /\ midBlock' = IF aim' % Block = 0 THEN midBlock ELSE midBlock + 1
  /\ MaySeek
  /\ UNCHANGED <<user, count, received>>

\* What was received is written; the connection may break in mid-part.
ReceivePart ==
  /\ user = "download" /\ pc = "io"
  /\ \E n \in 1 .. left :
       /\ file' = Write(file, n)
       /\ received' = [received EXCEPT ![aim \div PartLen] = @ + n]
       /\ aim' = aim + n /\ left' = left - n
  /\ UNCHANGED <<user, pc, count, midBlock, seeks>>

LeavePart ==
  /\ user = "download" /\ pc = "io"
  /\ Goto("ready")
  /\ UNCHANGED <<user, file, aim, left, count, received, midBlock, seeks>>

Next ==
  \/ Serve \/ SendPart \/ SendEnds
  \/ CreateStatus \/ ResumeStatus \/ SeekOldRecord \/ ReadOldRecord \/ SeekRecord \/ WriteRecord
  \/ OpenDestination \/ RequestPart \/ ReceivePart \/ LeavePart

Spec == Init /\ [][Next]_vars

-----------------------------------------------------------------------------
(***************************************************************************)
(* Properties.                                                             *)
(***************************************************************************)
\* Every variable has its type, and the stream's buffer holds a block at most,
\* all of it from the file.
TypeOK ==
  /\ user \in Users
  /\ pc \in {"start", "resume", "read", "ready", "io", "end"}
  /\ file.mode \in {"closed", "rb", "r+b", "wb"}
  /\ file.size \in Nat /\ file.fd \in Nat /\ file.top \in Nat
  /\ file.held \in 0 .. Block /\ file.ptr \in 0 .. file.held
  /\ file.held > 0 => file.top <= file.size
  /\ aim \in Nat /\ left \in Nat /\ count \in Nat
  /\ received \in [0 .. NumParts - 1 -> 0 .. PartLen]
  /\ midBlock \in Nat /\ seeks \in 0 .. MaxSeeks

\* Raw reads and writes happen where the last File::seek meant them to.
InPlace == pc = "io" => file.fd = aim

\* A file of a block or more is sent from the offset asked for, and all that
\* was asked for, although getSize (Session.cpp 125) has moved the stream.
LargeFilesServed ==
  user = "serve" /\ file.size >= Block => InPlace /\ (pc = "end" => left = 0)

\* The reply is "followed by binary data" (Protocol.h 36), "the size of the
\* data" (38) of them: so it is for every file.
FilesServed == user = "serve" /\ pc = "end" => left = 0

\* A status file written by this download is updated in place.
NewStatusInPlace == user = "new status" => InPlace

\* A resumed download reads back every record of the status file, each at its
\* place, however the blocks of the stream's buffer fall.
StatusReadBack == pc = "read" => Tell(file) = aim

\* Whatever goes wrong with the updates of a resumed status file, it loses no
\* record's place, and grows to one record past the end of the block that holds
\* its last record at most: by one record, if all fit in one block.
LastBlockEnd == IF count <= Block THEN count ELSE ((count - 1) \div Block + 1) * Block

StatusGrowthBounded ==
  user = "old status" /\ pc \in {"io", "ready"} => file.size \in count .. LastBlockEnd + 1

\* A thread's parts are written in place, as long as it has gone on in the
\* middle of a block once at most.
PartsInPlace == user = "download" /\ midBlock <= 1 => InPlace
=============================================================================
