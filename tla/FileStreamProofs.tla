---------------------------- MODULE FileStreamProofs ----------------------------
(***************************************************************************)
(* Where File's raw writes and sends go, for every block size, file size,  *)
(* number of records and number of seeks: right for a status file that is  *)
(* new, for a shared file of a block or more, and for a destination while  *)
(* a thread goes on in the middle of a block once at most; not far off for *)
(* a resumed status file; and what File reads is what it was asked to.     *)
(***************************************************************************)
EXTENDS FileStream, TLAPS

Stream == [mode : {"closed", "rb", "r+b", "wb"}, size : Nat, fd : Nat, top : Nat, held : Nat, ptr : Nat]

\* Reading stays within the file, and the descriptor at the buffer's end.
Within(f) == f \in Stream /\ f.fd = f.top /\ f.top <= f.size

LEMMA Remainder ==
  ASSUME NEW a \in Nat, NEW b \in Nat \ {0}
  PROVE  a % b \in 0 .. b - 1 /\ a % b <= a /\ (a < b => a % b = a)
OBVIOUS

LEMMA Blocks ==
  ASSUME NEW p \in Nat
  PROVE  /\ BlockStart(p) \in Nat /\ BlockStart(p) <= p /\ p < BlockStart(p) + Block
         /\ p < Block => BlockStart(p) = 0
<1>1. Block \in Nat \ {0}
  BY FileAssumption
<1>2. p % Block \in 0 .. Block - 1 /\ p % Block <= p /\ (p < Block => p % Block = p)
  BY <1>1, Remainder
<1> QED BY <1>1, <1>2 DEF BlockStart

\* The three ways an fseek goes.
LEMMA SeekFdMoves ==
  ASSUME NEW f \in Stream, NEW p \in Nat
  PROVE  LET g == SeekFd(f, p)
         IN  /\ g \in Stream /\ g.mode = f.mode /\ g.size = f.size
             /\ g.fd = p /\ g.top = p /\ g.held = 0 /\ g.ptr = 0
BY DEF SeekFd, Stream

LEMMA SeekInBufferMoves ==
  ASSUME NEW f \in Stream, NEW p \in Nat, Buffered(f, p)
  PROVE  LET g == SeekInBuffer(f, p)
         IN  /\ g \in Stream /\ g.mode = f.mode /\ g.size = f.size
             /\ g.fd = f.top /\ g.top = f.top /\ g.held = f.held
             /\ g.ptr = p - (f.top - f.held)
<1>1. f.top \in Nat /\ f.held \in Nat
  BY DEF Stream
<1>2. p - (f.top - f.held) \in Nat
  BY <1>1 DEF Buffered
<1> QED BY <1>1, <1>2 DEF SeekInBuffer, Stream

LEMMA SeekByBlockMoves ==
  ASSUME NEW f \in Stream, NEW p \in Nat
  PROVE  LET g == SeekByBlock(f, p)
         IN  \/ g = SeekFd(f, p)
             \/ /\ g \in Stream /\ g.mode = f.mode /\ g.size = f.size
                /\ g.held \in Nat /\ g.held <= f.size - BlockStart(p)
                /\ g.held = LeastOf(IF f.held = 0 THEN p - BlockStart(p) ELSE Block,
                                    f.size - BlockStart(p))
                /\ BlockStart(p) < p /\ p <= f.size
                /\ g.top = BlockStart(p) + g.held /\ g.fd = g.top
                /\ g.ptr = p - BlockStart(p)
<1>1. BlockStart(p) \in Nat /\ BlockStart(p) <= p /\ Block \in Nat
  BY Blocks, FileAssumption
<1>2. CASE p = BlockStart(p) \/ f.size - BlockStart(p) < p - BlockStart(p)
  BY <1>2 DEF SeekByBlock
<1>3. CASE ~(p = BlockStart(p) \/ f.size - BlockStart(p) < p - BlockStart(p))
  <2>1. f.size \in Nat /\ f.held \in Nat
    BY DEF Stream
  <2>2. PICK got \in Nat :
          got = LeastOf(IF f.held = 0 THEN p - BlockStart(p) ELSE Block, f.size - BlockStart(p))
    BY <1>1, <1>3, <2>1 DEF LeastOf
  <2>3. got <= f.size - BlockStart(p) /\ p <= f.size /\ BlockStart(p) < p
    BY <1>1, <1>3, <2>1, <2>2 DEF LeastOf
  <2>4. PICK to \in Nat, at \in Nat : to = BlockStart(p) + got /\ at = p - BlockStart(p)
    BY <1>1
  <2>5. SeekByBlock(f, p) = [f EXCEPT !.fd = to, !.top = to, !.held = got, !.ptr = at]
    BY <1>3, <2>2, <2>4 DEF SeekByBlock
  <2>6. /\ SeekByBlock(f, p) \in Stream
        /\ SeekByBlock(f, p).mode = f.mode /\ SeekByBlock(f, p).size = f.size
        /\ SeekByBlock(f, p).fd = to /\ SeekByBlock(f, p).top = to
        /\ SeekByBlock(f, p).held = got /\ SeekByBlock(f, p).ptr = at
    BY <2>5 DEF Stream
  <2> QED BY <2>2, <2>3, <2>4, <2>6
<1> QED BY <1>2, <1>3

LEMMA SeekMoves ==
  ASSUME NEW f \in Stream, NEW p \in Nat
  PROVE  Seek(f, p) \in Stream /\ Seek(f, p).mode = f.mode /\ Seek(f, p).size = f.size
<1>1. Fseek(f, p) \in {SeekFd(f, p), SeekByBlock(f, p)} \/ (Buffered(f, p) /\ Fseek(f, p) = SeekInBuffer(f, p))
  BY DEF Fseek
<1> QED BY <1>1, SeekFdMoves, SeekInBufferMoves, SeekByBlockMoves DEF Seek

\* Whatever fseek has in its buffer, the stream is where it was asked to be.
LEMMA SeekTells ==
  ASSUME NEW f \in Stream, NEW p \in Nat
  PROVE  Tell(Seek(f, p)) = p
<1>1. Tell(SeekFd(f, p)) = p
  BY SeekFdMoves DEF Tell
<1>2. Buffered(f, p) => Tell(SeekInBuffer(f, p)) = p
  BY SeekInBufferMoves DEF Tell, Stream
<1>3. Tell(SeekByBlock(f, p)) = p
  BY <1>1, SeekByBlockMoves, Blocks DEF Tell
<1> QED BY <1>1, <1>2, <1>3 DEF Seek, Fseek

\* With nothing in the buffer, the descriptor is there too.
LEMMA SeekEmpty ==
  ASSUME NEW f \in Stream, f.held = 0, NEW p \in Nat
  PROVE  Seek(f, p).fd = p
<1>1. ~Buffered(f, p)
  BY DEF Buffered, Stream
<1>2. SeekFd(f, p).fd = p
  BY SeekFdMoves
<1>3. SeekByBlock(f, p).fd = p
  <2>1. f.size \in Nat /\ BlockStart(p) \in Nat
    BY Blocks DEF Stream
  <2> QED BY <1>2, <2>1, SeekByBlockMoves, Blocks DEF LeastOf
<1> QED BY <1>1, <1>2, <1>3 DEF Seek, Fseek

LEMMA GetSizeMoves ==
  ASSUME NEW n \in Nat, NEW m \in {"rb", "r+b"}
  PROVE  GetSize(Open(m, n)) \in Stream /\ GetSize(Open(m, n)).size = n
<1>1. Open(m, n) \in Stream /\ Open(m, n).size = n
  BY DEF Open, Stream
<1>2. Fseek(Open(m, n), n) \in Stream /\ Fseek(Open(m, n), n).size = n
  BY <1>1, SeekMoves DEF Seek
<1> QED BY <1>1, <1>2, SeekMoves DEF GetSize, Seek

\* getSize leaves an empty buffer behind, if the file has a block.
LEMMA GetSizeEmpties ==
  ASSUME NEW n \in Nat, n >= Block
  PROVE  LET f == GetSize(Open("rb", n))
         IN  f \in Stream /\ f.held = 0 /\ f.size = n
<1> DEFINE f == Open("rb", n)
           g == Fseek(f, n)
<1>1. f \in Stream /\ f.held = 0 /\ f.mode = "rb" /\ f.size = n /\ f.top = 0
  BY DEF Open, Stream
<1>2. Block \in Nat \ {0}
  BY FileAssumption
<1>3. g \in Stream /\ g.mode = "rb" /\ g.size = n
  BY <1>1, SeekMoves DEF Seek
<1>4. ~Buffered(g, 0)
  <2>1. g = SeekFd(f, n) \/ g = SeekByBlock(f, n)
    BY <1>1 DEF Fseek, Buffered
  <2>2. BlockStart(n) \in Nat /\ BlockStart(n) # 0
    BY <1>2, Blocks
  <2>3. ~Buffered(SeekFd(f, n), 0)
    BY <1>1, <1>2, SeekFdMoves DEF Buffered
  <2> QED BY <1>1, <2>1, <2>2, <2>3, SeekByBlockMoves DEF Buffered
<1>5. Fseek(g, 0) = SeekFd(g, 0)
  <2>1. BlockStart(0) = 0
    BY <1>2, Blocks
  <2> QED BY <1>3, <1>4, <2>1 DEF Fseek, SeekByBlock
<1>6. GetSize(f) = SeekFd(g, 0)
  BY <1>1, <1>5 DEF GetSize
<1> HIDE DEF g
<1> QED BY <1>3, <1>6, SeekFdMoves

-----------------------------------------------------------------------------
(***************************************************************************)
(* Each user's File, from one step to the next.                            *)
(***************************************************************************)
Serving ==
  user = "serve" =>
    /\ pc \in {"start", "io", "end"}
    /\ pc # "start" /\ file.size >= Block =>
         /\ file \in Stream /\ aim \in Nat /\ left \in Nat
         /\ file.fd = aim /\ aim + left <= file.size
    /\ pc = "end" /\ file.size >= Block => left = 0

NewStatus ==
  user = "new status" =>
    /\ pc \in {"start", "ready", "io"}
    /\ pc # "start" => file \in Stream /\ file.mode = "wb" /\ count \in Nat
    /\ pc = "io" => file.fd = aim

OldStatus ==
  user = "old status" =>
    /\ pc \in {"start", "resume", "read", "ready", "io"}
    /\ pc = "start" => aim = 0
    /\ pc \in {"resume", "read"} =>
         Within(file) /\ count = file.size /\ aim \in Nat /\ aim < count
    /\ pc = "read" => Tell(file) = aim

Downloading == user = "download" => pc \in {"start", "ready", "io"}

FInv == user \in Users /\ Serving /\ NewStatus /\ OldStatus /\ Downloading

LEMMA InitFInv == Init => FInv
BY DEF Init, FInv, Serving, NewStatus, OldStatus, Downloading

LEMMA WriteMoves ==
  ASSUME NEW f \in Stream, NEW n \in Nat
  PROVE  Write(f, n) \in Stream /\ Write(f, n).mode = f.mode
<1>1. f.fd \in Nat /\ f.size \in Nat
  BY DEF Stream
<1>2. PICK to \in Nat, size \in Nat : /\ to = f.fd + n
                                    /\ size = IF to > f.size THEN to ELSE f.size
  BY <1>1
<1>3. Write(f, n) = [f EXCEPT !.fd = to, !.size = size]
  BY <1>2 DEF Write
<1> QED BY <1>3 DEF Stream

LEMMA SeekWithin ==
  ASSUME NEW f \in Stream, f.top <= f.size, NEW p \in Nat, p <= f.size
  PROVE  Within(Seek(f, p)) /\ Seek(f, p).size = f.size
<1>1. f.size \in Nat /\ f.top \in Nat
  BY DEF Stream
<1>2. Buffered(f, p) => Within(SeekInBuffer(f, p)) /\ SeekInBuffer(f, p).size = f.size
  BY SeekInBufferMoves DEF Within
<1>3. Within(SeekFd(f, p)) /\ SeekFd(f, p).size = f.size
  BY SeekFdMoves DEF Within
<1>4. Within(SeekByBlock(f, p)) /\ SeekByBlock(f, p).size = f.size
  BY <1>1, <1>3, SeekByBlockMoves, Blocks DEF Within
<1> QED BY <1>2, <1>3, <1>4 DEF Seek, Fseek

LEMMA ReadWithin ==
  ASSUME NEW f \in Stream, Within(f)
  PROVE  Within(Read(f)) /\ Read(f).size = f.size
<1>1. Block \in Nat /\ f.size \in Nat /\ f.fd \in Nat /\ f.ptr \in Nat /\ f.top = f.fd
  BY FileAssumption DEF Stream, Within
<1>2. CASE f.ptr < f.held
  BY <1>1, <1>2 DEF Read, Stream, Within
<1>3. CASE ~(f.ptr < f.held)
  <2>1. PICK got \in Nat : got = LeastOf(Block, f.size - f.fd) /\ got <= f.size - f.fd
    BY <1>1 DEF LeastOf, Within
  <2>2. PICK to \in Nat : to = f.fd + got /\ to <= f.size
    BY <1>1, <2>1
  <2>3. PICK next \in Nat :
          Read(f) = [f EXCEPT !.fd = to, !.top = to, !.held = got, !.ptr = next]
    BY <1>1, <1>3, <2>1, <2>2 DEF Read
  <2>4. Read(f) \in Stream /\ Read(f).size = f.size /\ Read(f).fd = to /\ Read(f).top = to
    BY <2>3 DEF Stream
  <2> QED BY <2>2, <2>4 DEF Within
<1> QED BY <1>2, <1>3

LEMMA GetSizeWithin ==
  ASSUME NEW n \in Nat
  PROVE  Within(GetSize(Open("r+b", n))) /\ GetSize(Open("r+b", n)).size = n
<1> DEFINE f == Open("r+b", n)
<1>1. f \in Stream /\ f.size = n /\ f.top = 0
  BY DEF Open, Stream
<1> HIDE DEF f
<1>2. Within(Seek(f, n)) /\ Seek(f, n).size = n
  BY <1>1, SeekWithin
<1>3. Within(Seek(Seek(f, n), 0)) /\ Seek(Seek(f, n), 0).size = n
  BY <1>2, SeekWithin DEF Within
<1> QED BY <1>1, <1>3 DEF GetSize, Seek, f

LEMMA ServeFInv ==
  ASSUME FInv, Serve \/ SendPart \/ SendEnds
  PROVE  FInv'
<1> SUFFICES user = "serve" /\ user' = user /\ Serving'
  BY DEF FInv, NewStatus, OldStatus, Downloading, Serve, SendPart, SendEnds
<1>1. CASE Serve
  <2>1. PICK n \in FileSizes : \E p \in 0 .. n : \E len \in 0 .. n - p :
          SeekFor(GetSize(Open("rb", n)), p, len)
    BY <1>1 DEF Serve
  <2>2. PICK p \in 0 .. n : \E len \in 0 .. n - p : SeekFor(GetSize(Open("rb", n)), p, len)
    BY <2>1
  <2>3. PICK len \in 0 .. n - p : SeekFor(GetSize(Open("rb", n)), p, len)
    BY <2>2
  <2>4. n \in Nat /\ p \in Nat /\ len \in Nat /\ p + len <= n
    <3>1. n \in Nat
      BY FileAssumption
    <3> QED BY <3>1
  <2>5. pc' = "io" /\ aim' = p /\ left' = len /\ file' = Seek(GetSize(Open("rb", n)), p)
    BY <2>3 DEF SeekFor, Goto
  <2>6. file' \in Stream /\ file'.size = n
    BY <2>4, <2>5, GetSizeMoves, SeekMoves
  <2>7. n >= Block => file'.fd = p
    BY <2>4, <2>5, GetSizeMoves, GetSizeEmpties, SeekEmpty
  <2> QED BY <1>1, <2>4, <2>5, <2>6, <2>7 DEF Serve, Serving
<1>2. CASE SendPart
  <2>1. PICK n \in 1 .. left :
          file' = Send(file, n) /\ aim' = aim + n /\ left' = left - n
    BY <1>2 DEF SendPart
  <2>2. pc = "io" /\ pc' = pc /\ user = "serve" /\ file'.size = file.size
    BY <1>2, <2>1 DEF SendPart, Send, FInv, Serving
  <2> QED BY <1>2, <2>1, <2>2 DEF SendPart, Send, FInv, Serving, Stream
<1>3. CASE SendEnds
  BY <1>3 DEF SendEnds, FInv, Serving, Goto, Stream
<1> QED BY <1>1, <1>2, <1>3 DEF Serve, SendPart, SendEnds

LEMMA CreateFInv ==
  ASSUME FInv, CreateStatus \/ ResumeStatus
  PROVE  FInv'
<1>1. CASE CreateStatus
  <2>1. PICK n \in Records : file' = Write(Open("wb", 0), n) /\ count' = n
    BY <1>1 DEF CreateStatus
  <2>2. n \in Nat /\ Open("wb", 0) \in Stream /\ Open("wb", 0).mode = "wb"
    BY FileAssumption DEF Open, Stream
  <2>3. file' \in Stream /\ file'.mode = "wb"
    BY <2>1, <2>2, WriteMoves
  <2> QED BY <1>1, <2>1, <2>2, <2>3
          DEF CreateStatus, Goto, FInv, Serving, NewStatus, OldStatus, Downloading
<1>2. CASE ResumeStatus
  <2>1. PICK n \in Records : file' = GetSize(Open("r+b", n)) /\ count' = n
    BY <1>2 DEF ResumeStatus
  <2>2. n \in Nat /\ n > 0
    <3>1. n \in Nat /\ n # 0
      BY FileAssumption
    <3> QED BY <3>1
  <2>3. Within(file') /\ file'.size = n
    BY <2>1, <2>2, GetSizeWithin
  <2>4. Within(file)'
    BY <2>3 DEF Within, Stream
  <2>5. user = "old status" /\ pc = "start" /\ user' = user /\ pc' = "resume" /\ aim' = aim
    BY <1>2 DEF ResumeStatus, Goto
  <2>6. OldStatus'
    <3>1. aim' = 0 /\ count' = file'.size /\ 0 < count'
      BY <2>1, <2>2, <2>3, <2>5 DEF FInv, OldStatus
    <3>2. Within(file)' /\ aim' \in Nat /\ aim' < count'
      BY <2>4, <3>1
    <3> QED BY <2>5, <3>1, <3>2 DEF OldStatus
  <2> QED BY <2>5, <2>6 DEF FInv, Serving, NewStatus, Downloading
<1> QED BY <1>1, <1>2

\* What FInv says of the reader of a status file.
LEMMA StatusReader ==
  ASSUME FInv, pc \in {"resume", "read"}
  PROVE  /\ user = "old status" /\ Within(file) /\ count = file.size /\ aim \in Nat
         /\ count \in Nat /\ aim < count
<1>1. user \in {"serve", "new status", "old status", "download"}
  BY FileAssumption DEF FInv
<1>2. user = "old status" /\ Within(file) /\ count = file.size /\ aim \in Nat /\ aim < count
  BY <1>1 DEF FInv, Serving, NewStatus, OldStatus, Downloading
<1>3. file.size \in Nat
  BY <1>2 DEF Within, Stream
<1> QED BY <1>2, <1>3

LEMMA ReadStatusFInv ==
  ASSUME FInv, SeekOldRecord \/ ReadOldRecord
  PROVE  FInv'
<1>1. user = "old status" /\ user' = user /\ file \in Stream /\ file.top <= file.size /\ file.size \in Nat
  BY StatusReader DEF SeekOldRecord, ReadOldRecord, Within, Stream
<1>2. Within(file) /\ count = file.size /\ aim \in Nat /\ count \in Nat /\ aim < count
  BY StatusReader DEF SeekOldRecord, ReadOldRecord
<1>3. OldStatus'
  <2>1. CASE SeekOldRecord
    <3>1. file' = Seek(file, aim) /\ aim' = aim /\ count' = count /\ pc' = "read"
      BY <2>1 DEF SeekOldRecord, Goto
    <3>2. aim <= file.size
      BY <1>2
    <3>3. Within(Seek(file, aim)) /\ Seek(file, aim).size = file.size
      BY <1>1, <1>2, <3>2, SeekWithin
    <3>4. Tell(Seek(file, aim)) = aim
      BY <1>1, <1>2, SeekTells
    <3> QED BY <1>2, <3>1, <3>3, <3>4 DEF OldStatus, Within, Tell
  <2>2. CASE ReadOldRecord
    <3>1. /\ file' = Read(file) /\ aim' = aim + 1 /\ count' = count
          /\ pc' = IF aim + 1 < count THEN "resume" ELSE "ready"
      BY <2>2 DEF ReadOldRecord, Goto
    <3>2. Within(Read(file)) /\ Read(file).size = file.size
      BY <1>1, <1>2, ReadWithin
    <3>3. Within(file)' /\ count' = file'.size
      BY <1>2, <3>1, <3>2 DEF Within
    <3>4. aim' \in Nat /\ (pc' = "resume" => aim' < count') /\ pc' \in {"resume", "ready"}
      BY <1>2, <3>1
    <3> QED BY <3>3, <3>4 DEF OldStatus
  <2> QED BY <2>1, <2>2
<1> QED BY <1>1, <1>3 DEF FInv, Serving, NewStatus, Downloading

LEMMA UpdateFInv ==
  ASSUME FInv, SeekRecord \/ WriteRecord
  PROVE  FInv'
<1>1. user \in {"new status", "old status"} /\ user' = user /\ count' = count
  BY DEF SeekRecord, WriteRecord
<1>2. ASSUME user = "new status" PROVE NewStatus'
  <2>1. file \in Stream /\ file.mode = "wb" /\ count \in Nat
    BY <1>2 DEF FInv, NewStatus, SeekRecord, WriteRecord
  <2>2. CASE SeekRecord
    <3>1. PICK id \in 0 .. count - 1 : SeekFor(file, id, 1)
      BY <2>2 DEF SeekRecord
    <3>2. file' = Seek(file, id) /\ aim' = id /\ pc' = "io" /\ id \in Nat
      BY <2>1, <3>1 DEF SeekFor, Goto
    <3>3. Seek(file, id) = SeekFd(file, id)
      BY <2>1 DEF Seek, Fseek
    <3>4. file' \in Stream /\ file'.mode = "wb" /\ file'.fd = aim'
      BY <2>1, <3>2, <3>3, SeekFdMoves
    <3> QED BY <1>1, <2>1, <3>2, <3>4 DEF NewStatus
  <2>3. CASE WriteRecord
    <3>1. file' = Write(file, 1) /\ pc' = "ready"
      BY <2>3 DEF WriteRecord, Goto
    <3> QED BY <1>1, <2>1, <3>1, WriteMoves DEF NewStatus
  <2> QED BY <2>2, <2>3
<1>3. pc' \in {"ready", "io"}
  BY DEF SeekRecord, WriteRecord, SeekFor, Goto
<1> QED BY <1>1, <1>2, <1>3 DEF FInv, Serving, NewStatus, OldStatus, Downloading

LEMMA DownloadFInv ==
  ASSUME FInv, OpenDestination \/ RequestPart \/ ReceivePart \/ LeavePart
  PROVE  FInv'
BY DEF FInv, Serving, NewStatus, OldStatus, Downloading, Goto, OpenDestination, RequestPart,
       SeekFor, ReceivePart, LeavePart

LEMMA NextFInv == FInv /\ [Next]_vars => FInv'
<1> SUFFICES ASSUME FInv, [Next]_vars PROVE FInv'
  OBVIOUS
<1>1. CASE UNCHANGED vars
  BY <1>1 DEF vars, FInv, Serving, NewStatus, OldStatus, Downloading, Tell
<1> QED BY <1>1, ServeFInv, CreateFInv, ReadStatusFInv, UpdateFInv, DownloadFInv DEF Next

LEMMA FileInvariant == Spec => []FInv
<1> QED BY InitFInv, NextFInv, PTL DEF Spec

\* A shared file of a block or more is sent from the offset asked for, whole,
\* although getSize (File.cpp 24-29) has moved the stream before.
THEOREM LargeFilesAreServed == Spec => []LargeFilesServed
<1>1. FInv => LargeFilesServed
  BY DEF FInv, Serving, LargeFilesServed, InPlace
<1> QED BY <1>1, FileInvariant, PTL

\* updateDownloadStatus (DownloadManager.cpp 88-100) puts every record of a
\* status file this process has created in its place.
THEOREM NewRecordsInPlace == Spec => []NewStatusInPlace
<1>1. FInv => NewStatusInPlace
  BY DEF FInv, NewStatus, NewStatusInPlace, InPlace
<1> QED BY <1>1, FileInvariant, PTL

\* A resumed download reads back each record from its place.
THEOREM RecordsReadBack == Spec => []StatusReadBack
<1>1. FInv => StatusReadBack
  BY StatusReader DEF FInv, OldStatus, StatusReadBack
<1> QED BY <1>1, FileInvariant, PTL
-----------------------------------------------------------------------------
(***************************************************************************)
(* What the File holds, user by user.                                      *)
(***************************************************************************)
Fits(f) ==
  /\ f \in Stream /\ f.held <= Block /\ f.ptr <= f.held
  /\ f.held > 0 => f.top <= f.size

Values ==
  /\ Fits(file)
  /\ pc \in {"start", "resume", "read", "ready", "io", "end"}
  /\ aim \in Nat /\ left \in Nat /\ count \in Nat
  /\ received \in [0 .. NumParts - 1 -> 0 .. PartLen]
  /\ midBlock \in Nat /\ seeks \in 0 .. MaxSeeks

\* A status file of a block or less is in the buffer, all of it; of a longer one,
\* no more than up to the end of a block.
OldRecords ==
  user = "old status" /\ pc # "start" =>
    /\ count # 0 /\ file.mode = "r+b"
    /\ count <= Block =>
         \/ file.held = count /\ file.top = count
         \/ pc \in {"resume", "read"} /\ file.held = 0 /\ file.top = 0 /\ aim = 0
    /\ pc \in {"ready", "io"} => file.size \in count .. LastBlockEnd + 1 /\ file.top <= LastBlockEnd
    /\ pc = "io" => file.fd <= LastBlockEnd

PartStart(i) == i * PartLen

Parts ==
  user = "download" =>
    /\ pc = "start" => midBlock = 0
    /\ pc # "start" => file.mode = "r+b" /\ file.size >= NumParts * PartLen
    /\ pc = "io" => \E i \in 0 .. NumParts - 1 :
                      aim = PartStart(i) + received[i] /\ left = PartLen - received[i]
    /\ pc # "start" /\ midBlock = 0 => file.held = 0
    /\ pc # "start" /\ midBlock = 1 /\ file.held > 0 =>
         \E i \in 0 .. NumParts - 1 :
            PartStart(i) <= file.top - file.held /\ file.top <= PartStart(i) + received[i]
    /\ pc = "io" /\ midBlock <= 1 => file.fd = aim

GInv == FInv /\ Values /\ OldRecords /\ Parts

-----------------------------------------------------------------------------
(***************************************************************************)
(* Blocks and parts: multiples of one number, and of two.                  *)
(***************************************************************************)
LEMMA Division ==
  ASSUME NEW a \in Nat, NEW b \in Nat \ {0}
  PROVE  a \div b \in Nat /\ a = (a \div b) * b + (a % b) /\ a % b \in 0 .. b - 1
OBVIOUS

LEMMA TimesGrows ==
  ASSUME NEW i \in Nat, NEW j \in Nat, i < j, NEW b \in Nat
  PROVE  i * b + b <= j * b
<1>1. PICK k \in Nat : j = i + 1 + k
  <2>1. j - i - 1 \in Nat /\ j = i + 1 + (j - i - 1)
    OBVIOUS
  <2> QED BY <2>1
<1>2. (i + 1 + k) * b = i * b + b + k * b
  OBVIOUS
<1>3. k * b \in Nat /\ i * b \in Nat
  OBVIOUS
<1> QED BY <1>1, <1>2, <1>3

LEMMA Quotient ==
  ASSUME NEW i \in Nat, NEW b \in Nat \ {0}, NEW r \in 0 .. b - 1
  PROVE  (i * b + r) \div b = i /\ (i * b + r) % b = r
<1>1. PICK a \in Nat, m \in Nat : m = i * b /\ a = m + r
  <2>1. i * b \in Nat
    OBVIOUS
  <2>2. i * b + r \in Nat
    BY <2>1
  <2> QED BY <2>1, <2>2
<1>2. PICK q \in Nat, e \in 0 .. b - 1 : q = a \div b /\ e = a % b /\ a = q * b + e
  BY <1>1, Division
<1>3. q * b \in Nat
  OBVIOUS
<1>4. ~(q < i)
  <2>1. SUFFICES ASSUME q < i PROVE FALSE
    OBVIOUS
  <2>2. q * b + b <= m
    BY <1>1, <2>1, TimesGrows
  <2> QED BY <1>1, <1>2, <1>3, <2>2
<1>5. ~(i < q)
  <2>1. SUFFICES ASSUME i < q PROVE FALSE
    OBVIOUS
  <2>2. m + b <= q * b
    BY <1>1, <2>1, TimesGrows
  <2> QED BY <1>1, <1>2, <1>3, <2>2
<1>6. q = i
  BY <1>4, <1>5
<1>7. e = r
  BY <1>1, <1>2, <1>6
<1> QED BY <1>1, <1>2, <1>6, <1>7

\* The start of a block is its number times its length.
LEMMA Starts ==
  ASSUME NEW p \in Nat
  PROVE  p \div Block \in Nat /\ BlockStart(p) = (p \div Block) * Block
<1>1. Block \in Nat \ {0}
  BY FileAssumption
<1>2. PICK q \in Nat, e \in Nat, m \in Nat : q = p \div Block /\ e = p % Block /\ m = q * Block /\ p = m + e
  <2>1. PICK q \in Nat, e \in Nat : q = p \div Block /\ e = p % Block /\ p = q * Block + e
    BY <1>1, Division
  <2>2. q * Block \in Nat
    BY <1>1
  <2> QED BY <2>1, <2>2
<1>3. p - e = m
  BY <1>2
<1> QED BY <1>2, <1>3 DEF BlockStart

LEMMA StartsInOrder ==
  ASSUME NEW p \in Nat, NEW q \in Nat, p <= q
  PROVE  p \div Block <= q \div Block /\ BlockStart(p) <= BlockStart(q)
<1>1. Block \in Nat \ {0}
  BY FileAssumption
<1>2. PICK i \in Nat, j \in Nat : i = p \div Block /\ j = q \div Block
  BY Starts
<1>3. BlockStart(p) = i * Block /\ BlockStart(q) = j * Block
  BY <1>2, Starts
<1>4. i <= j
  <2>1. SUFFICES ASSUME j < i PROVE FALSE
    BY <1>2
  <2>2. j * Block + Block <= i * Block
    BY <1>1, <2>1, TimesGrows
  <2>3. BlockStart(q) + Block <= BlockStart(p)
    BY <1>3, <2>2
  <2> QED BY <1>1, <2>3, Blocks
<1>5. i * Block <= j * Block
  <2>1. CASE i = j
    BY <1>1, <2>1
  <2>2. CASE i < j
    <3>1. i * Block + Block <= j * Block /\ i * Block \in Nat /\ j * Block \in Nat
      BY <1>1, <2>2, TimesGrows
    <3> QED BY <1>1, <3>1
  <2> QED BY <1>4, <2>1, <2>2
<1> QED BY <1>2, <1>3, <1>4, <1>5

\* A part starts where a block does.
LEMMA PartStarts ==
  ASSUME NEW i \in Nat
  PROVE  PartStart(i) \in Nat /\ BlockStart(PartStart(i)) = PartStart(i)
<1>1. Block \in Nat \ {0} /\ PartLen \in Nat \ {0} /\ PartLen % Block = 0
  BY FileAssumption, PartLenAssumption
<1>2. PICK k \in Nat : PartLen = k * Block
  <2>1. PartLen \div Block \in Nat /\ PartLen = (PartLen \div Block) * Block + 0
    BY <1>1, Division
  <2>2. (PartLen \div Block) * Block \in Nat
    BY <1>1, <2>1
  <2> QED BY <2>1, <2>2
<1>3. i * k \in Nat /\ i * PartLen = (i * k) * Block
  BY <1>1, <1>2
<1>4. PICK j \in Nat : j = i * k
  BY <1>3
<1>5. j * Block \in Nat /\ j * Block + 0 = j * Block
  BY <1>1
<1>6. (j * Block + 0) % Block = 0
  BY <1>1, Quotient
<1>7. PartStart(i) = j * Block
  BY <1>3, <1>4 DEF PartStart
<1>8. BlockStart(PartStart(i)) = PartStart(i) - 0
  BY <1>5, <1>6, <1>7 DEF BlockStart
<1> QED BY <1>5, <1>7, <1>8
-----------------------------------------------------------------------------
(***************************************************************************)
(* What File's operations do to what the buffer holds.                     *)
(***************************************************************************)
LEMMA OpenFits ==
  ASSUME NEW m \in {"closed", "rb", "r+b", "wb"}, NEW n \in Nat
  PROVE  LET f == Open(m, n)
         IN  /\ Fits(f) /\ f.mode = m /\ f.size = n
             /\ f.fd = 0 /\ f.top = 0 /\ f.held = 0 /\ f.ptr = 0
<1>1. PICK f : f = Open(m, n)
  OBVIOUS
<1>2. /\ f \in Stream /\ f.mode = m /\ f.size = n
      /\ f.fd = 0 /\ f.top = 0 /\ f.held = 0 /\ f.ptr = 0
  BY <1>1 DEF Open, Stream
<1>3. 0 <= Block
  <2>1. Block \in Nat
    BY FileAssumption
  <2> QED BY <2>1
<1>4. Fits(f)
  BY <1>2, <1>3 DEF Fits
<1> QED BY <1>1, <1>2, <1>4, Zenon

LEMMA SeekFits ==
  ASSUME NEW f, Fits(f), NEW p \in Nat
  PROVE  Fits(Seek(f, p)) /\ Seek(f, p).mode = f.mode /\ Seek(f, p).size = f.size
<1>1. /\ f \in Stream /\ f.held <= Block /\ f.ptr <= f.held /\ (f.held > 0 => f.top <= f.size)
      /\ f.top \in Nat /\ f.held \in Nat /\ f.size \in Nat /\ Block \in Nat \ {0}
  BY FileAssumption DEF Fits, Stream
<1>2. Fits(SeekFd(f, p))
  <2>1. PICK g : g = SeekFd(f, p)
    OBVIOUS
  <2>2. g \in Stream /\ g.held = 0 /\ g.ptr = 0
    BY <1>1, <2>1, SeekFdMoves
  <2>3. Fits(g)
    BY <1>1, <2>2 DEF Fits
  <2> QED BY <2>1, <2>3, Zenon
<1>3. Buffered(f, p) => Fits(SeekInBuffer(f, p))
  <2>1. SUFFICES ASSUME Buffered(f, p) PROVE Fits(SeekInBuffer(f, p))
    OBVIOUS
  <2>2. p - (f.top - f.held) <= f.held
    BY <1>1, <2>1 DEF Buffered
  <2> QED BY <1>1, <2>1, <2>2, SeekInBufferMoves DEF Fits
<1>4. Fits(SeekByBlock(f, p))
  <2>1. PICK g : g = SeekByBlock(f, p)
    OBVIOUS
  <2>2. PICK start \in Nat : start = BlockStart(p) /\ start <= p /\ p < start + Block
    BY Blocks
  <2>3. \/ g = SeekFd(f, p)
        \/ /\ g \in Stream /\ g.mode = f.mode /\ g.size = f.size
           /\ g.held \in Nat /\ g.held <= f.size - start
           /\ g.held = LeastOf(IF f.held = 0 THEN p - start ELSE Block, f.size - start)
           /\ start < p /\ p <= f.size
           /\ g.top = start + g.held
           /\ g.ptr = p - start
    BY <1>1, <2>1, <2>2, SeekByBlockMoves
  <2>4. CASE g = SeekFd(f, p)
    BY <1>2, <2>1, <2>4
  <2>5. CASE g # SeekFd(f, p)
    <3>1. PICK h \in Nat, size \in Nat : h = g.held /\ size = f.size
      BY <1>1, <2>3, <2>5
    <3>2. h = LeastOf(IF f.held = 0 THEN p - start ELSE Block, size - start) /\ p <= size
      BY <2>3, <2>5, <3>1
    <3>3. h <= Block /\ p - start <= h /\ start + h <= size
      BY <1>1, <2>2, <3>2 DEF LeastOf
    <3> QED BY <2>1, <2>3, <2>5, <3>1, <3>3 DEF Fits
  <2> QED BY <2>4, <2>5
<1>5. Seek(f, p).mode = f.mode /\ Seek(f, p).size = f.size
  BY <1>1, SeekMoves
<1> QED BY <1>2, <1>3, <1>4, <1>5 DEF Seek, Fseek

\* Where a stream that may read and its descriptor are after a seek.
LEMMA SeekCases ==
  ASSUME NEW f \in Stream, f.mode # "wb", NEW p \in Nat, NEW g, g = Seek(f, p)
  PROVE  \/ Buffered(f, p) /\ g.fd = f.top /\ g.top = f.top /\ g.held = f.held
         \/ ~Buffered(f, p) /\ g.fd = p /\ g.top = p /\ g.held = 0
         \/ /\ ~Buffered(f, p) /\ BlockStart(p) < p /\ p <= f.size
            /\ g.held \in Nat /\ g.top = BlockStart(p) + g.held /\ g.fd = g.top
            /\ g.held = LeastOf(IF f.held = 0 THEN p - BlockStart(p) ELSE Block,
                                f.size - BlockStart(p))
<1>1. CASE Buffered(f, p)
  <2>1. g = SeekInBuffer(f, p)
    BY <1>1 DEF Seek, Fseek
  <2> QED BY <1>1, <2>1, SeekInBufferMoves
<1>2. CASE ~Buffered(f, p)
  <2>1. g = SeekByBlock(f, p)
    BY <1>2 DEF Seek, Fseek
  <2>2. CASE g = SeekFd(f, p)
    BY <1>2, <2>2, SeekFdMoves
  <2>3. CASE g # SeekFd(f, p)
    BY <1>2, <2>1, <2>3, SeekByBlockMoves
  <2> QED BY <2>2, <2>3
<1> QED BY <1>1, <1>2

LEMMA GetSizeFits ==
  ASSUME NEW m \in {"rb", "r+b"}, NEW n \in Nat, NEW g, g = GetSize(Open(m, n))
  PROVE  Fits(g) /\ g.mode = m /\ g.size = n
<1>1. PICK f : f = Open(m, n)
  OBVIOUS
<1>2. Fits(f) /\ f.mode = m /\ f.size = n
  BY <1>1, OpenFits
<1>3. PICK h : h = Seek(f, n)
  OBVIOUS
<1>4. Fits(h) /\ h.mode = m /\ h.size = n
  BY <1>2, <1>3, SeekFits
<1>5. g = Seek(h, 0)
  BY <1>1, <1>2, <1>3, Zenon DEF GetSize, Seek
<1> QED BY <1>4, <1>5, SeekFits

\* getSize reads a file of less than a block into the buffer, all of it.
LEMMA GetSizeOfBlock ==
  ASSUME NEW n \in Nat \ {0}, n <= Block, NEW g, g = GetSize(Open("r+b", n))
  PROVE  (g.held = n /\ g.top = n) \/ (g.held = 0 /\ g.top = 0)
<1>1. PICK f \in Stream : f = Open("r+b", n) /\ f.mode = "r+b" /\ f.size = n /\ f.top = 0 /\ f.held = 0
  BY OpenFits DEF Fits
<1>2. PICK h : h = Seek(f, n)
  OBVIOUS
<1>3. h \in Stream /\ h.mode = "r+b" /\ h.size = n
  BY <1>1, <1>2, SeekMoves
<1>4. g = Seek(h, 0)
  BY <1>1, <1>2 DEF GetSize, Seek
<1>5. Block \in Nat \ {0} /\ BlockStart(0) = 0
  <2>1. Block \in Nat \ {0}
    BY FileAssumption
  <2>2. 0 < Block
    BY <2>1
  <2> QED BY <2>1, <2>2, Blocks
<1>6. (h.held = n /\ h.top = n) \/ h.held = 0
  <2>1. ~Buffered(f, n)
    BY <1>1 DEF Buffered
  <2>2. CASE n < Block
    <3>1. BlockStart(n) = 0
      BY <2>2, Blocks
    <3>2. CASE h.held # 0
      <4>1. h.held = LeastOf(n - 0, n - 0) /\ h.top = 0 + h.held
        BY <1>1, <1>2, <2>1, <3>1, <3>2, SeekCases
      <4> QED BY <4>1 DEF LeastOf
    <3> QED BY <3>2
  <2>3. CASE n = Block
    <3>1. (1 * Block + 0) % Block = 0 /\ 1 * Block + 0 = Block
      BY <1>5, Quotient
    <3>2. BlockStart(n) = n
      BY <1>5, <2>3, <3>1 DEF BlockStart
    <3> QED BY <1>1, <1>2, <2>1, <3>2, SeekCases
  <2> QED BY <1>5, <2>2, <2>3
<1>7. CASE h.held = n /\ h.top = n
  <2>1. Buffered(h, 0)
    BY <1>7 DEF Buffered
  <2> QED BY <1>3, <1>4, <1>7, <2>1, SeekCases
<1>8. CASE h.held = 0
  <2>1. ~Buffered(h, 0)
    BY <1>3, <1>8 DEF Buffered, Stream
  <2> QED BY <1>3, <1>4, <1>5, <2>1, SeekCases
<1> QED BY <1>6, <1>7, <1>8

LEMMA ReadFits ==
  ASSUME NEW f \in Stream, Fits(f), Within(f), Tell(f) < f.size, NEW g, g = Read(f)
  PROVE  /\ Fits(g) /\ g.mode = f.mode
         /\ \/ f.ptr < f.held /\ g.held = f.held /\ g.top = f.top
            \/ f.ptr = f.held /\ g.held = LeastOf(Block, f.size - f.top) /\ g.top = f.top + g.held
<1>1. /\ f \in Stream /\ f.held <= Block /\ f.ptr <= f.held /\ f.fd = f.top /\ f.top <= f.size
      /\ f.top \in Nat /\ f.held \in Nat /\ f.size \in Nat /\ f.ptr \in Nat /\ Block \in Nat \ {0}
  BY FileAssumption DEF Fits, Within, Stream
<1>2. CASE f.ptr < f.held
  <2>1. PICK next \in Nat : next = f.ptr + 1 /\ next <= f.held
    BY <1>1, <1>2
  <2>2. g = [f EXCEPT !.ptr = next]
    BY <1>2, <2>1 DEF Read
  <2> QED BY <1>1, <2>1, <2>2 DEF Fits, Stream
<1>3. CASE ~(f.ptr < f.held)
  <2>1. f.ptr = f.held /\ f.top < f.size
    BY <1>1, <1>3 DEF Tell
  <2>2. PICK got \in Nat, to \in Nat : /\ got = LeastOf(Block, f.size - f.fd) /\ to = f.fd + got
                                     /\ 1 <= got /\ got <= Block /\ to <= f.size
    <3>1. PICK size \in Nat, at \in Nat : size = f.size /\ at = f.fd /\ at < size
      BY <1>1, <2>1
    <3>2. /\ LeastOf(Block, size - at) \in Nat /\ at + LeastOf(Block, size - at) <= size
          /\ 1 <= LeastOf(Block, size - at) /\ LeastOf(Block, size - at) <= Block
      BY <1>1, <3>1 DEF LeastOf
    <3>3. at + LeastOf(Block, size - at) \in Nat
      BY <3>2
    <3> QED BY <3>1, <3>2, <3>3
  <2>3. g = [f EXCEPT !.fd = to, !.top = to, !.held = got, !.ptr = 1]
    BY <1>1, <1>3, <2>2 DEF Read
  <2>4. /\ g \in Stream /\ g.mode = f.mode /\ g.size = f.size
        /\ g.top = to /\ g.held = got /\ g.ptr = 1
    <3>1. PICK next \in Nat : next = 1
      OBVIOUS
    <3>2. g = [f EXCEPT !.fd = to, !.top = to, !.held = got, !.ptr = next]
      BY <2>3, <3>1, Zenon
    <3>3. /\ g \in Stream /\ g.mode = f.mode /\ g.size = f.size
          /\ g.top = to /\ g.held = got /\ g.ptr = next
      BY <3>2 DEF Stream
    <3> QED BY <3>1, <3>3
  <2>5. Fits(g)
    BY <1>1, <2>2, <2>4 DEF Fits
  <2>6. got = LeastOf(Block, f.size - f.top) /\ to = f.top + got
    BY <1>1, <2>2, Zenon
  <2> QED BY <2>1, <2>4, <2>5, <2>6
<1> QED BY <1>2, <1>3

LEMMA WriteFits ==
  ASSUME NEW f, Fits(f), NEW n \in Nat, NEW g, g = Write(f, n)
  PROVE  /\ Fits(g) /\ g.mode = f.mode /\ g.fd = f.fd + n
         /\ g.top = f.top /\ g.held = f.held
         /\ g.size = (IF f.fd + n > f.size THEN f.fd + n ELSE f.size)
<1>1. f \in Stream /\ f.fd \in Nat /\ f.size \in Nat /\ f.top \in Nat
  BY DEF Fits, Stream
<1>2. PICK to \in Nat, size \in Nat : /\ to = f.fd + n /\ size >= f.size
                                    /\ size = IF to > f.size THEN to ELSE f.size
  BY <1>1
<1>3. g = [f EXCEPT !.fd = to, !.size = size]
  BY <1>2 DEF Write
<1>4. /\ g \in Stream /\ g.mode = f.mode /\ g.fd = to /\ g.size = size
      /\ g.top = f.top /\ g.held = f.held /\ g.ptr = f.ptr
  BY <1>1, <1>3 DEF Stream
<1> QED BY <1>1, <1>2, <1>4 DEF Fits

LEMMA SendFits ==
  ASSUME NEW f, Fits(f), NEW n \in Nat
  PROVE  Fits(Send(f, n))
<1>1. f \in Stream /\ f.fd + n \in Nat
  BY DEF Fits, Stream
<1> QED BY <1>1 DEF Fits, Send, Stream
-----------------------------------------------------------------------------
(***************************************************************************)
(* The types, from one step to the next.                                   *)
(***************************************************************************)
LEMMA Constants ==
  /\ Block \in Nat \ {0} /\ Block > 0 /\ MaxSeeks \in Nat
  /\ NumParts \in Nat \ {0} /\ PartLen \in Nat \ {0} /\ PartLen > 0
  /\ \A n \in FileSizes : n \in Nat
  /\ \A n \in Records : n \in Nat \ {0} /\ n > 0
<1>1. /\ Block \in Nat \ {0} /\ MaxSeeks \in Nat
      /\ NumParts \in Nat \ {0} /\ PartLen \in Nat \ {0}
      /\ FileSizes \subseteq Nat /\ Records \subseteq Nat \ {0}
  BY FileAssumption
<1>2. \A n \in Records : n \in Nat \ {0}
  BY <1>1
<1> QED BY <1>1, <1>2

LEMMA SeekForValues ==
  ASSUME Values, NEW f, Fits(f), NEW p \in Nat, NEW n \in Nat, SeekFor(f, p, n), MaySeek,
         count' = count, received' = received, midBlock' \in Nat
  PROVE  Values'
<1>1. Fits(Seek(f, p))
  BY SeekFits
<1>2. Fits(file')
  BY <1>1 DEF SeekFor
<1>3. seeks' \in 0 .. MaxSeeks
  BY Constants DEF MaySeek, Values
<1> QED BY <1>2, <1>3 DEF Values, SeekFor, Goto, Fits

\* The part a download thread is at, and what is left of it.
LEMMA AtPart ==
  ASSUME Values, Parts, user = "download", pc = "io", NEW n \in 1 .. left
  PROVE  \E i \in 0 .. NumParts - 1 :
           /\ aim = PartStart(i) + received[i] /\ left = PartLen - received[i]
           /\ aim \div PartLen = i
           /\ i \in Nat /\ received[i] \in Nat /\ received[i] + n \in 0 .. PartLen
<1>1. PICK i \in 0 .. NumParts - 1 :
        aim = PartStart(i) + received[i] /\ left = PartLen - received[i]
  BY DEF Parts
<1>2. i \in Nat /\ received[i] \in 0 .. PartLen /\ left \in Nat /\ PartLen \in Nat \ {0}
  BY Constants DEF Values
<1>3. PICK r \in Nat : r = received[i]
  BY <1>2
<1>4. r \in 0 .. PartLen - 1 /\ r + n \in 0 .. PartLen
  BY <1>1, <1>2, <1>3
<1>5. (i * PartLen + r) \div PartLen = i
  BY <1>2, <1>4, Quotient
<1>6. aim \div PartLen = i
  BY <1>1, <1>3, <1>5 DEF PartStart
<1> QED BY <1>1, <1>2, <1>3, <1>4, <1>6, Zenon

LEMMA ValuesNext ==
  ASSUME FInv, Values, Parts, Next
  PROVE  Values'
<1>1. /\ Fits(file) /\ aim \in Nat /\ left \in Nat /\ count \in Nat
      /\ received \in [0 .. NumParts - 1 -> 0 .. PartLen]
      /\ midBlock \in Nat /\ seeks \in 0 .. MaxSeeks
  BY DEF Values
<1>2. CASE Serve
  <2>1. PICK n \in FileSizes : \E p \in 0 .. n : \E len \in 0 .. n - p :
          SeekFor(GetSize(Open("rb", n)), p, len)
    BY <1>2 DEF Serve
  <2>2. PICK p \in 0 .. n : \E len \in 0 .. n - p : SeekFor(GetSize(Open("rb", n)), p, len)
    BY <2>1
  <2>3. PICK len \in 0 .. n - p : SeekFor(GetSize(Open("rb", n)), p, len)
    BY <2>2
  <2>4. n \in Nat /\ p \in Nat /\ len \in Nat
    <3>1. n \in Nat
      BY Constants
    <3> QED BY <3>1
  <2>5. PICK f : f = GetSize(Open("rb", n)) /\ Fits(f)
    BY <2>4, GetSizeFits
  <2>6. SeekFor(f, p, len) /\ MaySeek /\ count' = count /\ received' = received /\ midBlock' \in Nat
    BY <1>1, <1>2, <2>3, <2>5 DEF Serve
  <2> QED BY <2>4, <2>5, <2>6, SeekForValues
<1>3. CASE SendPart
  <2>1. PICK n \in 1 .. left : file' = Send(file, n) /\ aim' = aim + n /\ left' = left - n
    BY <1>3 DEF SendPart
  <2>2. n \in Nat /\ aim' \in Nat /\ left' \in Nat
    BY <1>1, <2>1
  <2>3. Fits(file')
    BY <1>1, <2>1, <2>2, SendFits
  <2> QED BY <1>3, <2>2, <2>3 DEF SendPart, Values, Fits
<1>4. CASE SendEnds \/ LeavePart
  BY <1>4 DEF SendEnds, LeavePart, Goto, Values, Fits
<1>5. CASE CreateStatus
  <2>1. PICK n \in Records : file' = Write(Open("wb", 0), n) /\ count' = n
    BY <1>5 DEF CreateStatus
  <2>2. n \in Nat
    BY Constants
  <2>3. PICK f : f = Open("wb", 0) /\ Fits(f)
    BY OpenFits
  <2>4. Fits(file')
    BY <2>1, <2>2, <2>3, WriteFits
  <2> QED BY <1>5, <2>1, <2>2, <2>4 DEF CreateStatus, Goto, Values, Fits
<1>6. CASE ResumeStatus
  <2>1. PICK n \in Records : file' = GetSize(Open("r+b", n)) /\ count' = n
    BY <1>6 DEF ResumeStatus
  <2>2. n \in Nat
    BY Constants
  <2>3. Fits(file')
    BY <2>1, <2>2, GetSizeFits
  <2> QED BY <1>6, <2>1, <2>2, <2>3 DEF ResumeStatus, Goto, Values, Fits
<1>7. CASE SeekOldRecord
  <2>1. Fits(file')
    BY <1>1, <1>7, SeekFits DEF SeekOldRecord
  <2> QED BY <1>7, <2>1 DEF SeekOldRecord, Goto, Values, Fits
<1>8. CASE ReadOldRecord
  <2>1. user = "old status" /\ Within(file) /\ count = file.size /\ aim < count /\ Tell(file) = aim
    BY <1>8, StatusReader DEF ReadOldRecord, FInv, OldStatus
  <2>2. file \in Stream /\ Tell(file) < file.size
    BY <2>1 DEF Within
  <2>3. Fits(file')
    BY <1>1, <1>8, <2>1, <2>2, ReadFits DEF ReadOldRecord
  <2>4. aim' \in Nat /\ pc' \in {"resume", "ready"}
    BY <1>1, <1>8 DEF ReadOldRecord, Goto
  <2> QED BY <1>8, <2>3, <2>4 DEF ReadOldRecord, Values, Fits
<1>9. CASE SeekRecord
  <2>1. PICK id \in 0 .. count - 1 : SeekFor(file, id, 1)
    BY <1>9 DEF SeekRecord
  <2>2. id \in Nat /\ 1 \in Nat
    BY <1>1
  <2> QED BY <1>1, <1>9, <2>1, <2>2, SeekForValues DEF SeekRecord
<1>10. CASE WriteRecord
  <2>1. Fits(file')
    <3>1. 1 \in Nat
      OBVIOUS
    <3> QED BY <1>1, <1>10, <3>1, WriteFits DEF WriteRecord
  <2> QED BY <1>10, <2>1 DEF WriteRecord, Goto, Values, Fits
<1>11. CASE OpenDestination
  <2>1. PICK n \in Nat : n = NumParts * PartLen
    BY Constants
  <2>2. Fits(file')
    BY <1>11, <2>1, OpenFits DEF OpenDestination
  <2>3. received' \in [0 .. NumParts - 1 -> 0 .. PartLen]
    BY <1>1, <1>11 DEF OpenDestination
  <2> QED BY <1>11, <2>2, <2>3 DEF OpenDestination, Goto, Values, Fits
<1>12. CASE RequestPart
  <2>1. PICK i \in DOMAIN received : /\ received[i] < PartLen
                                     /\ SeekFor(file, i * PartLen + received[i], PartLen - received[i])
    BY <1>12 DEF RequestPart
  <2>2. PICK p \in Nat, n \in Nat : p = i * PartLen + received[i] /\ n = PartLen - received[i]
    <3>1. i \in Nat /\ received[i] \in 0 .. PartLen /\ PartLen \in Nat
      BY <1>1, Constants
    <3>2. i * PartLen \in Nat
      BY <3>1
    <3> QED BY <2>1, <3>1, <3>2
  <2>3. midBlock' \in Nat
    BY <1>1, <1>12 DEF RequestPart
  <2> QED BY <1>1, <1>12, <2>1, <2>2, <2>3, SeekForValues DEF RequestPart
<1>13. CASE ReceivePart
  <2>1. PICK n \in 1 .. left :
          /\ file' = Write(file, n)
          /\ received' = [received EXCEPT ![aim \div PartLen] = @ + n]
          /\ aim' = aim + n /\ left' = left - n
    BY <1>13 DEF ReceivePart
  <2>2. n \in Nat /\ aim' \in Nat /\ left' \in Nat
    BY <1>1, <2>1
  <2>3. Fits(file')
    BY <1>1, <2>1, <2>2, WriteFits
  <2>4. PICK i \in 0 .. NumParts - 1 :
          aim \div PartLen = i /\ received[i] + n \in 0 .. PartLen
    BY <1>13, AtPart DEF ReceivePart
  <2>5. received' \in [0 .. NumParts - 1 -> 0 .. PartLen]
    BY <1>1, <2>1, <2>4
  <2> QED BY <1>13, <2>2, <2>3, <2>5 DEF ReceivePart, Values, Fits
<1> QED BY <1>2, <1>3, <1>4, <1>5, <1>6, <1>7, <1>8, <1>9, <1>10, <1>11, <1>12, <1>13 DEF Next
-----------------------------------------------------------------------------
(***************************************************************************)
(* A resumed status file, from one step to the next.                       *)
(***************************************************************************)
LEMMA LastBlock ==
  ASSUME count \in Nat \ {0}
  PROVE  /\ LastBlockEnd \in Nat /\ count <= LastBlockEnd
         /\ count <= Block => LastBlockEnd = count
         /\ count > Block => \A p \in 0 .. count - 1 : BlockStart(p) + Block <= LastBlockEnd
<1>1. CASE count <= Block
  BY <1>1, Constants DEF LastBlockEnd
<1>2. CASE ~(count <= Block)
  <2>1. PICK c \in Nat : c = count - 1
    OBVIOUS
  <2>2. PICK q \in Nat : q = c \div Block /\ BlockStart(c) = q * Block
    BY Starts
  <2>3. LastBlockEnd = (q + 1) * Block
    BY <1>2, <2>1, <2>2 DEF LastBlockEnd
  <2>4. (q + 1) * Block = q * Block + Block
    BY Constants
  <2>5. PICK s \in Nat, b \in Nat : s = BlockStart(c) /\ b = Block /\ LastBlockEnd = s + b /\ c < s + b
    BY <2>2, <2>3, <2>4, Blocks, Constants
  <2>6. ASSUME NEW p \in 0 .. count - 1
        PROVE  BlockStart(p) + Block <= LastBlockEnd
    <3>1. p \in Nat /\ p <= c
      BY <2>1
    <3>2. BlockStart(p) <= s /\ BlockStart(p) \in Nat
      BY <2>5, <3>1, StartsInOrder, Blocks
    <3> QED BY <2>5, <3>2
  <2>7. LastBlockEnd \in Nat /\ count <= LastBlockEnd
    BY <2>1, <2>5
  <2> QED BY <1>2, <2>6, <2>7
<1> QED BY <1>1, <1>2

\* The steps on the buffer, for c records and the end `last` of their last block.
LEMMA SeekWithinBlocks ==
  ASSUME NEW f \in Stream, f.mode = "r+b", NEW c \in Nat, NEW last \in Nat, NEW id \in Nat,
         id < c, c <= last, f.top <= last,
         c <= Block => f.held = c /\ f.top = c,
         c > Block => BlockStart(id) + Block <= last,
         NEW g, g = Seek(f, id)
  PROVE  /\ g.top <= last /\ g.fd <= last
         /\ c <= Block => g.held = c /\ g.top = c
<1>1. PICK t \in Nat, h \in Nat, b \in Nat \ {0}, size \in Nat, s \in Nat :
        /\ t = f.top /\ h = f.held /\ b = Block /\ size = f.size /\ s = BlockStart(id)
        /\ s <= id /\ id < s + b
  <2>1. f.top \in Nat /\ f.held \in Nat /\ f.size \in Nat
    BY DEF Stream
  <2>2. Block \in Nat \ {0}
    BY Constants
  <2> QED BY <2>1, <2>2, Blocks, Zenon
<1>2. CASE Buffered(f, id)
  <2>1. g.fd = f.top /\ g.top = f.top /\ g.held = f.held
    BY <1>2, SeekCases
  <2> QED BY <2>1, Zenon
<1>3. CASE ~Buffered(f, id)
  <2>1. ~(c <= b)
    <3>1. SUFFICES ASSUME c <= b PROVE FALSE
      OBVIOUS
    <3>2. h = c /\ t = c
      BY <1>1, <3>1, Zenon
    <3>3. ~(t - h <= id /\ id < t)
      BY <1>1, <1>3, Zenon DEF Buffered
    <3> QED BY <3>2, <3>3
  <2>2. s + b <= last
    <3>1. c > b
      BY <2>1
    <3> QED BY <1>1, <3>1, Zenon
  <2>3. id <= last
    OBVIOUS
  <2>4. CASE g.fd = id /\ g.top = id
    BY <1>1, <2>1, <2>3, <2>4, Zenon
  <2>5. CASE ~(g.fd = id /\ g.top = id)
    <3>1. /\ g.held \in Nat /\ g.top = BlockStart(id) + g.held /\ g.fd = g.top
          /\ g.held = LeastOf(IF f.held = 0 THEN id - BlockStart(id) ELSE Block,
                              f.size - BlockStart(id))
      BY <1>3, <2>5, SeekCases
    <3>2. PICK got \in Nat : got = g.held /\ got = LeastOf(IF h = 0 THEN id - s ELSE b, size - s)
      BY <1>1, <3>1, Zenon
    <3>3. s + got <= last
      BY <1>1, <2>2, <3>2 DEF LeastOf
    <3> QED BY <1>1, <2>1, <3>1, <3>2, <3>3, Zenon
  <2> QED BY <2>4, <2>5
<1> QED BY <1>2, <1>3

LEMMA SeekOldPlace ==
  ASSUME NEW f \in Stream, f.mode = "r+b", NEW c \in Nat, NEW p \in Nat, p < c,
         \/ f.held = c /\ f.top = c
         \/ f.held = 0 /\ f.top = 0 /\ p = 0,
         NEW g, g = Seek(f, p)
  PROVE  \/ g.held = c /\ g.top = c
         \/ g.held = 0 /\ g.top = 0 /\ p = 0
<1>1. CASE f.held = c /\ f.top = c
  <2>1. Buffered(f, p)
    BY <1>1 DEF Buffered
  <2> QED BY <1>1, <2>1, SeekCases
<1>2. CASE f.held = 0 /\ f.top = 0 /\ p = 0
  <2>1. ~Buffered(f, p)
    BY <1>2 DEF Buffered
  <2>2. BlockStart(p) = p
    <3>1. 0 < Block
      BY Constants
    <3> QED BY <1>2, <3>1, Blocks
  <2> QED BY <1>2, <2>1, <2>2, SeekCases
<1> QED BY <1>1, <1>2

LEMMA ReadOldPlace ==
  ASSUME NEW f \in Stream, Fits(f), Within(f), NEW c \in Nat, f.size = c, Tell(f) < c, c <= Block,
         \/ f.held = c /\ f.top = c
         \/ f.held = 0 /\ f.top = 0,
         NEW g, g = Read(f)
  PROVE  g.held = c /\ g.top = c
<1>1. \/ f.ptr < f.held /\ g.held = f.held /\ g.top = f.top
      \/ f.ptr = f.held /\ g.held = LeastOf(Block, f.size - f.top) /\ g.top = f.top + g.held
  BY ReadFits
<1>2. PICK t \in Nat, h \in Nat, ptr \in Nat, b \in Nat : t = f.top /\ h = f.held /\ ptr = f.ptr /\ b = Block
  <2>1. f.top \in Nat /\ f.held \in Nat /\ f.ptr \in Nat
    BY DEF Stream
  <2>2. Block \in Nat
    BY Constants
  <2> QED BY <2>1, <2>2, Zenon
<1>3. t - h + ptr < c /\ c <= b
  BY <1>2, Zenon DEF Tell
<1>4. CASE f.held = c /\ f.top = c
  <2>1. ptr # h
    BY <1>2, <1>3, <1>4
  <2> QED BY <1>1, <1>2, <1>4, <2>1, Zenon
<1>5. CASE f.held = 0 /\ f.top = 0
  <2>1. ~(ptr < 0)
    OBVIOUS
  <2>2. g.held = LeastOf(b, c - 0) /\ g.top = 0 + g.held
    BY <1>1, <1>2, <1>5, <2>1, Zenon
  <2>3. LeastOf(b, c - 0) = c /\ 0 + c = c
    BY <1>3 DEF LeastOf
  <2> QED BY <2>2, <2>3, Zenon
<1> QED BY <1>4, <1>5

LEMMA ReadingOldRecords ==
  ASSUME FInv, Values, OldRecords, SeekOldRecord \/ ReadOldRecord
  PROVE  OldRecords'
<1>1. /\ user = "old status" /\ user' = user /\ Within(file) /\ file \in Stream /\ Fits(file)
      /\ count = file.size /\ aim \in Nat /\ count \in Nat \ {0} /\ aim < count /\ count' = count
  <2>1. pc \in {"resume", "read"}
    BY DEF SeekOldRecord, ReadOldRecord
  <2>2. user = "old status" /\ Within(file) /\ count = file.size /\ aim \in Nat /\ count \in Nat /\ aim < count
    BY <2>1, StatusReader
  <2>3. count # 0
    <3>1. PICK a \in Nat, c \in Nat : a = aim /\ c = count /\ a < c
      BY <2>2, Zenon
    <3>2. c # 0
      BY <3>1
    <3> QED BY <3>1, <3>2, Zenon
  <2> QED BY <2>2, <2>3 DEF SeekOldRecord, ReadOldRecord, Values, Fits
<1>2. /\ file.mode = "r+b" /\ pc \in {"resume", "read"}
      /\ count <= Block => \/ file.held = count /\ file.top = count
                           \/ file.held = 0 /\ file.top = 0 /\ aim = 0
  BY <1>1 DEF OldRecords, SeekOldRecord, ReadOldRecord
<1>3. CASE SeekOldRecord
  <2>1. file' = Seek(file, aim) /\ pc' = "read" /\ aim' = aim
    BY <1>3 DEF SeekOldRecord, Goto
  <2>2. PICK g : g = Seek(file, aim)
    OBVIOUS
  <2>3. g.mode = "r+b"
    BY <1>1, <1>2, <2>2, SeekMoves
  <2>4. count <= Block => (g.held = count /\ g.top = count) \/ (g.held = 0 /\ g.top = 0 /\ aim = 0)
    <3>1. SUFFICES ASSUME count <= Block
                   PROVE  (g.held = count /\ g.top = count) \/ (g.held = 0 /\ g.top = 0 /\ aim = 0)
      OBVIOUS
    <3>2. PICK f \in Stream, c \in Nat, p \in Nat : f = file /\ c = count /\ p = aim
      BY <1>1
    <3>3. /\ f.mode = "r+b" /\ p < c /\ g = Seek(f, p)
          /\ \/ f.held = c /\ f.top = c
             \/ f.held = 0 /\ f.top = 0 /\ p = 0
      BY <1>1, <1>2, <2>2, <3>1, <3>2, Zenon
    <3>4. (g.held = c /\ g.top = c) \/ (g.held = 0 /\ g.top = 0 /\ p = 0)
      BY <3>3, SeekOldPlace
    <3> QED BY <3>2, <3>4, Zenon
  <2> QED BY <1>1, <2>1, <2>2, <2>3, <2>4 DEF OldRecords
<1>4. CASE ReadOldRecord
  <2>1. file' = Read(file) /\ pc' \in {"resume", "ready"}
    BY <1>4 DEF ReadOldRecord, Goto
  <2>2. PICK g : g = Read(file)
    OBVIOUS
  <2>3. Tell(file) = aim
    BY <1>1, <1>4 DEF ReadOldRecord, FInv, OldStatus
  <2>4. g.mode = "r+b"
    <3>1. Tell(file) < file.size
      BY <1>1, <2>3, Zenon
    <3> QED BY <1>1, <1>2, <2>2, <3>1, ReadFits
  <2>5. Within(g) /\ g.size = count
    BY <1>1, <2>2, ReadWithin
  <2>6. count <= Block => g.held = count /\ g.top = count
    <3>1. SUFFICES ASSUME count <= Block PROVE g.held = count /\ g.top = count
      OBVIOUS
    <3>2. Tell(file) < count /\ file.size = count /\ count \in Nat
      BY <1>1, <2>3
    <3>3. (file.held = count /\ file.top = count) \/ (file.held = 0 /\ file.top = 0)
      BY <1>2, <3>1
    <3> QED BY <1>1, <2>2, <3>1, <3>2, <3>3, ReadOldPlace
  <2>7. LastBlockEnd' = LastBlockEnd
    BY <1>1 DEF LastBlockEnd
  <2>8. g.size \in count .. LastBlockEnd + 1 /\ g.top <= LastBlockEnd
    <3>1. PICK c \in Nat, last \in Nat, t \in Nat :
            c = count /\ last = LastBlockEnd /\ t = g.top /\ c <= last /\ t <= c
      <4>1. g.top \in Nat /\ g.top <= count
        BY <2>5 DEF Within, Stream
      <4> QED BY <1>1, <4>1, LastBlock, Zenon
    <3>2. c \in c .. last + 1 /\ t <= last
      BY <3>1
    <3> QED BY <2>5, <3>1, <3>2, Zenon
  <2> QED BY <1>1, <2>1, <2>2, <2>4, <2>6, <2>7, <2>8, Zenon DEF OldRecords
<1> QED BY <1>3, <1>4

LEMMA UpdatingOldRecords ==
  ASSUME FInv, Values, OldRecords, SeekRecord \/ WriteRecord
  PROVE  OldRecords'
<1>0. SUFFICES ASSUME user = "old status" PROVE OldRecords'
  BY DEF OldRecords, SeekRecord, WriteRecord
<1>1. /\ user' = user /\ count' = count /\ pc \in {"ready", "io"} /\ count # 0
      /\ Fits(file) /\ file \in Stream /\ file.mode = "r+b"
      /\ file.size \in count .. LastBlockEnd + 1 /\ file.top <= LastBlockEnd
      /\ count <= Block => file.held = count /\ file.top = count
      /\ pc = "io" => file.fd <= LastBlockEnd
  BY <1>0 DEF Values, OldRecords, SeekRecord, WriteRecord, Fits
<1>2. /\ count \in Nat \ {0} /\ LastBlockEnd \in Nat /\ count <= LastBlockEnd
      /\ LastBlockEnd' = LastBlockEnd
  <2>1. count \in Nat \ {0}
    BY <1>1 DEF Values
  <2> QED BY <1>1, <2>1, LastBlock DEF LastBlockEnd
<1>3. CASE SeekRecord
  <2>1. PICK id \in Nat :
          id \in 0 .. count - 1 /\ id < count /\ file' = Seek(file, id) /\ pc' = "io"
    <3>1. PICK c \in Nat : c = count
      BY <1>2
    <3>2. \A i \in 0 .. c - 1 : i \in Nat /\ i < c
      OBVIOUS
    <3>3. \E i \in 0 .. c - 1 : file' = Seek(file, i) /\ pc' = "io"
      BY <1>3, <3>1, Zenon DEF SeekRecord, SeekFor, Goto
    <3> QED BY <3>1, <3>2, <3>3, Zenon
  <2>2. id \in Nat /\ id < count
    BY <2>1
  <2>3. PICK g : g = Seek(file, id)
    OBVIOUS
  <2>4. g.mode = "r+b" /\ g.size = file.size
    BY <1>1, <2>2, <2>3, SeekMoves
  <2>5. /\ g.top <= LastBlockEnd /\ g.fd <= LastBlockEnd
        /\ count <= Block => g.held = count /\ g.top = count
    <3>1. count \in Nat /\ (count > Block => BlockStart(id) + Block <= LastBlockEnd)
      BY <1>2, <2>1, LastBlock
    <3>2. PICK f \in Stream, c \in Nat, last \in Nat : f = file /\ c = count /\ last = LastBlockEnd
      BY <1>1, <1>2, Zenon
    <3>3. /\ g.top <= last /\ g.fd <= last
          /\ c <= Block => g.held = c /\ g.top = c
      <4>1. /\ f.mode = "r+b" /\ id < c /\ c <= last /\ f.top <= last
            /\ c <= Block => f.held = c /\ f.top = c
            /\ c > Block => BlockStart(id) + Block <= last
            /\ g = Seek(f, id)
        BY <1>1, <1>2, <2>2, <2>3, <3>1, <3>2, Zenon
      <4> QED BY <4>1, SeekWithinBlocks
    <3> QED BY <3>2, <3>3, Zenon
  <2> QED BY <1>1, <1>2, <2>1, <2>3, <2>4, <2>5, Zenon DEF OldRecords
<1>4. CASE WriteRecord
  <2>1. file' = Write(file, 1) /\ pc' = "ready" /\ file.fd <= LastBlockEnd
    BY <1>1, <1>4 DEF WriteRecord, Goto
  <2>2. PICK g : g = Write(file, 1)
    OBVIOUS
  <2>3. /\ g.mode = "r+b" /\ g.top = file.top /\ g.held = file.held
        /\ g.size = (IF file.fd + 1 > file.size THEN file.fd + 1 ELSE file.size)
    <3>1. 1 \in Nat
      OBVIOUS
    <3> QED BY <1>1, <2>2, <3>1, WriteFits, Zenon
  <2>4. g.size \in count .. LastBlockEnd + 1
    <3>1. PICK c \in Nat, last \in Nat, fd \in Nat, size \in Nat :
            c = count /\ last = LastBlockEnd /\ fd = file.fd /\ size = file.size
      <4>1. file.fd \in Nat /\ file.size \in Nat
        BY <1>1 DEF Stream
      <4> QED BY <1>2, <4>1, Zenon
    <3>2. size \in c .. last + 1 /\ fd <= last
      BY <1>1, <2>1, <3>1, Zenon
    <3>3. CASE fd + 1 > size
      <4>1. fd + 1 \in c .. last + 1
        BY <3>2, <3>3
      <4> QED BY <2>3, <3>1, <3>3, <4>1, Zenon
    <3>4. CASE ~(fd + 1 > size)
      BY <2>3, <3>1, <3>2, <3>4, Zenon
    <3> QED BY <3>3, <3>4
  <2> QED BY <1>1, <1>2, <2>1, <2>2, <2>3, <2>4, Zenon DEF OldRecords
<1> QED BY <1>3, <1>4

LEMMA OldRecordsNext ==
  ASSUME FInv, Values, OldRecords, Next
  PROVE  OldRecords'
<1>1. CASE ResumeStatus
  <2>1. PICK n \in Records : file' = GetSize(Open("r+b", n)) /\ count' = n
    BY <1>1 DEF ResumeStatus
  <2>2. n \in Nat \ {0}
    BY Constants
  <2>3. pc' = "resume" /\ aim' = 0
    BY <1>1 DEF ResumeStatus, Goto, FInv, OldStatus
  <2>4. PICK g : g = GetSize(Open("r+b", n))
    OBVIOUS
  <2>5. g.mode = "r+b"
    BY <2>2, <2>4, GetSizeFits
  <2>6. n <= Block => (g.held = n /\ g.top = n) \/ (g.held = 0 /\ g.top = 0)
    BY <2>2, <2>4, GetSizeOfBlock
  <2> QED BY <2>1, <2>2, <2>3, <2>4, <2>5, <2>6 DEF OldRecords
<1>2. CASE SeekOldRecord \/ ReadOldRecord
  BY <1>2, ReadingOldRecords
<1>3. CASE SeekRecord \/ WriteRecord
  BY <1>3, UpdatingOldRecords
<1>4. CASE \/ Serve \/ SendPart \/ SendEnds \/ CreateStatus
           \/ OpenDestination \/ RequestPart \/ ReceivePart \/ LeavePart
  BY <1>4 DEF OldRecords, Serve, SendPart, SendEnds, CreateStatus, OpenDestination, RequestPart,
              ReceivePart, LeavePart
<1> QED BY <1>1, <1>2, <1>3, <1>4 DEF Next
-----------------------------------------------------------------------------
(***************************************************************************)
(* A download thread's parts, from one step to the next.                   *)
(***************************************************************************)
\* What the buffer holds of a part is behind the place where its rest begins,
\* and that of another part is elsewhere.
LEMMA RestNotHeld ==
  ASSUME NEW i \in Nat, NEW j \in Nat, NEW r \in Nat, r < PartLen, NEW q \in Nat, q <= PartLen,
         i = j => r = q,
         NEW from \in Nat, NEW top \in Nat, PartStart(j) <= from, top <= PartStart(j) + q
  PROVE  ~(from <= PartStart(i) + r /\ PartStart(i) + r < top)
<1>1. PICK s \in Nat, t \in Nat, len \in Nat : s = PartStart(i) /\ t = PartStart(j) /\ len = PartLen
  BY PartStarts, Constants
<1>2. CASE i = j
  <2>1. s = t /\ r = q
    BY <1>1, <1>2
  <2> QED BY <1>1, <2>1
<1>3. CASE i < j
  <2>1. s + len <= t
    BY <1>1, <1>3, TimesGrows DEF PartStart
  <2> QED BY <1>1, <2>1
<1>4. CASE j < i
  <2>1. t + len <= s
    BY <1>1, <1>4, TimesGrows DEF PartStart
  <2> QED BY <1>1, <2>1
<1> QED BY <1>2, <1>3, <1>4

\* A seek with an empty buffer: the descriptor is at the place, and the buffer
\* holds what lies before it in its block.
LEMMA SeekFromEmpty ==
  ASSUME NEW f \in Stream, f.mode = "r+b", f.held = 0, NEW p \in Nat, NEW g, g = Seek(f, p)
  PROVE  /\ g.fd = p
         /\ g.held > 0 => g.top - g.held = BlockStart(p) /\ g.top = p
         /\ BlockStart(p) = p => g.held = 0
<1>1. ~Buffered(f, p)
  BY DEF Buffered, Stream
<1>2. g.fd = p
  BY SeekEmpty
<1>3. CASE g.held = 0
  BY <1>2, <1>3
<1>4. CASE g.held # 0
  <2>1. PICK s \in Nat, h \in Nat, size \in Nat : s = BlockStart(p) /\ h = g.held /\ size = f.size
    <3>1. g \in Stream
      BY SeekMoves
    <3>2. g.held \in Nat /\ f.size \in Nat
      BY <3>1 DEF Stream
    <3> QED BY <3>2, Blocks
  <2>2. s < p /\ p <= size /\ g.top = s + h /\ h = LeastOf(p - s, size - s)
    BY <1>1, <1>4, <2>1, SeekCases
  <2>3. h = p - s /\ s + h = p /\ p - h = s /\ s # p
    BY <2>1, <2>2 DEF LeastOf
  <2> QED BY <1>2, <2>1, <2>2, <2>3, Zenon
<1> QED BY <1>3, <1>4

\* A seek to the start of a block that the buffer does not hold empties it.
LEMMA SeekToStart ==
  ASSUME NEW f \in Stream, f.mode = "r+b", NEW p \in Nat, ~Buffered(f, p), BlockStart(p) = p,
         NEW g, g = Seek(f, p)
  PROVE  g.fd = p /\ g.held = 0
BY SeekCases

LEMMA RequestParts ==
  ASSUME Values, Parts, RequestPart
  PROVE  Parts'
<1>1. PICK i \in 0 .. NumParts - 1 :
        /\ received[i] < PartLen
        /\ SeekFor(file, PartStart(i) + received[i], PartLen - received[i])
  BY DEF RequestPart, Values, PartStart
<1>2. /\ user = "download" /\ pc = "ready" /\ user' = user /\ received' = received
      /\ midBlock' = IF aim' % Block = 0 THEN midBlock ELSE midBlock + 1
  BY DEF RequestPart
<1>3. /\ i \in Nat /\ received[i] \in Nat /\ midBlock \in Nat
      /\ Fits(file) /\ file \in Stream /\ file.mode = "r+b" /\ file.size >= NumParts * PartLen
      /\ midBlock = 0 => file.held = 0
      /\ midBlock = 1 /\ file.held > 0 =>
           \E j \in 0 .. NumParts - 1 :
              PartStart(j) <= file.top - file.held /\ file.top <= PartStart(j) + received[j]
  <2>1. i \in Nat /\ received[i] \in 0 .. PartLen
    BY DEF Values
  <2>2. received[i] \in Nat
    BY <2>1, Constants
  <2> QED BY <1>2, <2>1, <2>2 DEF Values, Parts, Fits
<1>4. PICK p \in Nat, r \in Nat : p = PartStart(i) + r /\ r = received[i] /\ r < PartLen
  <2>1. PICK s \in Nat, r \in Nat : s = PartStart(i) /\ r = received[i] /\ r < PartLen
    BY <1>1, <1>3, PartStarts
  <2>2. s + r \in Nat
    OBVIOUS
  <2> QED BY <2>1, <2>2, Zenon
<1>5. PICK g : g = Seek(file, p)
  OBVIOUS
<1>6. file' = g /\ aim' = p /\ left' = PartLen - received[i] /\ pc' = "io"
  BY <1>1, <1>4, <1>5, Zenon DEF SeekFor, Goto
<1>7. g \in Stream /\ g.mode = "r+b" /\ g.size = file.size
  BY <1>3, <1>5, SeekMoves
<1>8. p % Block = 0 <=> BlockStart(p) = p
  <2>1. p % Block \in Nat
    BY Remainder, Constants
  <2> QED BY <2>1 DEF BlockStart
<1>9. midBlock' \in Nat /\ midBlock' = IF BlockStart(p) = p THEN midBlock ELSE midBlock + 1
  BY <1>2, <1>3, <1>6, <1>8
<1>10. CASE file.held = 0
  <2>1. /\ g.fd = p
        /\ g.held > 0 => g.top - g.held = BlockStart(p) /\ g.top = p
        /\ BlockStart(p) = p => g.held = 0
    BY <1>3, <1>5, <1>10, SeekFromEmpty
  <2>2. midBlock' = 0 => BlockStart(p) = p
    BY <1>3, <1>9
  <2>3. PartStart(i) <= BlockStart(p)
    <3>1. PartStart(i) \in Nat /\ BlockStart(PartStart(i)) = PartStart(i)
      BY <1>3, PartStarts
    <3>2. PartStart(i) <= p
      BY <1>4, <3>1
    <3>3. BlockStart(PartStart(i)) <= BlockStart(p)
      BY <3>1, <3>2, StartsInOrder
    <3> QED BY <3>1, <3>3, Zenon
  <2>4. p <= PartStart(i) + received[i]
    BY <1>4
  <2>5. midBlock' = 0 => g.held = 0
    BY <2>1, <2>2
  <2>6. g.held > 0 => PartStart(i) <= g.top - g.held /\ g.top <= PartStart(i) + received[i]
    BY <2>1, <2>3, <2>4, Zenon
  <2> QED BY <1>2, <1>3, <1>4, <1>6, <1>7, <2>1, <2>5, <2>6, Zenon DEF Parts
<1>11. CASE file.held # 0 /\ midBlock' <= 1
  <2>1. file.held > 0 /\ file.held \in Nat /\ file.top \in Nat
    <3>1. file.held \in Nat /\ file.top \in Nat
      BY <1>3 DEF Stream
    <3> QED BY <1>11, <3>1
  <2>2. midBlock = 1 /\ midBlock' = 1 /\ BlockStart(p) = p
    <3>1. midBlock # 0
      BY <1>3, <1>11
    <3> QED BY <1>3, <1>9, <1>11, <3>1
  <2>3. PICK j \in 0 .. NumParts - 1 :
          PartStart(j) <= file.top - file.held /\ file.top <= PartStart(j) + received[j]
    BY <1>3, <2>1, <2>2
  <2>4. ~Buffered(file, p)
    <3>1. PICK q \in Nat : q = received[j] /\ q <= PartLen
      <4>1. received[j] \in 0 .. PartLen
        BY DEF Values
      <4> QED BY <4>1, Constants
    <3>2. j \in Nat /\ PartStart(j) \in Nat
      BY PartStarts
    <3>3. PICK from \in Nat, top \in Nat : from = file.top - file.held /\ top = file.top
      <4>1. file.top - file.held \in Nat
        BY <2>1, <2>3, <3>2
      <4> QED BY <2>1, <4>1
    <3>4. i = j => r = q
      BY <1>4, <3>1
    <3>5. PartStart(j) <= from /\ top <= PartStart(j) + q
      BY <2>3, <3>1, <3>3
    <3>6. ~(from <= PartStart(i) + r /\ PartStart(i) + r < top)
      BY <1>3, <1>4, <3>1, <3>2, <3>4, <3>5, RestNotHeld
    <3> QED BY <1>4, <3>3, <3>6, Zenon DEF Buffered
  <2>5. g.fd = p /\ g.held = 0
    BY <1>3, <1>5, <2>2, <2>4, SeekToStart
  <2>6. ~(g.held > 0)
    BY <2>5
  <2> QED BY <1>2, <1>3, <1>4, <1>6, <1>7, <2>2, <2>5, <2>6, Zenon DEF Parts
<1>12. CASE ~(midBlock' <= 1)
  <2>1. midBlock' # 0 /\ midBlock' # 1
    BY <1>12
  <2> QED BY <1>2, <1>3, <1>4, <1>6, <1>7, <1>12, <2>1, Zenon DEF Parts
<1> QED BY <1>10, <1>11, <1>12

LEMMA ReceiveParts ==
  ASSUME Values, Parts, ReceivePart
  PROVE  Parts'
<1>1. PICK n \in 1 .. left :
        /\ file' = Write(file, n)
        /\ received' = [received EXCEPT ![aim \div PartLen] = @ + n]
        /\ aim' = aim + n /\ left' = left - n
  BY DEF ReceivePart
<1>2. /\ user = "download" /\ pc = "io" /\ UNCHANGED <<user, pc, midBlock>>
  BY DEF ReceivePart
<1>3. PICK i \in 0 .. NumParts - 1 :
        /\ aim = PartStart(i) + received[i] /\ left = PartLen - received[i]
        /\ aim \div PartLen = i
        /\ i \in Nat /\ received[i] \in Nat /\ received[i] + n \in 0 .. PartLen
  BY <1>2, AtPart
<1>4. /\ received \in [0 .. NumParts - 1 -> 0 .. PartLen] /\ n \in Nat /\ left \in Nat
      /\ Fits(file) /\ file \in Stream /\ file.mode = "r+b" /\ file.size >= NumParts * PartLen
  <2>1. left \in Nat
    BY DEF Values
  <2>2. n \in Nat
    BY <2>1
  <2> QED BY <1>2, <2>1, <2>2 DEF Values, Parts, Fits
<1>5. received'[i] = received[i] + n /\ \A j \in 0 .. NumParts - 1 : j # i => received'[j] = received[j]
  BY <1>1, <1>3, <1>4
<1>6. \A j \in 0 .. NumParts - 1 : received[j] \in Nat /\ received'[j] \in Nat /\ received[j] <= received'[j]
  <2>1. ASSUME NEW j \in 0 .. NumParts - 1
        PROVE  received[j] \in Nat /\ received'[j] \in Nat /\ received[j] <= received'[j]
    <3>1. received[j] \in Nat
      BY <1>4, Constants
    <3> QED BY <1>4, <1>5, <3>1
  <2> QED BY <2>1
<1>7. aim' = PartStart(i) + received'[i] /\ left' = PartLen - received'[i]
  <2>1. PICK s \in Nat, len \in Nat, r \in Nat : s = PartStart(i) /\ len = PartLen /\ r = received[i]
    BY <1>3, PartStarts, Constants
  <2>2. s + r + n = s + (r + n) /\ len - r - n = len - (r + n)
    BY <1>4
  <2> QED BY <1>1, <1>3, <1>5, <2>1, <2>2, Zenon
<1>8. PICK g : g = Write(file, n)
  OBVIOUS
<1>9. /\ g.mode = "r+b" /\ g.fd = file.fd + n /\ g.top = file.top /\ g.held = file.held
      /\ g.size >= NumParts * PartLen
  <2>1. /\ g.mode = file.mode /\ g.fd = file.fd + n /\ g.top = file.top /\ g.held = file.held
        /\ g.size = (IF file.fd + n > file.size THEN file.fd + n ELSE file.size)
    BY <1>4, <1>8, WriteFits, SMTT(20)
  <2>2. PICK fd \in Nat, size \in Nat, all \in Nat : fd = file.fd /\ size = file.size /\ all = NumParts * PartLen
    <3>1. NumParts * PartLen \in Nat
      BY Constants
    <3>2. file.fd \in Nat /\ file.size \in Nat
      BY <1>4 DEF Stream
    <3> QED BY <3>1, <3>2
  <2>3. g.size >= all
    BY <1>4, <2>1, <2>2
  <2> QED BY <1>4, <2>1, <2>2, <2>3, Zenon
<1>10. midBlock = 1 /\ g.held > 0 =>
         \E j \in 0 .. NumParts - 1 :
            PartStart(j) <= g.top - g.held /\ g.top <= PartStart(j) + received'[j]
  <2>1. SUFFICES ASSUME midBlock = 1, g.held > 0
                 PROVE  \E j \in 0 .. NumParts - 1 :
                          PartStart(j) <= g.top - g.held /\ g.top <= PartStart(j) + received'[j]
    OBVIOUS
  <2>2. PICK j \in 0 .. NumParts - 1 :
          PartStart(j) <= file.top - file.held /\ file.top <= PartStart(j) + received[j]
    BY <1>2, <1>9, <2>1 DEF Parts
  <2>3. file.top <= PartStart(j) + received'[j]
    <3>1. PICK s \in Nat, t \in Nat, a \in Nat, b \in Nat :
            s = PartStart(j) /\ t = file.top /\ a = received[j] /\ b = received'[j] /\ a <= b
      <4>1. PartStart(j) \in Nat /\ file.top \in Nat
        BY <1>4, PartStarts DEF Stream
      <4> QED BY <1>6, <4>1
    <3> QED BY <2>2, <3>1
  <2> QED BY <1>9, <2>2, <2>3, Zenon
<1>11. midBlock <= 1 => g.fd = aim'
  BY <1>1, <1>2, <1>9 DEF Parts
<1>12. midBlock = 0 => g.held = 0
  BY <1>2, <1>9 DEF Parts
<1> QED BY <1>1, <1>2, <1>7, <1>8, <1>9, <1>10, <1>11, <1>12, Zenon DEF Parts

LEMMA PartsNext ==
  ASSUME FInv, Values, Parts, Next
  PROVE  Parts'
<1>1. CASE OpenDestination
  <2>1. PICK n \in Nat : n = NumParts * PartLen
    BY Constants
  <2>2. PICK f : f = Open("r+b", n)
    OBVIOUS
  <2>3. f.mode = "r+b" /\ f.size = n /\ f.held = 0
    BY <2>2, OpenFits
  <2>4. file' = f /\ pc' = "ready" /\ midBlock' = 0
    BY <1>1, <2>1, <2>2 DEF OpenDestination, Goto, Parts
  <2> QED BY <2>1, <2>3, <2>4 DEF Parts
<1>2. CASE RequestPart
  BY <1>2, RequestParts
<1>3. CASE ReceivePart
  BY <1>3, ReceiveParts
<1>4. CASE LeavePart
  BY <1>4 DEF LeavePart, Goto, Parts
<1>5. CASE SeekOldRecord \/ ReadOldRecord
  <2>1. user = "old status" /\ user' = user
    BY <1>5, StatusReader DEF SeekOldRecord, ReadOldRecord
  <2> QED BY <2>1, Zenon DEF Parts
<1>6. CASE \/ Serve \/ SendPart \/ SendEnds \/ CreateStatus \/ ResumeStatus
           \/ SeekRecord \/ WriteRecord
  <2>1. user' = user /\ user \in {"serve", "new status", "old status"}
    BY <1>6 DEF Serve, SendPart, SendEnds, CreateStatus, ResumeStatus, SeekRecord, WriteRecord
  <2> QED BY <2>1, Zenon DEF Parts
<1> QED BY <1>1, <1>2, <1>3, <1>4, <1>5, <1>6 DEF Next

-----------------------------------------------------------------------------
LEMMA InitGInv == Init => GInv
<1> SUFFICES ASSUME Init PROVE GInv
  OBVIOUS
<1>1. FInv
  BY InitFInv
<1>2. Fits(file)
  BY OpenFits DEF Init
<1>3. Values
  BY <1>2, Constants DEF Init, Values, Fits
<1>4. OldRecords /\ Parts
  BY DEF Init, OldRecords, Parts
<1> QED BY <1>1, <1>3, <1>4 DEF GInv

LEMMA NextGInv == GInv /\ [Next]_vars => GInv'
<1> SUFFICES ASSUME GInv, [Next]_vars PROVE GInv'
  OBVIOUS
<1>1. FInv'
  BY NextFInv DEF GInv
<1>2. CASE Next
  BY <1>1, <1>2, ValuesNext, OldRecordsNext, PartsNext DEF GInv
<1>3. CASE UNCHANGED vars
  BY <1>1, <1>3 DEF vars, GInv, Values, Fits, OldRecords, LastBlockEnd, Parts
<1> QED BY <1>2, <1>3

\* What the File's buffer holds, and where its descriptor stands, for the user of
\* a resumed status file and for a download thread.
THEOREM FileStates == Spec => []GInv
<1> QED BY InitGInv, NextGInv, PTL DEF Spec

\* Every variable of FileStream has its type; above all a stdio buffer never holds
\* more than a block, nor anything that is not in the file, although File writes
\* behind the back of stdio (File.cpp).
THEOREM FileTypeCorrect == Spec => []TypeOK
<1>1. GInv => TypeOK
  <2> SUFFICES ASSUME GInv PROVE TypeOK
    OBVIOUS
  <2>1. /\ file.mode \in {"closed", "rb", "r+b", "wb"}
        /\ file.size \in Nat /\ file.fd \in Nat /\ file.top \in Nat
        /\ file.held \in 0 .. Block /\ file.ptr \in 0 .. file.held
        /\ file.held > 0 => file.top <= file.size
    <3>1. file \in Stream /\ file.held <= Block /\ file.ptr <= file.held
      BY DEF GInv, Values, Fits
    <3>2. file.held \in Nat /\ file.ptr \in Nat
      BY <3>1 DEF Stream
    <3>3. file.held \in 0 .. Block /\ file.ptr \in 0 .. file.held
      BY <3>1, <3>2, Constants
    <3> QED BY <3>1, <3>3 DEF GInv, Values, Fits, Stream
  <2> QED BY <2>1, Zenon DEF GInv, FInv, Values, TypeOK
<1> QED BY <1>1, FileStates, PTL

\* The raw writes of updateDownloadStatus (DownloadManager.cpp 88-100) to a resumed
\* status file may miss their records, but the file never shrinks, nor grows by
\* more than one record past the block of its last one.
THEOREM StatusGrowsByOneRecord == Spec => []StatusGrowthBounded
<1>1. GInv => StatusGrowthBounded
  BY DEF GInv, OldRecords, StatusGrowthBounded
<1> QED BY <1>1, FileStates, PTL

\* DownloadThread writes what it receives where it belongs, whatever parts it gets
\* and however much other threads have received of them, unless it has gone on in
\* the middle of a block before.
THEOREM ReceivedPartsInPlace == Spec => []PartsInPlace
<1>1. GInv => PartsInPlace
  BY DEF GInv, Parts, PartsInPlace, InPlace
<1> QED BY <1>1, FileStates, PTL
=============================================================================
