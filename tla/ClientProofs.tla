------------------------------ MODULE ClientProofs ------------------------------
(***************************************************************************)
(* What is proved of Client, for every number of threads, size, and number *)
(* of faults, crashes, commands and changes of the file.  Within a         *)
(* download the lemmas about DownloadManager carry over, because each of   *)
(* its steps is a step of that module; what is new is what holds between   *)
(* the downloads and across the processes.                                 *)
(***************************************************************************)
EXTENDS Client, DownloadManagerProofs

\* Where a download stands between the console and the disk.
Between ==
  /\ phase \in {"creating", "running"} => repl = "download" /\ statusExists
  /\ phase \notin {"creating", "running"} => nPart = 0
  /\ ~statusExists => statusLen = 0
  /\ since \in {"none", "same", "changed"}

CInv ==
  /\ Typed /\ Exclusion /\ Diligent /\ EveryPartCovered
  /\ BelievedIfSame /\ StatusFileIffUnfinished /\ Between

LEMMA InitCInv == ClientInit => CInv
<1> SUFFICES ASSUME ClientInit PROVE CInv
  OBVIOUS
<1>1. Init
  BY DEF ClientInit
<1>2. EveryPartCovered
  BY <1>1 DEF Init, EveryPartCovered
<1>3. BelievedIfSame
  BY <1>1, InitProgress DEF BelievedIfSame
<1>4. StatusFileIffUnfinished /\ Between
  BY <1>1 DEF ClientInit, Init, StatusFileIffUnfinished, Between
<1> QED
  BY <1>1, <1>2, <1>3, <1>4, InitTyped, InitExclusion, InitDiligent DEF CInv

\* A step that leaves the download alone: nothing moves, or downloadWait is
\* ready to be called again, or the file on disk is no longer the one asked for.
Apart ==
  /\ UNCHANGED <<parts, nPart, using, partsLock, threadVars, statusExists,
                 status, statusLen, statusPos, resumed, clean, boundVars>>
  /\ \/ phase' = phase
     \/ phase' = "start" /\ phase \notin {"creating", "running"}
  /\ \/ written' = written /\ since' = since
     \/ written' = {} /\ since' = IF since = "same" THEN "changed" ELSE since
  /\ phase \in {"creating", "running"} /\ repl = "download" => repl' = "download"

LEMMA ClientSteps ==
  ASSUME CInv, [ClientNext]_clientVars
  PROVE  DownloadStep \/ Apart
<1> USE DEF vars, threadVars, diskVars, boundVars, consoleVars, linkVars, clientVars, Apart
<1>1. CASE RefuseCommand
  BY <1>1 DEF RefuseCommand, Type
<1>2. ASSUME NEW c \in Commands, SendCommand(c) \/ SendFails(c) \/ SendBroken(c)
      PROVE  Apart
  BY <1>2 DEF SendCommand, SendFails, SendBroken, Type
<1>3. CASE HandleResponse
  BY <1>3 DEF HandleResponse, PrintText, StartDownload, NoReply
<1>4. CASE Report
  BY <1>4 DEF Report
<1>5. CASE StartClient
  BY <1>5 DEF StartClient, CInv, Between
<1>6. CASE Serve \/ LoseServer
  BY <1>6 DEF Serve, LoseServer
<1>7. CASE ChangeFile
  BY <1>7 DEF ChangeFile
<1>8. CASE UNCHANGED clientVars
  BY <1>8
<1> QED
  BY <1>1, <1>2, <1>3, <1>4, <1>5, <1>6, <1>7, <1>8 DEF ClientNext

LEMMA ApartKeeps ==
  ASSUME CInv, Apart
  PROVE  CInv'
<1> USE DEF CInv, threadVars, boundVars
<1>1. Typed'
  <2>1. TypeOK'
    BY DEF Apart, Typed, TypeOK
  <2>2. IdsInRange' /\ Placed'
    BY DEF Apart, Typed, IdsInRange, Placed
  <2> QED BY <2>1, <2>2 DEF Typed
<1>2. Exclusion'
  BY DEF Apart, Exclusion, UsingIffHeld, ExclusiveParts, Mine
<1>3. Diligent'
  BY DEF Apart, Diligent, Mine
<1>4. EveryPartCovered'
  BY DEF Apart, EveryPartCovered, Aligned, Unfinished, Front
<1>5. BelievedIfSame'
  <2>1. CASE written' = written /\ since' = since
    BY <2>1 DEF Apart, BelievedIfSame, ProgressNeverAhead
  <2>2. CASE since' # "changed" /\ ~(written' = written /\ since' = since)
    <3>1. since = "none"
      BY <2>2 DEF Apart, Between
    <3>2. nPart' = 0 /\ statusLen' = 0
      BY <3>1 DEF Apart, Between, StatusFileIffUnfinished
    <3> QED BY <3>2 DEF BelievedIfSame, ProgressNeverAhead
  <2>3. CASE since' = "changed"
    BY <2>3 DEF BelievedIfSame
  <2> QED BY <2>1, <2>2, <2>3
<1>6. StatusFileIffUnfinished' /\ Between'
  BY DEF Apart, StatusFileIffUnfinished, Between
<1> QED BY <1>1, <1>2, <1>3, <1>4, <1>5, <1>6

\* Which of its files a step of the download touches.
LEMMA DownloadStepPlaces ==
  ASSUME Typed, Between, StatusFileIffUnfinished, DownloadStep
  PROVE  /\ Next
         /\ phase' \in {"creating", "running"} => statusExists'
         /\ phase' \notin {"creating", "running"} => nPart' = 0
         /\ ~statusExists' => statusLen' = 0
         /\ statusExists' <=> phase' # "done"
         /\ phase' = "done" => FinishDownload
<1> USE DEF diskVars
<1>1. Main \/ Crash \/ \E t \in Threads : Run(t) \/ Disturb(t) \/ StartFails(t)
  BY DEF DownloadStep
<1>2. CASE Resume \/ CreateStatusFile \/ WriteStatusFile \/ FinishDownload \/ Crash \/ JoinUnborn
  BY <1>2 DEF Main, Next, Resume, CreateStatusFile, WriteStatusFile, StartThreads, FinishDownload,
       Crash, JoinUnborn, Die, ForgetVolatile, Between
<1>3. ASSUME NEW t \in Threads, StartThread(t) \/ StartFails(t)
      PROVE  Next /\ phase = "running" /\ UNCHANGED <<phase, nPart, statusExists, statusLen>>
  BY <1>3, PoolStep DEF Next, Main
<1>4. ASSUME NEW t \in Threads, BrokenPipe(t)
      PROVE  Next /\ phase = "running" /\ phase' = "crashed" /\ nPart' = 0
             /\ UNCHANGED <<statusExists, statusLen>>
  BY <1>4 DEF BrokenPipe, Die, ForgetVolatile, Next, Run, At
<1>5. ASSUME NEW t \in Threads, Run(t) \/ Disturb(t), ~BrokenPipe(t)
      PROVE  Next /\ phase = "running" /\ UNCHANGED <<phase, statusExists>>
  BY <1>5 DEF Next, Run, Disturb, Lock, ClaimPart, Claim, EndThread, RequestPart, RequestFails,
       ReceiveChunk, ReceiveShort, Receive, ConnectionClosed, ReadAfterError, DropConnection,
       SeekStatus, WriteStatus, ReleasePart, At
<1> QED
  BY <1>1, <1>2, <1>3, <1>4, <1>5 DEF Main, Between

LEMMA DownloadKeeps ==
  ASSUME CInv, DownloadStep
  PROVE  CInv'
<1> USE DEF CInv
<1>1. Next /\ Typed'
  BY DownloadStepPlaces, NextTyped
<1>2. Exclusion' /\ Diligent' /\ EveryPartCovered'
  BY <1>1, NextExclusion, NextDiligent, NextCovered
<1>3. since' = IF phase' = "done" THEN "none" ELSE IF since = "none" THEN "same" ELSE since
  BY DEF DownloadStep
<1>4. BelievedIfSame'
  <2>1. CASE since # "changed"
    BY <1>1, <2>1, NextProgress DEF BelievedIfSame
  <2>2. CASE since = "changed" /\ phase' = "done"
    <3>1. nPart' = 0 /\ statusLen' = 0
      BY <2>2, DownloadStepPlaces
    <3> QED BY <3>1 DEF BelievedIfSame, ProgressNeverAhead
  <2>3. CASE since = "changed" /\ phase' # "done"
    BY <1>3, <2>3 DEF BelievedIfSame
  <2> QED BY <2>1, <2>2, <2>3
<1>5. StatusFileIffUnfinished'
  BY <1>3, DownloadStepPlaces DEF StatusFileIffUnfinished
<1>6. Between'
  <2>1. phase' \in {"creating", "running"} => repl' = "download"
    BY DEF DownloadStep
  <2> QED BY <1>3, <2>1, DownloadStepPlaces DEF Between
<1> QED BY <1>1, <1>2, <1>4, <1>5, <1>6

LEMMA NextCInv == CInv /\ [ClientNext]_clientVars => CInv'
BY ClientSteps, ApartKeeps, DownloadKeeps

\* The types of the client's own variables.
Console ==
  /\ repl \in {"prompt", "sent", "download", "exited"}
  /\ mode \in {"repl", "single"} /\ active \in BOOLEAN /\ destFile \in BOOLEAN
  /\ conn \in {"open", "closed", "reset", "broken"}
  /\ request \in Commands \cup {"none"} /\ reply \in {"none", "text", "info"}
  /\ commands \in 0 .. MaxCommands /\ changes \in 0 .. MaxChanges

LEMMA NextConsole == Console /\ [ClientNext]_clientVars => Console'
<1> SUFFICES ASSUME Console, [ClientNext]_clientVars PROVE Console'
  OBVIOUS
<1> USE ClientAssumption DEF Console, consoleVars, linkVars
<1>0. AfterCommand(TRUE) \in {"prompt", "exited"} /\ AfterCommand(FALSE) \in {"prompt", "exited"}
  BY DEF AfterCommand
<1>a. ASSUME NEW c, Type(c)
      PROVE  /\ commands' \in 0 .. MaxCommands /\ active' \in BOOLEAN
             /\ UNCHANGED <<mode, reply, changes>>
  BY <1>a DEF Type
<1>1. CASE RefuseCommand
  BY <1>0, <1>a, <1>1 DEF RefuseCommand
<1>2. ASSUME NEW c \in Commands, SendCommand(c) \/ SendFails(c) \/ SendBroken(c)
      PROVE  Console'
  <2>1. Type(c)
    BY <1>2 DEF SendCommand, SendFails, SendBroken
  <2>2. CASE SendCommand(c)
    BY <1>a, <2>1, <2>2 DEF SendCommand
  <2>3. CASE SendFails(c)
    BY <1>0, <1>a, <2>1, <2>3 DEF SendFails
  <2>4. CASE SendBroken(c)
    BY <1>a, <2>1, <2>4 DEF SendBroken
  <2> QED BY <1>2, <2>2, <2>3, <2>4
<1>3. CASE HandleResponse
  BY <1>0, <1>3 DEF HandleResponse, PrintText, StartDownload, NoReply
<1>4. CASE DownloadStep
  BY <1>4 DEF DownloadStep
<1>5. CASE Report \/ StartClient
  BY <1>0, <1>5 DEF Report, StartClient
<1>6. CASE Serve \/ LoseServer \/ UNCHANGED clientVars
  BY <1>6 DEF Serve, LoseServer, clientVars
<1>7. CASE ChangeFile
  BY <1>7 DEF ChangeFile
<1> QED
  BY <1>1, <1>2, <1>3, <1>4, <1>5, <1>6, <1>7 DEF ClientNext

\* Every variable of the client and of its download keeps its type.
THEOREM ClientTypeCorrect == ClientSpec => []ClientTypeOK
<1>1. ASSUME ClientInit PROVE Console
  <2>1. commands \in 0 .. MaxCommands /\ changes \in 0 .. MaxChanges
    BY <1>1, ClientAssumption DEF ClientInit
  <2>2. active \in BOOLEAN /\ destFile \in BOOLEAN
    BY <1>1 DEF ClientInit
  <2> QED BY <1>1, <2>1, <2>2 DEF ClientInit, Console
<1>2. CInv /\ Console => ClientTypeOK
  BY DEF CInv, Typed, Between, Console, ClientTypeOK
<1> QED BY <1>1, <1>2, InitCInv, NextCInv, NextConsole, PTL DEF ClientSpec

\* A status file is left exactly by a download that has not succeeded, over
\* all processes.
THEOREM StatusFileKept == ClientSpec => []StatusFileIffUnfinished
<1>1. CInv => StatusFileIffUnfinished
  BY DEF CInv
<1> QED BY <1>1, InitCInv, NextCInv, PTL DEF ClientSpec

\* What a resumed download skips is on disk, whatever processes wrote the
\* status file, as long as the file is the one the download began with.
THEOREM ResumedDataIsThere == ClientSpec => []BelievedIfSame
<1>1. CInv => BelievedIfSame
  BY DEF CInv
<1> QED BY <1>1, InitCInv, NextCInv, PTL DEF ClientSpec

\* The report of success is true of a file that did not change, if no
\* connection failed in this run of downloadWait and its parts were the
\* partition.
THEOREM SuccessIsHonest == ClientSpec => SuccessHonest
<1> DEFINE Honest == phase = "running" /\ phase' = "done" /\ clean /\ Aligned /\ since # "changed"
                       => written = Units
<1>1. CInv /\ [ClientNext]_clientVars => [Honest]_clientVars
  <2> SUFFICES ASSUME CInv, [ClientNext]_clientVars, phase = "running", phase' = "done",
                      clean, Aligned, since # "changed"
               PROVE  written = Units
    OBVIOUS
  <2>1. DownloadStep
    BY ClientSteps DEF Apart
  <2>2. JoinAll
    BY <2>1, DownloadStepPlaces DEF CInv, FinishDownload
  <2>3. \A i \in 0 .. nPart - 1 : ~Unfinished(i)
    BY <2>2, CoveredMeansComplete DEF CInv, CleanSessionCompletes
  <2> QED BY <2>3, FinishedMeansComplete DEF CInv, BelievedIfSame
<1> QED BY <1>1, InitCInv, NextCInv, PTL DEF ClientSpec, SuccessHonest
=============================================================================
