--------------------------------- MODULE Client ---------------------------------
(***************************************************************************)
(* The client process around its downloads: client.cpp's main, the REPL    *)
(* and the single command (Client), the command connection, and the        *)
(* downloads of one destination file that follow each other, in one        *)
(* process and in later ones.  A download is DownloadManager's, from       *)
(* downloadWait's first step to its last, to the process's death at any    *)
(* point between.                                                          *)
(*                                                                         *)
(* The environment is the user, who types; the server, which answers each  *)
(* request on the command connection (Session) and may go away; and the    *)
(* rest of the world, in which the file asked for does not stay the same:  *)
(* the remote file is edited, the destination is deleted, or another       *)
(* source is named for it.  In each case what is on disk is no longer the  *)
(* data of the file asked for, so `written` becomes empty.  The size stays *)
(* (TotalSize is a constant).                                              *)
(*                                                                         *)
(* At the end of its input std::getline leaves `command` as it is, and the *)
(* REPL runs it again and again: behaviours in which the same command is   *)
(* typed over and over.                                                    *)
(***************************************************************************)
EXTENDS DownloadManager

CONSTANTS
  MaxCommands,  \* bound: commands typed in a behaviour
  MaxChanges    \* bound: changes of the file

ASSUME ClientAssumption == MaxCommands \in Nat /\ MaxChanges \in Nat

VARIABLES
  repl,         \* "prompt", "sent" (in handleResponse), "download", "exited"
  mode,         \* "repl" (runRepl) or "single" (runCommand)
  active,       \* Client::active
  destFile,     \* destFile is not null
  conn,         \* Client::socket: "open", "closed" by the server, "reset", or
                \* "broken": the reset has been reported once
  request,      \* the request on its way to the server, or "none"
  reply,        \* the reply on its way back, or "none"
  since,        \* history: "none", or whether the file is still the "same" or
                \* has "changed" since the unfinished download began
  commands,     \* history: commands typed so far
  changes       \* history: changes of the file so far

consoleVars == <<repl, mode, active, destFile>>
linkVars    == <<conn, request, reply>>
clientVars  == <<vars, consoleVars, linkVars, since, commands, changes>>

\* A command the server answers: a download's DOWNLOAD_INFO, quit, q or
\* shutdown, and every other line.
Commands == {"dl", "quit", "text"}

ClientInit ==
  /\ Init
  /\ repl = "prompt" /\ mode \in {"repl", "single"} /\ active = TRUE
  /\ destFile = FALSE
  /\ conn = "open" /\ request = "none" /\ reply = "none"
  /\ since = "none"
  /\ commands = 0 /\ changes = 0

-----------------------------------------------------------------------------
(***************************************************************************)
(* The REPL and the single command.                                        *)
(***************************************************************************)

\* runRepl's loop asks `active`; runCommand returns, and main with it.
AfterCommand_Always(a) == IF mode = "repl" THEN "prompt" ELSE "exited"
AfterCommand(a) == IF a /\ mode = "repl" THEN "prompt" ELSE "exited"

Type(c) ==
  /\ repl = "prompt"
  /\ commands < MaxCommands
  /\ commands' = commands + 1
  /\ active' = (active /\ c # "quit")
  /\ UNCHANGED <<vars, mode, reply, since, changes>>

\* sendCommand refuses: a blank line, a download without its two parameters
\* (destFile stays), or a destination that cannot be opened.
RefuseCommand ==
  /\ Type("text")
  /\ destFile' \in {destFile, FALSE}
  /\ repl' = AfterCommand(active)
  /\ UNCHANGED <<conn, request>>

\* sendCommand sends.  A write to a connection the server has closed still
\* succeeds.
SendCommand(c) ==
  /\ Type(c)
  /\ conn \in {"open", "closed"}
  /\ request' = IF conn = "open" THEN c ELSE "none"
  /\ destFile' = (destFile \/ c = "dl")
  /\ repl' = "sent"
  /\ UNCHANGED conn

\* The first write after a reset fails, and a download lets its file go.
SendFails(c) ==
  /\ Type(c)
  /\ conn = "reset"
  /\ conn' = "broken"
  /\ destFile' = (destFile /\ c # "dl")
  /\ repl' = AfterCommand(active')
  /\ UNCHANGED request

\* The next one raises SIGPIPE, and exit_normal ends the client.
SendBroken(c) ==
  /\ Type(c)
  /\ conn = "broken"
  /\ repl' = "exited"
  /\ UNCHANGED <<destFile, conn, request>>

\* handleResponse: a text is printed; DOWNLOAD_INFO's reply starts the
\* download; no reply any more ends the client.
PrintText ==
  /\ repl = "sent" /\ reply = "text"
  /\ reply' = "none"
  /\ repl' = AfterCommand(active)
  /\ UNCHANGED <<vars, mode, active, destFile, conn, request, since, commands,
                 changes>>

StartDownload ==
  /\ repl = "sent" /\ reply = "info"
  /\ reply' = "none"
  /\ repl' = "download"
  /\ UNCHANGED <<vars, mode, active, destFile, conn, request, since, commands,
                 changes>>

NoReply ==
  /\ repl = "sent" /\ reply = "none"
  /\ conn # "open"
  /\ repl' = "exited"
  /\ UNCHANGED <<vars, mode, active, destFile, linkVars, since, commands,
                 changes>>

HandleResponse == PrintText \/ StartDownload \/ NoReply

\* One step of downloadWait, of its threads, or of what befalls them.
DownloadStep ==
  /\ repl = "download"
  /\ Main \/ Crash \/ \E t \in Threads : Run(t) \/ Disturb(t) \/ StartFails(t)
  /\ repl' = IF phase' = "crashed" THEN "exited" ELSE "download"
  /\ since' = IF phase' = "done" THEN "none"
              ELSE IF since = "none" THEN "same" ELSE since
  /\ UNCHANGED <<mode, active, destFile, linkVars, commands, changes>>

\* handleDownloadInfo reports the success and lets the file go.
Report ==
  /\ repl = "download" /\ phase = "done"
  /\ phase' = "start"
  /\ destFile' = FALSE
  /\ repl' = AfterCommand(active)
  /\ UNCHANGED <<parts, nPart, resumed, using, partsLock, threadVars, diskVars,
                 statusPos, clean, boundVars, mode, active, linkVars, since,
                 commands, changes>>

\* The client is run again, and connects.
StartClient ==
  /\ repl = "exited"
  /\ commands < MaxCommands
  /\ phase' = "start"
  /\ repl' = "prompt" /\ mode' \in {"repl", "single"} /\ active' = TRUE
  /\ destFile' = FALSE
  /\ conn' = "open" /\ request' = "none" /\ reply' = "none"
  /\ UNCHANGED <<parts, nPart, resumed, using, partsLock, threadVars, diskVars,
                 statusPos, clean, boundVars, since, commands, changes>>

-----------------------------------------------------------------------------
(***************************************************************************)
(* The environment.                                                        *)
(***************************************************************************)

\* The server answers: to DOWNLOAD_INFO with the size, or a text if there is
\* no such file.  After quit and shutdown it closes.
Serve ==
  /\ request # "none" /\ conn = "open"
  /\ reply' \in IF request = "dl" THEN {"info", "text"} ELSE {"text"}
  /\ conn' = IF request = "quit" THEN "closed" ELSE "open"
  /\ request' = "none"
  /\ UNCHANGED <<vars, consoleVars, since, commands, changes>>

\* The server goes away; a reset takes along the reply not yet read.
LoseServer ==
  /\ conn = "open"
  /\ conn' \in {"closed", "reset"}
  /\ request' = "none"
  /\ reply' = IF conn' = "reset" THEN "none" ELSE reply
  /\ UNCHANGED <<vars, consoleVars, since, commands, changes>>

\* Between joinAll's return and the report there is nothing to change.
ChangeFile ==
  /\ changes < MaxChanges
  /\ phase # "done"
  /\ changes' = changes + 1
  /\ written' = {}
  /\ since' = IF since = "same" THEN "changed" ELSE since
  /\ UNCHANGED <<phase, parts, nPart, resumed, using, partsLock, threadVars,
                 statusExists, status, statusLen, statusPos, clean, boundVars,
                 consoleVars, linkVars, commands>>

-----------------------------------------------------------------------------
ClientNext ==
  \/ RefuseCommand
  \/ \E c \in Commands : SendCommand(c) \/ SendFails(c) \/ SendBroken(c)
  \/ HandleResponse \/ DownloadStep \/ Report \/ StartClient
  \/ Serve \/ LoseServer \/ ChangeFile

ClientSpec == ClientInit /\ [][ClientNext]_clientVars

\* The server answers and the client goes on; that the user types, and that a
\* download ends, is not assumed.
ClientFairSpec ==
  /\ ClientSpec
  /\ WF_clientVars(Serve)
  /\ WF_clientVars(HandleResponse)

-----------------------------------------------------------------------------
(***************************************************************************)
(* Properties.                                                             *)
(***************************************************************************)
ClientTypeOK ==
  /\ TypeOK
  /\ repl \in {"prompt", "sent", "download", "exited"}
  /\ mode \in {"repl", "single"} /\ active \in BOOLEAN /\ destFile \in BOOLEAN
  /\ conn \in {"open", "closed", "reset", "broken"}
  /\ request \in Commands \cup {"none"} /\ reply \in {"none", "text", "info"}
  /\ since \in {"none", "same", "changed"}
  /\ commands \in 0 .. MaxCommands /\ changes \in 0 .. MaxChanges

\* The status file is there exactly while a download is unfinished: whatever
\* ended the process left it for the next one, and what followed a success,
\* in this process or a later one, found none.
StatusFileIffUnfinished == statusExists <=> since # "none"

\* What the status file and the parts count as received is on disk, over all
\* processes that worked on the download, unless the file has changed since it
\* began.
BelievedIfSame == since # "changed" => ProgressNeverAhead

\* "Successful written ... Bytes" (Client.cpp 116) is true, for any number of
\* downloads of this and other files, of crashes, of threads that did not
\* start, if no connection failed in this run of downloadWait, the parts it
\* took were the partition, and the file is the one the download began with.
SuccessHonest ==
  [][phase = "running" /\ phase' = "done" /\ clean /\ Aligned /\ since # "changed"
       => written = Units]_clientVars

\* A client told to quit ends, whatever becomes of the server.
ToldToQuit == ~active ~> repl = "exited"
=============================================================================
