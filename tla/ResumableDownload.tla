--------------------------- MODULE ResumableDownload ---------------------------
(***************************************************************************)
(* What a resumable download promises, with no parts, threads or status    *)
(* file: bytes arrive and stay; the progress a later run would resume from *)
(* claims only bytes that have arrived; success is reported once, when     *)
(* every byte has arrived; and it is reported in the end.                  *)
(*                                                                         *)
(* DownloadManager implements this while connections and process live; its *)
(* violation runs show how a fault or a crash breaks the promise.          *)
(***************************************************************************)
CONSTANT Bytes

VARIABLES
  have,      \* bytes on disk
  claimed,   \* bytes the recorded progress says are on disk
  reported   \* whether success has been reported

vars == <<have, claimed, reported>>

Init ==
  /\ have = {}
  /\ claimed = {}
  /\ reported = FALSE

Fetch ==
  /\ ~reported
  /\ have \subseteq have'
  /\ have' \subseteq Bytes
  /\ UNCHANGED <<claimed, reported>>

\* Progress is recorded, or what was recorded is partly overwritten.
Record ==
  /\ ~reported
  /\ claimed' \subseteq have
  /\ UNCHANGED <<have, reported>>

\* The record of progress goes with the report.
Report ==
  /\ ~reported
  /\ have = Bytes
  /\ claimed' = {}
  /\ reported' = TRUE
  /\ UNCHANGED have

Next == Fetch \/ Record \/ Report

Spec == Init /\ [][Next]_vars

\* Nothing abstract says how often bytes arrive; only that the report comes.
ReportComes == <>reported

LiveSpec == Spec /\ ReportComes
=============================================================================
