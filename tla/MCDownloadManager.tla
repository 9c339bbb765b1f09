--------------------------- MODULE MCDownloadManager ---------------------------
(***************************************************************************)
(* TLC instances of DownloadManager.  The cfg files give the sizes; the    *)
(* partition of TotalSize = 5, PartSize = 2 has two full parts and a tail. *)
(***************************************************************************)
EXTENDS DownloadManager
=============================================================================
