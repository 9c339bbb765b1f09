------------------------------- MODULE MCReactor -------------------------------
(***************************************************************************)
(* TLC instances of Reactor: what the clients ask for.                     *)
(***************************************************************************)
EXTENDS Reactor, TLC

\* A request for each way through Session::handle (a quit, a text reply, a
\* packet of unknown type, an info, the download of a part, one beyond the end of
\* the file, one cut short).
AllRequests ==
  {Command("quit"), Garbage, Download(TRUE, 0, 0, TRUE, TRUE),
   Download(FALSE, 0, 2, TRUE, TRUE), Download(FALSE, 1, 0, TRUE, TRUE),
   Download(FALSE, 0, 0, TRUE, FALSE)}

\* What the repository's client sends to download a file, and to shut down.
ClientRequests == {Command("shutdown"), Download(FALSE, 0, 0, TRUE, TRUE)}

Symmetry == Permutations(ServerThreads)
=============================================================================
