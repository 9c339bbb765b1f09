------------------------------ MODULE MCFileStream ------------------------------
(***************************************************************************)
(* TLC instances of FileStream: a block of 3 or 4 units, files shorter and      *)
(* longer than that, and not, or just, a multiple of it.                   *)
(***************************************************************************)
EXTENDS FileStream
=============================================================================
