--------------------------------- MODULE MCClient --------------------------------
(***************************************************************************)
(* The TLC instance of Client: two threads, a full part and a tail.        *)
(***************************************************************************)
EXTENDS Client
=============================================================================
