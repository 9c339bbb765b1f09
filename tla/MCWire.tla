-------------------------------- MODULE MCWire --------------------------------
(***************************************************************************)
(* TLC instances of Wire.  The cfg files give the sizes, scaled down: a    *)
(* header of 2 bytes for 4, a unit of 3 for 256, and requests and parts    *)
(* shorter and longer than a unit.                                         *)
(***************************************************************************)
EXTENDS Wire
=============================================================================
