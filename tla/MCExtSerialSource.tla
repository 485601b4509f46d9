------------------------- MODULE MCExtSerialSource -------------------------
(***************************************************************************)
(* A source with two load points besides off.                              *)
(***************************************************************************)
EXTENDS ExtSerialSource

CONSTANTS off, low, high

MCLoad == {off, low, high}
Ids == 1..3
=============================================================================
