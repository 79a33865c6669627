--------------------------- MODULE MCBlindMotion ----------------------------
(***************************************************************************)
(* A blind that opens in twice the time it takes to close.  A tick may     *)
(* fall before, on and after every position.                               *)
(***************************************************************************)
EXTENDS BlindMotion
=============================================================================
