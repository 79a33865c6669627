----------------------------- MODULE MCRecvRing -----------------------------
(***************************************************************************)
(* A buffer of three slots (two presses), two commands and enough packets  *)
(* to fill it, wrap both indexes around and repeat a press on the way.     *)
(***************************************************************************)
EXTENDS RecvRing

CONSTANTS c1, c2

MCCommands == {c1, c2}
MCRepeatMod == 65536
=============================================================================
