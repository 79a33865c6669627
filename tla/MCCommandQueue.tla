--------------------------- MODULE MCCommandQueue ---------------------------
(***************************************************************************)
(* Two remotes and a queue of two entries: a press can find it full, and a *)
(* stop entry, a command and a receive entry compete for its slots.        *)
(***************************************************************************)
EXTENDS CommandQueue

CONSTANTS r1, r2

MCRemotes == {r1, r2}
MCOneRemote == {r1}
MCCodeMod == 65536
=============================================================================
