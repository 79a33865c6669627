------------------------------- MODULE MCRadio ------------------------------
(***************************************************************************)
(* One remote with two presses; other remotes send a press of Up and one   *)
(* of Prog, which the device must not take for a command.                  *)
(***************************************************************************)
EXTENDS Radio

MCRemotes == {2555905}   \* 0x270001
MCOthers ==
  {[remote |-> 66051, code |-> 258, button |-> Up],
   [remote |-> 66051, code |-> 513, button |-> Prog]}
MCCodeMod == 65536
=============================================================================
