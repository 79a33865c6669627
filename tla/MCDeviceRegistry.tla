-------------------------- MODULE MCDeviceRegistry --------------------------
(***************************************************************************)
(* Two remotes of our own, an imported one and two blinds: a group remote  *)
(* may be bound to both blinds, and ids are given out a second time.  The  *)
(* halves of an id have three bits.                                        *)
(***************************************************************************)
EXTENDS DeviceRegistry

MCIdMod == 8
MCBaseRemoteId == 8
\* Differs from ours in its low half.
MCImportable == {20}
=============================================================================
