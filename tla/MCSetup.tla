------------------------------ MODULE MCSetup -------------------------------
(***************************************************************************)
(* One network, one password and no broker besides the empty ones: every   *)
(* settings record may differ from the one before.  Two requests and two   *)
(* cuts: settings are saved, the saving cut short, the next boot cut short *)
(* as well.                                                                *)
(***************************************************************************)
EXTENDS Setup

CONSTANTS home, secret, device

MCSsids      == {home}
MCBrokers    == {}
MCPasswords  == {secret}
MCDeviceData == {device}
=============================================================================
