---------------------------- MODULE MCDiscovery -----------------------------
(***************************************************************************)
(* A blind, its remote and another remote.  MCDiscovery.cfg has changes    *)
(* and losses of the connection but no messages, MCInbound.cfg messages    *)
(* that fit the buffer, fill it or are too long, in pieces of every size.  *)
(***************************************************************************)
EXTENDS Discovery

MCRemotes   == {1, 2}
MCBlinds    == {3}
MCPrimaryOf == [b \in MCBlinds |-> 1]
MCDevices   == MCRemotes \cup MCBlinds
MCWord      == 65536
\* Nothing, something, and a word that the other one exceeds.
MCLeftover  == {0, 1}
=============================================================================
