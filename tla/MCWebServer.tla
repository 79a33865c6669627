---------------------------- MODULE MCWebServer -----------------------------
(***************************************************************************)
(* Two connections, three remotes and two networks: enough for a list that *)
(* shrinks by two while it is read, and for two pages that collect.        *)
(***************************************************************************)
EXTENDS WebServer

CONSTANTS c1, c2, n1, n2

MCClients == {c1, c2}
MCSsids   == {n1, n2}
MCRemoteIds == {1, 2, 3}
MCPrimary   == {3}
MCSymmetry == Permutations(MCClients) \cup Permutations(MCSsids)
=============================================================================
