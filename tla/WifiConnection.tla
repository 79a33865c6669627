--------------------------- MODULE WifiConnection ---------------------------
(***************************************************************************)
(* WifiConnection in client mode: the link that the Wi-Fi chip and DHCP    *)
(* make, and the timer that joins the network again when it is lost.       *)
(***************************************************************************)
EXTENDS Integers

CONSTANT MaxLosses  \* bound: links lost and attempts to join that fail

ASSUME WifiConnectionAssumption == MaxLosses \in Nat

VARIABLES
  wifi,   \* cyw43_tcpip_link_status
  losses  \* bound: losses so far

wifiVars == <<wifi, losses>>

\* "failed" stands for the negative values, no network or a wrong password.
WifiStatus == {"failed", "down", "joining", "noip", "up"}

\* Start has tried once.
WifiInit ==
  /\ wifi \in {"failed", "up"}
  /\ losses = 0

\* Mutation: a failure is not taken for a lost link.
LostOnlyDown == wifi = "down"

Lost == wifi \in {"failed", "down"}

\* WifiWatchdog, every 5 to 60 seconds.  In the other states it only sets the
\* LED.
WifiWatchdog ==
  /\ Lost
  /\ wifi' = "joining"
  /\ UNCHANGED losses

WifiJoined == wifi = "joining" /\ wifi' = "noip" /\ UNCHANGED losses

GotAddress == wifi = "noip" /\ wifi' = "up" /\ UNCHANGED losses

WifiLoses ==
  /\ losses < MaxLosses /\ losses' = losses + 1
  /\ \/ wifi = "joining" /\ wifi' = "failed"
     \/ wifi \in {"noip", "up"} /\ wifi' = "down"

WifiNext == WifiWatchdog \/ WifiJoined \/ GotAddress \/ WifiLoses

IsConnected == wifi = "up"

WifiTypeOK == wifi \in WifiStatus /\ losses \in 0 .. MaxLosses
=============================================================================
