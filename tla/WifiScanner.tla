---------------------------- MODULE WifiScanner -----------------------------
(***************************************************************************)
(* WifiScanner: the names of the networks around, for the page that sets   *)
(* up Wi-Fi.  A scan runs in the background; its results are handed to the *)
(* page when it asks, and then another scan is started.                    *)
(***************************************************************************)
EXTENDS Integers, Sequences, Functions

CONSTANTS
  Ssids,    \* names of networks
  MaxScans  \* bound: scans

ASSUME WifiScannerAssumption == MaxScans \in Nat \ {0}

VARIABLES
  oneTimeScan,  \* _oneTimeScan: set in access point mode
  active,       \* the Wi-Fi chip is scanning
  results,      \* _activeResults
  ssids,        \* _ssids
  reported,     \* history: what the last scan has reported
  complete,     \* history: what scans that ended have reported
  scans         \* bound: scans so far

scannerVars == <<oneTimeScan, active, results, ssids, reported, complete, scans>>

\* The scan of the constructor has been waited for: it was refused, or it
\* has found any networks, in any order.
ScannerInit ==
  /\ oneTimeScan \in BOOLEAN
  /\ active = FALSE
  /\ results \in UNION {Injection(1 .. n, Ssids) : n \in 0 .. 2}
  /\ ssids = <<>>
  /\ reported = Range(results)
  /\ complete = {reported}
  /\ scans = 1

\* TriggerScan.  That the chip refuses is not noticed.
TriggerScan ==
  /\ scans < MaxScans
  /\ scans' = scans + 1
  /\ active' \in BOOLEAN
  /\ reported' = {}

\* ScanResult: a network has been heard; again, if it has several stations.
ScanResult(s) ==
  /\ active
  /\ results' = IF s \in Range(results) THEN results ELSE Append(results, s)
  /\ reported' = reported \cup {s}
  /\ UNCHANGED <<oneTimeScan, active, ssids, complete, scans>>

ScanEnds ==
  /\ active
  /\ active' = FALSE
  /\ complete' = complete \cup {reported}
  /\ UNCHANGED <<oneTimeScan, results, ssids, reported, scans>>

\* Mutation: the results of a scan are taken before it has ended.
ReadyWhenNonempty == results # <<>>

Ready == ~ active /\ results # <<>>

ScansAgain == ~ oneTimeScan

\* CollectResults
CollectResults ==
  IF Ready
    THEN /\ ssids' = results
         /\ results' = <<>>
         /\ IF ScansAgain THEN TriggerScan ELSE UNCHANGED <<active, reported, scans>>
         /\ UNCHANGED <<oneTimeScan, complete>>
    ELSE UNCHANGED scannerVars

-----------------------------------------------------------------------------
ScannerTypeOK ==
  /\ oneTimeScan \in BOOLEAN /\ active \in BOOLEAN
  /\ results \in Seq(Ssids) /\ ssids \in Seq(Ssids)
  /\ reported \subseteq Ssids /\ complete \subseteq SUBSET Ssids
  /\ scans \in 1 .. MaxScans

\* wifiScanner.cpp:51-60: what the page gets is all that one scan has found,
\* each network once: never a scan that is still running, nor two scans
\* together, whenever the page asks.
SsidsFromOneScan ==
  ssids # <<>> => Range(ssids) \in complete /\ IsInjective(ssids)
=============================================================================
