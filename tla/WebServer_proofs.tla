-------------------------- MODULE WebServer_proofs --------------------------
(***************************************************************************)
(* Proofs about WifiScanner and WebServer, for any networks, connections   *)
(* and remotes and any number of scans and requests.                       *)
(*                                                                         *)
(* Scans: while a scan is running, _activeResults is exactly what it has   *)
(* reported, since the list was emptied before it was started; between two *)
(* scans it is empty or what a whole scan has reported (ScanInv).          *)
(*                                                                         *)
(* The page of remotes: what is still to be listed lies behind the place   *)
(* that the number of the next part stands for, and what has been listed   *)
(* before it, as long as at most one remote has been deleted (Reading);    *)
(* places are cardinalities of sets of smaller ids.                        *)
(***************************************************************************)
EXTENDS WebServer, SequenceTheorems, FiniteSetTheorems, TLAPS

-----------------------------------------------------------------------------
(* Scans *)

\* What the two lists of the scanner hold
ScanInv ==
  /\ IsInjective(results)
  /\ active => Range(results) = reported
  /\ ~ active /\ results # <<>> => Range(results) \in complete
  /\ SsidsFromOneScan

LEMMA EmptyList ==
  IsInjective(<<>>) /\ Range(<<>>) = {}
  BY DEF IsInjective, Range

LEMMA AppendNew ==
  ASSUME NEW S, NEW q \in Seq(S), NEW s \in S, s \notin Range(q)
  PROVE  /\ Append(q, s) \in Seq(S)
         /\ IsInjective(q) => IsInjective(Append(q, s))
         /\ Range(Append(q, s)) = Range(q) \cup {s}
  <1> DEFINE r == Append(q, s)
  <1>1. /\ r \in Seq(S) /\ DOMAIN r = 1 .. Len(q) + 1
        /\ \A i \in 1 .. Len(q) : r[i] = q[i]
        /\ r[Len(q) + 1] = s
    OBVIOUS
  <1>2. DOMAIN q = 1 .. Len(q) /\ Len(q) \in Nat
    OBVIOUS
  <1>3. \A i \in DOMAIN q : q[i] # s
    BY DEF Range
  <1>4. IsInjective(q) => IsInjective(r)
    <2> HIDE DEF r
    <2> QED BY <1>1, <1>2, <1>3 DEF IsInjective
  <1>5. Range(r) = Range(q) \cup {s}
    <2> HIDE DEF r
    <2>1. \A x \in Range(r) : x \in Range(q) \cup {s}
      BY <1>1, <1>2 DEF Range
    <2>2. \A x \in Range(q) \cup {s} : x \in Range(r)
      BY <1>1, <1>2 DEF Range
    <2> QED BY <2>1, <2>2
  <1> QED BY <1>1, <1>4, <1>5

LEMMA ScannerStarts ==
  ScannerInit => ScannerTypeOK /\ ScanInv
  <1> SUFFICES ASSUME ScannerInit PROVE ScannerTypeOK /\ ScanInv
    OBVIOUS
  <1>1. PICK n \in 0 .. 2 : results \in [1 .. n -> Ssids] /\ IsInjective(results)
    BY DEF ScannerInit, Injection
  <1>2. results \in Seq(Ssids)
    <2>1. n \in Nat
      OBVIOUS
    <2> QED BY <1>1, <2>1
  <1>3. Range(results) \subseteq Ssids
    BY <1>1 DEF Range
  <1>4. ScannerTypeOK
    <2>1. scans \in 1 .. MaxScans
      BY WifiScannerAssumption DEF ScannerInit
    <2>2. reported \subseteq Ssids /\ complete \subseteq SUBSET Ssids
      BY <1>3 DEF ScannerInit
    <2>3. ssids \in Seq(Ssids)
      BY DEF ScannerInit
    <2> QED BY <1>2, <2>1, <2>2, <2>3, Zenon DEF ScannerInit, ScannerTypeOK
  <1> QED BY <1>1, <1>4, EmptyList DEF ScannerInit, ScanInv, SsidsFromOneScan

LEMMA ScanStep ==
  ASSUME ScannerTypeOK, ScanInv,
         \/ \E s \in Ssids : ScanResult(s)
         \/ ScanEnds \/ CollectResults \/ UNCHANGED scannerVars
  PROVE  ScannerTypeOK' /\ ScanInv'
  <1>1. ASSUME NEW s \in Ssids, ScanResult(s) PROVE ScannerTypeOK' /\ ScanInv'
    <2>1. CASE s \in Range(results)
      BY <1>1, <2>1 DEF ScanResult, ScannerTypeOK, ScanInv, SsidsFromOneScan
    <2>2. CASE s \notin Range(results)
      <3>1. results' = Append(results, s)
        BY <1>1, <2>2 DEF ScanResult
      <3>2. /\ results' \in Seq(Ssids) /\ IsInjective(results')
            /\ Range(results') = Range(results) \cup {s}
        BY <2>2, <3>1, AppendNew DEF ScannerTypeOK, ScanInv
      <3> QED BY <1>1, <3>2 DEF ScanResult, ScannerTypeOK, ScanInv, SsidsFromOneScan
    <2> QED BY <2>1, <2>2
  <1>2. CASE ScanEnds
    BY <1>2 DEF ScanEnds, ScannerTypeOK, ScanInv, SsidsFromOneScan
  <1>3. CASE CollectResults
    <2>1. CASE Ready
      <3>1. ssids' = results /\ results' = <<>> /\ UNCHANGED <<oneTimeScan, complete>>
        BY <1>3, <2>1 DEF CollectResults
      <3>2. SsidsFromOneScan'
        BY <2>1, <3>1 DEF Ready, ScanInv, SsidsFromOneScan
      <3>3. /\ active' \in BOOLEAN /\ scans' \in 1 .. MaxScans
            /\ reported' \subseteq Ssids /\ (active' => reported' = {})
        BY <1>3, <2>1, WifiScannerAssumption
           DEF CollectResults, TriggerScan, Ready, ScannerTypeOK
      <3>4. ScannerTypeOK'
        BY <3>1, <3>3 DEF ScannerTypeOK
      <3>5. IsInjective(results') /\ Range(results') = {}
        BY <3>1, EmptyList
      <3> QED BY <3>1, <3>2, <3>3, <3>4, <3>5 DEF ScanInv
    <2>2. CASE ~ Ready
      BY <1>3, <2>2 DEF CollectResults, scannerVars, ScannerTypeOK, ScanInv, SsidsFromOneScan
    <2> QED BY <2>1, <2>2
  <1>4. CASE UNCHANGED scannerVars
    BY <1>4 DEF scannerVars, ScannerTypeOK, ScanInv, SsidsFromOneScan
  <1> QED BY <1>1, <1>2, <1>3, <1>4

-----------------------------------------------------------------------------
(* Connections *)

ConnectionsOK ==
  /\ conn = [c \in Clients |-> conn[c]]
  /\ \A c \in Clients : conn[c] \in Connection(conn[c].page)

SinceType == [there : SUBSET RemoteIds, gone : Nat, came : Nat, collected : BOOLEAN]

SinceOK == since \in [Clients -> SinceType]

\* The first k names of a list as a page lists them
FirstOf(names, k) == [i \in 1 .. k |-> [item |-> names[i], comma |-> i < Len(names)]]

Listed(k) == FirstOf(ssids, k)

\* How far the page of networks of a connection has come
WifiPage(c) ==
  conn[c].page = "wifi" =>
    /\ conn[c].state = "open" /\ conn[c].part = 0 => conn[c].out = <<>>
    /\ conn[c].state = "open" /\ conn[c].part > 0 /\ ~ since[c].collected =>
         conn[c].part < Len(ssids) /\ conn[c].out = Listed(conn[c].part)
    /\ conn[c].state = "done" /\ ~ since[c].collected =>
         conn[c].out = Listed(Len(ssids))

WifiPages == \A c \in Clients : WifiPage(c)

\* One connection is given a new record.
LEMMA Replaced ==
  ASSUME ConnectionsOK, NEW c \in Clients, NEW x, x \in Connection(x.page),
         conn' = [conn EXCEPT ![c] = x]
  PROVE  /\ ConnectionsOK'
         /\ conn'[c] = x
         /\ \A d \in Clients : d # c => conn'[d] = conn[d]
  <1>1. DOMAIN conn = Clients
    BY DEF ConnectionsOK
  <1>2. conn' = [d \in Clients |-> IF d = c THEN x ELSE conn[d]]
    BY <1>1
  <1>3. conn'[c] = x /\ \A d \in Clients : d # c => conn'[d] = conn[d]
    BY <1>2
  <1>4. conn' = [d \in Clients |-> conn'[d]]
    BY <1>2
  <1>5. ASSUME NEW d \in Clients PROVE conn'[d] \in Connection(conn'[d].page)
    <2>1. CASE d = c
      BY <1>3, <2>1, Zenon
    <2>2. CASE d # c
      BY <1>3, <2>2, Zenon DEF ConnectionsOK
    <2> QED BY <2>1, <2>2
  <1>6. ConnectionsOK'
    BY <1>4, <1>5, Zenon DEF ConnectionsOK, Connection, ItemsOf
  <1> QED BY <1>3, <1>6

\* A page that has just been asked for
Fresh(page, result) ==
  [state |-> "open", page |-> page, part |-> 0, result |-> result, out |-> <<>>]

LEMMA FreshIsOne ==
  ASSUME NEW page \in DOMAIN ItemsOf, NEW result \in BOOLEAN
  PROVE  Fresh(page, result) \in Connection(page)
  <1>1. <<>> \in Seq([item : ItemsOf[page], comma : BOOLEAN])
    OBVIOUS
  <1> QED BY <1>1 DEF Fresh, Connection

Filled(state, page, part, result, out) ==
  [state |-> state, page |-> page, part |-> part, result |-> result, out |-> out]

LEMMA OpensFresh ==
  ASSUME NEW p, NEW r
  PROVE  /\ [Closed EXCEPT !.state = "open", !.page = p] = Fresh(p, FALSE)
         /\ [Closed EXCEPT !.state = "open", !.page = p, !.result = r] = Fresh(p, r)
  <1>1. PICK f : f = FALSE
    BY Zenon
  <1>2. Closed = Filled("closed", "none", 0, f, <<>>)
    BY <1>1, Zenon DEF Closed, Filled
  <1>3. /\ Fresh(p, FALSE) = Filled("open", p, 0, f, <<>>)
        /\ Fresh(p, r) = Filled("open", p, 0, r, <<>>)
    BY <1>1, Zenon DEF Fresh, Filled
  <1>4. [Filled("closed", "none", 0, f, <<>>) EXCEPT !.state = "open"]
          = Filled("open", "none", 0, f, <<>>)
    BY DEF Filled
  <1>5. [Filled("open", "none", 0, f, <<>>) EXCEPT !.page = p] = Filled("open", p, 0, f, <<>>)
    BY DEF Filled
  <1>6. [Filled("open", p, 0, f, <<>>) EXCEPT !.result = r] = Filled("open", p, 0, r, <<>>)
    BY DEF Filled
  <1>7. /\ [Closed EXCEPT !.state = "open", !.page = p]
             = [[Closed EXCEPT !.state = "open"] EXCEPT !.page = p]
        /\ [Closed EXCEPT !.state = "open", !.page = p, !.result = r]
             = [[[Closed EXCEPT !.state = "open"] EXCEPT !.page = p] EXCEPT !.result = r]
    OBVIOUS
  <1> QED BY <1>2, <1>3, <1>4, <1>5, <1>6, <1>7, Zenon

LEMMA Pages ==
  DOMAIN ItemsOf = {"none", "remotes", "results", "wifi", "answer"}
  BY DEF ItemsOf

\* A connection that nothing happens to
LEMMA NothingHappens ==
  ASSUME NEW c \in Clients, WifiPage(c), UNCHANGED ssids,
         conn'[c] = conn[c], since'[c].collected = since[c].collected
  PROVE  WifiPage(c)'
  <1>1. ASSUME NEW k PROVE Listed(k)' = Listed(k)
    BY Zenon DEF Listed
  <1> QED BY <1>1, Zenon DEF WifiPage

\* A request starts the history of its connection and changes no other's
\* `collected'.
LEMMA HistoryOfRequest ==
  ASSUME NEW c \in Clients, NEW x \in SinceType, NEW g,
         \A d \in Clients : g[d] \in SinceType /\ g[d].collected = since[d].collected,
         since' = [d \in Clients |-> IF d = c THEN x ELSE g[d]]
  PROVE  /\ SinceOK'
         /\ \A d \in Clients : d # c => since'[d].collected = since[d].collected
  BY DEF SinceOK

LEMMA CalmType ==
  ASSUME NEW r, r \subseteq RemoteIds
  PROVE  [Calm EXCEPT !.there = r] \in SinceType
  BY DEF Calm, SinceType

\* ... and a connection that is new.
LEMMA RequestKeeps ==
  ASSUME ConnectionsOK, WifiPages, UNCHANGED ssids, NEW c \in Clients,
         NEW page \in DOMAIN ItemsOf, NEW result \in BOOLEAN,
         conn' = [conn EXCEPT ![c] = Fresh(page, result)],
         \A d \in Clients : d # c => since'[d].collected = since[d].collected
  PROVE  ConnectionsOK' /\ WifiPages'
  <1> DEFINE x == Fresh(page, result)
  <1>1. x.page = page /\ x.state = "open" /\ x.part = 0 /\ x.out = <<>>
    BY DEF Fresh
  <1>2. x \in Connection(x.page)
    BY <1>1, FreshIsOne
  <1> HIDE DEF x
  <1>3. /\ ConnectionsOK' /\ conn'[c] = x
        /\ \A d \in Clients : d # c => conn'[d] = conn[d]
    <2>1. conn' = [conn EXCEPT ![c] = x]
      BY DEF x
    <2> QED BY <1>2, <2>1, Replaced
  <1>4. WifiPage(c)'
    BY <1>1, <1>3 DEF WifiPage
  <1>5. ASSUME NEW d \in Clients, d # c PROVE WifiPage(d)'
    BY <1>3, <1>5, NothingHappens DEF WifiPages
  <1> QED BY <1>3, <1>4, <1>5 DEF WifiPages

\* The next part of another page changes nothing for the pages of networks.
LEMMA PartKeeps ==
  ASSUME ConnectionsOK, WifiPages, UNCHANGED <<ssids, since>>, NEW c \in Clients,
         conn[c].page # "wifi", NEW x \in Connection(conn[c].page),
         x.page = conn[c].page, conn' = [conn EXCEPT ![c] = x]
  PROVE  ConnectionsOK' /\ WifiPages'
  <1>1. /\ ConnectionsOK' /\ conn'[c] = x
        /\ \A d \in Clients : d # c => conn'[d] = conn[d]
    BY Replaced
  <1>2. WifiPage(c)'
    BY <1>1 DEF WifiPage
  <1>3. ASSUME NEW d \in Clients, d # c PROVE WifiPage(d)'
    BY <1>1, <1>3, NothingHappens DEF WifiPages
  <1> QED BY <1>1, <1>2, <1>3 DEF WifiPages

\* The record that a part leaves, if another one is to come ...
LEMMA MoreIsTyped ==
  ASSUME ConnectionsOK, NEW c \in Clients,
         NEW inserted \in Seq([item : ItemsOf[conn[c].page], comma : BOOLEAN]),
         More(c, inserted)
  PROVE  \E x \in Connection(conn[c].page) :
           /\ x.page = conn[c].page /\ conn' = [conn EXCEPT ![c] = x]
           /\ x.out = conn[c].out \o inserted
           /\ x.state = conn[c].state /\ x.part = conn[c].part + 1
  <1>1. /\ DOMAIN conn = Clients /\ conn[c] \in Connection(conn[c].page)
        /\ conn[c].page \in DOMAIN ItemsOf /\ conn[c].part \in Nat
        /\ conn[c].out \in Seq([item : ItemsOf[conn[c].page], comma : BOOLEAN])
    BY DEF ConnectionsOK, Connection
  <1>2. conn[c].out \o inserted \in Seq([item : ItemsOf[conn[c].page], comma : BOOLEAN])
    BY <1>1
  <1> DEFINE x == [conn[c] EXCEPT !.out = @ \o inserted, !.part = @ + 1]
  <1>3. /\ x.page = conn[c].page /\ x.out = conn[c].out \o inserted
        /\ x.state = conn[c].state /\ x.part = conn[c].part + 1
        /\ x \in Connection(conn[c].page)
    <2>1. PICK n \in Nat : n = conn[c].part + 1
      BY <1>1
    <2>2. PICK q \in Seq([item : ItemsOf[conn[c].page], comma : BOOLEAN]) :
            q = conn[c].out \o inserted
      BY <1>2
    <2>3. x = [conn[c] EXCEPT !.out = q, !.part = n]
      BY <2>1, <2>2
    <2>4. /\ x.page = conn[c].page /\ x.out = q /\ x.state = conn[c].state /\ x.part = n
          /\ x \in Connection(conn[c].page)
      BY <1>1, <2>3, Zenon DEF Connection
    <2> QED BY <2>1, <2>2, <2>4
  <1>4. conn' = [conn EXCEPT ![c] = x]
    BY <1>1 DEF More
  <1> QED BY <1>3, <1>4

\* ... and if it was the last one
LEMMA LastIsTyped ==
  ASSUME ConnectionsOK, NEW c \in Clients,
         NEW inserted \in Seq([item : ItemsOf[conn[c].page], comma : BOOLEAN]),
         NoMore(c, inserted)
  PROVE  \E x \in Connection(conn[c].page) :
           /\ x.page = conn[c].page /\ conn' = [conn EXCEPT ![c] = x]
           /\ x.out = conn[c].out \o inserted
           /\ x.state = "done"
  <1>1. /\ DOMAIN conn = Clients /\ conn[c] \in Connection(conn[c].page)
        /\ conn[c].page \in DOMAIN ItemsOf /\ conn[c].part \in Nat
        /\ conn[c].out \in Seq([item : ItemsOf[conn[c].page], comma : BOOLEAN])
    BY DEF ConnectionsOK, Connection
  <1>2. conn[c].out \o inserted \in Seq([item : ItemsOf[conn[c].page], comma : BOOLEAN])
    BY <1>1
  <1> DEFINE x == [conn[c] EXCEPT !.out = @ \o inserted, !.state = "done"]
  <1>3. /\ x.page = conn[c].page /\ x.out = conn[c].out \o inserted
        /\ x.state = "done"
        /\ x \in Connection(conn[c].page)
    BY <1>1, <1>2 DEF Connection
  <1>4. conn' = [conn EXCEPT ![c] = x]
    BY <1>1 DEF NoMore
  <1> QED BY <1>3, <1>4

-----------------------------------------------------------------------------
(* The page of networks *)

LEMMA ListStarts ==
  ASSUME NEW names
  PROVE  FirstOf(names, 0) = <<>>
  BY DEF FirstOf

LEMMA ListGrows ==
  ASSUME NEW S, NEW names \in Seq(S), NEW k \in Nat, k < Len(names),
         NEW b \in BOOLEAN, b = (k + 1 < Len(names)),
         NEW x, x = names[k + 1]
  PROVE  FirstOf(names, k) \o <<[item |-> x, comma |-> b]>> = FirstOf(names, k + 1)
  <1> DEFINE e == [item |-> x, comma |-> b]
  <1>1. FirstOf(names, k) \in Seq([item : S, comma : BOOLEAN]) /\ Len(FirstOf(names, k)) = k
    <2>1. \A i \in 1 .. k : names[i] \in S
      OBVIOUS
    <2>2. FirstOf(names, k) \in [1 .. k -> [item : S, comma : BOOLEAN]]
      BY <2>1 DEF FirstOf
    <2>3. ASSUME NEW T, NEW q \in [1 .. k -> T] PROVE q \in Seq(T) /\ Len(q) = k
      OBVIOUS
    <2> QED BY <2>2, <2>3, Zenon
  <1>2. e \in [item : S, comma : BOOLEAN]
    OBVIOUS
  <1>3. e = [item |-> names[k + 1], comma |-> k + 1 < Len(names)]
    OBVIOUS
  <1>4. \A i \in 1 .. k : FirstOf(names, k)[i] = FirstOf(names, k + 1)[i]
    BY DEF FirstOf
  <1>5. FirstOf(names, k + 1)[k + 1] = e
    BY <1>3 DEF FirstOf
  <1>6. FirstOf(names, k + 1) = [i \in 1 .. k + 1 |-> FirstOf(names, k + 1)[i]]
    BY Zenon DEF FirstOf
  <1> HIDE DEF e
  <1>7. PICK q \in Seq([item : S, comma : BOOLEAN]) : q = FirstOf(names, k) /\ Len(q) = k
    BY <1>1
  <1>8. /\ q \o <<e>> = [i \in 1 .. k + 1 |-> (q \o <<e>>)[i]]
        /\ \A i \in 1 .. k : (q \o <<e>>)[i] = q[i]
        /\ (q \o <<e>>)[k + 1] = e
    BY <1>2, <1>7
  <1>9. q \o <<e>> = FirstOf(names, k + 1)
    <2>1. \A i \in 1 .. k + 1 : i \in 1 .. k \/ i = k + 1
      OBVIOUS
    <2>2. \A i \in 1 .. k + 1 : (q \o <<e>>)[i] = FirstOf(names, k + 1)[i]
      BY <1>4, <1>5, <1>7, <1>8, <2>1, Zenon
    <2>3. \A r1, r2 : (\A i \in 1 .. k + 1 : r1[i] = r2[i]) =>
             [i \in 1 .. k + 1 |-> r1[i]] = [i \in 1 .. k + 1 |-> r2[i]]
      OBVIOUS
    <2> QED BY <1>6, <1>8, <2>2, <2>3, Zenon
  <1> QED BY <1>7, <1>9 DEF e

\* Which lists a part may change
LEMMA WhoCollects ==
  ASSUME NEW c \in Clients, WifiPart(c), SinceOK, conn[c].part \in Nat
  PROVE  /\ CollectResults \/ UNCHANGED scannerVars
         /\ conn[c].part > 0 => UNCHANGED <<ssids, since>>
         /\ conn[c].part = 0 => ~ since'[c].collected
         /\ \A d \in Clients : d # c =>
              \/ since'[d].collected
              \/ UNCHANGED ssids /\ since'[d].collected = since[d].collected
         /\ SinceOK'
  <1> DEFINE part == conn[c].part
  <1>1. IF part = 0 THEN CollectResults ELSE UNCHANGED scannerVars
    BY DEF WifiPart, Collects
  <1>2. since' = [d \in Clients |->
            IF d # c /\ part = 0 /\ Ready THEN [since[d] EXCEPT !.collected = TRUE]
            ELSE IF d = c /\ part = 0 THEN [since[d] EXCEPT !.collected = FALSE]
            ELSE since[d]]
    BY DEF WifiPart
  <1>3. \A d \in Clients : since[d] \in SinceType
    BY DEF SinceOK
  <1>4. \A d \in Clients : since'[d] \in SinceType
    BY <1>2, <1>3 DEF SinceType
  <1>5. SinceOK'
    BY <1>2, <1>4 DEF SinceOK
  <1>6. part > 0 => part # 0
    OBVIOUS
  <1>7. part # 0 => since' = since
    <2>1. ASSUME part # 0 PROVE since' = [d \in Clients |-> since[d]]
      BY <1>2, <2>1
    <2> QED BY <2>1 DEF SinceOK
  <1>8. part # 0 => ssids' = ssids
    BY <1>1 DEF scannerVars
  <1>9. part = 0 => since'[c].collected = FALSE
    BY <1>2, <1>3 DEF SinceType
  <1>10. ASSUME NEW d \in Clients, d # c, part = 0, Ready PROVE since'[d].collected = TRUE
    BY <1>2, <1>3, <1>10 DEF SinceType
  <1>11. ASSUME part = 0, ~ Ready PROVE ssids' = ssids
    BY <1>1, <1>11 DEF CollectResults, scannerVars
  <1>12. ASSUME NEW d \in Clients, d # c, part = 0, ~ Ready PROVE since'[d] = since[d]
    BY <1>2, <1>12
  <1> HIDE DEF part
  <1>13. CollectResults \/ UNCHANGED scannerVars
    BY <1>1
  <1> QED BY <1>13, <1>5, <1>6, <1>7, <1>8, <1>9, <1>10, <1>11, <1>12, Zenon DEF part
\* A part of the page of networks keeps every such page as it should be.
LEMMA NetworksPart ==
  ASSUME TypeOK, ScanInv, WifiPages, NEW c \in Clients, WifiPart(c)
  PROVE  ScannerTypeOK' /\ ScanInv' /\ ConnectionsOK' /\ SinceOK' /\ WifiPages'
  <1> DEFINE part == conn[c].part
  <1>1. ConnectionsOK /\ SinceOK /\ ScannerTypeOK
    BY Zenon DEF TypeOK, ConnectionsOK, SinceOK, SinceType
  <1>2. /\ conn[c].state = "open" /\ conn[c].page = "wifi" /\ part \in Nat
        /\ WifiPage(c)
    BY <1>1 DEF WifiPart, Asked, ConnectionsOK, Connection, WifiPages
  <1>3. /\ CollectResults \/ UNCHANGED scannerVars
        /\ part > 0 => UNCHANGED <<ssids, since>>
        /\ part = 0 => ~ since'[c].collected
        /\ \A d \in Clients : d # c =>
              \/ since'[d].collected
              \/ UNCHANGED ssids /\ since'[d].collected = since[d].collected
        /\ SinceOK'
    BY <1>1, <1>2, WhoCollects
  <1>4. ScannerTypeOK' /\ ScanInv'
    BY <1>1, <1>3, ScanStep
  <1>5. PICK names \in Seq(Ssids) : names = ssids'
    BY <1>4 DEF ScannerTypeOK
  \* what has been written so far is the beginning of the list
  <1>6. since'[c].collected \/ (conn[c].out = FirstOf(names, part) /\ part <= Len(names))
    <2>1. CASE part = 0
      <3>1. conn[c].out = <<>>
        BY <1>2, <2>1 DEF WifiPage
      <3>2. 0 <= Len(names)
        OBVIOUS
      <3> QED BY <2>1, <3>1, <3>2, ListStarts
    <2>2. CASE part > 0
      <3>1. names = ssids /\ since' = since
        BY <1>3, <1>5, <2>2
      <3>2. since[c].collected \/ (part < Len(ssids) /\ conn[c].out = FirstOf(ssids, part))
        BY <1>2, <2>2, Zenon DEF WifiPage, Listed
      <3> QED BY <3>1, <3>2, <1>2
    <2> QED BY <1>2, <2>1, <2>2
  <1>7. Ssids = ItemsOf[conn[c].page]
    BY <1>2 DEF ItemsOf
  <1>8. \/ part >= Len(names) /\ NoMore(c, <<>>)
        \/ /\ part < Len(names) /\ part + 1 # Len(names)
           /\ More(c, <<[item |-> names[part + 1], comma |-> TRUE]>>)
        \/ /\ part < Len(names) /\ part + 1 = Len(names)
           /\ NoMore(c, <<[item |-> names[part + 1], comma |-> FALSE]>>)
    BY <1>2, <1>5 DEF WifiPart
  <1> DEFINE Right(x) ==
        /\ x.page = "wifi" /\ conn' = [conn EXCEPT ![c] = x]
        /\ \/ x.state = "done" /\ (since'[c].collected \/ x.out = FirstOf(names, Len(names)))
           \/ /\ x.state = "open" /\ x.part > 0
              /\ since'[c].collected \/ (x.part < Len(names) /\ x.out = FirstOf(names, x.part))
  <1>9. PICK x \in Connection(conn[c].page) : Right(x)
    <2>1. CASE part >= Len(names) /\ NoMore(c, <<>>)
      <3>1. <<>> \in Seq([item : ItemsOf[conn[c].page], comma : BOOLEAN])
        OBVIOUS
      <3>2. PICK x \in Connection(conn[c].page) :
              /\ x.page = conn[c].page /\ conn' = [conn EXCEPT ![c] = x]
              /\ x.out = conn[c].out \o <<>> /\ x.state = "done"
        BY <1>1, <2>1, <3>1, LastIsTyped
      <3>3. conn[c].out \o <<>> = conn[c].out
        BY <1>1 DEF ConnectionsOK, Connection
      <3>4. part <= Len(names) => part = Len(names)
        BY <1>2, <2>1
      <3>5. Right(x)
        BY <1>2, <1>6, <3>2, <3>3, <3>4, Zenon
      <3> QED BY <3>2, <3>5
    <2>2. CASE /\ part < Len(names) /\ part + 1 # Len(names)
               /\ More(c, <<[item |-> names[part + 1], comma |-> TRUE]>>)
      <3>1. names[part + 1] \in Ssids
        BY <1>2, <2>2
      <3>2. <<[item |-> names[part + 1], comma |-> TRUE]>>
              \in Seq([item : ItemsOf[conn[c].page], comma : BOOLEAN])
        BY <1>7, <3>1
      <3>3. PICK x \in Connection(conn[c].page) :
              /\ x.page = conn[c].page /\ conn' = [conn EXCEPT ![c] = x]
              /\ x.out = conn[c].out \o <<[item |-> names[part + 1], comma |-> TRUE]>>
              /\ x.state = conn[c].state /\ x.part = part + 1
        BY <1>1, <2>2, <3>2, MoreIsTyped
      <3>4. part + 1 > 0 /\ part + 1 < Len(names) /\ TRUE = (part + 1 < Len(names))
        BY <1>2, <2>2
      <3>5. FirstOf(names, part) \o <<[item |-> names[part + 1], comma |-> TRUE]>>
              = FirstOf(names, part + 1)
        BY <1>2, <2>2, <3>4, ListGrows
      <3>6. Right(x)
        BY <1>2, <1>6, <3>3, <3>4, <3>5, Zenon
      <3> QED BY <3>3, <3>6
    <2>3. CASE /\ part < Len(names) /\ part + 1 = Len(names)
               /\ NoMore(c, <<[item |-> names[part + 1], comma |-> FALSE]>>)
      <3>1. names[part + 1] \in Ssids
        BY <1>2, <2>3
      <3>2. <<[item |-> names[part + 1], comma |-> FALSE]>>
              \in Seq([item : ItemsOf[conn[c].page], comma : BOOLEAN])
        BY <1>7, <3>1
      <3>3. PICK x \in Connection(conn[c].page) :
              /\ x.page = conn[c].page /\ conn' = [conn EXCEPT ![c] = x]
              /\ x.out = conn[c].out \o <<[item |-> names[part + 1], comma |-> FALSE]>>
              /\ x.state = "done"
        BY <1>1, <2>3, <3>2, LastIsTyped
      <3>4. FALSE = (part + 1 < Len(names))
        BY <1>2, <2>3
      <3>5. FirstOf(names, part) \o <<[item |-> names[part + 1], comma |-> FALSE]>>
              = FirstOf(names, part + 1)
        BY <1>2, <2>3, <3>4, ListGrows
      <3>6. FirstOf(names, part + 1) = FirstOf(names, Len(names))
        BY <2>3, Zenon
      <3>7. Right(x)
        BY <1>2, <1>6, <3>3, <3>5, <3>6, Zenon
      <3> QED BY <3>3, <3>7
    <2> QED BY <1>8, <2>1, <2>2, <2>3
  <1>10. /\ ConnectionsOK' /\ conn'[c] = x
         /\ \A d \in Clients : d # c => conn'[d] = conn[d]
    BY <1>1, <1>2, <1>9, Replaced
  <1>11. WifiPage(c)'
    <2>1. /\ x.state = "open" => x.part > 0
          /\ x.part > 0 => x.part # 0
      BY <1>9, <1>2 DEF Connection
    <2>2. \A k : Listed(k)' = FirstOf(names, k)
      BY <1>5, Zenon DEF Listed, FirstOf
    <2> QED BY <1>5, <1>9, <1>10, <2>1, <2>2, Zenon DEF WifiPage
  <1>12. ASSUME NEW d \in Clients, d # c PROVE WifiPage(d)'
    <2>1. CASE UNCHANGED ssids /\ since'[d].collected = since[d].collected
      BY <1>10, <1>12, <2>1, NothingHappens DEF WifiPages
    <2>2. CASE since'[d].collected
      <3>1. conn'[d] = conn[d] /\ WifiPage(d)
        BY <1>10, <1>12 DEF WifiPages
      <3> QED BY <2>2, <3>1, Zenon DEF WifiPage
    <2> QED BY <1>3, <1>12, <2>1, <2>2
  <1>13. WifiPages'
    BY <1>11, <1>12 DEF WifiPages
  <1> QED BY <1>3, <1>4, <1>10, <1>13
-----------------------------------------------------------------------------
(* The other steps *)

Inv == TypeOK /\ ScanInv /\ WifiPages

LEMMA TypeParts ==
  /\ TypeOK <=> /\ ScannerTypeOK
                /\ remotes \subseteq RemoteIds /\ detected \in Seq(RemoteIds)
                /\ ConnectionsOK
                /\ hung \in BOOLEAN
                /\ SinceOK
                /\ requests \in 0 .. MaxRequests
  BY Zenon DEF TypeOK, ConnectionsOK, SinceOK, SinceType

LEMMA InitHolds ==
  Init => Inv
  <1> SUFFICES ASSUME Init PROVE Inv
    OBVIOUS
  <1>1. ScannerTypeOK /\ ScanInv
    BY ScannerStarts DEF Init
  <1>2. Closed \in Connection(Closed.page) /\ Closed.page = "none"
    <2>1. <<>> \in Seq([item : ItemsOf["none"], comma : BOOLEAN])
      OBVIOUS
    <2> QED BY <2>1, Pages DEF Closed, Connection
  <1>3. ConnectionsOK
    <2>1. conn = [c \in Clients |-> Closed]
      BY DEF Init
    <2> QED BY <1>2, <2>1, Zenon DEF ConnectionsOK
  <1>4. SinceOK
    BY DEF Init, Calm, SinceOK, SinceType
  <1>5. WifiPages
    BY <1>2 DEF Init, WifiPages, WifiPage
  <1>6. requests \in 0 .. MaxRequests
    BY WebServerAssumption DEF Init
  <1>7. remotes \subseteq RemoteIds /\ detected \in Seq(RemoteIds) /\ hung \in BOOLEAN
    <2>1. <<>> \in Seq(RemoteIds)
      OBVIOUS
    <2> QED BY <2>1, Zenon DEF Init
  <1> QED BY <1>1, <1>3, <1>4, <1>5, <1>6, <1>7, TypeParts, Zenon DEF Inv

\* A request that leaves the scanner alone
LEMMA RequestStep ==
  ASSUME Inv, UNCHANGED <<scannerVars, hung>>, NEW c \in Clients,
         NEW page \in DOMAIN ItemsOf, NEW result \in BOOLEAN,
         conn' = [conn EXCEPT ![c] = Fresh(page, result)],
         requests < MaxRequests, requests' = requests + 1,
         remotes' \subseteq RemoteIds, detected' \in Seq(RemoteIds),
         NEW g,
         \A d \in Clients : g[d] \in SinceType /\ g[d].collected = since[d].collected,
         since' = [d \in Clients |->
           IF d = c THEN [Calm EXCEPT !.there = remotes'] ELSE g[d]]
  PROVE  Inv'
  <1>1. TypeOK /\ ScannerTypeOK /\ ScanInv /\ ConnectionsOK /\ SinceOK /\ WifiPages
    BY TypeParts DEF Inv
  <1>2. ScannerTypeOK' /\ ScanInv'
    BY <1>1, ScanStep
  <1>3. SinceOK' /\ \A d \in Clients : d # c => since'[d].collected = since[d].collected
    <2>1. [Calm EXCEPT !.there = remotes'] \in SinceType
      BY CalmType
    <2> QED BY <2>1, HistoryOfRequest
  <1>4. ssids' = ssids /\ hung' = hung
    BY DEF scannerVars
  <1>5. ConnectionsOK' /\ WifiPages'
    BY <1>1, <1>3, <1>4, RequestKeeps
  <1>6. requests' \in 0 .. MaxRequests
    BY <1>1, WebServerAssumption DEF TypeOK
  <1>7. hung' \in BOOLEAN
    BY <1>1, <1>4 DEF TypeOK
  <1>8. TypeOK'
    BY <1>2, <1>3, <1>5, <1>6, <1>7, TypeParts, Zenon DEF TypeOK, ConnectionsOK, SinceOK, SinceType
  <1> QED BY <1>2, <1>5, <1>8 DEF Inv

LEMMA Requests ==
  ASSUME Inv, NEW c \in Clients,
         \/ \E page \in {"remotes", "results", "wifi", "answer"} : OpenPage(c, page)
         \/ UnknownCommand(c) \/ StartDiscovery(c)
         \/ \E r \in RemoteIds : AddRemote(c, r) \/ DeleteRemote(c, r)
  PROVE  Inv'
  <1>1. /\ remotes \subseteq RemoteIds /\ detected \in Seq(RemoteIds)
        /\ SinceOK /\ DOMAIN conn = Clients
    BY TypeParts DEF Inv, ConnectionsOK
  <1>2. \A d \in Clients : since[d] \in SinceType /\ since[d].collected = since[d].collected
    BY <1>1 DEF SinceOK
  <1>3. ASSUME NEW page \in DOMAIN ItemsOf, Opens(c, page)
        PROVE  /\ conn' = [conn EXCEPT ![c] = Fresh(page, FALSE)]
               /\ requests < MaxRequests /\ requests' = requests + 1
    BY <1>3, OpensFresh, Zenon DEF Opens
  <1>4. ASSUME NEW result \in BOOLEAN, Answers(c, result)
        PROVE  /\ conn' = [conn EXCEPT ![c] = Fresh("answer", result)]
               /\ requests < MaxRequests /\ requests' = requests + 1
    BY <1>4, OpensFresh, Zenon DEF Answers
  <1>5. "answer" \in DOMAIN ItemsOf
    BY Pages
  <1>6. ASSUME Since(c, Same)
        PROVE  since' = [d \in Clients |->
                 IF d = c THEN [Calm EXCEPT !.there = remotes'] ELSE since[d]]
    BY <1>6 DEF Since, Same
  <1>7. ASSUME NEW page \in {"remotes", "results", "wifi", "answer"}, OpenPage(c, page)
        PROVE  Inv'
    <2>1. page \in DOMAIN ItemsOf
      BY Pages
    <2>2. Opens(c, page) /\ Since(c, Same) /\ UNCHANGED <<scannerVars, hung, remotes, detected>>
      BY <1>7 DEF OpenPage, tables
    <2> QED BY <1>1, <1>2, <1>3, <1>6, <2>1, <2>2, RequestStep
  <1>8. CASE UnknownCommand(c)
    <2>1. Answers(c, FALSE) /\ Since(c, Same) /\ UNCHANGED <<scannerVars, hung, remotes, detected>>
      BY <1>8 DEF UnknownCommand, tables
    <2> QED BY <1>1, <1>2, <1>4, <1>5, <1>6, <2>1, RequestStep
  <1>9. CASE StartDiscovery(c)
    <2>1. Answers(c, TRUE) /\ Since(c, Same) /\ UNCHANGED <<scannerVars, hung, remotes>>
          /\ detected' = <<>>
      BY <1>9 DEF StartDiscovery
    <2>2. detected' \in Seq(RemoteIds)
      BY <2>1
    <2> QED BY <1>1, <1>2, <1>4, <1>5, <1>6, <2>1, <2>2, RequestStep
  <1>10. ASSUME NEW r \in RemoteIds, AddRemote(c, r) PROVE Inv'
    <2> DEFINE g == [d \in Clients |-> IF r \in remotes THEN since[d]
                                       ELSE [since[d] EXCEPT !.came = @ + 1]]
    <2>1. PICK result \in BOOLEAN : result = (r \notin remotes)
      OBVIOUS
    <2>2. /\ Answers(c, result) /\ UNCHANGED <<scannerVars, hung, detected>>
          /\ remotes' \subseteq RemoteIds
      BY <1>1, <1>10, <2>1 DEF AddRemote
    <2>3. since' = [d \in Clients |->
            IF d = c THEN [Calm EXCEPT !.there = remotes'] ELSE g[d]]
      BY <1>10 DEF AddRemote, Since
    <2>4. \A d \in Clients : g[d] \in SinceType /\ g[d].collected = since[d].collected
      BY <1>2 DEF SinceType
    <2> HIDE DEF g
    <2> QED BY <1>1, <1>4, <1>5, <2>2, <2>3, <2>4, RequestStep
  <1>11. ASSUME NEW r \in RemoteIds, DeleteRemote(c, r) PROVE Inv'
    <2> DEFINE g == [d \in Clients |-> IF r \in Primary THEN since[d]
                       ELSE [since[d] EXCEPT !.there = @ \ {r}, !.gone = @ + 1]]
    <2>1. PICK result \in BOOLEAN : result = (r \notin Primary)
      OBVIOUS
    <2>2. /\ Answers(c, result) /\ UNCHANGED <<scannerVars, hung, detected>>
          /\ remotes' \subseteq RemoteIds
      BY <1>1, <1>11, <2>1 DEF DeleteRemote
    <2>3. since' = [d \in Clients |->
            IF d = c THEN [Calm EXCEPT !.there = remotes'] ELSE g[d]]
      BY <1>11 DEF DeleteRemote, Since
    <2>4. \A d \in Clients : g[d] \in SinceType /\ g[d].collected = since[d].collected
      <3>1. ASSUME NEW s \in SinceType
            PROVE  /\ [s EXCEPT !.there = @ \ {r}, !.gone = @ + 1] \in SinceType
                   /\ [s EXCEPT !.there = @ \ {r}, !.gone = @ + 1].collected = s.collected
        <4>1. /\ s.there \ {r} \in SUBSET RemoteIds /\ s.gone + 1 \in Nat
          BY DEF SinceType
        <4>2. PICK t \in SUBSET RemoteIds, n \in Nat : t = s.there \ {r} /\ n = s.gone + 1
          BY <4>1
        <4>3. /\ [s EXCEPT !.there = t, !.gone = n] \in SinceType
              /\ [s EXCEPT !.there = t, !.gone = n].collected = s.collected
          BY DEF SinceType
        <4> QED BY <4>2, <4>3
      <3> QED BY <1>2, <3>1, Zenon
    <2> HIDE DEF g
    <2> QED BY <1>1, <1>4, <1>5, <2>2, <2>3, <2>4, RequestStep
  <1> QED BY <1>7, <1>8, <1>9, <1>10, <1>11
\* Nothing happens to the connections and their pages.
LEMMA PagesRest ==
  ASSUME ConnectionsOK, SinceOK, WifiPages, UNCHANGED <<conn, since, ssids>>
  PROVE  ConnectionsOK' /\ SinceOK' /\ WifiPages'
  <1>1. ConnectionsOK' /\ SinceOK'
    BY Zenon DEF ConnectionsOK, SinceOK, SinceType, Connection, ItemsOf
  <1>2. ASSUME NEW c \in Clients PROVE WifiPage(c)'
    BY NothingHappens DEF WifiPages
  <1> QED BY <1>1, <1>2 DEF WifiPages

\* The parts of the other pages
LEMMA OtherParts ==
  ASSUME Inv, NEW c \in Clients,
         RemotesPart(c) \/ ResultsPart(c) \/ UnknownTag(c) \/ AnswerPart(c)
  PROVE  Inv'
  <1>1. /\ ScannerTypeOK /\ ScanInv /\ ConnectionsOK /\ SinceOK /\ WifiPages
        /\ remotes \subseteq RemoteIds /\ detected \in Seq(RemoteIds)
        /\ hung \in BOOLEAN /\ requests \in 0 .. MaxRequests
    BY TypeParts DEF Inv
  <1>2. UNCHANGED <<scannerVars, remotes, detected, since, requests, ssids>>
    BY DEF RemotesPart, ResultsPart, UnknownTag, AnswerPart, tables, scannerVars
  <1>3. hung' \in BOOLEAN
    BY <1>1 DEF RemotesPart, ResultsPart, UnknownTag, AnswerPart
  <1>4. ScannerTypeOK' /\ ScanInv'
    BY <1>1, <1>2, ScanStep
  <1>5. conn[c].page # "wifi"
    BY DEF RemotesPart, ResultsPart, UnknownTag, AnswerPart, Asked
  <1> DEFINE T == Seq([item : ItemsOf[conn[c].page], comma : BOOLEAN])
  <1>6. \/ UNCHANGED conn
        \/ \E inserted \in T : More(c, inserted) \/ NoMore(c, inserted)
    <2>1. CASE RemotesPart(c)
      <3>1. ItemsOf[conn[c].page] = RemoteIds
        BY <2>1 DEF RemotesPart, Asked, ItemsOf
      <3>2. ASSUME NEW r \in remotes, NEW b \in BOOLEAN
            PROVE  <<[item |-> r, comma |-> b]>> \in T
        BY <1>1, <3>1
      <3>3. <<>> \in T
        OBVIOUS
      <3> HIDE DEF T
      <3> QED BY <2>1, <3>2, <3>3, Zenon DEF RemotesPart
    <2>2. CASE ResultsPart(c)
      <3> DEFINE q == [i \in 1 .. Len(detected) |->
                        [item |-> detected[i], comma |-> i < Len(detected)]]
      <3>1. ItemsOf[conn[c].page] = RemoteIds
        BY <2>2 DEF ResultsPart, Asked, ItemsOf
      <3>2. PICK n \in Nat : n = Len(detected)
        BY <1>1
      <3>3. q \in [1 .. n -> [item : ItemsOf[conn[c].page], comma : BOOLEAN]]
        BY <1>1, <3>1, <3>2
      <3>4. ASSUME NEW S, NEW f \in [1 .. n -> S] PROVE f \in Seq(S)
        OBVIOUS
      <3>5. q \in T
        BY <3>3, <3>4, Zenon
      <3>6. NoMore(c, q)
        BY <2>2 DEF ResultsPart
      <3> QED BY <3>5, <3>6
    <2>3. CASE UnknownTag(c)
      <3>1. <<>> \in T
        OBVIOUS
      <3> QED BY <2>3, <3>1, Zenon DEF UnknownTag
    <2>4. CASE AnswerPart(c)
      <3>1. ItemsOf[conn[c].page] = BOOLEAN /\ conn[c].result \in BOOLEAN
        <4>1. conn[c].page = "answer"
          BY <2>4 DEF AnswerPart, Asked
        <4>2. ItemsOf["answer"] = BOOLEAN
          BY Zenon DEF ItemsOf
        <4>3. conn[c].result \in BOOLEAN
          BY <1>1 DEF ConnectionsOK, Connection
        <4> QED BY <4>1, <4>2, <4>3, Zenon
      <3>2. <<[item |-> conn[c].result, comma |-> FALSE]>> \in T
        BY <3>1
      <3> QED BY <2>4, <3>2, Zenon DEF AnswerPart
    <2> QED BY <2>1, <2>2, <2>3, <2>4
  <1>7. ConnectionsOK' /\ WifiPages' /\ SinceOK'
    <2>1. CASE UNCHANGED conn
      BY <1>1, <1>2, <2>1, PagesRest
    <2>2. ASSUME NEW inserted \in T, More(c, inserted) \/ NoMore(c, inserted)
          PROVE  ConnectionsOK' /\ WifiPages' /\ SinceOK'
      <3>1. PICK x \in Connection(conn[c].page) :
              x.page = conn[c].page /\ conn' = [conn EXCEPT ![c] = x]
        BY <1>1, <2>2, MoreIsTyped, LastIsTyped
      <3>2. SinceOK'
        BY <1>1, <1>2, Zenon DEF SinceOK, SinceType
      <3> QED BY <1>1, <1>2, <1>5, <3>1, <3>2, PartKeeps
    <2> QED BY <1>6, <2>1, <2>2
  <1>8. TypeOK'
    BY <1>1, <1>2, <1>3, <1>4, <1>7, Zenon DEF TypeOK, ConnectionsOK, SinceOK, SinceType
  <1> QED BY <1>4, <1>7, <1>8 DEF Inv

LEMMA Closes ==
  ASSUME Inv, NEW c \in Clients, Close(c)
  PROVE  Inv'
  <1>1. /\ ScannerTypeOK /\ ScanInv /\ ConnectionsOK /\ SinceOK /\ WifiPages
        /\ remotes \subseteq RemoteIds /\ detected \in Seq(RemoteIds)
        /\ hung \in BOOLEAN /\ requests \in 0 .. MaxRequests
    BY TypeParts DEF Inv
  <1>2. /\ UNCHANGED <<scannerVars, remotes, detected, hung, requests, ssids>>
        /\ conn' = [conn EXCEPT ![c] = Closed] /\ since' = [since EXCEPT ![c] = Calm]
    BY DEF Close, tables, scannerVars
  <1>3. ScannerTypeOK' /\ ScanInv'
    BY <1>1, <1>2, ScanStep
  <1>4. Closed \in Connection(Closed.page) /\ Closed.page = "none"
    <2>1. <<>> \in Seq([item : ItemsOf["none"], comma : BOOLEAN])
      OBVIOUS
    <2> QED BY <2>1, Pages DEF Closed, Connection
  <1>5. /\ ConnectionsOK' /\ conn'[c] = Closed
        /\ \A d \in Clients : d # c => conn'[d] = conn[d]
    BY <1>1, <1>2, <1>4, Replaced
  <1>6. Calm \in SinceType
    BY DEF Calm, SinceType
  <1>7. SinceOK' /\ \A d \in Clients : d # c => since'[d] = since[d]
    BY <1>1, <1>2, <1>6 DEF SinceOK
  <1>8. WifiPage(c)'
    BY <1>4, <1>5 DEF WifiPage
  <1>9. ASSUME NEW d \in Clients, d # c PROVE WifiPage(d)'
    BY <1>1, <1>2, <1>5, <1>7, <1>9, NothingHappens DEF WifiPages
  <1>10. WifiPages'
    BY <1>8, <1>9 DEF WifiPages
  <1>11. TypeOK'
    BY <1>1, <1>2, <1>3, <1>5, <1>7, Zenon DEF TypeOK, ConnectionsOK, SinceOK, SinceType
  <1> QED BY <1>3, <1>10, <1>11 DEF Inv

\* What goes on meanwhile, and nothing at all
LEMMA Meanwhile ==
  ASSUME Inv, (\E r \in RemoteIds : StrangePress(r)) \/ Scanning \/ UNCHANGED vars
  PROVE  Inv'
  <1>1. /\ ScannerTypeOK /\ ScanInv /\ ConnectionsOK /\ SinceOK /\ WifiPages
        /\ remotes \subseteq RemoteIds /\ detected \in Seq(RemoteIds)
        /\ hung \in BOOLEAN /\ requests \in 0 .. MaxRequests
    BY TypeParts DEF Inv
  <1>2. UNCHANGED <<remotes, conn, hung, since, requests, ssids>>
    BY DEF StrangePress, Scanning, ScanEnds, ScanResult, vars, tables, scannerVars
  <1>3. /\ \/ \E s \in Ssids : ScanResult(s)
           \/ ScanEnds \/ UNCHANGED scannerVars
        /\ \/ \E r \in RemoteIds : detected' = Kept(Append(detected, r))
           \/ detected' = detected
    BY DEF StrangePress, Scanning, vars, tables
  <1>4. ScannerTypeOK' /\ ScanInv'
    BY <1>1, <1>3, ScanStep
  <1>5. detected' \in Seq(RemoteIds)
    <2>1. ASSUME NEW r \in RemoteIds PROVE Kept(Append(detected, r)) \in Seq(RemoteIds)
      <3>1. Append(detected, r) \in Seq(RemoteIds)
        BY <1>1
      <3>2. Len(Append(detected, r)) \in Nat /\ Len(Append(detected, r)) > 0
        <4>1. Len(detected) \in Nat /\ Len(Append(detected, r)) = Len(detected) + 1
          BY <1>1
        <4> QED BY <4>1
      <3>3. PICK q \in Seq(RemoteIds) : q = Append(detected, r) /\ Len(q) > 0
        BY <3>1, <3>2, Zenon
      <3>4. SubSeq(q, 1, Len(q) - 1) \in Seq(RemoteIds)
        BY <3>3
      <3>5. Kept(q) \in {SubSeq(q, 1, Len(q) - 1), q}
        BY DEF Kept, Front
      <3> QED BY <3>3, <3>4, <3>5, Zenon
    <2> QED BY <1>1, <1>3, <2>1
  <1>6. ConnectionsOK' /\ SinceOK' /\ WifiPages'
    BY <1>1, <1>2, PagesRest
  <1>7. TypeOK'
    BY <1>1, <1>2, <1>4, <1>5, <1>6, Zenon DEF TypeOK, ConnectionsOK, SinceOK, SinceType
  <1> QED BY <1>4, <1>6, <1>7 DEF Inv

LEMMA InvStep ==
  Inv /\ [Next]_vars => Inv'
  <1> SUFFICES ASSUME Inv, [Next]_vars PROVE Inv'
    OBVIOUS
  <1>1. ASSUME NEW c \in Clients, WifiPart(c) PROVE Inv'
    <2>1. TypeOK /\ ScanInv /\ WifiPages
      BY DEF Inv
    <2>2. ScannerTypeOK' /\ ScanInv' /\ ConnectionsOK' /\ SinceOK' /\ WifiPages'
      BY <1>1, <2>1, NetworksPart
    <2>3. UNCHANGED <<remotes, detected, hung, requests>>
      BY <1>1 DEF WifiPart, tables
    <2>4. TypeOK'
      BY <2>1, <2>2, <2>3, Zenon DEF TypeOK, ConnectionsOK, SinceOK, SinceType
    <2> QED BY <2>2, <2>4 DEF Inv
  <1>2. ASSUME NEW c \in Clients,
               \/ \E page \in {"remotes", "results", "wifi", "answer"} : OpenPage(c, page)
               \/ UnknownCommand(c) \/ StartDiscovery(c)
               \/ \E r \in RemoteIds : AddRemote(c, r) \/ DeleteRemote(c, r)
        PROVE  Inv'
    BY <1>2, Requests
  <1>3. ASSUME NEW c \in Clients,
               RemotesPart(c) \/ ResultsPart(c) \/ UnknownTag(c) \/ AnswerPart(c)
        PROVE  Inv'
    BY <1>3, OtherParts
  <1>4. ASSUME NEW c \in Clients, Close(c) PROVE Inv'
    BY <1>4, Closes
  <1>5. CASE (\E r \in RemoteIds : StrangePress(r)) \/ Scanning \/ UNCHANGED vars
    BY <1>5, Meanwhile
  <1> QED BY <1>1, <1>2, <1>3, <1>4, <1>5, Zenon DEF Next

LEMMA Invariant ==
  Spec => []Inv
  BY InitHolds, InvStep, PTL DEF Spec

-----------------------------------------------------------------------------
(* The page of remotes *)

\* The number of an entry in the table
Place(R, r) == Cardinality({x \in R : x <= r})

Tables == {R \in SUBSET Nat : IsFiniteSet(R)}

Entries == Seq([item : RemoteIds, comma : BOOLEAN])

\* What the entries written so far name
Named(out) == {out[i].item : i \in 1 .. Len(out)}

Distinct(out) ==
  \A i, j \in 1 .. Len(out) : out[i].item = out[j].item => i = j

\* A page that is being written, of a connection with history h, over table R
Reading(x, h, R) ==
  /\ x.part = 0 => x.out = <<>>
  /\ h.gone <= 1 => x.part = 0 \/ x.part < Cardinality(R) + h.gone
  /\ h.gone = 0 =>
       /\ h.there \subseteq R
       /\ \A r \in h.there : r \in Named(x.out) \/ Place(R, r) > x.part
  /\ \A i \in 1 .. Len(x.out) : x.out[i].comma
  /\ h.came = 0 /\ h.gone <= 1 =>
       /\ Distinct(x.out)
       /\ \A r \in Named(x.out) \cap R : Place(R, r) <= x.part

\* ... and one that has been
Read(x, h) ==
  /\ h.gone = 0 =>
       /\ h.there \subseteq Named(x.out)
       /\ \A i \in 1 .. Len(x.out) : x.out[i].comma = (i < Len(x.out))
  /\ h.came = 0 /\ h.gone <= 1 => Distinct(x.out)

RemotesPage(x, h, R) ==
  x.page = "remotes" =>
    /\ x.state = "open" => Reading(x, h, R)
    /\ x.state = "done" => Read(x, h)

TableInv ==
  /\ ~ oneTimeScan => \A c \in Clients : RemotesPage(conn[c], since[c], remotes)
  /\ hung => remotes = {} /\ \E c \in Clients : since[c].gone >= 2

LEMMA PlaceIs ==
  ASSUME NEW R \in Tables, NEW r \in Nat
  PROVE  /\ Place(R, r) \in Nat /\ Cardinality(R) \in Nat
         /\ Place(R, r) <= Cardinality(R)
         /\ r \in R => Place(R, r) > 0
         /\ \A s \in R : r < s => Place(R, r) < Place(R, s)
         /\ {x \in R : x <= r} \subseteq R
  <1> DEFINE U(s) == {x \in R : x <= s}
  <1>1. IsFiniteSet(R) /\ R \subseteq Nat
    BY DEF Tables
  <1>2. ASSUME NEW s \in Nat
        PROVE  /\ IsFiniteSet(U(s)) /\ Cardinality(U(s)) \in Nat
               /\ Cardinality(U(s)) <= Cardinality(R)
    <2>1. U(s) \in SUBSET R
      OBVIOUS
    <2> HIDE DEF U
    <2> QED BY <1>1, <2>1, FS_Subset, FS_CardinalityType
  <1>3. ASSUME r \in R PROVE Cardinality(U(r)) > 0
    <2>1. U(r) # {}
      BY <1>3
    <2> HIDE DEF U
    <2> QED BY <1>2, <2>1, FS_EmptySet
  <1>4. ASSUME NEW s \in R, r < s PROVE Cardinality(U(r)) < Cardinality(U(s))
    <2>1. s \notin U(r) /\ U(r) \cup {s} \subseteq U(s) /\ s \in Nat
      <3>1. s \in Nat /\ ~ (s <= r) /\ s <= s
        BY <1>1, <1>4
      <3>2. \A x \in R : x <= r => x <= s
        BY <1>1, <1>4, <3>1
      <3> QED BY <1>4, <3>1, <3>2
    <2> HIDE DEF U
    <2>2. Cardinality(U(r) \cup {s}) = Cardinality(U(r)) + 1
      BY <1>2, <2>1, FS_AddElement
    <2>3. Cardinality(U(r) \cup {s}) <= Cardinality(U(s))
      BY <1>2, <2>1, FS_Subset
    <2> QED BY <1>2, <2>1, <2>2, <2>3
  <1>5. Cardinality(R) \in Nat
    BY <1>1, FS_CardinalityType
  <1>6. U(r) \subseteq R
    OBVIOUS
  <1>7. \A s : Place(R, s) = Cardinality(U(s))
    BY Zenon DEF Place
  <1> HIDE DEF U
  <1>8. \A s \in R : r < s => Place(R, r) < Place(R, s)
    BY <1>4, <1>7
  <1>9. {x \in R : x <= r} \subseteq R
    OBVIOUS
  <1> QED BY <1>2, <1>3, <1>5, <1>7, <1>8, <1>9

\* A remote that is added takes no other's place but moves those behind it.
LEMMA PlaceAdded ==
  ASSUME NEW R \in Tables, NEW a \in Nat, a \notin R, NEW r \in Nat
  PROVE  /\ R \cup {a} \in Tables
         /\ Cardinality(R \cup {a}) = Cardinality(R) + 1
         /\ Place(R, r) <= Place(R \cup {a}, r)
  <1>1. IsFiniteSet(R) /\ R \subseteq Nat
    BY DEF Tables
  <1>2. IsFiniteSet(R \cup {a}) /\ Cardinality(R \cup {a}) = Cardinality(R) + 1
    BY <1>1, FS_AddElement
  <1>3. R \cup {a} \in Tables
    BY <1>1, <1>2 DEF Tables
  <1>4. Place(R, r) <= Place(R \cup {a}, r)
    <2> DEFINE U == {x \in R : x <= r}
               W == {x \in R \cup {a} : x <= r}
    <2>1. U \subseteq W /\ W \subseteq R \cup {a}
      OBVIOUS
    <2>2. Place(R, r) = Cardinality(U) /\ Place(R \cup {a}, r) = Cardinality(W)
      BY DEF Place
    <2> HIDE DEF U, W
    <2>3. IsFiniteSet(W)
      BY <1>2, <2>1, FS_Subset
    <2> QED BY <2>1, <2>2, <2>3, FS_Subset
  <1> QED BY <1>2, <1>3, <1>4

\* One that is deleted moves those behind it forward.
LEMMA PlaceDeleted ==
  ASSUME NEW R \in Tables, NEW a \in R, NEW r \in Nat
  PROVE  /\ R \ {a} \in Tables
         /\ Cardinality(R \ {a}) = Cardinality(R) - 1
         /\ Place(R \ {a}, r) <= Place(R, r)
  <1>1. IsFiniteSet(R) /\ R \subseteq Nat
    BY DEF Tables
  <1>2. IsFiniteSet(R \ {a}) /\ Cardinality(R \ {a}) = Cardinality(R) - 1
    BY <1>1, FS_RemoveElement
  <1>3. R \ {a} \in Tables
    BY <1>1, <1>2 DEF Tables
  <1>4. Place(R \ {a}, r) <= Place(R, r)
    <2> DEFINE U == {x \in R : x <= r}
               W == {x \in R \ {a} : x <= r}
    <2>1. W \subseteq U /\ U \subseteq R
      OBVIOUS
    <2>2. Place(R, r) = Cardinality(U) /\ Place(R \ {a}, r) = Cardinality(W)
      BY DEF Place
    <2> HIDE DEF U, W
    <2>3. IsFiniteSet(U)
      BY <1>1, <2>1, FS_Subset
    <2> QED BY <2>1, <2>2, <2>3, FS_Subset
  <1> QED BY <1>2, <1>3, <1>4

\* A list that is continued
LEMMA Continued ==
  ASSUME NEW out \in Entries, NEW e \in [item : RemoteIds, comma : BOOLEAN]
  PROVE  /\ Len(out) \in Nat /\ Len(out \o <<e>>) = Len(out) + 1
         /\ \A i \in 1 .. Len(out) : (out \o <<e>>)[i] = out[i]
         /\ (out \o <<e>>)[Len(out) + 1] = e
         /\ Named(out \o <<e>>) = Named(out) \cup {e.item}
         /\ Distinct(out) /\ e.item \notin Named(out) => Distinct(out \o <<e>>)
  <1> DEFINE T == [item : RemoteIds, comma : BOOLEAN]
             q == out \o <<e>>
             r == e.item
  <1>1. e \in T /\ e.item = r
    BY Zenon
  <1>2. out \in Seq(T)
    BY DEF Entries
  <1> HIDE DEF T, r
  <1>3. /\ q \in Seq(T)
        /\ Len(out) \in Nat /\ Len(q) = Len(out) + 1
        /\ \A i \in 1 .. Len(out) : q[i] = out[i]
        /\ q[Len(out) + 1] = e
    BY <1>1, <1>2
  <1> HIDE DEF q
  <1>4. PICK n \in Nat : n = Len(out)
    BY <1>3
  <1>5. \A i : i \in 1 .. n + 1 <=> i \in 1 .. n \/ i = n + 1
    OBVIOUS
  <1>6. Named(q) = Named(out) \cup {r}
    <2>1. \A y : y \in Named(q) <=> \E i \in 1 .. n + 1 : y = q[i].item
      BY <1>3, <1>4 DEF Named
    <2>2. \A y : y \in Named(out) <=> \E i \in 1 .. n : y = out[i].item
      BY <1>4 DEF Named
    <2>3. \A i \in 1 .. n : q[i].item = out[i].item
      BY <1>3, <1>4, Zenon
    <2>4. q[n + 1].item = r
      BY <1>1, <1>3, <1>4, Zenon
    <2>5. ASSUME NEW y \in Named(q) PROVE y \in Named(out) \cup {r}
      <3>1. PICK i \in 1 .. n + 1 : y = q[i].item
        BY <2>1, <2>5, Zenon
      <3>2. CASE i = n + 1
        BY <2>4, <3>1, <3>2
      <3>3. CASE i \in 1 .. n
        BY <2>2, <2>3, <3>1, <3>3, Zenon
      <3> QED BY <1>5, <3>2, <3>3
    <2>6. ASSUME NEW y \in Named(out) \cup {r} PROVE y \in Named(q)
      <3>1. CASE y = r
        BY <1>5, <2>1, <2>4, <3>1, Zenon
      <3>2. CASE y \in Named(out)
        <4>1. PICK i \in 1 .. n : y = out[i].item
          BY <2>2, <3>2, Zenon
        <4>2. i \in 1 .. n + 1 /\ y = q[i].item
          BY <1>5, <2>3, <4>1, Zenon
        <4> QED BY <2>1, <4>2, Zenon
      <3> QED BY <2>6, <3>1, <3>2
    <2> QED BY <2>5, <2>6
  <1>7. ASSUME Distinct(out), r \notin Named(out) PROVE Distinct(q)
    <2>1. \A i \in 1 .. n : out[i].item # r
      BY <1>4, <1>7 DEF Named
    <2>2. \A i, j \in 1 .. n : out[i].item = out[j].item => i = j
      BY <1>4, <1>7, Zenon DEF Distinct
    <2>3. (\A i \in 1 .. n : q[i].item = out[i].item) /\ q[n + 1].item = r
      BY <1>1, <1>3, <1>4, Zenon
    <2>4. ASSUME NEW i \in 1 .. n + 1, NEW j \in 1 .. n + 1, q[i].item = q[j].item
          PROVE  i = j
      <3>1. CASE i = n + 1 /\ j = n + 1
        BY <3>1
      <3>2. CASE i = n + 1 /\ j \in 1 .. n
        BY <2>1, <2>3, <2>4, <3>2, Zenon
      <3>3. CASE i \in 1 .. n /\ j = n + 1
        BY <2>1, <2>3, <2>4, <3>3, Zenon
      <3>4. CASE i \in 1 .. n /\ j \in 1 .. n
        BY <2>2, <2>3, <2>4, <3>4, Zenon
      <3> QED BY <1>5, <3>1, <3>2, <3>3, <3>4
    <2> QED BY <1>3, <1>4, <2>4, Zenon DEF Distinct
  <1> QED BY <1>3, <1>6, <1>7, Zenon DEF q, r

LEMMA NoEntries ==
  Named(<<>>) = {} /\ Distinct(<<>>) /\ Len(<<>>) = 0
  BY DEF Named, Distinct

-----------------------------------------------------------------------------
\* What a connection on the page of remotes, its history and a table are
PageType == [state : {"closed", "open", "done"}, page : DOMAIN ItemsOf, part : Nat,
             result : BOOLEAN, out : Entries]

LEMMA RequestReads ==
  ASSUME NEW R \in Tables, NEW x, x.part = 0, x.out = <<>>,
         NEW h, h.gone = 0, h.came = 0, h.there = R
  PROVE  Reading(x, h, R)
  <1>1. \A r \in R : Place(R, r) > 0
    <2>1. R \subseteq Nat
      BY DEF Tables
    <2> QED BY <2>1, PlaceIs
  <1>2. \A i \in 1 .. Len(x.out) : x.out[i].comma
    BY NoEntries
  <1>3. Named(x.out) \cap R = {} /\ Distinct(x.out)
    BY NoEntries
  <1> QED BY <1>1, <1>2, <1>3 DEF Reading

\* Another connection adds a remote ...
LEMMA AddedMeanwhile ==
  ASSUME NEW R \in Tables, NEW a \in Nat, a \notin R, NEW x \in PageType,
         NEW h \in SinceType, RemotesPage(x, h, R),
         NEW k \in SinceType,
         k.there = h.there, k.gone = h.gone, k.came = h.came + 1
  PROVE  RemotesPage(x, k, R \cup {a})
  <1>1. /\ x.part \in Nat /\ h.gone \in Nat /\ h.came \in Nat /\ h.there \subseteq RemoteIds
        /\ RemoteIds \subseteq Nat
    BY WebServerAssumption DEF PageType, SinceType
  <1>2. k.came # 0
    BY <1>1
  <1>3. Cardinality(R) \in Nat /\ Cardinality(R \cup {a}) = Cardinality(R) + 1
    BY PlaceIs, PlaceAdded
  <1>4. ASSUME Reading(x, h, R) PROVE Reading(x, k, R \cup {a})
    <2>1. ASSUME h.gone <= 1
          PROVE  x.part = 0 \/ x.part < Cardinality(R \cup {a}) + h.gone
      BY <1>1, <1>3, <1>4, <2>1 DEF Reading
    <2>2. ASSUME NEW r \in h.there, Place(R, r) > x.part
          PROVE  Place(R \cup {a}, r) > x.part
      <3>1. r \in Nat
        BY <1>1
      <3>2. /\ Place(R, r) \in Nat /\ Place(R \cup {a}, r) \in Nat
            /\ Place(R, r) <= Place(R \cup {a}, r)
        BY <3>1, PlaceIs, PlaceAdded
      <3> QED BY <1>1, <2>2, <3>2
    <2> QED BY <1>2, <1>4, <2>1, <2>2 DEF Reading
  <1>5. Read(x, h) => Read(x, k)
    BY <1>2 DEF Read
  <1> QED BY <1>4, <1>5 DEF RemotesPage

\* ... or deletes one.
LEMMA DeletedMeanwhile ==
  ASSUME NEW R \in Tables, NEW a \in R, NEW x \in PageType,
         NEW h \in SinceType, RemotesPage(x, h, R),
         NEW k \in SinceType,
         k.there = h.there \ {a}, k.gone = h.gone + 1, k.came = h.came
  PROVE  RemotesPage(x, k, R \ {a})
  <1>1. /\ x.part \in Nat /\ h.gone \in Nat /\ h.came \in Nat /\ R \subseteq Nat
    BY DEF PageType, SinceType, Tables
  <1>2. k.gone # 0 /\ (k.gone <= 1 => h.gone = 0 /\ h.gone <= 1 /\ k.gone = 1)
    BY <1>1
  <1>3. Cardinality(R) \in Nat /\ Cardinality(R \ {a}) = Cardinality(R) - 1
    <2>1. a \in Nat
      BY <1>1
    <2> QED BY <2>1, PlaceIs, PlaceDeleted
  <1>4. ASSUME Reading(x, h, R) PROVE Reading(x, k, R \ {a})
    <2>1. ASSUME k.gone <= 1
          PROVE  x.part = 0 \/ x.part < Cardinality(R \ {a}) + k.gone
      BY <1>1, <1>2, <1>3, <1>4, <2>1 DEF Reading
    <2>2. ASSUME NEW r \in R \ {a}, Place(R, r) <= x.part
          PROVE  Place(R \ {a}, r) <= x.part
      <3>1. r \in Nat /\ R \ {a} \in Tables
        BY <1>1, PlaceDeleted
      <3>2. /\ Place(R, r) \in Nat /\ Place(R \ {a}, r) \in Nat
            /\ Place(R \ {a}, r) <= Place(R, r)
        BY <3>1, PlaceIs, PlaceDeleted
      <3> QED BY <1>1, <2>2, <3>2
    <2> QED BY <1>2, <1>4, <2>1, <2>2 DEF Reading
  <1>5. Read(x, h) => Read(x, k)
    BY <1>2 DEF Read
  <1> QED BY <1>4, <1>5 DEF RemotesPage

\* Nothing happens to a connection, its history and the table.
LEMMA PageRests ==
  ASSUME NEW R, NEW x, NEW h, RemotesPage(x, h, R), NEW k,
         k.there = h.there, k.gone = h.gone, k.came = h.came
  PROVE  RemotesPage(x, k, R)
  BY DEF RemotesPage, Reading, Read

\* The entry that is found, and there is a later one
LEMMA EntryRead ==
  ASSUME NEW R \in Tables, R \subseteq RemoteIds, NEW x \in PageType, NEW h \in SinceType,
         Reading(x, h, R), NEW pos \in R, h.gone >= 2 \/ Place(R, pos) = x.part + 1,
         NEW later \in R, later > pos,
         NEW y, y.part = x.part + 1,
         y.out = x.out \o <<[item |-> pos, comma |-> TRUE]>>
  PROVE  Reading(y, h, R)
  <1> DEFINE n == Len(x.out)
             q == y.out
  <1>1. /\ x.part \in Nat /\ h.gone \in Nat /\ h.came \in Nat /\ h.there \subseteq Nat
        /\ R \subseteq Nat /\ x.out \in Entries
    BY WebServerAssumption DEF PageType, SinceType, Tables
  <1>2. /\ n \in Nat /\ Len(q) = n + 1
        /\ \A i \in 1 .. n : q[i] = x.out[i]
        /\ q[n + 1].comma = TRUE
        /\ Named(q) = Named(x.out) \cup {pos}
        /\ Distinct(x.out) /\ pos \notin Named(x.out) => Distinct(q)
    <2>1. pos \in RemoteIds
      OBVIOUS
    <2>2. PICK e \in [item : RemoteIds, comma : BOOLEAN] : e = [item |-> pos, comma |-> TRUE]
      BY <2>1
    <2>3. e.item = pos /\ e.comma = TRUE
      BY <2>2
    <2>4. q = x.out \o <<e>>
      BY <2>2, Zenon
    <2> HIDE DEF q, n
    <2>5. PICK o \in Entries : o = x.out
      BY <1>1
    <2> QED BY <2>3, <2>4, <2>5, Continued, Zenon DEF n
  <1> HIDE DEF n, q
  <1>3. \A i \in 1 .. Len(q) : q[i].comma
    <2>1. \A i \in 1 .. n : x.out[i].comma
      BY DEF Reading, n
    <2>2. \A i \in 1 .. n + 1 : i \in 1 .. n \/ i = n + 1
      BY <1>2
    <2> QED BY <1>2, <2>1, <2>2, Zenon
  <1>4. /\ Place(R, pos) \in Nat /\ Place(R, later) \in Nat /\ Cardinality(R) \in Nat
        /\ Place(R, pos) < Place(R, later) /\ Place(R, later) <= Cardinality(R)
    <2>1. pos \in Nat /\ later \in Nat /\ pos < later
      BY <1>1
    <2> QED BY <2>1, PlaceIs
  <1>5. ASSUME h.gone <= 1
        PROVE  y.part < Cardinality(R) + h.gone /\ Place(R, pos) = x.part + 1
    BY <1>1, <1>4, <1>5
  <1>6. y.part # 0
    BY <1>1
  <1>7. ASSUME h.gone = 0, NEW r \in h.there
        PROVE  r \in Named(q) \/ Place(R, r) > y.part
    <2>1. r \in R /\ (r \in Named(x.out) \/ Place(R, r) > x.part)
      BY <1>7 DEF Reading
    <2>2. CASE r \in Named(x.out) \/ r = pos
      BY <1>2, <2>2
    <2>3. CASE Place(R, r) > x.part /\ r # pos
      <3>1. r \in Nat /\ pos \in Nat /\ (r < pos \/ pos < r)
        BY <1>1, <2>1, <2>3
      <3>2. Place(R, r) \in Nat /\ (r < pos => Place(R, r) < Place(R, pos))
            /\ (pos < r => Place(R, pos) < Place(R, r))
        BY <2>1, <3>1, PlaceIs
      <3>3. Place(R, pos) = x.part + 1
        BY <1>5, <1>7
      <3> QED BY <1>1, <2>3, <3>1, <3>2, <3>3
    <2> QED BY <2>1, <2>2, <2>3
  <1>8. ASSUME h.came = 0, h.gone <= 1
        PROVE  /\ Distinct(q)
               /\ \A r \in Named(q) \cap R : Place(R, r) <= y.part
    <2>1. /\ Distinct(x.out)
          /\ \A r \in Named(x.out) \cap R : Place(R, r) <= x.part
      BY <1>8 DEF Reading
    <2>2. Place(R, pos) = x.part + 1 /\ ~ (Place(R, pos) <= x.part)
      BY <1>1, <1>5, <1>8
    <2>3. pos \notin Named(x.out)
      BY <2>1, <2>2
    <2>4. ASSUME NEW r \in Named(q) \cap R PROVE Place(R, r) <= y.part
      <3>1. CASE r = pos
        BY <1>1, <2>2, <3>1
      <3>2. CASE r \in Named(x.out)
        <4>1. Place(R, r) <= x.part
          BY <2>1, <2>4, <3>2
        <4>2. r \in Nat
          BY <1>1, <2>4
        <4>3. Place(R, r) \in Nat
          BY <4>2, PlaceIs
        <4> QED BY <1>1, <4>1, <4>3
      <3> QED BY <1>2, <2>4, <3>1, <3>2
    <2> QED BY <1>2, <2>1, <2>3, <2>4
  <1>9. h.gone = 0 => h.there \subseteq R /\ h.gone <= 1
    BY DEF Reading
  <1> QED BY <1>3, <1>5, <1>6, <1>7, <1>8, <1>9 DEF Reading, q

\* ... and there is none.
LEMMA LastEntryRead ==
  ASSUME NEW R \in Tables, R \subseteq RemoteIds, NEW x \in PageType, NEW h \in SinceType,
         Reading(x, h, R), NEW pos \in R, h.gone >= 2 \/ Place(R, pos) = x.part + 1,
         \A r \in R : ~ (r > pos),
         NEW y, y.out = x.out \o <<[item |-> pos, comma |-> FALSE]>>
  PROVE  Read(y, h)
  <1> DEFINE n == Len(x.out)
             q == y.out
  <1>1. /\ x.part \in Nat /\ h.gone \in Nat /\ h.came \in Nat /\ h.there \subseteq Nat
        /\ R \subseteq Nat /\ x.out \in Entries
    BY WebServerAssumption DEF PageType, SinceType, Tables
  <1>2. /\ n \in Nat /\ Len(q) = n + 1
        /\ \A i \in 1 .. n : q[i] = x.out[i]
        /\ q[n + 1].comma = FALSE
        /\ Named(q) = Named(x.out) \cup {pos}
        /\ Distinct(x.out) /\ pos \notin Named(x.out) => Distinct(q)
    <2>1. pos \in RemoteIds
      OBVIOUS
    <2>2. PICK e \in [item : RemoteIds, comma : BOOLEAN] : e = [item |-> pos, comma |-> FALSE]
      BY <2>1
    <2>3. e.item = pos /\ e.comma = FALSE
      BY <2>2
    <2>4. q = x.out \o <<e>>
      BY <2>2, Zenon
    <2> HIDE DEF q, n
    <2>5. PICK o \in Entries : o = x.out
      BY <1>1
    <2>6. PICK u : u = o \o <<e>>
      OBVIOUS
    <2>7. /\ Len(o) \in Nat /\ Len(u) = Len(o) + 1
          /\ \A i \in 1 .. Len(o) : u[i] = o[i]
          /\ u[Len(o) + 1] = e
          /\ Named(u) = Named(o) \cup {e.item}
          /\ Distinct(o) /\ e.item \notin Named(o) => Distinct(u)
      <3> DEFINE w == o \o <<e>>
      <3>1. /\ Len(o) \in Nat /\ Len(w) = Len(o) + 1
            /\ \A i \in 1 .. Len(o) : w[i] = o[i]
            /\ w[Len(o) + 1] = e
            /\ Named(w) = Named(o) \cup {e.item}
            /\ Distinct(o) /\ e.item \notin Named(o) => Distinct(w)
        BY Continued, Zenon
      <3>2. u = w
        BY <2>6
      <3> HIDE DEF w
      <3> QED BY <3>1, <3>2, Zenon
    <2>8. q = u /\ n = Len(o)
      BY <2>4, <2>5, <2>6 DEF n
    <2> QED BY <2>3, <2>5, <2>7, <2>8, Zenon
  <1>3. \A i \in 1 .. n : x.out[i].comma = TRUE
    <2>1. \A i \in 1 .. n : x.out[i].comma
      BY DEF Reading
    <2>2. ASSUME NEW i \in 1 .. n PROVE x.out[i].comma \in BOOLEAN
      <3>1. ASSUME NEW T, NEW o \in Seq(T), NEW j \in 1 .. Len(o) PROVE o[j] \in T
        OBVIOUS
      <3>2. x.out \in Seq([item : RemoteIds, comma : BOOLEAN]) /\ i \in 1 .. Len(x.out)
        BY <1>1 DEF Entries
      <3>3. x.out[i] \in [item : RemoteIds, comma : BOOLEAN]
        BY <3>1, <3>2, Zenon
      <3> QED BY <3>3
    <2> QED BY <2>1, <2>2, Zenon
  <1> HIDE DEF n, q
  <1>4. \A i \in 1 .. Len(q) : q[i].comma = (i < Len(q))
    <2>1. ASSUME NEW i \in 1 .. n + 1 PROVE q[i].comma = (i < n + 1)
      <3>1. CASE i \in 1 .. n
        <4>1. q[i].comma = TRUE
          BY <1>2, <1>3, <3>1, Zenon
        <4>2. i < n + 1
          BY <1>2, <3>1
        <4> QED BY <4>1, <4>2, Zenon
      <3>2. CASE i = n + 1
        <4>1. q[i].comma = FALSE
          BY <1>2, <3>2, Zenon
        <4>2. (i < n + 1) = FALSE
          BY <1>2, <3>2
        <4> QED BY <4>1, <4>2, Zenon
      <3> QED BY <1>2, <3>1, <3>2
    <2> QED BY <1>2, <2>1, Zenon
  <1>5. ASSUME h.gone <= 1 PROVE Place(R, pos) = x.part + 1
    BY <1>1, <1>5
  <1>6. ASSUME h.gone = 0, NEW r \in h.there PROVE r \in Named(q)
    <2>1. r \in R /\ (r \in Named(x.out) \/ Place(R, r) > x.part)
      BY <1>6 DEF Reading
    <2>2. CASE r \in Named(x.out) \/ r = pos
      BY <1>2, <2>2
    <2>3. CASE Place(R, r) > x.part /\ r # pos
      <3>1. r \in Nat /\ pos \in Nat /\ r < pos
        BY <1>1, <2>1, <2>3
      <3>2. Place(R, r) \in Nat /\ Place(R, r) < Place(R, pos)
        BY <2>1, <3>1, PlaceIs
      <3>3. Place(R, pos) = x.part + 1
        BY <1>5, <1>6
      <3> QED BY <1>1, <2>3, <3>1, <3>2, <3>3
    <2> QED BY <2>1, <2>2, <2>3
  <1>7. ASSUME h.came = 0, h.gone <= 1 PROVE Distinct(q)
    <2>1. /\ Distinct(x.out)
          /\ \A r \in Named(x.out) \cap R : Place(R, r) <= x.part
      BY <1>7 DEF Reading
    <2>2. ~ (Place(R, pos) <= x.part)
      BY <1>1, <1>5, <1>7
    <2> QED BY <1>2, <2>1, <2>2
  <1> QED BY <1>4, <1>6, <1>7 DEF Read, q

\* The end, where no entry was left
LEMMA EndRead ==
  ASSUME NEW R \in Tables, NEW x \in PageType, NEW h \in SinceType,
         Reading(x, h, R), h.gone >= 2 \/ x.part = Cardinality(R),
         NEW y, y.out = x.out
  PROVE  Read(y, h)
  <1>1. /\ x.part \in Nat /\ h.gone \in Nat /\ Cardinality(R) \in Nat
    BY PlaceIs DEF PageType, SinceType
  <1>2. ASSUME h.gone = 0 PROVE h.there = {} /\ x.out = <<>>
    <2>1. x.part = 0 /\ Cardinality(R) = 0
      BY <1>1, <1>2 DEF Reading
    <2>2. R = {}
      BY <2>1, FS_EmptySet DEF Tables
    <2> QED BY <1>2, <2>1, <2>2 DEF Reading
  <1>3. \A i \in 1 .. Len(<<>>) : <<>>[i].comma = (i < Len(<<>>))
    BY NoEntries
  <1> QED BY <1>2, <1>3 DEF Reading, Read

-----------------------------------------------------------------------------
\* What the entry that is found may be
LEMMA ReachedIs ==
  ASSUME remotes \in Tables, NEW part \in Nat, NEW pos \in Reached(part)
  PROVE  /\ \/ pos \in remotes /\ Place(remotes, pos) = part + 1
            \/ pos = End /\ part = Cardinality(remotes)
            \/ /\ part > Cardinality(remotes)
               /\ pos \in remotes \/ pos = End \/ (pos = Hang /\ remotes = {})
         /\ End \notin remotes /\ Hang \notin remotes /\ End # Hang
  <1> DEFINE n == Cardinality(remotes)
             P == {r \in remotes : Cardinality({x \in remotes : x <= r}) = part + 1}
  <1>1. n \in Nat /\ remotes \subseteq Nat
    BY FS_CardinalityType DEF Tables
  <1>2. End \notin remotes /\ Hang \notin remotes /\ End # Hang
    BY <1>1 DEF End, Hang
  <1>3. \A r \in P : r \in remotes /\ Place(remotes, r) = part + 1
    BY DEF Place
  <1>4. pos \in IF part + 1 <= n THEN P
                ELSE IF part + 1 = n + 1 THEN {End}
                ELSE IF remotes = {} THEN {Hang}
                ELSE remotes \cup {End}
    BY Zenon DEF Reached, Position, UpTo
  <1> HIDE DEF n, P
  <1>5. CASE part + 1 <= n
    BY <1>2, <1>3, <1>4, <1>5
  <1>6. CASE part + 1 = n + 1
    <2>1. ~ (part + 1 <= n) /\ part = n
      BY <1>1, <1>6
    <2> QED BY <1>2, <1>4, <1>6, <2>1 DEF n
  <1>7. CASE ~ (part + 1 <= n) /\ part + 1 # n + 1
    <2>1. part > n
      BY <1>1, <1>7
    <2> QED BY <1>2, <1>4, <1>7, <2>1 DEF n
  <1> QED BY <1>5, <1>6, <1>7

LEMMA TableIs ==
  ASSUME Inv
  PROVE  /\ remotes \in Tables /\ remotes \subseteq RemoteIds
         /\ \A c \in Clients : since[c] \in SinceType
         /\ \A c \in Clients : conn[c].page = "remotes" => conn[c] \in PageType
         /\ DOMAIN conn = Clients /\ ConnectionsOK
  <1>1. remotes \subseteq RemoteIds /\ ConnectionsOK /\ SinceOK
    BY TypeParts DEF Inv
  <1>2. remotes \in Tables
    BY <1>1, FS_Subset, WebServerAssumption DEF Tables
  <1>3. ASSUME NEW c \in Clients, conn[c].page = "remotes" PROVE conn[c] \in PageType
    <2>1. conn[c] \in Connection("remotes")
      BY <1>1, <1>3 DEF ConnectionsOK
    <2>2. ItemsOf["remotes"] = RemoteIds
      BY Zenon DEF ItemsOf
    <2>3. Connection("remotes") = PageType
      BY <2>2, Zenon DEF Connection, PageType, Entries
    <2> QED BY <2>1, <2>3
  <1>4. DOMAIN conn = Clients
    BY <1>1 DEF ConnectionsOK
  <1> QED BY <1>1, <1>2, <1>3, <1>4 DEF SinceOK

LEMMA TableInitHolds ==
  Init => TableInv
  <1> SUFFICES ASSUME Init PROVE TableInv
    OBVIOUS
  <1>1. ASSUME NEW c \in Clients PROVE conn[c].page = "none" /\ hung = FALSE
    BY DEF Init, Closed
  <1>2. hung = FALSE
    BY DEF Init
  <1> QED BY <1>1, <1>2 DEF TableInv, RemotesPage

\* A request, and what it does to the pages of others
LEMMA RequestTable ==
  ASSUME Inv, Inv', TableInv, UNCHANGED oneTimeScan, ~ hung', NEW c \in Clients,
         NEW page, NEW result, conn' = [conn EXCEPT ![c] = Fresh(page, result)],
         since'[c] = [Calm EXCEPT !.there = remotes'],
         \A d \in Clients : d # c /\ ~ oneTimeScan =>
            RemotesPage(conn[d], since'[d], remotes')
  PROVE  TableInv'
  <1>1. DOMAIN conn = Clients
    BY TableIs
  <1>2. conn'[c] = Fresh(page, result) /\ \A d \in Clients : d # c => conn'[d] = conn[d]
    BY <1>1
  <1>3. RemotesPage(conn'[c], since'[c], remotes')
    <2> DEFINE x == Fresh(page, result)
    <2>1. x.state = "open" /\ x.part = 0 /\ x.out = <<>>
      BY DEF Fresh
    <2>2. since'[c].there = remotes' /\ since'[c].gone = 0 /\ since'[c].came = 0
      <3>1. /\ Calm.gone = 0 /\ Calm.came = 0
            /\ DOMAIN Calm = {"there", "gone", "came", "collected"}
        BY DEF Calm
      <3> QED BY <3>1
    <2>3. remotes' \in Tables
      <3>1. ASSUME Inv PROVE remotes \in Tables
        BY <3>1, TableIs
      <3>2. remotes' \subseteq RemoteIds
        BY Zenon DEF Inv, TypeOK
      <3> QED BY <3>2, FS_Subset, WebServerAssumption DEF Tables
    <2> HIDE DEF x
    <2>4. Reading(x, since'[c], remotes')
      BY <2>1, <2>2, <2>3, RequestReads
    <2>5. conn'[c] = x
      BY <1>2 DEF x
    <2> QED BY <2>1, <2>4, <2>5, Zenon DEF RemotesPage
  <1>4. ASSUME NEW d \in Clients, ~ oneTimeScan
        PROVE  RemotesPage(conn'[d], since'[d], remotes')
    <2>1. CASE d = c
      BY <1>3, <2>1, Zenon
    <2>2. CASE d # c
      BY <1>2, <1>4, <2>2, Zenon
    <2> QED BY <2>1, <2>2
  <1> QED BY <1>4, Zenon DEF TableInv

\* A connection the history of which tells the same of the table
LEMMA Unseen ==
  ASSUME TableInv, ~ oneTimeScan, NEW d \in Clients, UNCHANGED remotes,
         since'[d].there = since[d].there, since'[d].gone = since[d].gone,
         since'[d].came = since[d].came
  PROVE  RemotesPage(conn[d], since'[d], remotes')
  <1>1. RemotesPage(conn[d], since[d], remotes)
    BY DEF TableInv
  <1> QED BY <1>1, PageRests

LEMMA TableRequests ==
  ASSUME Inv, Inv', TableInv, NEW c \in Clients,
         \/ \E page \in {"remotes", "results", "wifi", "answer"} : OpenPage(c, page)
         \/ UnknownCommand(c) \/ StartDiscovery(c)
         \/ \E r \in RemoteIds : AddRemote(c, r) \/ DeleteRemote(c, r)
  PROVE  TableInv'
  <1>1. /\ UNCHANGED <<oneTimeScan, hung>> /\ ~ hung
        /\ \/ \E page \in {"remotes", "results", "wifi", "answer"} : Opens(c, page)
           \/ \E result : Answers(c, result)
    BY Zenon DEF OpenPage, UnknownCommand, StartDiscovery, AddRemote, DeleteRemote,
           Opens, Answers, scannerVars
  <1>2. PICK page, result : conn' = [conn EXCEPT ![c] = Fresh(page, result)]
    <2>1. ASSUME NEW p, Opens(c, p) PROVE conn' = [conn EXCEPT ![c] = Fresh(p, FALSE)]
      BY <2>1, OpensFresh, Zenon DEF Opens
    <2>2. ASSUME NEW r, Answers(c, r) PROVE conn' = [conn EXCEPT ![c] = Fresh("answer", r)]
      <3>1. [Closed EXCEPT !.state = "open", !.page = "answer", !.result = r] = Fresh("answer", r)
        BY OpensFresh, Zenon
      <3> QED BY <2>2, <3>1, Zenon DEF Answers
    <2> QED BY <1>1, <2>1, <2>2, Zenon
  <1>3. /\ remotes \in Tables /\ remotes \subseteq RemoteIds
        /\ \A d \in Clients : since[d] \in SinceType
        /\ \A d \in Clients : conn[d].page = "remotes" => conn[d] \in PageType
    BY TableIs
  <1>4. \A d \in Clients : since'[d] \in SinceType
    <2>1. SinceOK'
      <3>1. TypeOK'
        BY DEF Inv
      <3> QED BY <3>1, Zenon DEF TypeOK, SinceOK, SinceType
    <2> QED BY <2>1, Zenon DEF SinceOK
  <1>5. /\ since'[c] = [Calm EXCEPT !.there = remotes']
        /\ \/ UNCHANGED remotes /\ \A d \in Clients : d # c => since'[d] = since[d]
           \/ \E r \in RemoteIds :
                /\ r \notin remotes /\ remotes' = remotes \cup {r}
                /\ \A d \in Clients : d # c => since'[d] = [since[d] EXCEPT !.came = @ + 1]
           \/ \E r \in remotes :
                /\ remotes' = remotes \ {r}
                /\ \A d \in Clients : d # c =>
                     since'[d] = [since[d] EXCEPT !.there = @ \ {r}, !.gone = @ + 1]
    <2>1. CASE UNCHANGED remotes /\ Since(c, Same)
      BY <2>1 DEF Since, Same
    <2>2. ASSUME NEW r \in RemoteIds, AddRemote(c, r)
          PROVE  <1>5!1 /\ <1>5!2
      <3>1. CASE r \in remotes
        <4>1. remotes' = remotes
          BY <2>2, <3>1 DEF AddRemote
        <4> QED BY <2>2, <3>1, <4>1 DEF AddRemote, Since
      <3>2. CASE r \notin remotes
        BY <2>2, <3>2 DEF AddRemote, Since
      <3> QED BY <3>1, <3>2
    <2>3. ASSUME NEW r \in RemoteIds, DeleteRemote(c, r)
          PROVE  <1>5!1 /\ <1>5!2
      <3>1. CASE r \in Primary
        BY <2>3, <3>1 DEF DeleteRemote, Since
      <3>2. CASE r \notin Primary
        BY <2>3, <3>2 DEF DeleteRemote, Since
      <3> QED BY <3>1, <3>2
    <2> QED BY <2>1, <2>2, <2>3, Zenon DEF OpenPage, UnknownCommand, StartDiscovery, tables
  <1>6. ASSUME NEW d \in Clients, d # c, ~ oneTimeScan
        PROVE  RemotesPage(conn[d], since'[d], remotes')
    <2>1. CASE UNCHANGED remotes /\ since'[d] = since[d]
      BY <1>6, <2>1, Unseen
    <2>2. RemotesPage(conn[d], since[d], remotes)
      BY <1>6 DEF TableInv
    <2>3. CASE conn[d].page # "remotes"
      BY <2>3 DEF RemotesPage
    <2>4. ASSUME conn[d].page = "remotes",
                 NEW r \in RemoteIds, r \notin remotes, remotes' = remotes \cup {r},
                 since'[d] = [since[d] EXCEPT !.came = @ + 1]
          PROVE  RemotesPage(conn[d], since'[d], remotes')
      <3>1. PICK h \in SinceType : h = since[d]
        BY <1>3
      <3>2. PICK k \in SinceType : k = since'[d]
        BY <1>4
      <3>3. k.there = h.there /\ k.gone = h.gone /\ k.came = h.came + 1
        BY <2>4, <3>1, <3>2 DEF SinceType
      <3>4. conn[d] \in PageType /\ r \in Nat
        BY <1>3, <2>4, WebServerAssumption
      <3>5. RemotesPage(conn[d], k, remotes \cup {r})
        BY <1>3, <2>2, <2>4, <3>1, <3>3, <3>4, AddedMeanwhile
      <3> QED BY <2>4, <3>2, <3>5, Zenon
    <2>5. ASSUME conn[d].page = "remotes",
                 NEW r \in remotes, remotes' = remotes \ {r},
                 since'[d] = [since[d] EXCEPT !.there = @ \ {r}, !.gone = @ + 1]
          PROVE  RemotesPage(conn[d], since'[d], remotes')
      <3>1. PICK h \in SinceType : h = since[d]
        BY <1>3
      <3>2. PICK k \in SinceType : k = since'[d]
        BY <1>4
      <3>3. k.there = h.there \ {r} /\ k.gone = h.gone + 1 /\ k.came = h.came
        BY <2>5, <3>1, <3>2 DEF SinceType
      <3>4. conn[d] \in PageType
        BY <1>3, <2>5
      <3>5. RemotesPage(conn[d], k, remotes \ {r})
        BY <1>3, <2>2, <2>5, <3>1, <3>3, <3>4, DeletedMeanwhile
      <3> QED BY <2>5, <3>2, <3>5, Zenon
    <2> QED BY <1>5, <1>6, <2>1, <2>3, <2>4, <2>5
  <1>7. \A d \in Clients : d # c /\ ~ oneTimeScan =>
          RemotesPage(conn[d], since'[d], remotes')
    BY <1>6, Zenon
  <1>8. ~ hung' /\ oneTimeScan' = oneTimeScan
    BY <1>1
  <1> QED BY <1>2, <1>5, <1>7, <1>8, RequestTable

\* A part that is written leaves the page, and the other connections, alone.
LEMMA PartOfPage ==
  ASSUME ConnectionsOK, NEW c \in Clients, NEW inserted,
         More(c, inserted) \/ NoMore(c, inserted)
  PROVE  /\ conn'[c].page = conn[c].page
         /\ \A d \in Clients : d # c => conn'[d] = conn[d]
  <1>1. DOMAIN conn = Clients /\ conn[c] \in Connection(conn[c].page)
    BY DEF ConnectionsOK
  <1>2. CASE More(c, inserted)
    <2> DEFINE x == [conn[c] EXCEPT !.out = @ \o inserted, !.part = @ + 1]
    <2>1. conn' = [conn EXCEPT ![c] = x]
      BY <1>1, <1>2 DEF More
    <2>2. x.page = conn[c].page
      BY <1>1 DEF Connection
    <2> HIDE DEF x
    <2> QED BY <1>1, <2>1, <2>2
  <1>3. CASE NoMore(c, inserted)
    <2> DEFINE x == [conn[c] EXCEPT !.out = @ \o inserted, !.state = "done"]
    <2>1. conn' = [conn EXCEPT ![c] = x]
      BY <1>1, <1>3 DEF NoMore
    <2>2. x.page = conn[c].page
      BY <1>1 DEF Connection
    <2> HIDE DEF x
    <2> QED BY <1>1, <2>1, <2>2
  <1> QED BY <1>2, <1>3

\* Steps of which the pages of remotes see nothing
LEMMA TableRests ==
  ASSUME TableInv, ~ hung', UNCHANGED <<oneTimeScan, remotes>>,
         \A d \in Clients : ~ oneTimeScan =>
           \/ conn'[d].page # "remotes"
           \/ /\ conn'[d] = conn[d]
              /\ since'[d].there = since[d].there /\ since'[d].gone = since[d].gone
              /\ since'[d].came = since[d].came
  PROVE  TableInv'
  <1>1. ASSUME NEW d \in Clients, ~ oneTimeScan
        PROVE  RemotesPage(conn'[d], since'[d], remotes')
    <2>1. CASE conn'[d].page # "remotes"
      BY <2>1 DEF RemotesPage
    <2>2. CASE /\ conn'[d] = conn[d]
               /\ since'[d].there = since[d].there /\ since'[d].gone = since[d].gone
               /\ since'[d].came = since[d].came
      <3>1. RemotesPage(conn[d], since'[d], remotes')
        BY <1>1, <2>2, Unseen
      <3> QED BY <2>2, <3>1, Zenon
    <2> QED BY <1>1, <2>1, <2>2
  <1> QED BY <1>1, Zenon DEF TableInv

LEMMA OtherTables ==
  ASSUME Inv, TableInv, NEW c \in Clients,
         ResultsPart(c) \/ UnknownTag(c) \/ AnswerPart(c) \/ WifiPart(c) \/ Close(c)
  PROVE  TableInv'
  <1>1. /\ ConnectionsOK /\ DOMAIN conn = Clients
        /\ \A d \in Clients : since[d] \in SinceType
    BY TableIs
  <1>2. UNCHANGED <<oneTimeScan, remotes>> /\ ~ hung'
    <2>1. CASE WifiPart(c)
      BY <2>1 DEF WifiPart, CollectResults, scannerVars, tables, Asked
    <2>2. CASE ResultsPart(c) \/ UnknownTag(c) \/ AnswerPart(c) \/ Close(c)
      BY <2>2 DEF ResultsPart, UnknownTag, AnswerPart, Close, scannerVars, tables, Asked
    <2> QED BY <2>1, <2>2
  <1>3. ASSUME ~ oneTimeScan, ResultsPart(c) \/ AnswerPart(c) PROVE TableInv'
    <2>1. conn[c].page # "remotes" /\ since' = since
      BY <1>3 DEF ResultsPart, AnswerPart, Asked
    <2>2. \E inserted : NoMore(c, inserted)
      BY <1>3, Zenon DEF ResultsPart, AnswerPart
    <2>3. conn'[c].page # "remotes" /\ \A d \in Clients : d # c => conn'[d] = conn[d]
      BY <1>1, <2>1, <2>2, PartOfPage
    <2> QED BY <1>2, <2>1, <2>3, TableRests
  <1>4. ASSUME WifiPart(c) PROVE TableInv'
    <2>1. conn[c].page # "remotes"
      BY <1>4 DEF WifiPart, Asked
    <2>2. \E inserted : More(c, inserted) \/ NoMore(c, inserted)
      BY <1>4, Zenon DEF WifiPart
    <2>3. conn'[c].page # "remotes" /\ \A d \in Clients : d # c => conn'[d] = conn[d]
      BY <1>1, <2>1, <2>2, PartOfPage
    <2>4. ASSUME NEW d \in Clients
          PROVE  /\ since'[d].there = since[d].there /\ since'[d].gone = since[d].gone
                 /\ since'[d].came = since[d].came
      <3>1. \/ since'[d] = [since[d] EXCEPT !.collected = TRUE]
            \/ since'[d] = [since[d] EXCEPT !.collected = FALSE]
            \/ since'[d] = since[d]
        BY <1>4 DEF WifiPart
      <3>2. since[d] \in SinceType
        BY <1>1
      <3> QED BY <3>1, <3>2 DEF SinceType
    <2> QED BY <1>2, <2>3, <2>4, TableRests
  <1>5. ASSUME Close(c) PROVE TableInv'
    <2>1. conn' = [conn EXCEPT ![c] = Closed] /\ since' = [since EXCEPT ![c] = Calm]
      BY <1>5 DEF Close
    <2>2. conn'[c].page # "remotes"
      BY <1>1, <2>1 DEF Closed
    <2>3. \A d \in Clients : d # c => conn'[d] = conn[d] /\ since'[d] = since[d]
      BY <2>1
    <2> QED BY <1>2, <2>2, <2>3, TableRests
  <1>6. CASE oneTimeScan
    BY <1>2, <1>6, TableRests
  <1> QED BY <1>3, <1>4, <1>5, <1>6 DEF UnknownTag

LEMMA RemotesPartTable ==
  ASSUME Inv, TableInv, NEW c \in Clients, RemotesPart(c)
  PROVE  TableInv'
  <1>1. /\ remotes \in Tables /\ remotes \subseteq RemoteIds
        /\ \A d \in Clients : since[d] \in SinceType
        /\ ConnectionsOK /\ DOMAIN conn = Clients
    BY TableIs
  <1>2. /\ conn[c].state = "open" /\ conn[c].page = "remotes" /\ ~ hung /\ ~ oneTimeScan
        /\ UNCHANGED <<oneTimeScan, remotes, since>>
    BY DEF RemotesPart, Asked, scannerVars, tables
  <1>3. PICK x \in PageType : x = conn[c]
    BY <1>2, TableIs
  <1>4. PICK h \in SinceType : h = since[c]
    BY <1>1
  <1>5. Reading(x, h, remotes)
    BY <1>2, <1>3, <1>4 DEF TableInv, RemotesPage
  <1>6. PICK pos \in Reached(x.part) :
          \/ pos \in remotes /\ Later(pos)
             /\ More(c, <<[item |-> pos, comma |-> TRUE]>>) /\ UNCHANGED hung
          \/ pos \in remotes /\ ~ Later(pos)
             /\ NoMore(c, <<[item |-> pos, comma |-> FALSE]>>) /\ UNCHANGED hung
          \/ pos = End /\ NoMore(c, <<>>) /\ UNCHANGED hung
          \/ pos = Hang /\ hung' = TRUE /\ UNCHANGED conn
    BY <1>3, Zenon DEF RemotesPart
  <1>7. x.part \in Nat /\ h.gone \in Nat /\ Cardinality(remotes) \in Nat
    BY <1>1, FS_CardinalityType DEF PageType, SinceType, Tables
  <1>8. x.part > Cardinality(remotes) => h.gone >= 2
    BY <1>5, <1>7 DEF Reading
  <1>9. /\ \/ pos \in remotes /\ Place(remotes, pos) = x.part + 1
           \/ pos = End /\ x.part = Cardinality(remotes)
           \/ h.gone >= 2 /\ (pos \in remotes \/ pos = End \/ (pos = Hang /\ remotes = {}))
        /\ End \notin remotes /\ Hang \notin remotes /\ End # Hang
    BY <1>1, <1>7, <1>8, ReachedIs
  <1>10. ItemsOf[conn[c].page] = RemoteIds
    BY <1>2 DEF ItemsOf
  <1> DEFINE T == Seq([item : ItemsOf[conn[c].page], comma : BOOLEAN])
  <1>11. ASSUME NEW inserted \in T, More(c, inserted) \/ NoMore(c, inserted), ~ hung',
                NEW y, conn' = [conn EXCEPT ![c] = y], RemotesPage(y, h, remotes)
         PROVE  TableInv'
    <2>1. \A d \in Clients : d # c => conn'[d] = conn[d] /\ since'[d] = since[d]
      BY <1>2, <1>11
    <2>2. conn'[c] = y /\ since'[c] = h
      BY <1>1, <1>2, <1>4, <1>11
    <2>3. ASSUME NEW d \in Clients PROVE RemotesPage(conn'[d], since'[d], remotes')
      <3>1. CASE d = c
        BY <1>2, <1>11, <2>2, <3>1, Zenon
      <3>2. CASE d # c
        <4>1. RemotesPage(conn[d], since[d], remotes)
          BY <1>2 DEF TableInv
        <4> QED BY <1>2, <2>1, <3>2, <4>1, Zenon
      <3> QED BY <3>1, <3>2
    <2> QED BY <1>11, <2>3, Zenon DEF TableInv
  <1>12. CASE /\ pos \in remotes /\ Later(pos) /\ UNCHANGED hung
              /\ More(c, <<[item |-> pos, comma |-> TRUE]>>)
    <2>1. <<[item |-> pos, comma |-> TRUE]>> \in T
      BY <1>1, <1>10, <1>12
    <2>2. PICK y \in Connection(conn[c].page) :
            /\ y.page = conn[c].page /\ conn' = [conn EXCEPT ![c] = y]
            /\ y.out = conn[c].out \o <<[item |-> pos, comma |-> TRUE]>>
            /\ y.state = conn[c].state /\ y.part = conn[c].part + 1
      BY <1>1, <1>12, <2>1, MoreIsTyped
    <2>3. h.gone >= 2 \/ Place(remotes, pos) = x.part + 1
      BY <1>9, <1>12
    <2>4. PICK later \in remotes : later > pos
      BY <1>12 DEF Later
    <2>5. y.part = x.part + 1 /\ y.out = x.out \o <<[item |-> pos, comma |-> TRUE]>>
      BY <1>3, <2>2, Zenon
    <2>6. Reading(y, h, remotes)
      BY <1>1, <1>5, <1>12, <2>3, <2>4, <2>5, EntryRead
    <2>7. RemotesPage(y, h, remotes)
      BY <1>2, <2>2, <2>6 DEF RemotesPage
    <2> QED BY <1>2, <1>11, <1>12, <2>1, <2>2, <2>7, Zenon
  <1>13. CASE /\ pos \in remotes /\ ~ Later(pos) /\ UNCHANGED hung
              /\ NoMore(c, <<[item |-> pos, comma |-> FALSE]>>)
    <2>1. <<[item |-> pos, comma |-> FALSE]>> \in T
      BY <1>1, <1>10, <1>13
    <2>2. PICK y \in Connection(conn[c].page) :
            /\ y.page = conn[c].page /\ conn' = [conn EXCEPT ![c] = y]
            /\ y.out = conn[c].out \o <<[item |-> pos, comma |-> FALSE]>>
            /\ y.state = "done"
      BY <1>1, <1>13, <2>1, LastIsTyped
    <2>3. h.gone >= 2 \/ Place(remotes, pos) = x.part + 1
      BY <1>9, <1>13
    <2>4. \A r \in remotes : ~ (r > pos)
      BY <1>13 DEF Later
    <2>5. y.out = x.out \o <<[item |-> pos, comma |-> FALSE]>>
      BY <1>3, <2>2, Zenon
    <2>6. Read(y, h)
      BY <1>1, <1>5, <1>13, <2>3, <2>4, <2>5, LastEntryRead
    <2>7. RemotesPage(y, h, remotes)
      BY <2>2, <2>6 DEF RemotesPage
    <2> QED BY <1>2, <1>11, <1>13, <2>1, <2>2, <2>7, Zenon
  <1>14. CASE pos = End /\ NoMore(c, <<>>) /\ UNCHANGED hung
    <2>1. <<>> \in T
      OBVIOUS
    <2>2. PICK y \in Connection(conn[c].page) :
            /\ y.page = conn[c].page /\ conn' = [conn EXCEPT ![c] = y]
            /\ y.out = conn[c].out \o <<>> /\ y.state = "done"
      BY <1>1, <1>14, <2>1, LastIsTyped
    <2>3. conn[c].out \o <<>> = conn[c].out
      BY <1>1 DEF ConnectionsOK, Connection
    <2>4. h.gone >= 2 \/ x.part = Cardinality(remotes)
      BY <1>9, <1>14
    <2>5. y.out = x.out
      BY <1>3, <2>2, <2>3, Zenon
    <2>6. Read(y, h)
      BY <1>1, <1>5, <2>4, <2>5, EndRead
    <2>7. RemotesPage(y, h, remotes)
      BY <2>2, <2>6 DEF RemotesPage
    <2> QED BY <1>2, <1>11, <1>14, <2>1, <2>2, <2>7, Zenon
  <1>15. CASE pos = Hang /\ hung' = TRUE /\ UNCHANGED conn
    <2>1. h.gone >= 2 /\ remotes = {}
      BY <1>9, <1>15
    <2>2. ~ oneTimeScan' => \A d \in Clients : RemotesPage(conn'[d], since'[d], remotes')
      BY <1>2, <1>15, Zenon DEF TableInv
    <2>3. remotes' = {} /\ \E d \in Clients : since'[d].gone >= 2
      BY <1>2, <1>4, <2>1
    <2> QED BY <2>2, <2>3, Zenon DEF TableInv
  <1> QED BY <1>6, <1>12, <1>13, <1>14, <1>15

LEMMA TableStep ==
  Inv /\ TableInv /\ [Next]_vars => TableInv'
  <1> SUFFICES ASSUME Inv, TableInv, [Next]_vars PROVE TableInv'
    OBVIOUS
  <1>1. Inv'
    BY InvStep
  <1>2. ASSUME NEW c \in Clients,
               \/ \E page \in {"remotes", "results", "wifi", "answer"} : OpenPage(c, page)
               \/ UnknownCommand(c) \/ StartDiscovery(c)
               \/ \E r \in RemoteIds : AddRemote(c, r) \/ DeleteRemote(c, r)
        PROVE  TableInv'
    BY <1>1, <1>2, TableRequests
  <1>3. ASSUME NEW c \in Clients, RemotesPart(c) PROVE TableInv'
    BY <1>3, RemotesPartTable
  <1>4. ASSUME NEW c \in Clients,
               ResultsPart(c) \/ UnknownTag(c) \/ AnswerPart(c) \/ WifiPart(c) \/ Close(c)
        PROVE  TableInv'
    BY <1>4, OtherTables
  <1>5. CASE (\E r \in RemoteIds : StrangePress(r)) \/ Scanning
    <2>1. UNCHANGED <<oneTimeScan, remotes, conn, since>> /\ ~ hung'
      BY <1>5 DEF StrangePress, Scanning, ScanEnds, ScanResult, tables, scannerVars
    <2> QED BY <2>1, TableRests
  <1>6. CASE UNCHANGED vars
    BY <1>6, Zenon DEF vars, scannerVars, tables, TableInv
  <1> QED BY <1>2, <1>3, <1>4, <1>5, <1>6, Zenon DEF Next

\* What a page names, as the properties put it
LEMMA ItemsAre ==
  ASSUME NEW c \in Clients, conn[c].out \in Entries
  PROVE  /\ Range(Items(c)) = Named(conn[c].out)
         /\ Distinct(conn[c].out) => IsInjective(Items(c))
  <1>1. PICK n \in Nat : n = Len(conn[c].out)
    BY DEF Entries
  <1>2. Items(c) = [i \in 1 .. n |-> conn[c].out[i].item]
    BY <1>1, Zenon DEF Items
  <1>3. DOMAIN Items(c) = 1 .. n /\ \A i \in 1 .. n : Items(c)[i] = conn[c].out[i].item
    BY <1>2
  <1>4. Range(Items(c)) = Named(conn[c].out)
    BY <1>1, <1>3 DEF Range, Named
  <1>5. ASSUME Distinct(conn[c].out) PROVE IsInjective(Items(c))
    BY <1>1, <1>3, <1>5 DEF Distinct, IsInjective
  <1> QED BY <1>4, <1>5

-----------------------------------------------------------------------------
(* The theorems *)

\* The lists, the connections and what they have written keep their types: the
\* entries of a page are of the kind that page lists.
THEOREM TypeCorrect ==
  Spec => []TypeOK
  <1>1. Inv => TypeOK
    BY DEF Inv
  <1> QED BY <1>1, Invariant, PTL

\* wifiScanner.cpp:51-60: the networks handed to a page are those of one scan
\* that has ended, each of them once.
THEOREM NetworksOfOneScan ==
  Spec => []SsidsFromOneScan
  <1>1. Inv => SsidsFromOneScan
    BY DEF Inv, ScanInv
  <1> QED BY <1>1, Invariant, PTL

\* configService.cpp:132: a page of networks is the whole list with its commas
\* in the right places, unless another page has collected meanwhile.
THEOREM NetworksListedWhole ==
  Spec => []WifiListWhole
  <1>1. ASSUME Inv PROVE WifiListWhole
    <2> SUFFICES ASSUME NEW c \in Clients, Done(c, "wifi"), ~ since[c].collected
                 PROVE  Items(c) = ssids /\ Separated(c)
      BY DEF WifiListWhole
    <2>1. conn[c].out = FirstOf(ssids, Len(ssids))
      BY <1>1 DEF Inv, WifiPages, WifiPage, Done, Listed
    <2>2. ssids \in Seq(Ssids)
      BY <1>1 DEF Inv, TypeOK, ScannerTypeOK
    <2>3. PICK n \in Nat : n = Len(ssids)
      BY <2>2
    <2>4. FirstOf(ssids, n) = [i \in 1 .. n |-> [item |-> ssids[i], comma |-> i < n]]
      BY <2>3, Zenon DEF FirstOf
    <2>5. Len(FirstOf(ssids, n)) = n
      BY <2>4
    <2>6. Items(c) = [i \in 1 .. n |-> ssids[i]]
      BY <2>1, <2>3, <2>4, <2>5 DEF Items
    <2>7. ssids = [i \in 1 .. n |-> ssids[i]]
      BY <2>2, <2>3
    <2>8. Separated(c)
      BY <2>1, <2>3, <2>4, <2>5 DEF Separated
    <2> QED BY <2>6, <2>7, <2>8
  <1> QED BY <1>1, Invariant, PTL

\* remotes.cpp:328: the page of remotes, numbered anew for each part, names all
\* that were there while remotes are only added, names none twice while one is
\* deleted, and cannot hang unless two are deleted between two of its parts.
THEOREM RemotesListed ==
  Spec => []ListSeesTable
  <1>1. Spec => [](Inv /\ TableInv)
    BY InitHolds, InvStep, TableInitHolds, TableStep, PTL DEF Spec
  <1>2. ASSUME Inv, TableInv PROVE ListSeesTable
    <2>1. ASSUME NEW c \in Clients, Done(c, "remotes"), ~ oneTimeScan
          PROVE  /\ since[c].gone = 0 => since[c].there \subseteq Range(Items(c)) /\ Separated(c)
                 /\ since[c].came = 0 /\ since[c].gone <= 1 => IsInjective(Items(c))
      <3>1. conn[c].page = "remotes" /\ conn[c].state = "done"
        BY <2>1 DEF Done
      <3>2. Read(conn[c], since[c])
        BY <1>2, <2>1, <3>1 DEF TableInv, RemotesPage
      <3>3. conn[c].out \in Entries
        BY <1>2, <3>1, TableIs DEF PageType
      <3>4. /\ Range(Items(c)) = Named(conn[c].out)
            /\ Distinct(conn[c].out) => IsInjective(Items(c))
        BY <3>3, ItemsAre
      <3> QED BY <3>2, <3>4 DEF Read, Separated
    <2>2. hung => remotes = {} /\ \E c \in Clients : since[c].gone >= 2
      BY <1>2 DEF TableInv
    <2> QED BY <2>1, <2>2, Zenon DEF ListSeesTable
  <1> QED BY <1>1, <1>2, PTL
=============================================================================
