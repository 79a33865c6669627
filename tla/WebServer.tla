----------------------------- MODULE WebServer ------------------------------
(***************************************************************************)
(* WebServer and the pages whose content is put together in parts: the     *)
(* list of remotes (remotes.cpp; the list of blinds is written the same    *)
(* way), the remotes detected, the networks found (configService.cpp) and  *)
(* the answers to commands.                                                *)
(*                                                                         *)
(* lwIP's httpd asks for one part after the other, by number, as there is  *)
(* room in the connection; in between it serves other connections, and     *)
(* presses and scan results come in.  Nothing is kept for a connection but *)
(* the result of its command.                                              *)
(***************************************************************************)
EXTENDS WifiScanner, FiniteSets, FiniteSetsExt, SequencesExt

CONSTANTS
  Clients,        \* connections
  RemoteIds,      \* Nats
  Primary,        \* remotes that may not be deleted
  DetectedLimit,  \* 4
  MaxRequests     \* bound: requests

ASSUME WebServerAssumption ==
  /\ RemoteIds \subseteq Nat /\ IsFiniteSet(RemoteIds) /\ Primary \subseteq RemoteIds
  /\ DetectedLimit \in Nat /\ MaxRequests \in Nat

VARIABLES
  remotes,   \* the keys of SomfyRemotes::_remotes
  detected,  \* _detectedRemotes
  conn,      \* the connections
  hung,      \* core 0 is in an endless loop
  since,     \* history: what has happened since a connection's first part
  requests   \* bound: requests so far

tables == <<remotes, detected>>
vars   == <<scannerVars, tables, conn, hung, since, requests>>

Closed == [state |-> "closed", page |-> "none", part |-> 0, result |-> FALSE, out |-> <<>>]
Calm   == [there |-> {}, gone |-> 0, came |-> 0, collected |-> FALSE]

\* The table is as flash had it; in access point mode it is not loaded.
Init ==
  /\ ScannerInit
  /\ remotes \in SUBSET RemoteIds
  /\ oneTimeScan => remotes = {}
  /\ detected = <<>>
  /\ conn = [c \in Clients |-> Closed]
  /\ hung = FALSE
  /\ since = [c \in Clients |-> Calm]
  /\ requests = 0

-----------------------------------------------------------------------------
(* Requests *)

\* fs_state_init, for a page or the answer to a command
Opens(c, page) ==
  /\ ~ hung
  /\ conn[c] = Closed
  /\ requests < MaxRequests /\ requests' = requests + 1
  /\ conn' = [conn EXCEPT ![c] = [Closed EXCEPT !.state = "open", !.page = page]]

\* ... and httpd_cgi_handler, if there is a command
Answers(c, result) ==
  /\ ~ hung
  /\ conn[c] = Closed
  /\ requests < MaxRequests /\ requests' = requests + 1
  /\ conn' = [conn EXCEPT ![c] =
       [Closed EXCEPT !.state = "open", !.page = "answer", !.result = result]]

\* History of a connection that opens, and of the others.
Since(c, Change(_)) ==
  since' = [d \in Clients |->
    IF d = c THEN [Calm EXCEPT !.there = remotes'] ELSE Change(since[d])]

Same(s) == s

\* A URL without a query; "answer" stands for a command's page without one.
OpenPage(c, page) ==
  /\ Opens(c, page)
  /\ UNCHANGED <<scannerVars, tables, hung>>
  /\ Since(c, Same)

\* HandleRequest of a URL nobody subscribes to
UnknownCommand(c) ==
  /\ Answers(c, FALSE)
  /\ UNCHANGED <<scannerVars, tables, hung>>
  /\ Since(c, Same)

\* DoAddRemote, DoImportRemote.  An id that exists is not imported.
AddRemote(c, r) ==
  /\ Answers(c, r \notin remotes)
  /\ remotes' = remotes \cup {r}
  /\ UNCHANGED <<scannerVars, detected, hung>>
  /\ Since(c, LAMBDA s : IF r \in remotes THEN s ELSE [s EXCEPT !.came = @ + 1])

\* DoDeleteRemote of a remote that exists
DeleteRemote(c, r) ==
  /\ r \in remotes
  /\ Answers(c, r \notin Primary)
  /\ remotes' = IF r \in Primary THEN remotes ELSE remotes \ {r}
  /\ UNCHANGED <<scannerVars, detected, hung>>
  /\ Since(c, LAMBDA s : IF r \in Primary THEN s
                      ELSE [s EXCEPT !.there = @ \ {r}, !.gone = @ + 1])

StartDiscovery(c) ==
  /\ Answers(c, TRUE)
  /\ detected' = <<>>
  /\ UNCHANGED <<scannerVars, remotes, hung>>
  /\ Since(c, Same)

-----------------------------------------------------------------------------
(* Parts of a page: HandleResponse *)

Asked(c, page) == ~ hung /\ conn[c].state = "open" /\ conn[c].page = page

\* nextPart is set, and httpd will ask for it.
More(c, inserted) ==
  conn' = [conn EXCEPT ![c].out = @ \o inserted, ![c].part = @ + 1]

NoMore(c, inserted) ==
  conn' = [conn EXCEPT ![c].out = @ \o inserted, ![c].state = "done"]

\* GetRemotesResponse finds the entry by stepping from begin().  To step from
\* end() is undefined: in libstdc++'s tree it leads back to an entry, and in
\* an empty one it never ends.
End  == -1
Hang == -2

\* The entries from begin() to r
UpTo(r) == {x \in remotes : x <= r}

\* Mutation: it steps once too often.
PositionOffByOne(part) == part + 2

Position(part) == part + 1

Reached(part) ==
  LET n == Cardinality(remotes)
      p == Position(part)
  IN  IF p <= n THEN {r \in remotes : Cardinality(UpTo(r)) = p}
      ELSE IF p = n + 1 THEN {End}
      ELSE IF remotes = {} THEN {Hang}
      ELSE remotes \cup {End}

Later(r) == \E x \in remotes : x > r

RemotesPart(c) ==
  /\ Asked(c, "remotes") /\ ~ oneTimeScan
  /\ \E pos \in Reached(conn[c].part) :
       \/ pos \in remotes /\ Later(pos)
          /\ More(c, <<[item |-> pos, comma |-> TRUE]>>) /\ UNCHANGED hung
       \/ pos \in remotes /\ ~ Later(pos)
          /\ NoMore(c, <<[item |-> pos, comma |-> FALSE]>>) /\ UNCHANGED hung
       \/ pos = End /\ NoMore(c, <<>>) /\ UNCHANGED hung
       \/ pos = Hang /\ hung' = TRUE /\ UNCHANGED conn
  /\ UNCHANGED <<scannerVars, tables, since, requests>>

\* GetDiscoveryResponse
ResultsPart(c) ==
  /\ Asked(c, "results") /\ ~ oneTimeScan
  /\ NoMore(c, [i \in 1 .. Len(detected) |->
                  [item |-> detected[i], comma |-> i < Len(detected)]])
  /\ UNCHANGED <<scannerVars, tables, hung, since, requests>>

\* In access point mode there are no remotes, and nobody subscribes to these
\* tags.
UnknownTag(c) ==
  /\ Asked(c, "remotes") \/ Asked(c, "results")
  /\ oneTimeScan
  /\ NoMore(c, <<>>)
  /\ UNCHANGED <<scannerVars, tables, hung, since, requests>>

\* Mutation: every part collects.
CollectsEach(part) == TRUE

Collects(part) == part = 0

\* ConfigService::HandleWifiConfigResponse, "ssidList"
WifiPart(c) ==
  /\ Asked(c, "wifi")
  /\ LET part == conn[c].part IN
       /\ IF Collects(part) THEN CollectResults ELSE UNCHANGED scannerVars
       /\ IF part >= Len(ssids') THEN NoMore(c, <<>>)
          ELSE IF part + 1 # Len(ssids')
            THEN More(c, <<[item |-> ssids'[part + 1], comma |-> TRUE]>>)
            ELSE NoMore(c, <<[item |-> ssids'[part + 1], comma |-> FALSE]>>)
       /\ since' = [d \in Clients |->
            IF d # c /\ part = 0 /\ Ready THEN [since[d] EXCEPT !.collected = TRUE]
            ELSE IF d = c /\ part = 0 THEN [since[d] EXCEPT !.collected = FALSE]
            ELSE since[d]]
  /\ UNCHANGED <<tables, hung, requests>>

\* The tag "result", also of a command that has no query
AnswerPart(c) ==
  /\ Asked(c, "answer")
  /\ NoMore(c, <<[item |-> conn[c].result, comma |-> FALSE]>>)
  /\ UNCHANGED <<scannerVars, tables, hung, since, requests>>

\* fs_state_free: the page has been sent, or the client has gone.
Close(c) ==
  /\ ~ hung
  /\ conn[c] # Closed
  /\ conn' = [conn EXCEPT ![c] = Closed]
  /\ since' = [since EXCEPT ![c] = Calm]
  /\ UNCHANGED <<scannerVars, tables, hung, requests>>

-----------------------------------------------------------------------------
(* What goes on meanwhile *)

Kept(s) == IF Len(s) > DetectedLimit THEN Front(s) ELSE s

\* SomfyRemotes::ExternalButtonPress of a remote that is not in the table
StrangePress(r) ==
  /\ ~ hung /\ ~ oneTimeScan
  /\ r \notin remotes
  /\ detected' = Kept(Append(detected, r))
  /\ UNCHANGED <<scannerVars, remotes, conn, hung, since, requests>>

Scanning ==
  /\ ~ hung
  /\ ScanEnds \/ \E s \in Ssids : ScanResult(s)
  /\ UNCHANGED <<tables, conn, hung, since, requests>>

Next ==
  \/ \E c \in Clients :
       \/ \E page \in {"remotes", "results", "wifi", "answer"} : OpenPage(c, page)
       \/ UnknownCommand(c)
       \/ ~ oneTimeScan /\ (StartDiscovery(c) \/ \E r \in RemoteIds :
                              AddRemote(c, r) \/ DeleteRemote(c, r))
       \/ RemotesPart(c) \/ ResultsPart(c) \/ UnknownTag(c)
       \/ WifiPart(c) \/ AnswerPart(c) \/ Close(c)
  \/ \E r \in RemoteIds : StrangePress(r)
  \/ Scanning

Spec == Init /\ [][Next]_vars

-----------------------------------------------------------------------------
\* What the entries of a page name
ItemsOf == [none |-> {}, remotes |-> RemoteIds, results |-> RemoteIds,
            wifi |-> Ssids, answer |-> BOOLEAN]

Connection(page) ==
  [state : {"closed", "open", "done"}, page : DOMAIN ItemsOf, part : Nat,
   result : BOOLEAN, out : Seq([item : ItemsOf[page], comma : BOOLEAN])]

TypeOK ==
  /\ ScannerTypeOK
  /\ remotes \subseteq RemoteIds /\ detected \in Seq(RemoteIds)
  /\ conn = [c \in Clients |-> conn[c]]
  /\ \A c \in Clients : conn[c] \in Connection(conn[c].page)
  /\ hung \in BOOLEAN
  /\ since \in [Clients -> [there : SUBSET RemoteIds, gone : Nat, came : Nat,
                           collected : BOOLEAN]]
  /\ requests \in 0 .. MaxRequests

Done(c, page) == conn[c].state = "done" /\ conn[c].page = page

Items(c) == [i \in 1 .. Len(conn[c].out) |-> conn[c].out[i].item]

\* Every entry but the last is followed by a comma.
Separated(c) ==
  \A i \in 1 .. Len(conn[c].out) : conn[c].out[i].comma = (i < Len(conn[c].out))

\* remotes.cpp:328: a list of remotes is numbered anew for each part.  While
\* remotes are added it still names all that were there; while one is deleted
\* it names none twice; if none is deleted its commas are right.  The endless
\* loop takes two deletions between two parts, of all that is left.
ListSeesTable ==
  /\ \A c \in Clients : Done(c, "remotes") /\ ~ oneTimeScan =>
       /\ since[c].gone = 0 => since[c].there \subseteq Range(Items(c)) /\ Separated(c)
       /\ since[c].came = 0 /\ since[c].gone <= 1 => IsInjective(Items(c))
  /\ hung => remotes = {} /\ \E c \in Clients : since[c].gone >= 2

\* configService.cpp:132: the list of networks is collected with its first
\* part, for everybody.  A page gets it whole, unless another page has collected
\* meanwhile.
WifiListWhole ==
  \A c \in Clients : Done(c, "wifi") /\ ~ since[c].collected =>
    Items(c) = ssids /\ Separated(c)
=============================================================================
