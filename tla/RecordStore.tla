----------------------------- MODULE RecordStore -----------------------------
(***************************************************************************)
(* What BlockStorage promises DeviceConfig: a set of records, one for each *)
(* id, that outlives a power cut.                                          *)
(*                                                                         *)
(* A save either refuses, and the old record stays, or it commits: the old *)
(* record goes and the new one takes its place.  No other record changes.  *)
(* A power cut ends a save wherever it is: the record it was for may be    *)
(* the old one, the new one, gone, or damaged.                             *)
(***************************************************************************)
CONSTANTS
  Ids,      \* the ids records are saved under
  Data,     \* what is saved
  Missing,  \* no record
  Damaged   \* a record that was being written at a power cut

Saves    == [op : {"save"}, id : Ids, data : Data]
Clears   == [op : {"clear"}, id : Ids]
Requests == Saves \cup Clears \cup {[op |-> "format"]}

VARIABLES
  store,    \* the record of each id
  doing,    \* "idle", or how far the request is: "asked", "committed"
  request   \* the last request

rvars == <<store, doing, request>>

Init ==
  /\ store = [i \in Ids |-> Missing]
  /\ doing = "idle"
  /\ request \in Requests

Ask(q) ==
  /\ doing = "idle"
  /\ doing' = "asked"
  /\ request' = q
  /\ UNCHANGED store

Refuse ==
  /\ doing = "asked" /\ request.op = "save"
  /\ doing' = "idle"
  /\ UNCHANGED <<store, request>>

Commit ==
  /\ doing = "asked" /\ request.op = "save"
  /\ store' = [store EXCEPT ![request.id] = Missing]
  /\ doing' = "committed"
  /\ UNCHANGED request

Write ==
  /\ doing = "committed"
  /\ store' = [store EXCEPT ![request.id] = request.data]
  /\ doing' = "idle"
  /\ UNCHANGED request

Clear ==
  /\ doing = "asked" /\ request.op = "clear"
  /\ store' = [store EXCEPT ![request.id] = Missing]
  /\ doing' = "idle"
  /\ UNCHANGED request

Lose(S) == store' = [i \in Ids |-> IF i \in S THEN Missing ELSE store[i]]

\* Formatting loses the records one group after the other.
FormatSome ==
  /\ doing = "asked" /\ request.op = "format"
  /\ \E S \in SUBSET Ids : Lose(S)
  /\ UNCHANGED <<doing, request>>

FormatDone ==
  /\ doing = "asked" /\ request.op = "format"
  /\ store = [i \in Ids |-> Missing]
  /\ doing' = "idle"
  /\ UNCHANGED <<store, request>>

\* What a power cut may make of a record that the request was about to change.
AfterCut(i) ==
  IF doing = "committed" THEN {Missing, request.data, Damaged}
  ELSE IF store[i] = Missing THEN {Missing}
  ELSE {store[i], Missing, Damaged}

AtRisk ==
  IF doing = "idle" THEN {}
  ELSE IF request.op = "format" THEN Ids
  ELSE {request.id}

PowerCut ==
  /\ doing' = "idle"
  /\ store' \in [Ids -> Data \cup {Missing, Damaged}]
  /\ \A i \in Ids : IF i \in AtRisk THEN store'[i] \in AfterCut(i)
                   ELSE store'[i] = store[i]
  /\ UNCHANGED request

Next ==
  \/ \E q \in Requests : Ask(q)
  \/ Refuse \/ Commit \/ Write \/ Clear
  \/ FormatSome \/ FormatDone
  \/ PowerCut

Spec == Init /\ [][Next]_rvars
=============================================================================
