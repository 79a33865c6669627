--------------------------- MODULE DeviceRegistry ---------------------------
(***************************************************************************)
(* The registry of remotes and blinds (remotes.cpp, remote.cpp, blinds.cpp)*)
(* and its records in flash (deviceConfig.cpp).                            *)
(*                                                                         *)
(* A blind has a primary remote, and a remote has the blinds it is bound   *)
(* to.  In flash each remote and each blind has a record, and three lists  *)
(* say which exist.  The record of a remote is found by the low half of    *)
(* its id; the list of our own remotes holds only that half, as the other  *)
(* is always the same.                                                     *)
(*                                                                         *)
(* Handlers and timers run one at a time on core 0.  A handler changes the *)
(* tables and writes records in a fixed order; only flash outlives a power *)
(* cut, so its changes to memory are made at once here, and `writes' holds *)
(* what it still has to write.  A record that exists is deleted before its *)
(* new content is written; RecordStore says so, and BlockStorage says what *)
(* a cut in the middle of one of these two operations may leave.           *)
(*                                                                         *)
(* Of the contents of a record only references are kept: names, rolling    *)
(* codes and positions may or may not differ from what is in flash.        *)
(***************************************************************************)
EXTENDS Integers, Sequences, FiniteSets, FiniteSetsExt, Functions

CONSTANTS
  BaseRemoteId,  \* the upper half of our own remotes' ids
  IdMod,         \* 2^16
  Importable,    \* ids of other people's remotes
  RomWord,       \* the word a null remote gives for its id (see below)
  MaxOwn,        \* bound: remotes of our own
  MaxBlinds,     \* bound: blinds
  MaxCuts        \* bound: power cuts

OwnIds    == BaseRemoteId + 1 .. BaseRemoteId + MaxOwn
RemoteIds == OwnIds \cup Importable
BlindIds  == 1 .. MaxBlinds

ASSUME DeviceRegistryAssumption ==
  /\ IdMod \in Nat \ {0} /\ BaseRemoteId \in Nat /\ BaseRemoteId % IdMod = 0
  /\ MaxOwn \in Nat /\ MaxOwn < IdMod /\ MaxBlinds \in Nat /\ MaxCuts \in Nat
  /\ Importable \subseteq Nat /\ IsFiniteSet(Importable)
  /\ Importable \cap OwnIds = {}
  /\ RomWord \in Nat

VARIABLES
  remotes,     \* SomfyRemotes::_remotes
  blinds,      \* Blinds::_blinds: the primary remote of each
  nextRemote,  \* SomfyRemotes::_nextId
  nextBlind,   \* Blinds::_nextId
  flash,       \* the records there are, by key
  writes,      \* what the handler that runs still has to write
  mode,        \* "up", "stopping" or "crashed"
  cuts         \* bound: power cuts so far

vars == <<remotes, blinds, nextRemote, nextBlind, flash, writes, mode, cuts>>

\* Maps of which an entry is set, or erased.
With(map, k, v) == [x \in DOMAIN map \cup {k} |-> IF x = k THEN v ELSE map[x]]
Without(map, k) == Restrict(map, DOMAIN map \ {k})

-----------------------------------------------------------------------------
LowHalf(r)   == r % IdMod

\* Records are kept under the low halves of ids.
ASSUME LowHalvesDiffer ==
  \A r, s \in RemoteIds \cup {RomWord} : LowHalf(r) = LowHalf(s) => r = s

RemoteKey(r) == <<"remote", LowHalf(r)>>
BlindKey(b)  == <<"blind", b>>
OwnList      == <<"list", 1>>
ExternalList == <<"list", 2>>
BlindList    == <<"list", 3>>
Lists        == {OwnList, ExternalList, BlindList}
Keys         == {RemoteKey(r) : r \in RemoteIds \cup {RomWord}}
                \cup {BlindKey(b) : b \in BlindIds} \cup Lists

Save(k, v) == [op |-> "save", key |-> k, value |-> v]
Clear(k)   == [op |-> "clear", key |-> k]

\* The order in which a std::map is visited.
Orders(S) == {s \in [1 .. Cardinality(S) -> S] : \A i, j \in DOMAIN s : i < j => s[i] < s[j]}

Externals(table) == {r \in DOMAIN table : table[r].external}

\* SaveRemoteList
RemoteLists(table) ==
  <<Save(OwnList, {LowHalf(r) : r \in DOMAIN table \ Externals(table)}),
    Save(ExternalList, Externals(table))>>

SaveBlindList(table) == Save(BlindList, DOMAIN table)

SaveRemoteConfig(table, r) == Save(RemoteKey(r), [remoteId |-> r, blinds |-> table[r].blinds])

-----------------------------------------------------------------------------
\* What a boot makes of the records.
Stored(k) == k \in DOMAIN flash

Listed(k) == IF Stored(k) THEN flash[k] ELSE {}

OwnListed == {BaseRemoteId + low : low \in Listed(OwnList)}

\* SomfyRemotes::SomfyRemotes: a listed remote without a record is left out.
LoadedRemotes ==
  [r \in {x \in OwnListed \cup Listed(ExternalList) : Stored(RemoteKey(x))} |->
     [external |-> r \notin OwnListed, blinds |-> flash[RemoteKey(r)].blinds, dirty |-> FALSE]]

\* Blinds::Initialize keeps the blinds whose primary remote is known.  Of a
\* listed blind without a record it reads the remote's id through a null
\* pointer; there the RP2040 has its boot ROM, and no remote has that id.
HasRemote(b) ==
  /\ Stored(BlindKey(b))
  /\ flash[BlindKey(b)] \in DOMAIN LoadedRemotes

LoadedBlinds == [b \in {x \in Listed(BlindList) : HasRemote(x)} |-> flash[BlindKey(b)]]

Orphans == Listed(BlindList) \ DOMAIN LoadedBlinds

\* Mutation: the highest id is given out again.
HighestAgain(S, low) == IF S = {} THEN low ELSE Max(S)

FirstAbove(S, low) == IF S = {} THEN low ELSE Max(S) + 1

\* Orphans are deleted and, if there were any, the list is saved.
Boot ==
  /\ remotes' = LoadedRemotes
  /\ nextRemote' = FirstAbove(OwnListed, BaseRemoteId + 1)
  /\ blinds' = LoadedBlinds
  /\ nextBlind' = FirstAbove(Listed(BlindList), 1)
  /\ \E order \in Orders(Orphans) :
       writes' = IF Orphans = {} THEN <<>>
                 ELSE [i \in DOMAIN order |-> Clear(BlindKey(order[i]))]
                      \o <<SaveBlindList(LoadedBlinds)>>
  /\ mode' = "up"
  /\ UNCHANGED flash

Init ==
  /\ flash = <<>>
  /\ remotes = <<>>
  /\ blinds = <<>>
  /\ nextRemote = BaseRemoteId + 1
  /\ nextBlind = 1
  /\ writes = <<>>
  /\ mode = "up"
  /\ cuts = 0

-----------------------------------------------------------------------------
\* BlockStorage under DeviceConfig: the next flash operation.
Due == Head(writes)

Proceed ==
  /\ writes' = Tail(writes)
  /\ UNCHANGED <<remotes, blinds, nextRemote, nextBlind, mode, cuts>>

\* SaveRemoteConfig and SaveBlindConfig leave an equal record alone.  Parts
\* of it that are not modelled may differ.
SkipEqual ==
  /\ writes # <<>> /\ Due.op = "save" /\ Due.key \notin Lists
  /\ Stored(Due.key) /\ flash[Due.key] = Due.value
  /\ Proceed
  /\ UNCHANGED flash

DeleteOld ==
  /\ writes # <<>> /\ Due.op = "save"
  /\ Stored(Due.key)
  /\ flash' = Without(flash, Due.key)
  /\ UNCHANGED <<remotes, blinds, nextRemote, nextBlind, writes, mode, cuts>>

WriteNew ==
  /\ writes # <<>> /\ Due.op = "save"
  /\ ~ Stored(Due.key)
  /\ flash' = With(flash, Due.key, Due.value)
  /\ Proceed

ClearOld ==
  /\ writes # <<>> /\ Due.op = "clear"
  /\ flash' = Without(flash, Due.key)
  /\ Proceed

-----------------------------------------------------------------------------
\* Handlers run in doPollingSleep, also in the second before the restart.
Idle == mode # "crashed" /\ writes = <<>>

Remote(external, B, dirty) == [external |-> external, blinds |-> B, dirty |-> dirty]

\* CreateRemote and the end of DoImportRemote: the record, then the lists.
WritesOfNew(table, r) == <<SaveRemoteConfig(table, r)>> \o RemoteLists(table)

\* DoAddRemote
AddRemote ==
  /\ Idle
  /\ nextRemote \in OwnIds
  /\ remotes' = With(remotes, nextRemote, Remote(FALSE, {}, FALSE))
  /\ nextRemote' = nextRemote + 1
  /\ writes' = WritesOfNew(remotes', nextRemote)
  /\ UNCHANGED <<blinds, nextBlind, flash, mode, cuts>>

\* DoImportRemote
ImportRemote(r) ==
  /\ Idle
  /\ r \notin DOMAIN remotes
  /\ remotes' = With(remotes, r, Remote(TRUE, {}, FALSE))
  /\ writes' = WritesOfNew(remotes', r)
  /\ UNCHANGED <<blinds, nextRemote, nextBlind, flash, mode, cuts>>

IsAPrimaryRemote(r) == \E b \in DOMAIN blinds : blinds[b] = r

\* Mutation: any remote may go.
MayGoAlways(r) == TRUE

MayGo(r) == ~ IsAPrimaryRemote(r)

\* DeleteRemote
RemoteGoes(r) == remotes' = Without(remotes, r)

WritesOfRemoval(table, r) == <<Clear(RemoteKey(r))>> \o RemoteLists(table)

\* DoDeleteRemote.  For an unknown id it reads the id of a null remote, which
\* is a word of the boot ROM, and deletes that one's record.
DeleteRemote(r) ==
  /\ Idle
  /\ r \in DOMAIN remotes \/ r = RomWord
  /\ MayGo(r)
  /\ RemoteGoes(r)
  /\ writes' = WritesOfRemoval(remotes', r)
  /\ UNCHANGED <<blinds, nextRemote, nextBlind, flash, mode, cuts>>

\* Mutation: the list of blinds is saved before the blind's record.
ListBeforeRecord(b, r) ==
  <<SaveBlindList(With(blinds, b, r)), Save(BlindKey(b), r)>>

RecordBeforeList(b, r) ==
  <<Save(BlindKey(b), r), SaveBlindList(With(blinds, b, r))>>

\* DoAddBlind: the new remote is saved before the blind is bound to it, and
\* the binding waits for the timer.
AddBlind ==
  /\ Idle
  /\ nextRemote \in OwnIds /\ nextBlind \in BlindIds
  /\ remotes' = With(remotes, nextRemote, Remote(FALSE, {nextBlind}, TRUE))
  /\ nextRemote' = nextRemote + 1
  /\ blinds' = With(blinds, nextBlind, nextRemote)
  /\ nextBlind' = nextBlind + 1
  /\ writes' = WritesOfNew(With(remotes, nextRemote, Remote(FALSE, {}, FALSE)), nextRemote)
               \o RecordBeforeList(nextBlind, nextRemote)
  /\ UNCHANGED <<flash, mode, cuts>>

\* DoDeleteBlind takes the primary remote with it.  Other remotes stay bound
\* to the blind.
DeleteBlind(b) ==
  /\ Idle
  /\ b \in DOMAIN blinds
  /\ blinds' = Without(blinds, b)
  /\ RemoteGoes(blinds[b])
  /\ writes' = WritesOfRemoval(remotes', blinds[b])
               \o <<Clear(BlindKey(b)), SaveBlindList(blinds')>>
  /\ UNCHANGED <<nextRemote, nextBlind, flash, mode, cuts>>

\* Mutation: the remote is not marked for saving.
BoundUnmarked(r, B) == Remote(remotes[r].external, B, remotes[r].dirty)

Bound(r, B) == Remote(remotes[r].external, B, TRUE)

\* DoAddOrRemoveBlindToRemote with AssociateBlind and DisassociateBlind: the
\* blind has to exist for either.
Bind(r, b) ==
  /\ Idle
  /\ r \in DOMAIN remotes /\ b \in DOMAIN blinds
  /\ remotes' = [remotes EXCEPT ![r] = Bound(r, remotes[r].blinds \cup {b})]
  /\ UNCHANGED <<blinds, nextRemote, nextBlind, flash, writes, mode, cuts>>

Unbind(r, b) ==
  /\ Idle
  /\ r \in DOMAIN remotes /\ b \in DOMAIN blinds
  /\ remotes' = [remotes EXCEPT ![r] = Bound(r, remotes[r].blinds \ {b})]
  /\ UNCHANGED <<blinds, nextRemote, nextBlind, flash, writes, mode, cuts>>

\* DoUpdateRemote; DoUpdateBlind, which renames the primary remote.
UpdateRemote(r) ==
  /\ Idle
  /\ r \in DOMAIN remotes
  /\ remotes' = [remotes EXCEPT ![r].dirty = TRUE]
  /\ UNCHANGED <<blinds, nextRemote, nextBlind, flash, writes, mode, cuts>>

\* PressButtons and ExternalButtonPress tell every blind the remote is bound
\* to.  GetBlind throws when there is none, and nobody catches that.
Press(r) ==
  /\ Idle
  /\ r \in DOMAIN remotes
  /\ remotes' = [remotes EXCEPT ![r].dirty = TRUE]
  /\ mode' = IF remotes[r].blinds \subseteq DOMAIN blinds THEN mode ELSE "crashed"
  /\ UNCHANGED <<blinds, nextRemote, nextBlind, flash, writes, cuts>>

-----------------------------------------------------------------------------
DirtyRemotes == {r \in DOMAIN remotes : remotes[r].dirty}

AllClean == remotes' = [r \in DOMAIN remotes |-> [remotes[r] EXCEPT !.dirty = FALSE]]

Saved(order) == [i \in DOMAIN order |-> SaveRemoteConfig(remotes, order[i])]

\* A blind that has not changed is skipped, or found equal by SkipEqual.
BlindsSaved(order) == [i \in DOMAIN order |-> Save(BlindKey(order[i]), blinds[order[i]])]

\* The two timers.
SaveRemoteState ==
  /\ Idle
  /\ DirtyRemotes # {}
  /\ AllClean
  /\ \E order \in Orders(DirtyRemotes) : writes' = Saved(order)
  /\ UNCHANGED <<blinds, nextRemote, nextBlind, flash, mode, cuts>>

SaveBlindState ==
  /\ Idle
  /\ \E order \in Orders(DOMAIN blinds) : writes' = BlindsSaved(order)
  /\ UNCHANGED <<remotes, blinds, nextRemote, nextBlind, flash, mode, cuts>>

\* The end of runServiceMode.
Stop ==
  /\ Idle /\ mode = "up"
  /\ AllClean
  /\ \E first \in Orders(DirtyRemotes), second \in Orders(DOMAIN blinds) :
       writes' = Saved(first) \o BlindsSaved(second)
  /\ mode' = "stopping"
  /\ UNCHANGED <<blinds, nextRemote, nextBlind, flash, cuts>>

\* The reboot after the service has stopped; a crashed device is switched off
\* and on.
Restart ==
  /\ mode # "up" /\ writes = <<>>
  /\ Boot
  /\ UNCHANGED cuts

PowerCut ==
  /\ cuts < MaxCuts
  /\ Boot
  /\ cuts' = cuts + 1

Next ==
  \/ SkipEqual \/ DeleteOld \/ WriteNew \/ ClearOld
  \/ AddRemote \/ AddBlind
  \/ \E r \in Importable : ImportRemote(r)
  \/ \E r \in RemoteIds \cup {RomWord} : DeleteRemote(r)
  \/ \E b \in BlindIds : DeleteBlind(b)
  \/ \E r \in RemoteIds, b \in BlindIds : Bind(r, b) \/ Unbind(r, b)
  \/ \E r \in RemoteIds : UpdateRemote(r) \/ Press(r)
  \/ SaveRemoteState \/ SaveBlindState
  \/ Stop \/ Restart \/ PowerCut

Spec == Init /\ [][Next]_vars

-----------------------------------------------------------------------------
\* What is kept under a key.
Values(k) ==
  CASE k[1] = "remote"   -> [remoteId : RemoteIds, blinds : SUBSET BlindIds]
    [] k[1] = "blind"    -> OwnIds
    [] k = OwnList       -> SUBSET (1 .. MaxOwn)
    [] k = ExternalList  -> SUBSET Importable
    [] k = BlindList     -> SUBSET BlindIds

Entries == {Clear(k) : k \in Keys} \cup UNION {{Save(k, v) : v \in Values(k)} : k \in Keys}

TypeOK ==
  /\ DOMAIN remotes \subseteq RemoteIds
  /\ \A r \in DOMAIN remotes :
       remotes[r] \in [external : BOOLEAN, blinds : SUBSET BlindIds, dirty : BOOLEAN]
  /\ DOMAIN blinds \subseteq BlindIds
  /\ \A b \in DOMAIN blinds : blinds[b] \in OwnIds
  /\ nextRemote \in BaseRemoteId + 1 .. BaseRemoteId + MaxOwn + 1
  /\ nextBlind \in 1 .. MaxBlinds + 1
  /\ DOMAIN flash \subseteq Keys
  /\ \A k \in DOMAIN flash : flash[k] \in Values(k)
  /\ writes \in Seq(Entries)
  /\ mode \in {"up", "stopping", "crashed"}
  /\ cuts \in 0 .. MaxCuts

\* The primary remote of every blind is in the table, whatever was deleted
\* and whatever a boot found in flash: IsAPrimaryRemote and Blinds::Initialize
\* see to it.
BlindsHaveRemotes == \A b \in DOMAIN blinds : blinds[b] \in DOMAIN remotes

\* No two blinds share their primary remote, although ids are given out again
\* after a restart.
OnePrimaryEach == \A a, b \in DOMAIN blinds : blinds[a] = blinds[b] => a = b

\* Between two handlers, what a boot would load is what is in memory, except
\* for bindings that still wait for the save timer.
RestartInvisible ==
  writes = <<>> =>
    /\ LoadedBlinds = blinds
    /\ DOMAIN LoadedRemotes = DOMAIN remotes
    /\ \A r \in DOMAIN remotes :
         /\ LoadedRemotes[r].external = remotes[r].external
         /\ ~ remotes[r].dirty => LoadedRemotes[r].blinds = remotes[r].blinds

HalfWritten(k) == writes # <<>> /\ Due.key = k /\ ~ Stored(k)

\* At any moment a power cut loses a blind that the list of blinds names only
\* if it comes while the blind's record, its remote's record or the list of
\* remotes is half written.
StoredBlindSurvives ==
  \A b \in DOMAIN blinds \cap Listed(BlindList) :
    \/ b \in DOMAIN LoadedBlinds
    \/ \E k \in {BlindKey(b), RemoteKey(blinds[b]), OwnList} : HalfWritten(k)

\* README.md:21, "Operating a remote will update the position of the associated
\* covers."
PressFindsBlinds == mode # "crashed"
=============================================================================
