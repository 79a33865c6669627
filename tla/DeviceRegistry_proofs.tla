------------------------ MODULE DeviceRegistry_proofs ------------------------
(***************************************************************************)
(* Proofs about DeviceRegistry, for any number of remotes, blinds and cuts.*)
(*                                                                         *)
(* A boot takes the blinds from flash, so what is in memory is as good as  *)
(* what a cut may leave there.  The invariant therefore speaks of both,    *)
(* and of the writes between them: whatever is still to be written agrees  *)
(* with the tables (Agreeing), a record left by an earlier blind of the    *)
(* same id is replaced before the blind is listed (RecordsMatch), and the  *)
(* listed blinds have primary remotes of their own, those included that    *)
(* are gone and still listed (OrphansDiffer, StoredDistinct).              *)
(*                                                                         *)
(* A second invariant (Settled) says what flash will hold when the entries *)
(* still to be written are done: what the tables say.  No entry undoes     *)
(* another, as a handler writes nothing twice and remotes differ in the    *)
(* low halves of their ids (LowHalvesDiffer).                              *)
(***************************************************************************)
EXTENDS DeviceRegistry, TLAPS, WellFoundedInduction, FiniteSetTheorems, SequenceTheorems

\* Keys of different records are different.
LEMMA KeysDiffer ==
  /\ \A a, b : BlindKey(a) = BlindKey(b) => a = b
  /\ \A r, b : RemoteKey(r) # BlindKey(b)
  /\ \A k \in Lists : (\A r : RemoteKey(r) # k) /\ (\A b : BlindKey(b) # k)
  /\ OwnList # ExternalList /\ OwnList # BlindList /\ ExternalList # BlindList
  BY DEF RemoteKey, BlindKey, Lists, OwnList, ExternalList, BlindList

LEMMA KeysAre ==
  /\ \A r \in RemoteIds \cup {RomWord} : RemoteKey(r) \in Keys
  /\ \A b \in BlindIds : BlindKey(b) \in Keys
  /\ Lists \subseteq Keys
  BY DEF Keys

LEMMA ValuesAre ==
  /\ \A r : Values(RemoteKey(r)) = [remoteId : RemoteIds, blinds : SUBSET BlindIds]
  /\ \A b : Values(BlindKey(b)) = OwnIds
  /\ Values(OwnList) = SUBSET (1 .. MaxOwn)
  /\ Values(ExternalList) = SUBSET Importable
  /\ Values(BlindList) = SUBSET BlindIds
  <1>1. \A r : RemoteKey(r)[1] = "remote"
    BY DEF RemoteKey
  <1>2. \A b : BlindKey(b)[1] = "blind"
    BY DEF BlindKey
  <1>3. /\ OwnList[1] = "list" /\ ExternalList[1] = "list" /\ BlindList[1] = "list"
        /\ OwnList # ExternalList /\ OwnList # BlindList /\ ExternalList # BlindList
    BY DEF OwnList, ExternalList, BlindList
  <1>4. \A r : Values(RemoteKey(r)) = [remoteId : RemoteIds, blinds : SUBSET BlindIds]
    BY <1>1, <1>3 DEF Values
  <1>5. \A b : Values(BlindKey(b)) = OwnIds
    BY <1>2, <1>3 DEF Values
  <1>6. Values(OwnList) = SUBSET (1 .. MaxOwn)
    BY <1>3 DEF Values
  <1>7. Values(ExternalList) = SUBSET Importable
    BY <1>3 DEF Values
  <1>8. Values(BlindList) = SUBSET BlindIds
    BY <1>3 DEF Values
  <1> QED BY <1>4, <1>5, <1>6, <1>7, <1>8

LEMMA EntriesAre ==
  /\ \A k \in Keys : Clear(k) \in Entries /\ \A v \in Values(k) : Save(k, v) \in Entries
  /\ \A e \in Entries :
       /\ e.key \in Keys
       /\ e = Clear(e.key) \/ (e = Save(e.key, e.value) /\ e.value \in Values(e.key))
  /\ \A k, v : Save(k, v).op = "save" /\ Save(k, v).key = k /\ Save(k, v).value = v
  /\ \A k : Clear(k).op = "clear" /\ Clear(k).key = k
  <1>1. /\ \A k, v : Save(k, v).op = "save" /\ Save(k, v).key = k /\ Save(k, v).value = v
        /\ \A k : Clear(k).op = "clear" /\ Clear(k).key = k
    BY DEF Save, Clear
  <1>2. \A k \in Keys : Clear(k) \in Entries /\ \A v \in Values(k) : Save(k, v) \in Entries
    <2> SUFFICES ASSUME NEW k \in Keys
                 PROVE  Clear(k) \in Entries /\ \A v \in Values(k) : Save(k, v) \in Entries
      OBVIOUS
    <2>1. Clear(k) \in Entries
      BY Zenon DEF Entries
    <2>2. {Save(k, v) : v \in Values(k)} \subseteq Entries
      BY Zenon DEF Entries
    <2> QED BY <2>1, <2>2, Zenon
  <1>3. ASSUME NEW e \in Entries
        PROVE  /\ e.key \in Keys
               /\ e = Clear(e.key) \/ (e = Save(e.key, e.value) /\ e.value \in Values(e.key))
    <2>1. CASE \E k \in Keys : e = Clear(k)
      <3>1. PICK k \in Keys : e = Clear(k)
        BY <2>1
      <3>2. e.key = k
        BY <1>1, <3>1, Zenon
      <3> QED BY <3>1, <3>2, Zenon
    <2>2. CASE \E k \in Keys : \E v \in Values(k) : e = Save(k, v)
      <3>1. PICK k \in Keys : \E v \in Values(k) : e = Save(k, v)
        BY <2>2, Zenon
      <3>2. PICK v \in Values(k) : e = Save(k, v)
        BY <3>1, Zenon
      <3>3. e.key = k /\ e.value = v
        BY <1>1, <3>2, Zenon
      <3> QED BY <3>2, <3>3, Zenon
    <2>3. (\E k \in Keys : e = Clear(k)) \/ (\E k \in Keys : \E v \in Values(k) : e = Save(k, v))
      BY Zenon DEF Entries
    <2> QED BY <2>1, <2>2, <2>3
  <1> QED BY <1>1, <1>2, <1>3, Zenon

\* The numbers: ids of ours, their low halves, and the next ones.
LEMMA Numbers ==
  /\ OwnIds \subseteq Nat /\ BlindIds \subseteq Nat /\ RemoteIds \subseteq Nat
  /\ IsFiniteSet(RemoteIds) /\ IsFiniteSet(BlindIds)
  /\ BaseRemoteId \in Nat /\ MaxOwn \in Nat /\ MaxBlinds \in Nat
  <1>1. IsFiniteSet(OwnIds) /\ IsFiniteSet(BlindIds)
    BY DeviceRegistryAssumption, FS_Interval DEF OwnIds, BlindIds
  <1>2. IsFiniteSet(RemoteIds)
    BY <1>1, FS_Union, DeviceRegistryAssumption DEF RemoteIds
  <1> QED BY <1>1, <1>2, DeviceRegistryAssumption DEF OwnIds, BlindIds, RemoteIds

LEMMA LowHalfIs ==
  ASSUME NEW r \in OwnIds
  PROVE  LowHalf(r) = r - BaseRemoteId /\ LowHalf(r) \in 1 .. MaxOwn
  <1>1. PICK q \in Int : BaseRemoteId = q * IdMod
    BY DeviceRegistryAssumption, SMTT(30)
  <1>2. r - BaseRemoteId \in 1 .. MaxOwn /\ r - BaseRemoteId < IdMod
    BY DeviceRegistryAssumption DEF OwnIds
  <1>3. \A k \in 0 .. IdMod - 1 : (q * IdMod + k) % IdMod = k
    BY DeviceRegistryAssumption, SMTT(30)
  <1>4. r % IdMod = r - BaseRemoteId
    <2>1. r - BaseRemoteId \in 0 .. IdMod - 1 /\ r = BaseRemoteId + (r - BaseRemoteId)
      BY <1>2, DeviceRegistryAssumption DEF OwnIds
    <2> QED BY <1>1, <1>3, <2>1
  <1> QED BY <1>2, <1>4 DEF LowHalf

LEMMA MaxInside ==
  ASSUME NEW lo \in Int, NEW hi \in Int, NEW S \in SUBSET (lo .. hi), S # {}
  PROVE  Max(S) \in S /\ \A x \in S : x <= Max(S)
  <1> DEFINE Less == OpToRel(<, Nat)
             T == {hi - x : x \in S}
  <1>1. \A x, y \in Nat : x < y => <<x, y>> \in Less
    BY DEF OpToRel
  <1>2. IsWellFoundedOn(Less, Nat)
    BY NatLessThanWellFounded
  <1>3. T \subseteq Nat /\ T # {} /\ (\A y \in S : hi - y \in T /\ y \in Int)
    <2>1. \A y \in S : y \in Int /\ hi - y \in Nat
      OBVIOUS
    <2>2. \A y \in S : hi - y \in T
      OBVIOUS
    <2>3. T \subseteq Nat
      BY <2>1, Zenon
    <2>4. T # {}
      BY <2>2, Zenon
    <2> QED BY <2>1, <2>2, <2>3, <2>4, Zenon
  <1> HIDE DEF Less
  <1>4. PICK m \in T : \A k \in T : ~ (<<k, m>> \in Less)
    BY <1>2, <1>3, WFMin
  <1>5. PICK x \in S : m = hi - x
    BY <1>4
  <1>6. \A y \in S : x >= y
    <2> SUFFICES ASSUME NEW y \in S PROVE x >= y
      OBVIOUS
    <2>1. hi - y \in T /\ hi - y \in Nat /\ m \in Nat
      BY <1>3, <1>4, Zenon
    <2>2. ~ (hi - y < m)
      BY <1>1, <1>4, <2>1, Zenon
    <2>3. hi - y \in Int /\ hi - x \in Int /\ x \in Int /\ y \in Int
      BY <1>3, <1>5
    <2> QED BY <1>5, <2>2, <2>3
  <1> QED BY <1>6 DEF Max

LEMMA FirstAboveIs ==
  ASSUME NEW lo \in Int, NEW hi \in Int, NEW S \in SUBSET (lo .. hi), lo <= hi + 1
  PROVE  /\ FirstAbove(S, lo) \in lo .. hi + 1
         /\ \A x \in S : x < FirstAbove(S, lo)
  <1>1. CASE S = {}
    BY <1>1 DEF FirstAbove
  <1>2. CASE S # {}
    <2> DEFINE m == Max(S)
    <2>1. m \in S /\ \A x \in S : x <= m
      BY <1>2, MaxInside
    <2>2. FirstAbove(S, lo) = m + 1
      BY <1>2 DEF FirstAbove
    <2> HIDE DEF m
    <2> QED BY <2>1, <2>2
  <1> QED BY <1>1, <1>2

\* The order in which a map is visited lists keys of the map.
LEMMA OrdersAre ==
  ASSUME NEW S, IsFiniteSet(S), NEW order \in Orders(S)
  PROVE  Cardinality(S) \in Nat /\ DOMAIN order = 1 .. Cardinality(S)
         /\ \A i \in DOMAIN order : order[i] \in S
  BY FS_CardinalityType DEF Orders
-----------------------------------------------------------------------------
(* The invariant. *)

\* A table of remotes: all of a kind, which only their ids decide.
Typed(table) ==
  /\ DOMAIN table \subseteq RemoteIds
  /\ \A r \in DOMAIN table :
       /\ table[r] \in [external : BOOLEAN, blinds : SUBSET BlindIds, dirty : BOOLEAN]
       /\ table[r].external <=> r \in Importable

\* Both next ids are new.
NextIsNew == \A b \in DOMAIN blinds : b < nextBlind /\ blinds[b] < nextRemote

\* What may be written of blinds while the table is this: itself.
Agreeing(table) ==
  {e \in Entries :
     e.op = "save" =>
       /\ e.key = BlindList => e.value = DOMAIN table
       /\ \A b \in BlindIds :
            e.key = BlindKey(b) => b \in DOMAIN table /\ e.value = table[b]}

\* A blind that is listed and gone will be taken off the list.
ListUpToDate ==
  \/ Listed(BlindList) \subseteq DOMAIN blinds
  \/ \E i \in DOMAIN writes : writes[i].op = "save" /\ writes[i].key = BlindList

\* What an earlier blind of the same id left is replaced before the blind is listed.
Matches(b) == Stored(BlindKey(b)) => flash[BlindKey(b)] = blinds[b]

Rewritten(b) ==
  \E i \in DOMAIN writes :
    /\ writes[i] = Save(BlindKey(b), blinds[b])
    /\ \A j \in 1 .. i : writes[j].key # BlindList

RecordsMatch ==
  \A b \in DOMAIN blinds : Matches(b) \/ (b \notin Listed(BlindList) /\ Rewritten(b))

\* Listed blinds, those that are gone included, had primary remotes of their own.
OrphansDiffer ==
  \A b \in Listed(BlindList) \ DOMAIN blinds, a \in DOMAIN blinds :
    Stored(BlindKey(b)) => flash[BlindKey(b)] # blinds[a]

StoredDistinct ==
  \A a, b \in Listed(BlindList) :
    /\ Stored(BlindKey(a)) /\ Stored(BlindKey(b))
    /\ flash[BlindKey(a)] = flash[BlindKey(b)]
    => a = b

IInv ==
  /\ TypeOK /\ Typed(remotes)
  /\ BlindsHaveRemotes /\ OnePrimaryEach /\ NextIsNew
  /\ writes \in Seq(Agreeing(blinds))
  /\ ListUpToDate /\ RecordsMatch /\ OrphansDiffer /\ StoredDistinct
-----------------------------------------------------------------------------
(* What handlers make of a table, and what they write. *)

LEMMA WithIs ==
  ASSUME NEW map, NEW k, NEW v
  PROVE  /\ DOMAIN With(map, k, v) = DOMAIN map \cup {k}
         /\ With(map, k, v)[k] = v
         /\ \A x \in DOMAIN map : x # k => With(map, k, v)[x] = map[x]
  BY DEF With

LEMMA WithoutIs ==
  ASSUME NEW map, NEW k
  PROVE  /\ DOMAIN Without(map, k) = DOMAIN map \ {k}
         /\ \A x \in DOMAIN map : x # k => Without(map, k)[x] = map[x]
  BY DEF Without, Restrict

LEMMA RemoteIs ==
  ASSUME NEW external \in BOOLEAN, NEW B \in SUBSET BlindIds, NEW dirty \in BOOLEAN
  PROVE  /\ Remote(external, B, dirty)
              \in [external : BOOLEAN, blinds : SUBSET BlindIds, dirty : BOOLEAN]
         /\ Remote(external, B, dirty).external = external
         /\ Remote(external, B, dirty).blinds = B
  BY DEF Remote

LEMMA WithTyped ==
  ASSUME NEW table, Typed(table), NEW r \in RemoteIds, NEW B \in SUBSET BlindIds,
         NEW external \in BOOLEAN, external <=> r \in Importable, NEW dirty \in BOOLEAN
  PROVE  /\ Typed(With(table, r, Remote(external, B, dirty)))
         /\ r \in DOMAIN With(table, r, Remote(external, B, dirty))
  <1> DEFINE new == Remote(external, B, dirty)
  <1>1. /\ new \in [external : BOOLEAN, blinds : SUBSET BlindIds, dirty : BOOLEAN]
        /\ new.external = external
    BY RemoteIs
  <1> HIDE DEF new
  <1>2. /\ DOMAIN With(table, r, new) = DOMAIN table \cup {r}
        /\ With(table, r, new)[r] = new
        /\ \A x \in DOMAIN table : x # r => With(table, r, new)[x] = table[x]
    BY DEF With
  <1>3. Typed(With(table, r, new)) /\ r \in DOMAIN With(table, r, new)
    BY <1>1, <1>2, Zenon DEF Typed
  <1> QED BY <1>3 DEF new

LEMMA WithoutTyped ==
  ASSUME NEW table, Typed(table), NEW k
  PROVE  Typed(Without(table, k))
  <1>1. /\ DOMAIN Without(table, k) = DOMAIN table \ {k}
        /\ \A x \in DOMAIN table : x # k => Without(table, k)[x] = table[x]
    BY WithoutIs
  <1> QED BY <1>1, Zenon DEF Typed

\* Our own remotes and the imported ones are told apart by their ids.
LEMMA KindsDiffer ==
  /\ RemoteIds = OwnIds \cup Importable /\ OwnIds \cap Importable = {}
  BY DeviceRegistryAssumption DEF RemoteIds

\* What is written of remotes says nothing of blinds.
LEMMA RemoteWrites ==
  ASSUME NEW table, Typed(table), NEW t
  PROVE  /\ RemoteLists(table) = <<RemoteLists(table)[1], RemoteLists(table)[2]>>
         /\ RemoteLists(table)[1] \in Agreeing(t) /\ RemoteLists(table)[1].key # BlindList
         /\ RemoteLists(table)[2] \in Agreeing(t) /\ RemoteLists(table)[2].key # BlindList
         /\ \A r \in DOMAIN table :
              /\ SaveRemoteConfig(table, r) \in Agreeing(t)
              /\ SaveRemoteConfig(table, r).key # BlindList
         /\ \A r \in RemoteIds \cup {RomWord} : Clear(RemoteKey(r)) \in Agreeing(t)
  <1> DEFINE own == {LowHalf(r) : r \in DOMAIN table \ Externals(table)}
             first == Save(OwnList, own)
             second == Save(ExternalList, Externals(table))
  <1>1. RemoteLists(table) = <<first, second>>
    BY DEF RemoteLists
  <1>2. Externals(table) \subseteq Importable /\ DOMAIN table \ Externals(table) \subseteq OwnIds
    BY KindsDiffer DEF Externals, Typed
  <1>3. own \in Values(OwnList)
    BY <1>2, LowHalfIs, ValuesAre
  <1>4. Externals(table) \in Values(ExternalList)
    BY <1>2, ValuesAre
  <1>5. /\ first \in Entries /\ first.key = OwnList
        /\ second \in Entries /\ second.key = ExternalList
    <2>1. OwnList \in Keys /\ ExternalList \in Keys
      BY KeysAre DEF Lists
    <2> QED BY <1>3, <1>4, <2>1, EntriesAre, Zenon
  <1> HIDE DEF first, second
  <1>6. /\ first \in Agreeing(t) /\ first.key # BlindList
        /\ second \in Agreeing(t) /\ second.key # BlindList
    <2>1. /\ OwnList # BlindList /\ ExternalList # BlindList
          /\ \A b : BlindKey(b) # OwnList /\ BlindKey(b) # ExternalList
      BY KeysDiffer DEF Lists
    <2> QED BY <1>5, <2>1 DEF Agreeing
  <1>7. ASSUME NEW r \in DOMAIN table
        PROVE  SaveRemoteConfig(table, r) \in Agreeing(t)
               /\ SaveRemoteConfig(table, r).key # BlindList
    <2> DEFINE v == [remoteId |-> r, blinds |-> table[r].blinds]
               e == SaveRemoteConfig(table, r)
    <2>1. r \in RemoteIds /\ table[r].blinds \in SUBSET BlindIds
      BY DEF Typed
    <2>2. v \in Values(RemoteKey(r)) /\ RemoteKey(r) \in Keys
      BY <2>1, ValuesAre, KeysAre
    <2>3. e = Save(RemoteKey(r), v)
      BY DEF SaveRemoteConfig
    <2> HIDE DEF v, e
    <2>4. e \in Entries /\ e.key = RemoteKey(r)
      BY <2>2, <2>3, EntriesAre, Zenon
    <2>5. RemoteKey(r) # BlindList /\ \A b : BlindKey(b) # RemoteKey(r)
      BY KeysDiffer DEF Lists
    <2>6. e \in Agreeing(t) /\ e.key # BlindList
      BY <2>4, <2>5 DEF Agreeing
    <2> QED BY <2>6 DEF e
  <1>8. ASSUME NEW r \in RemoteIds \cup {RomWord} PROVE Clear(RemoteKey(r)) \in Agreeing(t)
    <2>1. Clear(RemoteKey(r)) \in Entries /\ Clear(RemoteKey(r)).op # "save"
      BY KeysAre, EntriesAre
    <2> QED BY <2>1 DEF Agreeing
  <1> QED BY <1>1, <1>6, <1>7, <1>8

LEMMA BlindWrites ==
  ASSUME NEW table, DOMAIN table \subseteq BlindIds, \A b \in DOMAIN table : table[b] \in OwnIds
  PROVE  /\ SaveBlindList(table) \in Agreeing(table)
         /\ SaveBlindList(table).op = "save" /\ SaveBlindList(table).key = BlindList
         /\ \A b \in DOMAIN table :
              /\ Save(BlindKey(b), table[b]) \in Agreeing(table)
              /\ Save(BlindKey(b), table[b]).key # BlindList
         /\ \A b \in BlindIds : Clear(BlindKey(b)) \in Agreeing(table)
  <1>1. BlindList \in Keys /\ DOMAIN table \in Values(BlindList)
    BY KeysAre, ValuesAre DEF Lists
  <1>2. \A b : BlindKey(b) # BlindList
    BY KeysDiffer DEF Lists
  <1> DEFINE e == SaveBlindList(table)
  <1>3. e \in Entries /\ e.op = "save" /\ e.key = BlindList /\ e.value = DOMAIN table
    BY <1>1, EntriesAre, Zenon DEF SaveBlindList
  <1> HIDE DEF e
  <1>4. e \in Agreeing(table) /\ e.op = "save" /\ e.key = BlindList
    BY <1>2, <1>3 DEF Agreeing
  <1>5. ASSUME NEW b \in DOMAIN table
        PROVE  Save(BlindKey(b), table[b]) \in Agreeing(table)
               /\ Save(BlindKey(b), table[b]).key # BlindList
    <2> DEFINE s == Save(BlindKey(b), table[b])
    <2>1. BlindKey(b) \in Keys /\ table[b] \in Values(BlindKey(b))
      BY KeysAre, ValuesAre
    <2>2. s \in Entries /\ s.key = BlindKey(b) /\ s.value = table[b]
      BY <2>1, EntriesAre, Zenon
    <2> HIDE DEF s
    <2>3. \A c : BlindKey(b) = BlindKey(c) => b = c
      BY KeysDiffer
    <2>4. s \in Agreeing(table) /\ s.key # BlindList
      BY <1>2, <2>2, <2>3 DEF Agreeing
    <2> QED BY <2>4 DEF s
  <1>6. ASSUME NEW b \in BlindIds PROVE Clear(BlindKey(b)) \in Agreeing(table)
    <2>1. Clear(BlindKey(b)) \in Entries /\ Clear(BlindKey(b)).op # "save"
      BY KeysAre, EntriesAre
    <2> QED BY <2>1 DEF Agreeing
  <1> QED BY <1>4, <1>5, <1>6 DEF e
-----------------------------------------------------------------------------
(* The steps of a flash operation. *)

FlashTyped == DOMAIN flash \subseteq Keys /\ \A k \in DOMAIN flash : flash[k] \in Values(k)

\* The head of what is to be written, and the rest.
LEMMA DueIs ==
  ASSUME NEW S, writes \in Seq(S), writes # <<>>
  PROVE  /\ Due \in S /\ Due = writes[1] /\ 1 \in DOMAIN writes
         /\ Tail(writes) \in Seq(S)
         /\ \A i \in DOMAIN writes : i # 1 =>
              i - 1 \in DOMAIN Tail(writes) /\ Tail(writes)[i - 1] = writes[i]
         /\ \A i \in DOMAIN Tail(writes) : i + 1 \in DOMAIN writes /\ Tail(writes)[i] = writes[i + 1]
         /\ DOMAIN writes \subseteq Nat \ {0} /\ DOMAIN Tail(writes) \subseteq Nat \ {0}
  <1> DEFINE t == Tail(writes)
  <1>1. /\ Len(writes) \in Nat \ {0} /\ DOMAIN writes = 1 .. Len(writes)
        /\ writes[1] \in S
    BY EmptySeq, LenProperties, ElementOfSeq
  <1>2. /\ t \in Seq(S) /\ Len(t) = Len(writes) - 1
        /\ \A i \in 1 .. Len(t) : t[i] = writes[i + 1]
    BY HeadTailProperties
  <1>3. DOMAIN t = 1 .. Len(t)
    BY <1>2, LenProperties
  <1>4. Due = writes[1]
    BY <1>1 DEF Due
  <1> HIDE DEF t
  <1>5. ASSUME NEW i \in DOMAIN writes, i # 1
        PROVE  i - 1 \in DOMAIN t /\ t[i - 1] = writes[i]
    <2>1. i - 1 \in 1 .. Len(t) /\ (i - 1) + 1 = i
      BY <1>1, <1>2, <1>5
    <2> QED BY <1>2, <1>3, <2>1
  <1>6. \A i \in DOMAIN t : i + 1 \in DOMAIN writes /\ t[i] = writes[i + 1]
    BY <1>1, <1>2, <1>3
  <1>7. DOMAIN writes \subseteq Nat \ {0} /\ DOMAIN t \subseteq Nat \ {0}
    BY <1>1, <1>2, <1>3
  <1>8. /\ Due \in S /\ Due = writes[1] /\ 1 \in DOMAIN writes
        /\ t \in Seq(S)
        /\ \A i \in DOMAIN writes : i # 1 => i - 1 \in DOMAIN t /\ t[i - 1] = writes[i]
        /\ \A i \in DOMAIN t : i + 1 \in DOMAIN writes /\ t[i] = writes[i + 1]
        /\ DOMAIN writes \subseteq Nat \ {0} /\ DOMAIN t \subseteq Nat \ {0}
    BY <1>1, <1>2, <1>4, <1>5, <1>6, <1>7
  <1> QED BY <1>8 DEF t

\* When the head is done, what is promised behind it still is.
LEMMA HeadDone ==
  ASSUME writes \in Seq(Agreeing(blinds)), writes # <<>>,
         writes' = Tail(writes), blinds' = blinds
  PROVE  /\ writes' \in Seq(Agreeing(blinds'))
         /\ \A b \in DOMAIN blinds : Rewritten(b) =>
              /\ Due.key # BlindList
              /\ Due = Save(BlindKey(b), blinds[b]) \/ Rewritten(b)'
         /\ (\E i \in DOMAIN writes : writes[i].op = "save" /\ writes[i].key = BlindList) =>
              \/ Due.op = "save" /\ Due.key = BlindList
              \/ \E i \in DOMAIN writes' : writes'[i].op = "save" /\ writes'[i].key = BlindList
  <1>1. /\ Due \in Agreeing(blinds) /\ Due = writes[1] /\ 1 \in DOMAIN writes
        /\ writes' \in Seq(Agreeing(blinds))
        /\ \A i \in DOMAIN writes : i # 1 => i - 1 \in DOMAIN writes' /\ writes'[i - 1] = writes[i]
        /\ \A i \in DOMAIN writes' : i + 1 \in DOMAIN writes /\ writes'[i] = writes[i + 1]
        /\ DOMAIN writes \subseteq Nat \ {0} /\ DOMAIN writes' \subseteq Nat \ {0}
    BY DueIs, Zenon
  <1>2. ASSUME NEW b \in DOMAIN blinds, Rewritten(b)
        PROVE  /\ Due.key # BlindList
               /\ Due = Save(BlindKey(b), blinds[b]) \/ Rewritten(b)'
    <2>1. PICK i \in DOMAIN writes : /\ writes[i] = Save(BlindKey(b), blinds[b])
                                     /\ \A j \in 1 .. i : writes[j].key # BlindList
      BY <1>2, Zenon DEF Rewritten
    <2>2. i \in Nat \ {0} /\ 1 \in 1 .. i
      BY <1>1
    <2>3. Due.key # BlindList
      BY <1>1, <2>1, <2>2
    <2>4. CASE i = 1
      BY <1>1, <2>1, <2>3, <2>4
    <2>5. CASE i # 1
      <3>1. i - 1 \in DOMAIN writes' /\ writes'[i - 1] = Save(BlindKey(b), blinds'[b])
        BY <1>1, <2>1, <2>5
      <3>2. ASSUME NEW j \in 1 .. i - 1 PROVE writes'[j].key # BlindList
        <4>1. j + 1 \in 1 .. i /\ j + 1 # 1 /\ (j + 1) - 1 = j
          BY <2>2
        <4>2. j + 1 \in DOMAIN writes
          <5>1. Len(writes) \in Nat /\ DOMAIN writes = 1 .. Len(writes)
            BY LenProperties
          <5> QED BY <2>2, <4>1, <5>1
        <4>3. writes'[j] = writes[j + 1]
          BY <1>1, <4>1, <4>2
        <4> QED BY <2>1, <4>1, <4>3
      <3>3. Rewritten(b)'
        BY <3>1, <3>2, Zenon DEF Rewritten
      <3> QED BY <2>3, <3>3
    <2> QED BY <2>4, <2>5
  <1>3. ASSUME NEW i \in DOMAIN writes, writes[i].op = "save", writes[i].key = BlindList
        PROVE  \/ Due.op = "save" /\ Due.key = BlindList
               \/ \E k \in DOMAIN writes' : writes'[k].op = "save" /\ writes'[k].key = BlindList
    BY <1>1, <1>3
  <1> QED BY <1>1, <1>2, <1>3

\* A record goes.
LEMMA RecordGone ==
  ASSUME IInv, NEW k, flash' = Without(flash, k), blinds' = blinds
  PROVE  /\ FlashTyped'
         /\ Listed(BlindList)' \subseteq Listed(BlindList)
         /\ \A b \in DOMAIN blinds : Matches(b) => Matches(b)'
         /\ OrphansDiffer' /\ StoredDistinct'
  <1>1. /\ DOMAIN flash' = DOMAIN flash \ {k}
        /\ \A x \in DOMAIN flash' : flash'[x] = flash[x]
    BY WithoutIs
  <1>2. FlashTyped'
    BY <1>1 DEF FlashTyped, IInv, TypeOK
  <1>3. Listed(BlindList)' \subseteq Listed(BlindList)
    BY <1>1 DEF Listed, Stored
  <1>4. \A b : Stored(BlindKey(b))' =>
                 Stored(BlindKey(b)) /\ flash'[BlindKey(b)] = flash[BlindKey(b)]
    BY <1>1 DEF Stored
  <1>5. \A b \in DOMAIN blinds : Matches(b) => Matches(b)'
    BY <1>4 DEF Matches
  <1>6. OrphansDiffer'
    BY <1>3, <1>4 DEF OrphansDiffer, IInv
  <1>7. StoredDistinct'
    BY <1>3, <1>4 DEF StoredDistinct, IInv
  <1> QED BY <1>2, <1>3, <1>5, <1>6, <1>7

\* The tables are as they were.
TablesStay == UNCHANGED <<remotes, blinds, nextRemote, nextBlind, mode, cuts>>

LEMMA TablesStayIs ==
  ASSUME IInv, TablesStay, FlashTyped', writes' \in Seq(Agreeing(blinds))
  PROVE  /\ TypeOK' /\ Typed(remotes)'
         /\ BlindsHaveRemotes' /\ OnePrimaryEach' /\ NextIsNew'
         /\ writes' \in Seq(Agreeing(blinds')) 
  <1>1. writes' \in Seq(Entries)
    BY SeqMonotonic, Agreeing(blinds) \subseteq Entries DEF Agreeing
  <1>2. TypeOK'
    BY <1>1 DEF TablesStay, IInv, TypeOK, FlashTyped
  <1>3. Typed(remotes)' /\ BlindsHaveRemotes' /\ OnePrimaryEach' /\ NextIsNew'
    BY DEF TablesStay, IInv, Typed, BlindsHaveRemotes, OnePrimaryEach, NextIsNew
  <1>4. writes' \in Seq(Agreeing(blinds')) 
    BY DEF TablesStay
  <1> QED BY <1>2, <1>3, <1>4

LEMMA DeleteOldKeeps == IInv /\ DeleteOld => IInv'
  <1> SUFFICES ASSUME IInv, DeleteOld PROVE IInv'
    OBVIOUS
  <1>1. /\ flash' = Without(flash, Due.key) /\ TablesStay
        /\ writes' = writes /\ blinds' = blinds
    BY DEF DeleteOld, TablesStay
  <1>2. /\ FlashTyped'
        /\ Listed(BlindList)' \subseteq Listed(BlindList)
        /\ \A b \in DOMAIN blinds : Matches(b) => Matches(b)'
        /\ OrphansDiffer' /\ StoredDistinct'
    BY <1>1, RecordGone
  <1>3. writes' \in Seq(Agreeing(blinds))
    BY <1>1 DEF IInv
  <1>4. ListUpToDate'
    BY <1>1, <1>2 DEF ListUpToDate, IInv
  <1>5. RecordsMatch'
    <2>1. \A b : Rewritten(b) => Rewritten(b)'
      BY <1>1 DEF Rewritten
    <2> QED BY <1>1, <1>2, <2>1 DEF RecordsMatch, IInv
  <1> QED BY <1>1, <1>2, <1>3, <1>4, <1>5, TablesStayIs DEF IInv

LEMMA ClearOldKeeps == IInv /\ ClearOld => IInv'
  <1> SUFFICES ASSUME IInv, ClearOld PROVE IInv'
    OBVIOUS
  <1>1. /\ flash' = Without(flash, Due.key) /\ TablesStay /\ blinds' = blinds
        /\ writes # <<>> /\ writes' = Tail(writes) /\ Due.op = "clear"
    BY DEF ClearOld, Proceed, TablesStay
  <1>2. /\ FlashTyped'
        /\ Listed(BlindList)' \subseteq Listed(BlindList)
        /\ \A b \in DOMAIN blinds : Matches(b) => Matches(b)'
        /\ OrphansDiffer' /\ StoredDistinct'
    BY <1>1, RecordGone
  <1>3. /\ writes' \in Seq(Agreeing(blinds'))
        /\ \A b \in DOMAIN blinds : Rewritten(b) => Due = Save(BlindKey(b), blinds[b]) \/ Rewritten(b)'
        /\ (\E i \in DOMAIN writes : writes[i].op = "save" /\ writes[i].key = BlindList) =>
             (\E i \in DOMAIN writes' : writes'[i].op = "save" /\ writes'[i].key = BlindList)
    BY <1>1, HeadDone DEF IInv
  <1>4. ListUpToDate'
    BY <1>1, <1>2, <1>3 DEF ListUpToDate, IInv
  <1>5. RecordsMatch'
    <2>1. \A b : Due # Save(BlindKey(b), blinds[b])
      BY <1>1, EntriesAre
    <2> QED BY <1>1, <1>2, <1>3, <2>1 DEF RecordsMatch, IInv
  <1> QED BY <1>1, <1>2, <1>3, <1>4, <1>5, TablesStayIs DEF IInv

LEMMA SkipEqualKeeps == IInv /\ SkipEqual => IInv'
  <1> SUFFICES ASSUME IInv, SkipEqual PROVE IInv'
    OBVIOUS
  <1>1. /\ flash' = flash /\ TablesStay /\ blinds' = blinds
        /\ writes # <<>> /\ writes' = Tail(writes)
        /\ Due.key \notin Lists /\ Stored(Due.key) /\ flash[Due.key] = Due.value
    BY DEF SkipEqual, Proceed, TablesStay
  <1>2. FlashTyped'
    BY <1>1 DEF FlashTyped, IInv, TypeOK
  <1>3. /\ writes' \in Seq(Agreeing(blinds'))
        /\ \A b \in DOMAIN blinds : Rewritten(b) => Due = Save(BlindKey(b), blinds[b]) \/ Rewritten(b)'
        /\ (\E i \in DOMAIN writes : writes[i].op = "save" /\ writes[i].key = BlindList) =>
             (\E i \in DOMAIN writes' : writes'[i].op = "save" /\ writes'[i].key = BlindList)
    BY <1>1, HeadDone DEF IInv, Lists
  <1>4. Listed(BlindList)' = Listed(BlindList) /\ \A k : Stored(k)' <=> Stored(k)
    BY <1>1 DEF Listed, Stored
  <1>5. ListUpToDate'
    BY <1>1, <1>3, <1>4 DEF ListUpToDate, IInv
  <1>6. RecordsMatch'
    <2>1. ASSUME NEW b \in DOMAIN blinds, Due = Save(BlindKey(b), blinds[b]) PROVE Matches(b)
      BY <1>1, <2>1, EntriesAre DEF Matches
    <2>2. \A b \in DOMAIN blinds : Matches(b) => Matches(b)'
      BY <1>1, <1>4 DEF Matches
    <2> QED BY <1>1, <1>3, <1>4, <2>1, <2>2 DEF RecordsMatch, IInv
  <1>7. OrphansDiffer' /\ StoredDistinct'
    BY <1>1, <1>4 DEF OrphansDiffer, StoredDistinct, IInv
  <1> QED BY <1>1, <1>2, <1>3, <1>5, <1>6, <1>7, TablesStayIs DEF IInv

LEMMA WriteNewKeeps == IInv /\ WriteNew => IInv'
  <1> SUFFICES ASSUME IInv, WriteNew PROVE IInv'
    OBVIOUS
  <1>1. /\ flash' = With(flash, Due.key, Due.value) /\ TablesStay /\ blinds' = blinds
        /\ writes # <<>> /\ writes' = Tail(writes)
        /\ Due.op = "save" /\ ~ Stored(Due.key)
    BY DEF WriteNew, Proceed, TablesStay
  <1>2. /\ DOMAIN flash' = DOMAIN flash \cup {Due.key}
        /\ flash'[Due.key] = Due.value
        /\ \A x \in DOMAIN flash : x # Due.key /\ flash'[x] = flash[x]
    BY <1>1 DEF With, Stored
  <1>3. Due \in Agreeing(blinds)
    BY <1>1, DueIs DEF IInv
  <1>4. Due.key \in Keys /\ Due.value \in Values(Due.key)
    <2>1. Due \in Entries
      BY <1>3 DEF Agreeing
    <2> QED BY <1>1, <2>1, EntriesAre
  <1>5. FlashTyped'
    BY <1>2, <1>4 DEF FlashTyped, IInv, TypeOK
  <1>6. /\ writes' \in Seq(Agreeing(blinds'))
        /\ \A b \in DOMAIN blinds : Rewritten(b) =>
             Due.key # BlindList /\ (Due = Save(BlindKey(b), blinds[b]) \/ Rewritten(b)')
        /\ (\E i \in DOMAIN writes : writes[i].op = "save" /\ writes[i].key = BlindList) =>
             \/ Due.key = BlindList
             \/ \E i \in DOMAIN writes' : writes'[i].op = "save" /\ writes'[i].key = BlindList
    BY <1>1, HeadDone DEF IInv
  <1>7. DOMAIN blinds \subseteq BlindIds
    BY DEF IInv, TypeOK
  \* What has not been written is as it was.
  <1>8. /\ Due.key # BlindList => Listed(BlindList)' = Listed(BlindList)
        /\ \A b : Due.key # BlindKey(b) =>
             /\ Stored(BlindKey(b))' <=> Stored(BlindKey(b))
             /\ Stored(BlindKey(b)) => flash'[BlindKey(b)] = flash[BlindKey(b)]
    BY <1>2 DEF Listed, Stored
  \* A record that is written is that of a blind.
  <1>9. \A b \in BlindIds : Due.key = BlindKey(b) =>
          b \in DOMAIN blinds /\ flash'[BlindKey(b)] = blinds[b]
    BY <1>1, <1>2, <1>3 DEF Agreeing
  <1>10. \A b \in DOMAIN blinds : Matches(b) => Matches(b)'
    BY <1>1, <1>7, <1>8, <1>9 DEF Matches
  <1>11. \A b \in DOMAIN blinds : Due.key = BlindKey(b) => Matches(b)'
    BY <1>1, <1>7, <1>9 DEF Matches
  <1>12. \A b \in BlindIds : Stored(BlindKey(b))' =>
           Stored(BlindKey(b)) \/ b \in DOMAIN blinds
    BY <1>8, <1>9
  <1>13. CASE Due.key = BlindList
    <2>1. Listed(BlindList)' = DOMAIN blinds
      BY <1>1, <1>2, <1>3, <1>13 DEF Listed, Stored, Agreeing
    <2>2. \A b \in DOMAIN blinds : Matches(b)'
      BY <1>6, <1>10, <1>13 DEF RecordsMatch, IInv
    <2>3. ListUpToDate' /\ RecordsMatch' /\ OrphansDiffer'
      BY <1>1, <2>1, <2>2 DEF ListUpToDate, RecordsMatch, OrphansDiffer
    <2>4. StoredDistinct'
      BY <1>1, <2>1, <2>2 DEF StoredDistinct, Matches, IInv, OnePrimaryEach
    <2> QED BY <1>1, <1>5, <1>6, <2>3, <2>4, TablesStayIs DEF IInv
  <1>14. CASE Due.key # BlindList
    <2>1. Listed(BlindList)' = Listed(BlindList) /\ Listed(BlindList) \subseteq BlindIds
      <3>1. Listed(BlindList) \subseteq BlindIds
        BY ValuesAre DEF Listed, Stored, IInv, TypeOK
      <3> QED BY <1>8, <1>14, <3>1
    <2>2. ListUpToDate'
      BY <1>1, <1>6, <1>14, <2>1 DEF ListUpToDate, IInv
    <2>3. RecordsMatch'
      <3>1. \A b : Due = Save(BlindKey(b), blinds[b]) => Due.key = BlindKey(b)
        BY EntriesAre
      <3> QED BY <1>1, <1>6, <1>10, <1>11, <2>1, <3>1 DEF RecordsMatch, IInv
    <2>4. ASSUME NEW b \in Listed(BlindList) \ DOMAIN blinds, Stored(BlindKey(b))'
          PROVE  Stored(BlindKey(b)) /\ flash'[BlindKey(b)] = flash[BlindKey(b)]
      BY <1>8, <1>9, <2>1, <2>4
    <2>5. OrphansDiffer'
      BY <1>1, <2>1, <2>4 DEF OrphansDiffer, IInv
    <2>6. ASSUME NEW b \in Listed(BlindList) \cap DOMAIN blinds, Stored(BlindKey(b))'
          PROVE  flash'[BlindKey(b)] = blinds[b]
      BY <1>1, <1>10, <2>6 DEF RecordsMatch, IInv, Matches
    <2>7. StoredDistinct'
      <3> SUFFICES ASSUME NEW a \in Listed(BlindList), NEW b \in Listed(BlindList),
                          Stored(BlindKey(a))', Stored(BlindKey(b))',
                          flash'[BlindKey(a)] = flash'[BlindKey(b)]
                   PROVE  a = b
        BY <2>1 DEF StoredDistinct
      <3>1. CASE a \in DOMAIN blinds /\ b \in DOMAIN blinds
        BY <2>6, <3>1 DEF IInv, OnePrimaryEach
      <3>2. CASE a \in DOMAIN blinds /\ b \notin DOMAIN blinds
        BY <2>4, <2>6, <3>2 DEF IInv, OrphansDiffer
      <3>3. CASE a \notin DOMAIN blinds /\ b \in DOMAIN blinds
        BY <2>4, <2>6, <3>3 DEF IInv, OrphansDiffer
      <3>4. CASE a \notin DOMAIN blinds /\ b \notin DOMAIN blinds
        BY <2>4, <3>4 DEF IInv, StoredDistinct
      <3> QED BY <3>1, <3>2, <3>3, <3>4
    <2> QED BY <1>1, <1>5, <1>6, <2>2, <2>3, <2>5, <2>7, TablesStayIs DEF IInv
  <1> QED BY <1>13, <1>14

-----------------------------------------------------------------------------
(* A boot, whatever it finds. *)

LEMMA LoadedAre ==
  ASSUME IInv
  PROVE  /\ OwnListed \subseteq OwnIds
         /\ Typed(LoadedRemotes)
         /\ DOMAIN LoadedRemotes \cap OwnIds \subseteq OwnListed
         /\ Listed(BlindList) \subseteq BlindIds
         /\ DOMAIN LoadedBlinds \subseteq Listed(BlindList)
         /\ \A b \in DOMAIN LoadedBlinds :
              /\ Stored(BlindKey(b)) /\ LoadedBlinds[b] = flash[BlindKey(b)]
              /\ LoadedBlinds[b] \in OwnListed /\ LoadedBlinds[b] \in DOMAIN LoadedRemotes
  <1>1. \A k : Stored(k) => flash[k] \in Values(k)
    BY DEF Stored, IInv, TypeOK
  <1>2. /\ Listed(OwnList) \subseteq 1 .. MaxOwn /\ Listed(ExternalList) \subseteq Importable
        /\ Listed(BlindList) \subseteq BlindIds
    BY <1>1, ValuesAre DEF Listed
  <1>3. OwnListed \subseteq OwnIds
    BY <1>2, DeviceRegistryAssumption DEF OwnListed, OwnIds
  <1>4. DOMAIN LoadedRemotes = {x \in OwnListed \cup Listed(ExternalList) : Stored(RemoteKey(x))}
    BY DEF LoadedRemotes
  <1>5. DOMAIN LoadedRemotes \subseteq RemoteIds /\ DOMAIN LoadedRemotes \cap OwnIds \subseteq OwnListed
    BY <1>2, <1>3, <1>4, KindsDiffer
  <1>6. ASSUME NEW r \in DOMAIN LoadedRemotes
        PROVE  /\ LoadedRemotes[r] \in [external : BOOLEAN, blinds : SUBSET BlindIds, dirty : BOOLEAN]
               /\ LoadedRemotes[r].external <=> r \in Importable
    <2>1. flash[RemoteKey(r)].blinds \in SUBSET BlindIds
      <3>1. flash[RemoteKey(r)] \in Values(RemoteKey(r))
        BY <1>1, <1>4
      <3>2. flash[RemoteKey(r)] \in [remoteId : RemoteIds, blinds : SUBSET BlindIds]
        BY <3>1, ValuesAre, Zenon
      <3> QED BY <3>2
    <2>2. r \notin OwnListed <=> r \in Importable
      BY <1>2, <1>3, <1>4, KindsDiffer
    <2> DEFINE rec == [external |-> r \notin OwnListed, blinds |-> flash[RemoteKey(r)].blinds,
                       dirty |-> FALSE]
    <2>3. LoadedRemotes[r] = rec
      BY <1>4 DEF LoadedRemotes
    <2>4. rec \in [external : BOOLEAN, blinds : SUBSET BlindIds, dirty : BOOLEAN]
          /\ (rec.external <=> r \in Importable)
      BY <2>1, <2>2
    <2> QED BY <2>3, <2>4, Zenon
  <1>7. Typed(LoadedRemotes)
    BY <1>5, <1>6, Zenon DEF Typed
  <1>8. ASSUME NEW b \in DOMAIN LoadedBlinds
        PROVE  /\ b \in Listed(BlindList)
               /\ Stored(BlindKey(b)) /\ LoadedBlinds[b] = flash[BlindKey(b)]
               /\ LoadedBlinds[b] \in OwnListed /\ LoadedBlinds[b] \in DOMAIN LoadedRemotes
    <2>1. b \in Listed(BlindList) /\ HasRemote(b) /\ LoadedBlinds[b] = flash[BlindKey(b)]
      BY Zenon DEF LoadedBlinds
    <2>2. Stored(BlindKey(b)) /\ flash[BlindKey(b)] \in DOMAIN LoadedRemotes
      BY <2>1, Zenon DEF HasRemote
    <2>3. flash[BlindKey(b)] \in OwnIds
      BY <1>1, <2>2, ValuesAre
    <2> QED BY <1>5, <2>1, <2>2, <2>3, Zenon
  <1> QED BY <1>2, <1>3, <1>5, <1>7, <1>8, Zenon

LEMMA BootKeeps == IInv /\ Boot /\ cuts' \in 0 .. MaxCuts => IInv'
  <1> SUFFICES ASSUME IInv, Boot, cuts' \in 0 .. MaxCuts PROVE IInv'
    OBVIOUS
  <1>1. /\ remotes' = LoadedRemotes /\ blinds' = LoadedBlinds /\ flash' = flash
        /\ nextRemote' = FirstAbove(OwnListed, BaseRemoteId + 1)
        /\ nextBlind' = FirstAbove(Listed(BlindList), 1)
        /\ mode' = "up"
    BY DEF Boot
  <1>2. PICK order \in Orders(Orphans) :
          writes' = IF Orphans = {} THEN <<>>
                    ELSE [i \in DOMAIN order |-> Clear(BlindKey(order[i]))]
                         \o <<SaveBlindList(LoadedBlinds)>>
    BY Zenon DEF Boot
  <1>3. /\ OwnListed \subseteq OwnIds
        /\ Typed(LoadedRemotes)
        /\ Listed(BlindList) \subseteq BlindIds
        /\ DOMAIN LoadedBlinds \subseteq Listed(BlindList)
        /\ \A b \in DOMAIN LoadedBlinds :
              /\ Stored(BlindKey(b)) /\ LoadedBlinds[b] = flash[BlindKey(b)]
              /\ LoadedBlinds[b] \in OwnListed /\ LoadedBlinds[b] \in DOMAIN LoadedRemotes
    BY LoadedAre
  <1>4. /\ nextRemote' \in BaseRemoteId + 1 .. BaseRemoteId + MaxOwn + 1
        /\ \A r \in OwnListed : r < nextRemote'
    <2> DEFINE lo == BaseRemoteId + 1
               hi == BaseRemoteId + MaxOwn
    <2>1. /\ lo \in Int /\ hi \in Int /\ lo <= hi + 1
          /\ OwnListed \in SUBSET (lo .. hi) /\ hi + 1 = BaseRemoteId + MaxOwn + 1
      BY <1>3, Numbers DEF OwnIds
    <2>2. nextRemote' = FirstAbove(OwnListed, lo)
      BY <1>1
    <2> HIDE DEF lo, hi
    <2>3. nextRemote' \in lo .. hi + 1 /\ \A r \in OwnListed : r < nextRemote'
      BY <2>1, <2>2, FirstAboveIs
    <2> QED BY <2>1, <2>3 DEF lo
  <1>5. /\ nextBlind' \in 1 .. MaxBlinds + 1
        /\ \A b \in Listed(BlindList) : b < nextBlind'
    <2> DEFINE listed == Listed(BlindList)
    <2>1. /\ MaxBlinds \in Int /\ 1 <= MaxBlinds + 1
          /\ listed \in SUBSET (1 .. MaxBlinds)
      BY <1>3, Numbers DEF BlindIds
    <2>2. nextBlind' = FirstAbove(listed, 1)
      BY <1>1
    <2> HIDE DEF listed
    <2>3. nextBlind' \in 1 .. MaxBlinds + 1 /\ \A b \in listed : b < nextBlind'
      BY <2>1, <2>2, FirstAboveIs
    <2> QED BY <2>3 DEF listed
  <1>6. /\ Listed(BlindList)' = Listed(BlindList)
        /\ \A b : Stored(BlindKey(b))' <=> Stored(BlindKey(b))
    BY <1>1 DEF Listed, Stored
  <1>7. \A b \in DOMAIN LoadedBlinds : LoadedBlinds[b] \in OwnIds
    BY <1>3
  <1>8. /\ writes' \in Seq(Agreeing(LoadedBlinds))
        /\ Orphans # {} =>
             \E i \in DOMAIN writes' : writes'[i].op = "save" /\ writes'[i].key = BlindList
    <2> DEFINE S == Agreeing(LoadedBlinds)
               e == SaveBlindList(LoadedBlinds)
               n == Cardinality(Orphans)
               clears == [i \in DOMAIN order |-> Clear(BlindKey(order[i]))]
    <2>1. e \in S /\ e.op = "save" /\ e.key = BlindList
          /\ \A b \in BlindIds : Clear(BlindKey(b)) \in S
      BY <1>3, <1>7, BlindWrites
    <2>2. Orphans \subseteq BlindIds /\ IsFiniteSet(Orphans)
      BY <1>3, Numbers, FS_Subset DEF Orphans
    <2>3. n \in Nat /\ DOMAIN order = 1 .. n /\ \A i \in DOMAIN order : order[i] \in BlindIds
      BY <2>2, OrdersAre
    <2>4. clears \in [1 .. n -> S]
      BY <2>1, <2>3
    <2> HIDE DEF S, e, n, clears
    <2>5. clears \in Seq(S) /\ Len(clears) = n
      BY <2>3, <2>4
    <2>6. <<e>> \in Seq(S) /\ Len(<<e>>) = 1 /\ <<e>>[1] = e
      BY <2>1
    <2>7. /\ clears \o <<e>> \in Seq(S)
          /\ Len(clears \o <<e>>) = n + 1
          /\ (clears \o <<e>>)[n + 1] = e
      <3>1. /\ clears \o <<e>> \in Seq(S)
            /\ Len(clears \o <<e>>) = Len(clears) + Len(<<e>>)
            /\ \A i \in 1 .. Len(clears) + Len(<<e>>) :
                 (clears \o <<e>>)[i] = IF i <= Len(clears) THEN clears[i]
                                        ELSE <<e>>[i - Len(clears)]
        BY <2>5, <2>6, ConcatProperties
      <3>2. n + 1 \in 1 .. n + 1 /\ ~ (n + 1 <= n) /\ (n + 1) - n = 1
        BY <2>3
      <3> QED BY <2>5, <2>6, <3>1, <3>2
    <2>8. n + 1 \in DOMAIN (clears \o <<e>>)
      BY <2>3, <2>7, LenProperties
    <2>9. <<>> \in Seq(S)
      BY EmptySeq
    <2>10. writes' = IF Orphans = {} THEN <<>> ELSE clears \o <<e>>
      BY <1>2, Zenon DEF clears, e
    <2> QED BY <2>1, <2>7, <2>8, <2>9, <2>10 DEF S
  <1>9. TypeOK'
    <2>1. writes' \in Seq(Entries)
      BY <1>8, SeqMonotonic, Agreeing(LoadedBlinds) \subseteq Entries DEF Agreeing
    <2> QED BY <1>1, <1>3, <1>4, <1>5, <1>7, <2>1 DEF TypeOK, Typed, IInv
  <1>10. Typed(remotes)' /\ BlindsHaveRemotes'
    BY <1>1, <1>3 DEF Typed, BlindsHaveRemotes
  <1>11. OnePrimaryEach'
    BY <1>1, <1>3 DEF OnePrimaryEach, IInv, StoredDistinct
  <1>12. NextIsNew'
    BY <1>1, <1>3, <1>4, <1>5 DEF NextIsNew
  <1>13. ListUpToDate'
    BY <1>1, <1>6, <1>8 DEF ListUpToDate, Orphans
  <1>14. RecordsMatch'
    BY <1>1, <1>3 DEF RecordsMatch, Matches
  <1>15. OrphansDiffer'
    <2>1. ASSUME NEW b \in Listed(BlindList) \ DOMAIN LoadedBlinds, Stored(BlindKey(b))
          PROVE  flash[BlindKey(b)] \notin DOMAIN LoadedRemotes
      BY <2>1 DEF LoadedBlinds, HasRemote
    <2> QED BY <1>1, <1>3, <1>6, <2>1 DEF OrphansDiffer
  <1>16. StoredDistinct'
    BY <1>1, <1>6 DEF StoredDistinct, IInv
  <1>17. writes' \in Seq(Agreeing(blinds'))
    BY <1>1, <1>8
  <1> QED BY <1>9, <1>10, <1>11, <1>12, <1>13, <1>14, <1>15, <1>16, <1>17 DEF IInv

-----------------------------------------------------------------------------
(* Handlers. *)

\* Nothing waits to be written, and flash says what the tables say.
LEMMA IdleIs ==
  ASSUME IInv, writes = <<>>
  PROVE  /\ Listed(BlindList) \subseteq DOMAIN blinds
         /\ \A b \in DOMAIN blinds : Matches(b)
  <1>1. DOMAIN writes = {}
    OBVIOUS
  <1>2. Listed(BlindList) \subseteq DOMAIN blinds
    BY <1>1 DEF IInv, ListUpToDate
  <1>3. \A b \in DOMAIN blinds : ~ Rewritten(b)
    BY <1>1 DEF Rewritten
  <1> QED BY <1>2, <1>3 DEF IInv, RecordsMatch

\* A handler that leaves the blinds alone.
BlindsStay == UNCHANGED <<blinds, nextBlind, flash, cuts>>

LEMMA QuietStep ==
  ASSUME IInv, writes = <<>>, BlindsStay,
         Typed(remotes)', \A b \in DOMAIN blinds : blinds[b] \in DOMAIN remotes',
         nextRemote' \in BaseRemoteId + 1 .. BaseRemoteId + MaxOwn + 1, nextRemote <= nextRemote',
         writes' \in Seq(Agreeing(blinds)), mode' \in {"up", "stopping", "crashed"}
  PROVE  IInv'
  <1>1. /\ Listed(BlindList)' = Listed(BlindList)
        /\ \A b : Stored(BlindKey(b))' <=> Stored(BlindKey(b))
    BY DEF BlindsStay, Listed, Stored
  <1>2. /\ Listed(BlindList) \subseteq DOMAIN blinds
        /\ \A b \in DOMAIN blinds : Matches(b)
    BY IdleIs
  <1>3. writes' \in Seq(Entries)
    BY SeqMonotonic, Agreeing(blinds) \subseteq Entries DEF Agreeing
  <1>4. TypeOK'
    <2>1. TypeOK /\ Typed(remotes)
      BY DEF IInv
    <2> QED BY <1>3, <2>1 DEF TypeOK, Typed, BlindsStay
  <1>5. BlindsHaveRemotes' /\ OnePrimaryEach'
    BY DEF BlindsStay, BlindsHaveRemotes, OnePrimaryEach, IInv
  <1>6. NextIsNew'
    <2>1. /\ \A b \in DOMAIN blinds : blinds[b] \in Int /\ blinds[b] < nextRemote /\ b < nextBlind
          /\ nextRemote \in Int /\ nextRemote' \in Int
      BY Numbers DEF IInv, TypeOK, NextIsNew
    <2> QED BY <2>1 DEF NextIsNew, BlindsStay
  <1>7. ListUpToDate' /\ RecordsMatch' /\ OrphansDiffer' /\ StoredDistinct'
    <2>1. ListUpToDate' /\ OrphansDiffer'
      BY <1>1, <1>2 DEF ListUpToDate, OrphansDiffer, BlindsStay
    <2>2. RecordsMatch'
      BY <1>1, <1>2 DEF RecordsMatch, Matches, BlindsStay
    <2>3. StoredDistinct'
      BY <1>1 DEF StoredDistinct, BlindsStay, IInv
    <2> QED BY <2>1, <2>2, <2>3
  <1>8. writes' \in Seq(Agreeing(blinds'))
    BY DEF BlindsStay
  <1> QED BY <1>4, <1>5, <1>6, <1>7, <1>8 DEF IInv

LEMMA NewWrites ==
  ASSUME NEW table, Typed(table), NEW r, NEW t
  PROVE  /\ r \in DOMAIN table => WritesOfNew(table, r) \in Seq(Agreeing(t))
         /\ r \in RemoteIds \cup {RomWord} => WritesOfRemoval(table, r) \in Seq(Agreeing(t))
  <1> DEFINE lists == RemoteLists(table)
  <1>1. lists \in Seq(Agreeing(t))
    <2>1. lists = <<lists[1], lists[2]>> /\ lists[1] \in Agreeing(t) /\ lists[2] \in Agreeing(t)
      BY RemoteWrites
    <2> HIDE DEF lists
    <2>2. <<lists[1], lists[2]>> \in Seq(Agreeing(t))
      BY <2>1
    <2> QED BY <2>1, <2>2, Zenon
  <1> HIDE DEF lists
  <1>2. ASSUME r \in DOMAIN table PROVE WritesOfNew(table, r) \in Seq(Agreeing(t))
    <2>1. <<SaveRemoteConfig(table, r)>> \in Seq(Agreeing(t))
      BY <1>2, RemoteWrites
    <2> QED BY <1>1, <2>1, ConcatProperties DEF WritesOfNew, lists
  <1>3. ASSUME r \in RemoteIds \cup {RomWord}
        PROVE  WritesOfRemoval(table, r) \in Seq(Agreeing(t))
    <2>1. <<Clear(RemoteKey(r))>> \in Seq(Agreeing(t))
      BY <1>3, RemoteWrites
    <2> QED BY <1>1, <2>1, ConcatProperties DEF WritesOfRemoval, lists
  <1> QED BY <1>2, <1>3

LEMMA AddRemoteKeeps == IInv /\ AddRemote => IInv'
  <1> SUFFICES ASSUME IInv, AddRemote PROVE IInv'
    OBVIOUS
  <1>1. /\ writes = <<>> /\ BlindsStay /\ mode' = mode
        /\ nextRemote \in OwnIds /\ nextRemote' = nextRemote + 1
        /\ remotes' = With(remotes, nextRemote, Remote(FALSE, {}, FALSE))
        /\ writes' = WritesOfNew(remotes', nextRemote)
    BY DEF AddRemote, Idle, BlindsStay
  <1>2. nextRemote \in RemoteIds \ Importable
    BY <1>1, KindsDiffer
  <1>3. Typed(remotes') /\ nextRemote \in DOMAIN remotes'
    BY <1>1, <1>2, WithTyped DEF IInv
  <1>4. DOMAIN remotes \subseteq DOMAIN remotes'
    BY <1>1 DEF With
  <1>5. writes' \in Seq(Agreeing(blinds))
    BY <1>1, <1>3, NewWrites
  <1>6. /\ nextRemote' \in BaseRemoteId + 1 .. BaseRemoteId + MaxOwn + 1
        /\ nextRemote <= nextRemote'
    BY <1>1, Numbers DEF OwnIds
  <1>7. \A b \in DOMAIN blinds : blinds[b] \in DOMAIN remotes'
    BY <1>4 DEF IInv, BlindsHaveRemotes
  <1>8. mode' \in {"up", "stopping", "crashed"}
    BY <1>1 DEF IInv, TypeOK
  <1> QED BY <1>1, <1>3, <1>5, <1>6, <1>7, <1>8, QuietStep DEF Typed

LEMMA ImportRemoteKeeps ==
  ASSUME IInv, NEW r \in Importable, ImportRemote(r)
  PROVE  IInv'
  <1>1. /\ writes = <<>> /\ BlindsStay /\ mode' = mode /\ nextRemote' = nextRemote
        /\ remotes' = With(remotes, r, Remote(TRUE, {}, FALSE))
        /\ writes' = WritesOfNew(remotes', r)
    BY DEF ImportRemote, Idle, BlindsStay
  <1>2. r \in RemoteIds
    BY KindsDiffer
  <1>3. Typed(remotes') /\ r \in DOMAIN remotes'
    BY <1>1, <1>2, WithTyped DEF IInv
  <1>4. DOMAIN remotes \subseteq DOMAIN remotes'
    BY <1>1 DEF With
  <1>5. writes' \in Seq(Agreeing(blinds))
    BY <1>1, <1>3, NewWrites
  <1>6. /\ nextRemote' \in BaseRemoteId + 1 .. BaseRemoteId + MaxOwn + 1
        /\ nextRemote <= nextRemote'
    BY <1>1, Numbers DEF IInv, TypeOK
  <1>7. \A b \in DOMAIN blinds : blinds[b] \in DOMAIN remotes'
    BY <1>4 DEF IInv, BlindsHaveRemotes
  <1>8. mode' \in {"up", "stopping", "crashed"}
    BY <1>1 DEF IInv, TypeOK
  <1> QED BY <1>1, <1>3, <1>5, <1>6, <1>7, <1>8, QuietStep DEF Typed

LEMMA DeleteRemoteKeeps ==
  ASSUME IInv, NEW r \in RemoteIds \cup {RomWord}, DeleteRemote(r)
  PROVE  IInv'
  <1>1. /\ writes = <<>> /\ BlindsStay /\ mode' = mode /\ nextRemote' = nextRemote
        /\ \A b \in DOMAIN blinds : blinds[b] # r
        /\ remotes' = Without(remotes, r)
        /\ writes' = WritesOfRemoval(remotes', r)
    BY DEF DeleteRemote, Idle, BlindsStay, MayGo, IsAPrimaryRemote, RemoteGoes
  <1>2. Typed(remotes')
    BY <1>1, WithoutTyped DEF IInv
  <1>3. DOMAIN remotes' = DOMAIN remotes \ {r}
    BY <1>1, WithoutIs
  <1>4. writes' \in Seq(Agreeing(blinds))
    BY <1>1, <1>2, NewWrites
  <1>5. /\ nextRemote' \in BaseRemoteId + 1 .. BaseRemoteId + MaxOwn + 1
        /\ nextRemote <= nextRemote'
    BY <1>1, Numbers DEF IInv, TypeOK
  <1>6. \A b \in DOMAIN blinds : blinds[b] \in DOMAIN remotes'
    BY <1>1, <1>3 DEF IInv, BlindsHaveRemotes
  <1>7. mode' \in {"up", "stopping", "crashed"}
    BY <1>1 DEF IInv, TypeOK
  <1> QED BY <1>1, <1>2, <1>4, <1>5, <1>6, <1>7, QuietStep DEF Typed

\* A handler that changes one remote and writes nothing.
LEMMA RemoteChanges ==
  ASSUME IInv, writes = <<>>, BlindsStay, writes' = writes, nextRemote' = nextRemote,
         DOMAIN remotes' = DOMAIN remotes, NEW r \in DOMAIN remotes,
         \A x \in DOMAIN remotes : x # r => remotes'[x] = remotes[x],
         NEW rec, remotes'[r] = rec, rec.external = remotes[r].external,
         rec \in [external : BOOLEAN, blinds : SUBSET BlindIds, dirty : BOOLEAN],
         mode' \in {"up", "stopping", "crashed"}
  PROVE  IInv'
  <1>1. Typed(remotes)'
    <2>1. Typed(remotes)
      BY DEF IInv
    <2> QED BY <2>1, Zenon DEF Typed
  <1>2. writes' \in Seq(Agreeing(blinds))
    BY DEF IInv
  <1>3. /\ nextRemote' \in BaseRemoteId + 1 .. BaseRemoteId + MaxOwn + 1
        /\ nextRemote <= nextRemote'
    BY Numbers DEF IInv, TypeOK
  <1>4. \A b \in DOMAIN blinds : blinds[b] \in DOMAIN remotes'
    BY DEF IInv, BlindsHaveRemotes
  <1> QED BY <1>1, <1>2, <1>3, <1>4, QuietStep

LEMMA BindsKeep ==
  ASSUME IInv, NEW r \in RemoteIds, NEW b \in BlindIds, Bind(r, b) \/ Unbind(r, b)
  PROVE  IInv'
  <1>1. PICK B \in {remotes[r].blinds \cup {b}, remotes[r].blinds \ {b}} :
          /\ writes = <<>> /\ BlindsStay /\ writes' = writes /\ nextRemote' = nextRemote
          /\ mode' = mode /\ r \in DOMAIN remotes
          /\ remotes' = [remotes EXCEPT ![r] = Bound(r, B)]
    BY Zenon DEF Bind, Unbind, Idle, BlindsStay
  <1>2. remotes[r].blinds \in SUBSET BlindIds /\ remotes[r].external \in BOOLEAN
    BY <1>1 DEF IInv, Typed
  <1> DEFINE rec == Bound(r, B)
  <1>b. B \in SUBSET BlindIds
    BY <1>2
  <1>3. /\ rec \in [external : BOOLEAN, blinds : SUBSET BlindIds, dirty : BOOLEAN]
        /\ rec.external = remotes[r].external
    BY <1>2, <1>b DEF Bound, Remote
  <1> HIDE DEF rec
  <1>4. /\ DOMAIN remotes' = DOMAIN remotes /\ remotes'[r] = rec
        /\ \A x \in DOMAIN remotes : x # r => remotes'[x] = remotes[x]
    BY <1>1, Zenon DEF rec
  <1>5. mode' \in {"up", "stopping", "crashed"}
    BY <1>1 DEF IInv, TypeOK
  <1> QED BY <1>1, <1>3, <1>4, <1>5, RemoteChanges

LEMMA DirtyKeep ==
  ASSUME IInv, NEW r \in RemoteIds, UpdateRemote(r) \/ Press(r)
  PROVE  IInv'
  <1>1. /\ writes = <<>> /\ BlindsStay /\ writes' = writes /\ nextRemote' = nextRemote
        /\ r \in DOMAIN remotes
        /\ remotes' = [remotes EXCEPT ![r].dirty = TRUE]
        /\ mode' \in {mode, "crashed"}
    BY DEF UpdateRemote, Press, Idle, BlindsStay
  <1> DEFINE rec == [remotes[r] EXCEPT !.dirty = TRUE]
  <1>2. /\ rec \in [external : BOOLEAN, blinds : SUBSET BlindIds, dirty : BOOLEAN]
        /\ rec.external = remotes[r].external
    BY <1>1 DEF IInv, Typed
  <1> HIDE DEF rec
  <1>3. /\ DOMAIN remotes' = DOMAIN remotes /\ remotes'[r] = rec
        /\ \A x \in DOMAIN remotes : x # r => remotes'[x] = remotes[x]
    BY <1>1, Zenon DEF rec
  <1>4. mode' \in {"up", "stopping", "crashed"}
    BY <1>1 DEF IInv, TypeOK
  <1> QED BY <1>1, <1>2, <1>3, <1>4, RemoteChanges

\* What the timers save.
LEMMA SavesAre ==
  ASSUME IInv
  PROVE  /\ \A order \in Orders(DirtyRemotes) : Saved(order) \in Seq(Agreeing(blinds))
         /\ \A order \in Orders(DOMAIN blinds) : BlindsSaved(order) \in Seq(Agreeing(blinds))
  <1>1. DirtyRemotes \subseteq DOMAIN remotes /\ DOMAIN remotes \subseteq RemoteIds
        /\ DOMAIN blinds \subseteq BlindIds /\ \A b \in DOMAIN blinds : blinds[b] \in OwnIds
    BY DEF DirtyRemotes, IInv, TypeOK
  <1>2. IsFiniteSet(DirtyRemotes) /\ IsFiniteSet(DOMAIN blinds)
    <2>1. DirtyRemotes \in SUBSET RemoteIds /\ DOMAIN blinds \in SUBSET BlindIds
      BY <1>1
    <2> QED BY <2>1, Numbers, FS_Subset
  <1>3. ASSUME NEW order \in Orders(DirtyRemotes) PROVE Saved(order) \in Seq(Agreeing(blinds))
    <2> DEFINE n == Cardinality(DirtyRemotes)
               S == Agreeing(blinds)
    <2>1. n \in Nat /\ DOMAIN order = 1 .. n /\ \A i \in DOMAIN order : order[i] \in DOMAIN remotes
      BY <1>1, <1>2, OrdersAre
    <2>2. \A r \in DOMAIN remotes : SaveRemoteConfig(remotes, r) \in S
      BY RemoteWrites DEF IInv
    <2> HIDE DEF n, S
    <2>3. Saved(order) \in [1 .. n -> S]
      BY <2>1, <2>2 DEF Saved
    <2>4. Saved(order) \in Seq(S)
      BY <2>1, <2>3
    <2> QED BY <2>4 DEF S
  <1>4. ASSUME NEW order \in Orders(DOMAIN blinds) PROVE BlindsSaved(order) \in Seq(Agreeing(blinds))
    <2> DEFINE n == Cardinality(DOMAIN blinds)
               S == Agreeing(blinds)
    <2>1. n \in Nat /\ DOMAIN order = 1 .. n /\ \A i \in DOMAIN order : order[i] \in DOMAIN blinds
      BY <1>2, OrdersAre
    <2>2. \A b \in DOMAIN blinds : Save(BlindKey(b), blinds[b]) \in S
      BY <1>1, BlindWrites
    <2> HIDE DEF n, S
    <2>3. BlindsSaved(order) \in [1 .. n -> S]
      BY <2>1, <2>2 DEF BlindsSaved
    <2>4. BlindsSaved(order) \in Seq(S)
      BY <2>1, <2>3
    <2> QED BY <2>4 DEF S
  <1> QED BY <1>3, <1>4

LEMMA AllCleanIs ==
  ASSUME IInv, AllClean
  PROVE  Typed(remotes)' /\ DOMAIN remotes' = DOMAIN remotes
  <1>1. Typed(remotes)
    BY DEF IInv
  <1>2. DOMAIN remotes' = DOMAIN remotes
    BY DEF AllClean
  <1>3. ASSUME NEW r \in DOMAIN remotes
        PROVE  /\ remotes'[r] \in [external : BOOLEAN, blinds : SUBSET BlindIds, dirty : BOOLEAN]
               /\ remotes'[r].external <=> r \in Importable
    <2> DEFINE rec == [remotes[r] EXCEPT !.dirty = FALSE]
    <2>1. /\ rec \in [external : BOOLEAN, blinds : SUBSET BlindIds, dirty : BOOLEAN]
          /\ rec.external = remotes[r].external
      BY <1>1 DEF Typed
    <2> HIDE DEF rec
    <2>2. remotes'[r] = rec
      BY Zenon DEF AllClean, rec
    <2>3. remotes[r].external <=> r \in Importable
      BY <1>1, Zenon DEF Typed
    <2> QED BY <2>1, <2>2, <2>3, Zenon
  <1> QED BY <1>1, <1>2, <1>3, Zenon DEF Typed

LEMMA SavingKeeps == IInv /\ (SaveRemoteState \/ SaveBlindState \/ Stop) => IInv'
  <1> SUFFICES ASSUME IInv, SaveRemoteState \/ SaveBlindState \/ Stop PROVE IInv'
    OBVIOUS
  <1>1. /\ writes = <<>> /\ BlindsStay /\ nextRemote' = nextRemote
        /\ AllClean \/ remotes' = remotes
        /\ mode' \in {mode, "stopping"}
    BY DEF SaveRemoteState, SaveBlindState, Stop, Idle, BlindsStay
  <1>2. writes' \in Seq(Agreeing(blinds))
    <2>1. CASE SaveRemoteState
      BY <2>1, SavesAre DEF SaveRemoteState
    <2>2. CASE SaveBlindState
      BY <2>2, SavesAre DEF SaveBlindState
    <2>3. CASE Stop
      BY <2>3, SavesAre, ConcatProperties DEF Stop
    <2> QED BY <2>1, <2>2, <2>3
  <1>3. Typed(remotes)' /\ DOMAIN remotes' = DOMAIN remotes
    BY <1>1, AllCleanIs DEF IInv, Typed
  <1>4. /\ nextRemote' \in BaseRemoteId + 1 .. BaseRemoteId + MaxOwn + 1
        /\ nextRemote <= nextRemote'
    BY <1>1, Numbers DEF IInv, TypeOK
  <1>5. \A b \in DOMAIN blinds : blinds[b] \in DOMAIN remotes'
    BY <1>3 DEF IInv, BlindsHaveRemotes
  <1>6. mode' \in {"up", "stopping", "crashed"}
    BY <1>1 DEF IInv, TypeOK
  <1> QED BY <1>1, <1>2, <1>3, <1>4, <1>5, <1>6, QuietStep

LEMMA AddBlindKeeps == IInv /\ AddBlind => IInv'
  <1> SUFFICES ASSUME IInv, AddBlind,
                      NEW r, r = nextRemote, NEW b, b = nextBlind
               PROVE  IInv'
    BY Zenon
  <1> DEFINE saved == With(remotes, r, Remote(FALSE, {}, FALSE))
  <1>1. /\ writes = <<>> /\ flash' = flash /\ mode' = mode /\ cuts' = cuts
        /\ r \in OwnIds /\ b \in BlindIds
        /\ remotes' = With(remotes, r, Remote(FALSE, {b}, TRUE))
        /\ nextRemote' = r + 1 /\ nextBlind' = b + 1
        /\ blinds' = With(blinds, b, r)
        /\ writes' = WritesOfNew(saved, r) \o RecordBeforeList(b, r)
    BY DEF AddBlind, Idle
  <1>2. /\ TypeOK /\ Typed(remotes) /\ BlindsHaveRemotes /\ OnePrimaryEach /\ NextIsNew
        /\ StoredDistinct
    BY DEF IInv
  <1>3. r \in RemoteIds \ Importable
    BY <1>1, KindsDiffer
  <1>4. Typed(remotes') /\ Typed(saved) /\ r \in DOMAIN saved
    <2>1. Typed(remotes')
      BY <1>1, <1>2, <1>3, WithTyped
    <2>2. Typed(saved) /\ r \in DOMAIN saved
      BY <1>2, <1>3, WithTyped
    <2> QED BY <2>1, <2>2
  <1>5. DOMAIN remotes' = DOMAIN remotes \cup {r}
    BY <1>1 DEF With
  <1>6. /\ DOMAIN blinds' = DOMAIN blinds \cup {b} /\ blinds'[b] = r
        /\ \A x \in DOMAIN blinds : x # b => blinds'[x] = blinds[x]
    BY <1>1 DEF With
  <1>7. /\ DOMAIN blinds \subseteq BlindIds
        /\ \A x \in DOMAIN blinds : /\ blinds[x] \in OwnIds /\ blinds[x] \in DOMAIN remotes
                                    /\ x # b /\ blinds[x] # r
    <2>1. \A x \in DOMAIN blinds : x < b /\ blinds[x] < r /\ x \in Int /\ blinds[x] \in Int
      <3>1. DOMAIN blinds \subseteq BlindIds /\ \A x \in DOMAIN blinds : blinds[x] \in OwnIds
        BY <1>2 DEF TypeOK
      <3>2. \A x \in DOMAIN blinds : x < b /\ blinds[x] < r
        BY <1>2 DEF NextIsNew
      <3>3. \A x \in DOMAIN blinds : x \in Nat /\ blinds[x] \in Nat
        BY <3>1, Numbers, Zenon
      <3> QED BY <3>2, <3>3
    <2>2. b \in Int /\ r \in Int
      BY <1>1, Numbers
    <2> QED BY <1>2, <2>1, <2>2 DEF TypeOK, BlindsHaveRemotes
  <1> DEFINE lists == RemoteLists(saved)
             first == SaveRemoteConfig(saved, r)
             record == Save(BlindKey(b), r)
             list == SaveBlindList(blinds')
             S == Agreeing(blinds')
  <1>8. /\ first \in S /\ first.key # BlindList
        /\ lists = <<lists[1], lists[2]>>
        /\ lists[1] \in S /\ lists[1].key # BlindList
        /\ lists[2] \in S /\ lists[2].key # BlindList
    BY <1>4, RemoteWrites
  <1>9. /\ record \in S /\ record.key # BlindList
        /\ list \in S /\ list.op = "save" /\ list.key = BlindList
    <2>1. DOMAIN blinds' \subseteq BlindIds /\ \A x \in DOMAIN blinds' : blinds'[x] \in OwnIds
      BY <1>1, <1>6, <1>7
    <2>2. record = Save(BlindKey(b), blinds'[b]) /\ b \in DOMAIN blinds'
      BY <1>6
    <2> HIDE DEF record, list, S
    <2> QED BY <2>1, <2>2, BlindWrites DEF list, S
  <1>10. /\ WritesOfNew(saved, r) = <<first>> \o lists
         /\ RecordBeforeList(b, r) = <<record, list>>
    BY <1>1 DEF WritesOfNew, RecordBeforeList
  <1> HIDE DEF first, lists, record, list, S, saved
  <1>11. /\ writes' \in Seq(S) /\ Len(writes') = 5
         /\ writes'[1] = first /\ writes'[2] = lists[1] /\ writes'[3] = lists[2]
         /\ writes'[4] = record /\ writes'[5] = list
    <2> DEFINE s1 == <<first>>
               s2 == <<lists[1], lists[2]>>
               s3 == <<record, list>>
               s12 == s1 \o s2
    <2>1. /\ s1 \in Seq(S) /\ Len(s1) = 1 /\ s1[1] = first
          /\ s2 \in Seq(S) /\ Len(s2) = 2 /\ s2[1] = lists[1] /\ s2[2] = lists[2]
          /\ s3 \in Seq(S) /\ Len(s3) = 2 /\ s3[1] = record /\ s3[2] = list
      BY <1>8, <1>9
    <2>2. writes' = s12 \o s3
      BY <1>1, <1>8, <1>10, Zenon
    <2> HIDE DEF s1, s2, s3
    <2>3. /\ s12 \in Seq(S) /\ Len(s12) = Len(s1) + Len(s2)
          /\ \A i \in 1 .. Len(s1) + Len(s2) :
               s12[i] = IF i <= Len(s1) THEN s1[i] ELSE s2[i - Len(s1)]
      BY <2>1, ConcatProperties
    <2>4. Len(s12) = 3 /\ s12[1] = first /\ s12[2] = lists[1] /\ s12[3] = lists[2]
      BY <2>1, <2>3
    <2> HIDE DEF s12
    <2>5. /\ s12 \o s3 \in Seq(S) /\ Len(s12 \o s3) = Len(s12) + Len(s3)
          /\ \A i \in 1 .. Len(s12) + Len(s3) :
               (s12 \o s3)[i] = IF i <= Len(s12) THEN s12[i] ELSE s3[i - Len(s12)]
      <3>1. s12 \in Seq(S) /\ s3 \in Seq(S)
        BY <2>1, <2>3
      <3> QED BY <3>1, ConcatProperties
    <2> QED BY <2>1, <2>2, <2>4, <2>5
  <1>12. writes' \in Seq(S)
    BY <1>11
  <1>13. /\ DOMAIN writes' = 1 .. 5
         /\ writes'[1].key # BlindList /\ writes'[2].key # BlindList
         /\ writes'[3].key # BlindList
         /\ writes'[4] = record /\ writes'[5] = list
    BY <1>8, <1>11, LenProperties
  <1>14. /\ Listed(BlindList) \subseteq DOMAIN blinds
         /\ \A x \in DOMAIN blinds : Matches(x)
    BY <1>1, IdleIs
  <1>15. /\ Listed(BlindList)' = Listed(BlindList)
         /\ \A x : Stored(BlindKey(x))' <=> Stored(BlindKey(x))
    BY <1>1 DEF Listed, Stored
  <1>16. TypeOK'
    <2>1. writes' \in Seq(Entries)
      BY <1>12, SeqMonotonic, S \subseteq Entries DEF Agreeing, S
    <2>2. /\ nextRemote' \in BaseRemoteId + 1 .. BaseRemoteId + MaxOwn + 1
          /\ nextBlind' \in 1 .. MaxBlinds + 1
      BY <1>1, Numbers DEF OwnIds, BlindIds
    <2> QED BY <1>1, <1>2, <1>4, <1>6, <1>7, <2>1, <2>2 DEF TypeOK, Typed
  <1>17. Typed(remotes)'
    BY <1>4 DEF Typed
  <1>18. BlindsHaveRemotes' /\ OnePrimaryEach'
    BY <1>2, <1>5, <1>6, <1>7 DEF BlindsHaveRemotes, OnePrimaryEach
  <1>19. NextIsNew'
    <2>1. b \in Int /\ r \in Int /\ nextBlind' = b + 1 /\ nextRemote' = r + 1
      BY <1>1, Numbers
    <2>2. \A x \in DOMAIN blinds : x < b /\ blinds[x] < r /\ x \in Int /\ blinds[x] \in Int
      <3>1. DOMAIN blinds \subseteq BlindIds /\ \A x \in DOMAIN blinds : blinds[x] \in OwnIds
        BY <1>2 DEF TypeOK
      <3>2. \A x \in DOMAIN blinds : x < b /\ blinds[x] < r
        BY <1>2 DEF NextIsNew
      <3>3. \A x \in DOMAIN blinds : x \in Nat /\ blinds[x] \in Nat
        BY <3>1, Numbers, Zenon
      <3> QED BY <3>2, <3>3
    <2>3. ASSUME NEW x \in DOMAIN blinds' PROVE x < nextBlind' /\ blinds'[x] < nextRemote'
      BY <1>6, <2>1, <2>2
    <2> QED BY <2>3 DEF NextIsNew
  <1>20. ListUpToDate'
    BY <1>9, <1>13 DEF ListUpToDate
  <1>21. RecordsMatch'
    <2>1. \A x \in DOMAIN blinds : Matches(x)'
      BY <1>1, <1>6, <1>7, <1>14, <1>15 DEF Matches
    <2>2. b \notin Listed(BlindList)'
      BY <1>7, <1>14, <1>15
    <2>3. Rewritten(b)'
      <3>1. 4 \in DOMAIN writes' /\ writes'[4] = Save(BlindKey(b), blinds'[b])
        BY <1>6, <1>13 DEF record
      <3>2. \A j \in 1 .. 4 : writes'[j].key # BlindList
        BY <1>9, <1>13
      <3> QED BY <3>1, <3>2, Zenon DEF Rewritten
    <2> QED BY <1>6, <2>1, <2>2, <2>3 DEF RecordsMatch
  <1>22. OrphansDiffer'
    BY <1>6, <1>14, <1>15 DEF OrphansDiffer
  <1>23. StoredDistinct'
    BY <1>1, <1>2, <1>15 DEF StoredDistinct
  <1> QED BY <1>12, <1>16, <1>17, <1>18, <1>19, <1>20, <1>21, <1>22, <1>23 DEF IInv, S

LEMMA DeleteBlindKeeps ==
  ASSUME IInv, NEW b \in BlindIds, DeleteBlind(b)
  PROVE  IInv'
  <1> DEFINE r == blinds[b]
  <1>1. /\ writes = <<>> /\ flash' = flash /\ mode' = mode /\ cuts' = cuts
        /\ nextRemote' = nextRemote /\ nextBlind' = nextBlind
        /\ b \in DOMAIN blinds
        /\ blinds' = Without(blinds, b) /\ remotes' = Without(remotes, r)
        /\ writes' = WritesOfRemoval(remotes', r) \o <<Clear(BlindKey(b)), SaveBlindList(blinds')>>
    BY DEF DeleteBlind, Idle, RemoteGoes
  <1>2. /\ TypeOK /\ Typed(remotes) /\ BlindsHaveRemotes /\ OnePrimaryEach /\ NextIsNew
        /\ StoredDistinct
    BY DEF IInv
  <1>3. /\ DOMAIN blinds' = DOMAIN blinds \ {b}
        /\ \A x \in DOMAIN blinds' : blinds'[x] = blinds[x]
    BY <1>1, WithoutIs
  <1>4. Typed(remotes') /\ DOMAIN remotes' = DOMAIN remotes \ {r}
    BY <1>1, <1>2, WithoutTyped, WithoutIs
  <1>5. /\ DOMAIN blinds' \subseteq BlindIds /\ \A x \in DOMAIN blinds' : blinds'[x] \in OwnIds
        /\ r \in RemoteIds
    BY <1>1, <1>2, <1>3, KindsDiffer DEF TypeOK
  <1> DEFINE S == Agreeing(blinds')
             gone == WritesOfRemoval(remotes', r)
             last == <<Clear(BlindKey(b)), SaveBlindList(blinds')>>
  <1>6. gone \in Seq(S)
    BY <1>4, <1>5, NewWrites
  <1>7. last \in Seq(S) /\ Len(last) = 2
        /\ last[2].op = "save" /\ last[2].key = BlindList
    <2>1. /\ Clear(BlindKey(b)) \in S /\ SaveBlindList(blinds') \in S
          /\ SaveBlindList(blinds').op = "save" /\ SaveBlindList(blinds').key = BlindList
      BY <1>5, BlindWrites
    <2> HIDE DEF S
    <2> QED BY <2>1
  <1>8. writes' = gone \o last
    BY <1>1
  <1> HIDE DEF S, gone, last
  <1>9. /\ writes' \in Seq(S)
        /\ \E i \in DOMAIN writes' : writes'[i].op = "save" /\ writes'[i].key = BlindList
    <2> DEFINE n == Len(gone)
    <2>1. n \in Nat
      BY <1>6, LenProperties
    <2>2. /\ gone \o last \in Seq(S) /\ Len(gone \o last) = n + 2
          /\ \A i \in 1 .. n + 2 : (gone \o last)[i] = IF i <= n THEN gone[i] ELSE last[i - n]
      <3>1. /\ gone \o last \in Seq(S) /\ Len(gone \o last) = Len(gone) + Len(last)
            /\ \A i \in 1 .. Len(gone) + Len(last) :
                 (gone \o last)[i] = IF i <= Len(gone) THEN gone[i] ELSE last[i - Len(gone)]
        BY <1>6, <1>7, ConcatProperties
      <3> QED BY <1>7, <3>1
    <2> HIDE DEF n
    <2>3. n + 2 \in 1 .. n + 2 /\ ~ (n + 2 <= n) /\ (n + 2) - n = 2
      BY <2>1
    <2>4. DOMAIN (gone \o last) = 1 .. n + 2 /\ (gone \o last)[n + 2] = last[2]
      BY <2>2, <2>3, LenProperties
    <2> QED BY <1>7, <1>8, <2>2, <2>3, <2>4
  <1>10. /\ Listed(BlindList) \subseteq DOMAIN blinds
         /\ \A x \in DOMAIN blinds : Matches(x)
    BY <1>1, IdleIs
  <1>11. /\ Listed(BlindList)' = Listed(BlindList)
         /\ \A x : Stored(BlindKey(x))' <=> Stored(BlindKey(x))
    BY <1>1 DEF Listed, Stored
  <1>12. TypeOK'
    <2>1. writes' \in Seq(Entries)
      BY <1>9, SeqMonotonic, S \subseteq Entries DEF Agreeing, S
    <2> QED BY <1>1, <1>2, <1>4, <1>5, <2>1 DEF TypeOK, Typed
  <1>13. Typed(remotes)'
    BY <1>4 DEF Typed
  <1>14. BlindsHaveRemotes' /\ OnePrimaryEach'
    BY <1>1, <1>2, <1>3, <1>4 DEF BlindsHaveRemotes, OnePrimaryEach
  <1>15. NextIsNew'
    BY <1>1, <1>2, <1>3 DEF NextIsNew
  <1>16. ListUpToDate'
    BY <1>9 DEF ListUpToDate
  <1>17. RecordsMatch'
    BY <1>1, <1>3, <1>10, <1>11 DEF RecordsMatch, Matches
  <1>18. OrphansDiffer'
    <2>1. \A x \in Listed(BlindList) \ DOMAIN blinds' : x = b
      BY <1>3, <1>10
    <2>2. Stored(BlindKey(b)) => flash[BlindKey(b)] = r
      BY <1>1, <1>10 DEF Matches
    <2>3. \A a \in DOMAIN blinds' : blinds'[a] # r
      BY <1>1, <1>2, <1>3 DEF OnePrimaryEach
    <2> QED BY <1>1, <1>11, <2>1, <2>2, <2>3 DEF OrphansDiffer
  <1>19. StoredDistinct'
    BY <1>1, <1>2, <1>11 DEF StoredDistinct
  <1> QED BY <1>9, <1>12, <1>13, <1>14, <1>15, <1>16, <1>17, <1>18, <1>19 DEF IInv, S

-----------------------------------------------------------------------------
LEMMA InvInit == Init => IInv
  <1> SUFFICES ASSUME Init PROVE IInv
    OBVIOUS
  <1>1. /\ DOMAIN flash = {} /\ DOMAIN remotes = {} /\ DOMAIN blinds = {}
    BY DEF Init
  <1>2. writes \in Seq(Entries) /\ writes \in Seq(Agreeing(blinds))
    BY EmptySeq DEF Init
  <1>3. /\ nextRemote \in BaseRemoteId + 1 .. BaseRemoteId + MaxOwn + 1
        /\ nextBlind \in 1 .. MaxBlinds + 1
    BY Numbers DEF Init
  <1>4. cuts \in 0 .. MaxCuts /\ mode \in {"up", "stopping", "crashed"}
    BY DeviceRegistryAssumption DEF Init
  <1>5. TypeOK
    BY <1>1, <1>2, <1>3, <1>4 DEF TypeOK
  <1>6. Typed(remotes) /\ BlindsHaveRemotes /\ OnePrimaryEach /\ NextIsNew
    BY <1>1 DEF Typed, BlindsHaveRemotes, OnePrimaryEach, NextIsNew
  <1>7. Listed(BlindList) = {}
    BY <1>1 DEF Listed, Stored
  <1>8. ListUpToDate /\ RecordsMatch /\ OrphansDiffer /\ StoredDistinct
    BY <1>1, <1>7 DEF ListUpToDate, RecordsMatch, OrphansDiffer, StoredDistinct
  <1> QED BY <1>2, <1>5, <1>6, <1>8 DEF IInv

LEMMA InvNext == IInv /\ [Next]_vars => IInv'
  <1> SUFFICES ASSUME IInv, [Next]_vars PROVE IInv'
    OBVIOUS
  <1>1. CASE SkipEqual \/ DeleteOld \/ WriteNew \/ ClearOld
    BY <1>1, SkipEqualKeeps, DeleteOldKeeps, WriteNewKeeps, ClearOldKeeps
  <1>2. CASE AddRemote \/ AddBlind
    BY <1>2, AddRemoteKeeps, AddBlindKeeps
  <1>3. CASE \E r \in Importable : ImportRemote(r)
    BY <1>3, ImportRemoteKeeps
  <1>4. CASE \E r \in RemoteIds \cup {RomWord} : DeleteRemote(r)
    BY <1>4, DeleteRemoteKeeps
  <1>5. CASE \E b \in BlindIds : DeleteBlind(b)
    BY <1>5, DeleteBlindKeeps
  <1>6. CASE \E r \in RemoteIds, b \in BlindIds : Bind(r, b) \/ Unbind(r, b)
    BY <1>6, BindsKeep
  <1>7. CASE \E r \in RemoteIds : UpdateRemote(r) \/ Press(r)
    BY <1>7, DirtyKeep
  <1>8. CASE SaveRemoteState \/ SaveBlindState \/ Stop
    BY <1>8, SavingKeeps
  <1>9. CASE Restart
    <2>1. Boot /\ cuts' \in 0 .. MaxCuts
      BY <1>9 DEF Restart, IInv, TypeOK
    <2> QED BY <2>1, BootKeeps
  <1>10. CASE PowerCut
    <2>1. Boot /\ cuts' \in 0 .. MaxCuts
      BY <1>10, DeviceRegistryAssumption DEF PowerCut, IInv, TypeOK
    <2> QED BY <2>1, BootKeeps
  <1>11. CASE UNCHANGED vars
    <2>1. /\ remotes' = remotes /\ blinds' = blinds /\ nextRemote' = nextRemote
          /\ nextBlind' = nextBlind /\ flash' = flash /\ writes' = writes
          /\ mode' = mode /\ cuts' = cuts
      BY <1>11 DEF vars
    <2>2. TypeOK' /\ Typed(remotes)' /\ BlindsHaveRemotes' /\ OnePrimaryEach' /\ NextIsNew'
      BY <2>1 DEF IInv, TypeOK, Typed, BlindsHaveRemotes, OnePrimaryEach, NextIsNew
    <2>3. Listed(BlindList)' = Listed(BlindList) /\ \A k : Stored(k)' <=> Stored(k)
      BY <2>1 DEF Listed, Stored
    <2>4. ListUpToDate' /\ RecordsMatch' /\ OrphansDiffer' /\ StoredDistinct'
      BY <2>1, <2>3 DEF IInv, ListUpToDate, RecordsMatch, Matches, Rewritten,
                        OrphansDiffer, StoredDistinct
    <2> QED BY <2>1, <2>2, <2>4 DEF IInv
  <1> QED BY <1>1, <1>2, <1>3, <1>4, <1>5, <1>6, <1>7, <1>8, <1>9, <1>10, <1>11 DEF Next

\* After any handlers, cuts and boots the tables and the records in flash are of
\* their types: a remote in the list of our own is one of ours, an imported one is not.
THEOREM TypeCorrect == Spec => []TypeOK
  <1>1. IInv => TypeOK
    BY DEF IInv
  <1> QED BY <1>1, InvInit, InvNext, PTL DEF Spec

\* Whatever is deleted, cut short and loaded again, the primary remote of a blind
\* is in the table (IsAPrimaryRemote, Blinds::Initialize).
THEOREM BlindsAlwaysHaveRemotes == Spec => []BlindsHaveRemotes
  <1>1. IInv => BlindsHaveRemotes
    BY DEF IInv
  <1> QED BY <1>1, InvInit, InvNext, PTL DEF Spec

\* Although ids are given out again, no boot finds two blinds with one primary
\* remote (CreateRemote, DoAddBlind, Blinds::Initialize).
THEOREM PrimariesNeverShared == Spec => []OnePrimaryEach
  <1>1. IInv => OnePrimaryEach
    BY DEF IInv
  <1> QED BY <1>1, InvInit, InvNext, PTL DEF Spec
-----------------------------------------------------------------------------
(* What flash will say when the handler has written everything: the second *)
(* invariant.                                                              *)

\* A record will have this value, or be missing, once the entries are done.
WillBe(records, entries, k, v) ==
  \/ Save(k, v) \in Range(entries)
  \/ /\ \A e \in Range(entries) : e.key # k
     /\ k \in DOMAIN records /\ records[k] = v

WillMiss(records, entries, k) ==
  \/ Clear(k) \in Range(entries)
  \/ (\A e \in Range(entries) : e.key # k) /\ k \notin DOMAIN records

\* A handler writes nothing twice, and the list of blinds last.
Orderly(entries) ==
  /\ \A i, j \in DOMAIN entries : entries[i].key = entries[j].key => i = j
  /\ \A i \in DOMAIN entries : entries[i].key = BlindList => i = Len(entries)

RemotesKept ==
  \A r \in DOMAIN remotes :
    \E v : /\ WillBe(flash, writes, RemoteKey(r), v)
           /\ ~ remotes[r].dirty => v.blinds = remotes[r].blinds

\* A list may name remotes that the boot has left out, for want of a record.
OwnKept ==
  \E L \in SUBSET (1 .. MaxOwn) :
    /\ \/ WillBe(flash, writes, OwnList, L)
       \/ L = {} /\ WillMiss(flash, writes, OwnList)
    /\ \A r \in DOMAIN remotes \cap OwnIds : LowHalf(r) \in L
    /\ \A low \in L : \/ BaseRemoteId + low \in DOMAIN remotes
                      \/ WillMiss(flash, writes, RemoteKey(BaseRemoteId + low))

ExternalKept ==
  \E L \in SUBSET Importable :
    /\ \/ WillBe(flash, writes, ExternalList, L)
       \/ L = {} /\ WillMiss(flash, writes, ExternalList)
    /\ DOMAIN remotes \cap Importable \subseteq L
    /\ \A r \in L : r \in DOMAIN remotes \/ WillMiss(flash, writes, RemoteKey(r))

BlindsKept == \A b \in DOMAIN blinds : WillBe(flash, writes, BlindKey(b), blinds[b])

BlindListKept ==
  \/ WillBe(flash, writes, BlindList, DOMAIN blinds)
  \/ DOMAIN blinds = {} /\ WillMiss(flash, writes, BlindList)

\* Until then a listed blind has all it needs, but for what is half written.
Complete(b) ==
  /\ Stored(BlindKey(b)) \/ HalfWritten(BlindKey(b))
  /\ Stored(RemoteKey(blinds[b])) \/ HalfWritten(RemoteKey(blinds[b]))
  /\ LowHalf(blinds[b]) \in Listed(OwnList) \/ HalfWritten(OwnList)

Settled ==
  /\ Orderly(writes)
  /\ RemotesKept /\ OwnKept /\ ExternalKept /\ BlindsKept /\ BlindListKept
  /\ \A b \in DOMAIN blinds \cap Listed(BlindList) : Complete(b)

LEMMA RemoteKeysDiffer ==
  \A r, s \in RemoteIds \cup {RomWord} : RemoteKey(r) = RemoteKey(s) => r = s
  BY LowHalvesDiffer DEF RemoteKey

LEMMA NothingToWrite ==
  /\ Range(<<>>) = {}
  /\ \A f, k, v : WillBe(f, <<>>, k, v) <=> k \in DOMAIN f /\ f[k] = v
  /\ \A f, k : WillMiss(f, <<>>, k) <=> k \notin DOMAIN f
  <1>1. Range(<<>>) = {}
    BY DEF Range
  <1> QED BY <1>1 DEF WillBe, WillMiss

\* An entry that clears a record is not one that saves it.
LEMMA SaveOrClear ==
  /\ \A j, k, v, u : Save(j, u) = Save(k, v) => j = k /\ u = v
  /\ \A j, k, v : Save(j, v) # Clear(k)
  /\ \A j, k : Clear(j) = Clear(k) => j = k
  BY EntriesAre
-----------------------------------------------------------------------------
(* The steps of a flash operation. *)

\* The first entry is done: what will be is what would have been.
LEMMA EntryDone ==
  ASSUME writes \in Seq(Entries), writes # <<>>, Orderly(writes), writes' = Tail(writes),
         NEW newFlash,
         \A k : k # Due.key =>
           /\ k \in DOMAIN newFlash <=> k \in DOMAIN flash
           /\ k \in DOMAIN flash => newFlash[k] = flash[k],
         \A v : Due = Save(Due.key, v) => Due.key \in DOMAIN newFlash /\ newFlash[Due.key] = v,
         Due = Clear(Due.key) => Due.key \notin DOMAIN newFlash
  PROVE  /\ Orderly(writes')
         /\ \A k, v : WillBe(flash, writes, k, v) => WillBe(newFlash, writes', k, v)
         /\ \A k : WillMiss(flash, writes, k) => WillMiss(newFlash, writes', k)
         /\ Due.key = BlindList => writes' = <<>>
  <1>1. /\ Due \in Entries /\ Due = writes[1] /\ 1 \in DOMAIN writes
        /\ writes' \in Seq(Entries)
        /\ \A i \in DOMAIN writes : i # 1 => i - 1 \in DOMAIN writes' /\ writes'[i - 1] = writes[i]
        /\ \A i \in DOMAIN writes' : i + 1 \in DOMAIN writes /\ writes'[i] = writes[i + 1]
        /\ DOMAIN writes \subseteq Nat \ {0} /\ DOMAIN writes' \subseteq Nat \ {0}
    BY DueIs, Zenon
  <1>2. /\ Len(writes) \in Nat \ {0} /\ Len(writes') = Len(writes) - 1
        /\ DOMAIN writes' = 1 .. Len(writes')
    <2>1. Len(writes) \in Nat \ {0} /\ Len(writes') = Len(writes) - 1
      BY EmptySeq, LenProperties, HeadTailProperties
    <2> QED BY <1>1, <2>1, LenProperties
  <1>3. Range(writes) = {Due} \cup Range(writes')
    <2>1. ASSUME NEW e \in Range(writes) PROVE e \in {Due} \cup Range(writes')
      <3>1. PICK i \in DOMAIN writes : e = writes[i]
        BY Zenon DEF Range
      <3>2. CASE i = 1
        BY <1>1, <3>1, <3>2, Zenon
      <3>3. CASE i # 1
        <4>1. PICK j \in DOMAIN writes' : e = writes'[j]
          BY <1>1, <3>1, <3>3, Zenon
        <4> QED BY <4>1, Zenon DEF Range
      <3> QED BY <3>2, <3>3
    <2>2. ASSUME NEW e \in Range(writes') PROVE e \in Range(writes)
      <3>1. PICK i \in DOMAIN writes' : e = writes'[i]
        BY Zenon DEF Range
      <3>2. i + 1 \in DOMAIN writes /\ e = writes[i + 1]
        BY <1>1, <3>1
      <3> QED BY <3>2, Zenon DEF Range
    <2>3. Due \in Range(writes)
      BY <1>1 DEF Range
    <2> QED BY <2>1, <2>2, <2>3
  <1>4. \A e \in Range(writes') : e.key # Due.key
    <2> SUFFICES ASSUME NEW i \in DOMAIN writes', writes'[i].key = Due.key PROVE FALSE
      BY DEF Range
    <2>1. i + 1 \in DOMAIN writes /\ writes[i + 1].key = writes[1].key /\ 1 \in DOMAIN writes
      BY <1>1
    <2>2. i + 1 = 1
      BY <2>1, Zenon DEF Orderly
    <2> QED BY <1>1, <2>2
  <1>5. Orderly(writes')
    <2>1. ASSUME NEW i \in DOMAIN writes', NEW j \in DOMAIN writes', writes'[i].key = writes'[j].key
          PROVE  i = j
      <3>1. /\ i + 1 \in DOMAIN writes /\ j + 1 \in DOMAIN writes
            /\ writes[i + 1].key = writes[j + 1].key
        BY <1>1, <2>1
      <3>2. i + 1 = j + 1
        BY <3>1, Zenon DEF Orderly
      <3> QED BY <1>1, <3>2
    <2>2. ASSUME NEW i \in DOMAIN writes', writes'[i].key = BlindList
          PROVE  i = Len(writes')
      <3>1. i + 1 = Len(writes)
        BY <1>1, <2>2, Zenon DEF Orderly
      <3> QED BY <1>1, <1>2, <3>1
    <2> QED BY <2>1, <2>2, Zenon DEF Orderly
  <1>6. Due = Clear(Due.key) \/ Due = Save(Due.key, Due.value)
    BY <1>1, EntriesAre
  <1>7. ASSUME NEW k, NEW v, WillBe(flash, writes, k, v)
        PROVE  WillBe(newFlash, writes', k, v)
    <2>1. CASE Save(k, v) \in Range(writes')
      BY <2>1 DEF WillBe
    <2>2. CASE Save(k, v) = Due
      <3>1. Due.key = k
        BY <2>2, EntriesAre
      <3> QED BY <1>4, <2>2, <3>1 DEF WillBe
    <2>3. CASE (\A e \in Range(writes) : e.key # k) /\ k \in DOMAIN flash /\ flash[k] = v
      BY <1>3, <2>3 DEF WillBe
    <2> QED BY <1>3, <1>7, <2>1, <2>2, <2>3, Zenon DEF WillBe
  <1>8. ASSUME NEW k, WillMiss(flash, writes, k)
        PROVE  WillMiss(newFlash, writes', k)
    <2>1. CASE Clear(k) \in Range(writes')
      BY <2>1 DEF WillMiss
    <2>2. CASE Clear(k) = Due
      <3>1. Due.key = k
        BY <2>2, EntriesAre
      <3> QED BY <1>4, <2>2, <3>1 DEF WillMiss
    <2>3. CASE (\A e \in Range(writes) : e.key # k) /\ k \notin DOMAIN flash
      BY <1>3, <2>3 DEF WillMiss
    <2> QED BY <1>3, <1>8, <2>1, <2>2, <2>3, Zenon DEF WillMiss
  <1>9. ASSUME Due.key = BlindList PROVE writes' = <<>>
    <2>1. Len(writes) = 1
      BY <1>1, <1>9, Zenon DEF Orderly
    <2> QED BY <1>1, <1>2, <2>1, EmptySeq
  <1> QED BY <1>5, <1>7, <1>8, <1>9

\* What is asked of the new tables is asked of the old ones.
LEMMA RecordsWritten ==
  ASSUME IInv, Settled, SkipEqual \/ DeleteOld \/ WriteNew \/ ClearOld
  PROVE  /\ Orderly(writes')
         /\ \A k, v : WillBe(flash, writes, k, v) => WillBe(flash', writes', k, v)
         /\ \A k : WillMiss(flash, writes, k) => WillMiss(flash', writes', k)
         /\ Due.key = BlindList => writes' = writes \/ writes' = <<>>
         /\ TablesStay
  <1>1. /\ writes \in Seq(Entries) /\ writes # <<>> /\ Orderly(writes) /\ TablesStay
        /\ Due \in Entries
    <2>1. writes # <<>> /\ TablesStay
      BY DEF SkipEqual, DeleteOld, WriteNew, ClearOld, Proceed, TablesStay
    <2>2. writes \in Seq(Entries) /\ Orderly(writes)
      BY DEF IInv, TypeOK, Settled
    <2> QED BY <2>1, <2>2, DueIs
  <1>2. CASE SkipEqual
    <2>1. /\ writes' = Tail(writes) /\ flash' = flash
          /\ Due.key \in DOMAIN flash /\ flash[Due.key] = Due.value /\ Due.op = "save"
      BY <1>2 DEF SkipEqual, Proceed, Stored
    <2>2. \A v : Due = Save(Due.key, v) => v = Due.value
      BY EntriesAre
    <2>3. Due # Clear(Due.key)
      BY <2>1, EntriesAre
    <2> QED BY <1>1, <2>1, <2>2, <2>3, EntryDone
  <1>3. CASE WriteNew
    <2>1. /\ writes' = Tail(writes) /\ flash' = With(flash, Due.key, Due.value) /\ Due.op = "save"
      BY <1>3 DEF WriteNew, Proceed
    <2>2. \A v : Due = Save(Due.key, v) => v = Due.value
      BY EntriesAre
    <2>3. Due # Clear(Due.key)
      BY <2>1, EntriesAre
    <2>4. /\ DOMAIN flash' = DOMAIN flash \cup {Due.key} /\ flash'[Due.key] = Due.value
          /\ \A k \in DOMAIN flash : k # Due.key => flash'[k] = flash[k]
      BY <2>1 DEF With
    <2> QED BY <1>1, <2>1, <2>2, <2>3, <2>4, EntryDone
  <1>4. CASE ClearOld
    <2>1. /\ writes' = Tail(writes) /\ flash' = Without(flash, Due.key) /\ Due.op = "clear"
      BY <1>4 DEF ClearOld, Proceed
    <2>2. \A v : Due # Save(Due.key, v)
      BY <2>1, EntriesAre
    <2>3. /\ DOMAIN flash' = DOMAIN flash \ {Due.key}
          /\ \A k \in DOMAIN flash : k # Due.key => flash'[k] = flash[k]
      BY <2>1, WithoutIs
    <2> QED BY <1>1, <2>1, <2>2, <2>3, EntryDone
  <1>5. CASE DeleteOld
    <2>1. writes' = writes /\ flash' = Without(flash, Due.key) /\ Due.op = "save"
      BY <1>5 DEF DeleteOld
    <2>2. /\ DOMAIN flash' = DOMAIN flash \ {Due.key}
          /\ \A k \in DOMAIN flash : k # Due.key => flash'[k] = flash[k]
      BY <2>1, WithoutIs
    <2>3. Due \in Range(writes)
      BY <1>1, DueIs DEF Range
    <2>4. \A k, v : WillBe(flash, writes, k, v) => WillBe(flash', writes', k, v)
      BY <2>1, <2>2, <2>3 DEF WillBe
    <2>5. \A k : WillMiss(flash, writes, k) => WillMiss(flash', writes', k)
      BY <2>1, <2>2 DEF WillMiss
    <2> QED BY <1>1, <2>1, <2>4, <2>5
  <1> QED BY <1>2, <1>3, <1>4, <1>5

\* A step that leaves the tables alone and all that will be as it is.
LEMMA TablesKept ==
  ASSUME Settled, TablesStay,
         \A k, v : WillBe(flash, writes, k, v) => WillBe(flash', writes', k, v),
         \A k : WillMiss(flash, writes, k) => WillMiss(flash', writes', k)
  PROVE  RemotesKept' /\ OwnKept' /\ ExternalKept' /\ BlindsKept' /\ BlindListKept'
  <1>1. /\ RemotesKept /\ OwnKept /\ ExternalKept /\ BlindsKept /\ BlindListKept
        /\ remotes' = remotes /\ blinds' = blinds
    BY DEF Settled, TablesStay
  <1>2. RemotesKept'
    <2> SUFFICES ASSUME NEW r \in DOMAIN remotes
                 PROVE  \E v : /\ WillBe(flash', writes', RemoteKey(r), v)
                               /\ ~ remotes[r].dirty => v.blinds = remotes[r].blinds
      BY <1>1, Zenon DEF RemotesKept
    <2> QED BY <1>1, Zenon DEF RemotesKept
  <1>3. OwnKept'
    <2>1. PICK L \in SUBSET (1 .. MaxOwn) :
            /\ \/ WillBe(flash, writes, OwnList, L)
               \/ L = {} /\ WillMiss(flash, writes, OwnList)
            /\ \A r \in DOMAIN remotes \cap OwnIds : LowHalf(r) \in L
            /\ \A low \in L : \/ BaseRemoteId + low \in DOMAIN remotes
                              \/ WillMiss(flash, writes, RemoteKey(BaseRemoteId + low))
      BY <1>1, Zenon DEF OwnKept
    <2>2. /\ \/ WillBe(flash', writes', OwnList, L)
             \/ L = {} /\ WillMiss(flash', writes', OwnList)
          /\ \A low \in L : \/ BaseRemoteId + low \in DOMAIN remotes
                            \/ WillMiss(flash', writes', RemoteKey(BaseRemoteId + low))
      BY <2>1, Zenon
    <2> QED BY <1>1, <2>1, <2>2, Zenon DEF OwnKept
  <1>4. ExternalKept'
    <2>1. PICK L \in SUBSET Importable :
            /\ \/ WillBe(flash, writes, ExternalList, L)
               \/ L = {} /\ WillMiss(flash, writes, ExternalList)
            /\ DOMAIN remotes \cap Importable \subseteq L
            /\ \A r \in L : r \in DOMAIN remotes \/ WillMiss(flash, writes, RemoteKey(r))
      BY <1>1, Zenon DEF ExternalKept
    <2>2. /\ \/ WillBe(flash', writes', ExternalList, L)
             \/ L = {} /\ WillMiss(flash', writes', ExternalList)
          /\ \A r \in L : r \in DOMAIN remotes \/ WillMiss(flash', writes', RemoteKey(r))
      BY <2>1, Zenon
    <2> QED BY <1>1, <2>1, <2>2, Zenon DEF ExternalKept
  <1>5. BlindsKept' /\ BlindListKept'
    BY <1>1, Zenon DEF BlindsKept, BlindListKept
  <1> QED BY <1>2, <1>3, <1>4, <1>5

\* No key of a blind that stays, nor of its remote, nor the list of remotes is
\* cleared, and what is not due is as it was.
LEMMA CompleteKept ==
  ASSUME IInv, Settled, SkipEqual \/ DeleteOld \/ WriteNew \/ ClearOld
  PROVE  \A b \in DOMAIN blinds' \cap Listed(BlindList)' : Complete(b)'
  <1>0. PICK d : d = Due.key
    OBVIOUS
  <1>1. /\ writes \in Seq(Entries) /\ writes # <<>> /\ Orderly(writes)
        /\ remotes' = remotes /\ blinds' = blinds
        /\ Due \in Range(writes)
    <2>1. writes # <<>> /\ remotes' = remotes /\ blinds' = blinds
      BY DEF SkipEqual, DeleteOld, WriteNew, ClearOld, Proceed
    <2>2. writes \in Seq(Entries) /\ Orderly(writes)
      BY DEF IInv, TypeOK, Settled
    <2> QED BY <2>1, <2>2, DueIs DEF Range
  <1>2. /\ \A k, v : WillBe(flash, writes, k, v) => WillBe(flash', writes', k, v)
        /\ RemotesKept' /\ OwnKept' /\ BlindsKept'
    BY RecordsWritten, TablesKept
  <1>3. \A b \in DOMAIN blinds :
          /\ blinds[b] \in OwnIds /\ blinds[b] \in DOMAIN remotes
          /\ LowHalf(blinds[b]) \in 1 .. MaxOwn
    BY LowHalfIs DEF IInv, TypeOK, BlindsHaveRemotes
  \* Nothing is left to write: the new tables say what flash has.
  <1>4. ASSUME writes' = <<>>, NEW b \in DOMAIN blinds PROVE Complete(b)'
    <2>1. Stored(BlindKey(b))'
      BY <1>1, <1>2, <1>4, NothingToWrite DEF BlindsKept, Stored
    <2>2. Stored(RemoteKey(blinds[b]))'
      BY <1>1, <1>2, <1>3, <1>4, NothingToWrite DEF RemotesKept, Stored
    <2>3. LowHalf(blinds[b]) \in Listed(OwnList)'
      <3>1. PICK L \in SUBSET (1 .. MaxOwn) :
              /\ \/ WillBe(flash', writes', OwnList, L)
                 \/ L = {} /\ WillMiss(flash', writes', OwnList)
              /\ \A r \in DOMAIN remotes' \cap OwnIds : LowHalf(r) \in L
        BY <1>2, Zenon DEF OwnKept
      <3>2. LowHalf(blinds[b]) \in L
        BY <1>1, <1>3, <3>1
      <3>3. WillBe(flash', <<>>, OwnList, L)
        BY <1>4, <3>1, <3>2
      <3>4. OwnList \in DOMAIN flash' /\ flash'[OwnList] = L
        BY <3>3, NothingToWrite
      <3> QED BY <3>2, <3>4 DEF Listed, Stored
    <2> QED BY <1>1, <2>1, <2>2, <2>3 DEF Complete
  \* All of a listed blind's keys that are not due are as they were.
  <1>5. /\ \A k : k # Due.key => ~ HalfWritten(k)
        /\ \A k : k # Due.key => (Stored(k)' <=> Stored(k))
        /\ Due.key # OwnList => Listed(OwnList)' = Listed(OwnList)
    <2>1. \A k : k # Due.key => /\ k \in DOMAIN flash' <=> k \in DOMAIN flash
                                /\ k \in DOMAIN flash => flash'[k] = flash[k]
      BY DEF SkipEqual, DeleteOld, WriteNew, ClearOld, With, Without, Restrict
    <2> QED BY <2>1 DEF HalfWritten, Listed, Stored
  <1>6. ASSUME Due.key # BlindList, NEW b \in DOMAIN blinds, Complete(b) PROVE Complete(b)'
    <2>1. CASE DeleteOld
      <3>1. writes' = writes /\ ~ Stored(d)'
        BY <1>0, <2>1 DEF DeleteOld, Without, Restrict, Stored
      <3>2. HalfWritten(d)'
        BY <1>0, <1>1, <3>1 DEF HalfWritten, Due
      <3>3. \A k : Stored(k) \/ HalfWritten(k) => Stored(k)' \/ HalfWritten(k)'
        BY <1>0, <1>5, <3>2
      <3>4. LowHalf(blinds[b]) \in Listed(OwnList)' \/ HalfWritten(OwnList)'
        BY <1>0, <1>5, <1>6, <3>2 DEF Complete
      <3> QED BY <1>1, <1>6, <3>3, <3>4 DEF Complete
    <2>2. CASE SkipEqual
      <3>1. flash' = flash /\ Stored(Due.key)
        BY <2>2 DEF SkipEqual
      <3>2. \A k : ~ HalfWritten(k)
        BY <1>5, <3>1 DEF HalfWritten
      <3>3. Listed(OwnList)' = Listed(OwnList) /\ \A k : Stored(k)' <=> Stored(k)
        BY <3>1 DEF Listed, Stored
      <3> QED BY <1>1, <1>6, <3>2, <3>3 DEF Complete
    <2>3. CASE WriteNew
      <3>1. /\ flash' = With(flash, Due.key, Due.value) /\ Due.op = "save"
            /\ Due = Save(Due.key, Due.value)
        <4>1. flash' = With(flash, Due.key, Due.value) /\ Due.op = "save"
          BY <2>3 DEF WriteNew
        <4>2. Due \in Entries
          BY <1>1, DueIs
        <4> QED BY <4>1, <4>2, EntriesAre
      <3>2. Stored(d)' /\ flash'[d] = Due.value
        BY <1>0, <3>1 DEF With, Stored
      <3>3. \A k : Stored(k) \/ HalfWritten(k) => Stored(k)'
        BY <1>0, <1>5, <3>2
      <3>4. LowHalf(blinds[b]) \in Listed(OwnList)'
        <4>1. CASE Due.key # OwnList
          BY <1>5, <1>6, <4>1 DEF Complete
        <4>2. CASE Due.key = OwnList
          <5>1. PICK L \in SUBSET (1 .. MaxOwn) :
                  /\ \/ WillBe(flash, writes, OwnList, L)
                     \/ L = {} /\ WillMiss(flash, writes, OwnList)
                  /\ \A r \in DOMAIN remotes \cap OwnIds : LowHalf(r) \in L
            BY Zenon DEF Settled, OwnKept
          <5>2. LowHalf(blinds[b]) \in L
            BY <1>3, <5>1
          <5>3. Save(OwnList, L) \in Range(writes)
            BY <1>1, <4>2, <5>1, <5>2 DEF WillBe
          <5>4. Save(OwnList, L) = Due
            <6>1. PICK i \in DOMAIN writes : Save(OwnList, L) = writes[i]
              BY <5>3, Zenon DEF Range
            <6>2. 1 \in DOMAIN writes /\ Due = writes[1]
              BY <1>1, DueIs
            <6>3. writes[i].key = writes[1].key
              BY <4>2, <6>1, <6>2, EntriesAre
            <6>4. i = 1
              BY <1>1, <6>2, <6>3, Zenon DEF Orderly
            <6> QED BY <6>1, <6>2, <6>4
          <5>5. Due.value = L
            BY <5>4, EntriesAre
          <5> QED BY <1>0, <3>2, <4>2, <5>2, <5>5 DEF Listed
        <4> QED BY <4>1, <4>2
      <3> QED BY <1>1, <1>6, <3>3, <3>4 DEF Complete
    <2>4. CASE ClearOld
      <3>1. Due = Clear(Due.key) /\ Due.op = "clear"
        <4>1. Due.op = "clear"
          BY <2>4 DEF ClearOld
        <4>2. Due \in Entries
          BY <1>1, DueIs
        <4> QED BY <4>1, <4>2, EntriesAre
      <3>2. ASSUME NEW k, NEW v, WillBe(flash, writes, k, v) PROVE k # Due.key
        <4> SUFFICES ASSUME k = Due.key PROVE FALSE
          OBVIOUS
        <4>1. Save(k, v) \in Range(writes)
          BY <1>1, <3>2 DEF WillBe
        <4>2. PICK i \in DOMAIN writes : Save(k, v) = writes[i]
          BY <4>1, Zenon DEF Range
        <4>3. 1 \in DOMAIN writes /\ Due = writes[1]
          BY <1>1, DueIs
        <4>4. writes[i].key = writes[1].key
          BY <4>2, <4>3, EntriesAre
        <4>5. i = 1
          BY <1>1, <4>3, <4>4, Zenon DEF Orderly
        <4> QED BY <3>1, <4>2, <4>3, <4>5, SaveOrClear
      <3>3. BlindKey(b) # Due.key
        BY <3>2 DEF Settled, BlindsKept
      <3>4. RemoteKey(blinds[b]) # Due.key
        BY <1>3, <3>2 DEF Settled, RemotesKept
      <3>5. OwnList # Due.key
        <4>1. PICK L \in SUBSET (1 .. MaxOwn) :
                /\ \/ WillBe(flash, writes, OwnList, L)
                   \/ L = {} /\ WillMiss(flash, writes, OwnList)
                /\ \A r \in DOMAIN remotes \cap OwnIds : LowHalf(r) \in L
          BY Zenon DEF Settled, OwnKept
        <4>2. LowHalf(blinds[b]) \in L
          BY <1>3, <4>1
        <4> QED BY <3>2, <4>1, <4>2
      <3> QED BY <1>1, <1>5, <1>6, <3>3, <3>4, <3>5 DEF Complete
    <2> QED BY <2>1, <2>2, <2>3, <2>4
  <1>7. CASE Due.key = BlindList /\ writes' = <<>>
    BY <1>1, <1>4, <1>7
  <1>8. CASE Due.key = BlindList /\ writes' = writes
    <2>1. DeleteOld
      <3>1. CASE SkipEqual
        BY <1>8, <3>1 DEF SkipEqual, Lists
      <3>2. CASE WriteNew \/ ClearOld
        <4>1. Len(writes') = Len(writes) - 1 /\ Len(writes) \in Nat
          BY <1>1, <3>2, HeadTailProperties, LenProperties DEF WriteNew, ClearOld, Proceed
        <4> QED BY <1>8, <4>1
      <3> QED BY <3>1, <3>2
    <2>2. Listed(BlindList)' = {}
      BY <1>8, <2>1 DEF DeleteOld, Without, Restrict, Listed, Stored
    <2> QED BY <2>2
  <1>9. CASE Due.key # BlindList
    <2>1. Listed(BlindList)' = Listed(BlindList)
      <3>1. \A k : k # Due.key => /\ k \in DOMAIN flash' <=> k \in DOMAIN flash
                                  /\ k \in DOMAIN flash => flash'[k] = flash[k]
        BY DEF SkipEqual, DeleteOld, WriteNew, ClearOld, With, Without, Restrict
      <3> QED BY <1>9, <3>1 DEF Listed, Stored
    <2> QED BY <1>1, <1>6, <1>9, <2>1 DEF Settled
  <1>10. Due.key = BlindList => writes' = writes \/ writes' = <<>>
    BY RecordsWritten
  <1> QED BY <1>7, <1>8, <1>9, <1>10

LEMMA FlashSettles ==
  ASSUME IInv, Settled, SkipEqual \/ DeleteOld \/ WriteNew \/ ClearOld
  PROVE  Settled'
  BY RecordsWritten, TablesKept, CompleteKept DEF Settled
-----------------------------------------------------------------------------
(* Boots and handlers: what they write, entry by entry. *)

LEMMA OneEntry ==
  ASSUME NEW a
  PROVE  Range(<<a>>) = {a} /\ Orderly(<<a>>)
  BY DEF Range, Orderly

LEMMA TwoEntries ==
  ASSUME NEW a, NEW b, a.key # b.key, a.key # BlindList
  PROVE  Range(<<a, b>>) = {a, b} /\ Orderly(<<a, b>>)
  <1>1. /\ DOMAIN <<a, b>> = {1, 2} /\ Len(<<a, b>>) = 2
        /\ <<a, b>>[1] = a /\ <<a, b>>[2] = b
    OBVIOUS
  <1>2. Range(<<a, b>>) = {a, b}
    BY <1>1 DEF Range
  <1>3. Orderly(<<a, b>>)
    BY <1>1 DEF Orderly
  <1> QED BY <1>2, <1>3

LEMMA MoreEntries ==
  ASSUME NEW S, NEW s \in Seq(S), NEW t \in Seq(S), Orderly(s), Orderly(t),
         \A e \in Range(s) : e.key # BlindList /\ \A f \in Range(t) : e.key # f.key
  PROVE  Range(s \o t) = Range(s) \cup Range(t) /\ Orderly(s \o t)
  <1> DEFINE u == s \o t
             m == Len(s)
             n == Len(t)
  <1>1. /\ m \in Nat /\ n \in Nat /\ DOMAIN s = 1 .. m /\ DOMAIN t = 1 .. n
        /\ Len(u) = m + n /\ DOMAIN u = 1 .. m + n
        /\ \A i \in 1 .. m + n : u[i] = IF i <= m THEN s[i] ELSE t[i - m]
    <2>1. /\ u \in Seq(S) /\ Len(u) = m + n
          /\ \A i \in 1 .. m + n : u[i] = IF i <= m THEN s[i] ELSE t[i - m]
      BY ConcatProperties
    <2> QED BY <2>1, LenProperties
  <1> HIDE DEF u, m, n
  <1>2. ASSUME NEW i \in DOMAIN u
        PROVE  \/ i \in DOMAIN s /\ u[i] = s[i]
               \/ i - m \in DOMAIN t /\ u[i] = t[i - m]
    <2>1. m \in Nat /\ n \in Nat /\ i \in 1 .. m + n
      BY <1>1
    <2>2. CASE i <= m
      <3>1. i \in 1 .. m
        BY <2>1, <2>2
      <3> QED BY <1>1, <2>1, <2>2, <3>1, Zenon
    <2>3. CASE ~ (i <= m)
      <3>1. i - m \in 1 .. n
        BY <2>1, <2>3
      <3> QED BY <1>1, <2>1, <2>3, <3>1, Zenon
    <2> QED BY <2>2, <2>3
  <1>3. /\ \A i \in DOMAIN s : i \in DOMAIN u /\ u[i] = s[i]
        /\ \A i \in DOMAIN t : i + m \in DOMAIN u /\ u[i + m] = t[i]
    <2>1. \A i \in DOMAIN s : i \in DOMAIN u /\ u[i] = s[i]
      BY <1>1
    <2>2. \A i \in DOMAIN t : i + m \in DOMAIN u /\ ~ (i + m <= m) /\ (i + m) - m = i
      BY <1>1
    <2> QED BY <1>1, <2>1, <2>2
  <1>4. Range(u) = Range(s) \cup Range(t)
    <2>1. ASSUME NEW i \in DOMAIN u PROVE u[i] \in Range(s) \cup Range(t)
      BY <1>2, Zenon DEF Range
    <2>2. ASSUME NEW i \in DOMAIN s PROVE s[i] \in Range(u)
      BY <1>3, Zenon DEF Range
    <2>3. ASSUME NEW i \in DOMAIN t PROVE t[i] \in Range(u)
      BY <1>3, Zenon DEF Range
    <2> QED BY <2>1, <2>2, <2>3 DEF Range
  <1>5. /\ \A i \in DOMAIN s, j \in DOMAIN t : s[i].key # t[j].key
        /\ \A i \in DOMAIN s : s[i].key # BlindList
    BY DEF Range
  <1>6. ASSUME NEW i \in DOMAIN u, NEW j \in DOMAIN u, u[i].key = u[j].key PROVE i = j
    <2>1. CASE i \in DOMAIN s /\ u[i] = s[i] /\ j \in DOMAIN s /\ u[j] = s[j]
      BY <1>6, <2>1, Zenon DEF Orderly
    <2>2. CASE i - m \in DOMAIN t /\ u[i] = t[i - m] /\ j - m \in DOMAIN t /\ u[j] = t[j - m]
      <3>1. i - m = j - m
        BY <1>6, <2>2, Zenon DEF Orderly
      <3> QED BY <1>1, <3>1
    <2> QED BY <1>2, <1>5, <1>6, <2>1, <2>2
  <1>7. ASSUME NEW i \in DOMAIN u, u[i].key = BlindList PROVE i = Len(u)
    <2>1. i - m \in DOMAIN t /\ t[i - m].key = BlindList
      BY <1>2, <1>5, <1>7
    <2>2. i - m = n
      BY <2>1, Zenon DEF Orderly, n
    <2> QED BY <1>1, <2>2
  <1>8. Orderly(u)
    BY <1>6, <1>7, Zenon DEF Orderly
  <1> QED BY <1>4, <1>8 DEF u

\* The entries of a list and of a record.
OwnEntry(table)      == Save(OwnList, {LowHalf(r) : r \in DOMAIN table \ Externals(table)})
ExternalEntry(table) == Save(ExternalList, Externals(table))

LEMMA ListEntries ==
  ASSUME NEW table
  PROVE  /\ RemoteLists(table) = <<OwnEntry(table), ExternalEntry(table)>>
         /\ Range(RemoteLists(table)) = {OwnEntry(table), ExternalEntry(table)}
         /\ Orderly(RemoteLists(table))
         /\ OwnEntry(table).key = OwnList /\ ExternalEntry(table).key = ExternalList
  <1>1. RemoteLists(table) = <<OwnEntry(table), ExternalEntry(table)>>
    BY DEF RemoteLists, OwnEntry, ExternalEntry
  <1>2. OwnEntry(table).key = OwnList /\ ExternalEntry(table).key = ExternalList
    BY EntriesAre DEF OwnEntry, ExternalEntry
  <1>3. OwnList # ExternalList /\ OwnList # BlindList
    BY KeysDiffer
  <1> QED BY <1>1, <1>2, <1>3, TwoEntries

\* A handler starts with nothing to write: the records of keys that it does not
\* write will be as they are.
LEMMA Untouched ==
  ASSUME NEW k, writes = <<>>, flash' = flash, \A e \in Range(writes') : e.key # k
  PROVE  /\ \A v : WillBe(flash, writes, k, v) => WillBe(flash', writes', k, v)
         /\ WillMiss(flash, writes, k) => WillMiss(flash', writes', k)
  BY NothingToWrite DEF WillBe, WillMiss

\* The lists are saved ...
LEMMA ListsWritten ==
  ASSUME Typed(remotes)', OwnEntry(remotes') \in Range(writes'),
         ExternalEntry(remotes') \in Range(writes')
  PROVE  OwnKept' /\ ExternalKept'
  <1>1. /\ Externals(remotes') = DOMAIN remotes' \cap Importable
        /\ DOMAIN remotes' \ Externals(remotes') = DOMAIN remotes' \cap OwnIds
    BY KindsDiffer DEF Externals, Typed
  <1>2. OwnKept'
    <2> DEFINE L == {LowHalf(r) : r \in DOMAIN remotes' \cap OwnIds}
    <2>1. WillBe(flash', writes', OwnList, L)
      BY <1>1 DEF WillBe, OwnEntry
    <2>2. \A r \in DOMAIN remotes' \cap OwnIds :
            LowHalf(r) \in 1 .. MaxOwn /\ BaseRemoteId + LowHalf(r) = r
      <3> TAKE r \in DOMAIN remotes' \cap OwnIds
      <3>1. LowHalf(r) = r - BaseRemoteId /\ LowHalf(r) \in 1 .. MaxOwn /\ r \in Nat
        BY LowHalfIs, Numbers
      <3> QED BY <3>1, Numbers
    <2>3. /\ L \in SUBSET (1 .. MaxOwn)
          /\ \A r \in DOMAIN remotes' \cap OwnIds : LowHalf(r) \in L
          /\ \A low \in L : BaseRemoteId + low \in DOMAIN remotes'
      BY <2>2
    <2> HIDE DEF L
    <2> QED BY <2>1, <2>3, Zenon DEF OwnKept
  <1>3. ExternalKept'
    <2>1. WillBe(flash', writes', ExternalList, DOMAIN remotes' \cap Importable)
      BY <1>1 DEF WillBe, ExternalEntry
    <2> DEFINE L == DOMAIN remotes' \cap Importable
    <2>2. L \in SUBSET Importable /\ \A r \in L : r \in DOMAIN remotes'
      OBVIOUS
    <2>3. DOMAIN remotes' \cap Importable \subseteq L
      OBVIOUS
    <2>4. WillBe(flash', writes', ExternalList, L)
      BY <2>1
    <2> HIDE DEF L
    <2> QED BY <2>2, <2>3, <2>4, Zenon DEF ExternalKept
  <1> QED BY <1>2, <1>3

\* ... or they stay, with the remotes.
LEMMA ListsStay ==
  ASSUME Settled, writes = <<>>, flash' = flash, DOMAIN remotes' = DOMAIN remotes,
         \A e \in Range(writes') :
           /\ e.key # OwnList /\ e.key # ExternalList
           /\ \A r \in RemoteIds : e.key = RemoteKey(r) => r \in DOMAIN remotes
  PROVE  OwnKept' /\ ExternalKept'
  <1>1. \A k, v : (\A e \in Range(writes') : e.key # k) =>
          /\ WillBe(flash, writes, k, v) => WillBe(flash', writes', k, v)
          /\ WillMiss(flash, writes, k) => WillMiss(flash', writes', k)
    BY Untouched
  <1>2. ASSUME NEW r \in RemoteIds, r \notin DOMAIN remotes, WillMiss(flash, writes, RemoteKey(r))
        PROVE  WillMiss(flash', writes', RemoteKey(r))
    BY <1>1, <1>2, Zenon
  <1>3. OwnKept'
    <2>1. PICK L \in SUBSET (1 .. MaxOwn) :
            /\ \/ WillBe(flash, writes, OwnList, L)
               \/ L = {} /\ WillMiss(flash, writes, OwnList)
            /\ \A r \in DOMAIN remotes \cap OwnIds : LowHalf(r) \in L
            /\ \A low \in L : \/ BaseRemoteId + low \in DOMAIN remotes
                              \/ WillMiss(flash, writes, RemoteKey(BaseRemoteId + low))
      BY Zenon DEF Settled, OwnKept
    <2>2. \/ WillBe(flash', writes', OwnList, L)
          \/ L = {} /\ WillMiss(flash', writes', OwnList)
      BY <1>1, <2>1
    <2>3. \A low \in L : BaseRemoteId + low \in RemoteIds
      BY Numbers, KindsDiffer DEF OwnIds
    <2>4. \A low \in L : \/ BaseRemoteId + low \in DOMAIN remotes'
                         \/ WillMiss(flash', writes', RemoteKey(BaseRemoteId + low))
      BY <1>2, <2>1, <2>3
    <2> QED BY <2>1, <2>2, <2>4 DEF OwnKept
  <1>4. ExternalKept'
    <2>1. PICK L \in SUBSET Importable :
            /\ \/ WillBe(flash, writes, ExternalList, L)
               \/ L = {} /\ WillMiss(flash, writes, ExternalList)
            /\ DOMAIN remotes \cap Importable \subseteq L
            /\ \A r \in L : r \in DOMAIN remotes \/ WillMiss(flash, writes, RemoteKey(r))
      BY Zenon DEF Settled, ExternalKept
    <2>2. \/ WillBe(flash', writes', ExternalList, L)
          \/ L = {} /\ WillMiss(flash', writes', ExternalList)
      BY <1>1, <2>1
    <2>3. \A r \in L : r \in DOMAIN remotes' \/ WillMiss(flash', writes', RemoteKey(r))
      BY <1>2, <2>1, KindsDiffer
    <2> QED BY <2>1, <2>2, <2>3 DEF ExternalKept
  <1> QED BY <1>3, <1>4

\* The record of each remote is saved, or stays with the remote.
LEMMA RemotesRule ==
  ASSUME Settled, writes = <<>>, flash' = flash,
         \A r \in DOMAIN remotes' :
           \/ \E v : /\ Save(RemoteKey(r), v) \in Range(writes')
                     /\ ~ remotes'[r].dirty => v.blinds = remotes'[r].blinds
           \/ /\ r \in DOMAIN remotes
              /\ \A e \in Range(writes') : e.key # RemoteKey(r)
              /\ ~ remotes'[r].dirty =>
                   ~ remotes[r].dirty /\ remotes'[r].blinds = remotes[r].blinds
  PROVE  RemotesKept'
  <1> SUFFICES ASSUME NEW r \in DOMAIN remotes'
               PROVE  \E v : /\ WillBe(flash', writes', RemoteKey(r), v)
                             /\ ~ remotes'[r].dirty => v.blinds = remotes'[r].blinds
    BY Zenon DEF RemotesKept
  <1>1. CASE \E v : /\ Save(RemoteKey(r), v) \in Range(writes')
                    /\ ~ remotes'[r].dirty => v.blinds = remotes'[r].blinds
    BY <1>1, Zenon DEF WillBe
  <1>2. CASE /\ r \in DOMAIN remotes
             /\ \A e \in Range(writes') : e.key # RemoteKey(r)
             /\ ~ remotes'[r].dirty =>
                  ~ remotes[r].dirty /\ remotes'[r].blinds = remotes[r].blinds
    <2>1. PICK v : /\ WillBe(flash, writes, RemoteKey(r), v)
                   /\ ~ remotes[r].dirty => v.blinds = remotes[r].blinds
      BY <1>2, Zenon DEF Settled, RemotesKept
    <2>2. WillBe(flash', writes', RemoteKey(r), v)
      BY <1>2, <2>1, Untouched
    <2> QED BY <1>2, <2>1, <2>2, Zenon
  <1> QED BY <1>1, <1>2, Zenon

\* Records of blinds are saved as the table has them, or stay with the blinds.
LEMMA BlindsRule ==
  ASSUME Settled, writes = <<>>, flash' = flash,
         \A b \in DOMAIN blinds' :
           \/ Save(BlindKey(b), blinds'[b]) \in Range(writes')
           \/ /\ b \in DOMAIN blinds /\ blinds'[b] = blinds[b]
              /\ \A e \in Range(writes') : e.key # BlindKey(b),
         \/ SaveBlindList(blinds') \in Range(writes')
         \/ DOMAIN blinds' = DOMAIN blinds /\ \A e \in Range(writes') : e.key # BlindList
  PROVE  BlindsKept' /\ BlindListKept'
  <1>1. ASSUME NEW b \in DOMAIN blinds' PROVE WillBe(flash', writes', BlindKey(b), blinds'[b])
    <2>1. CASE Save(BlindKey(b), blinds'[b]) \in Range(writes')
      BY <2>1 DEF WillBe
    <2>2. CASE /\ b \in DOMAIN blinds /\ blinds'[b] = blinds[b]
               /\ \A e \in Range(writes') : e.key # BlindKey(b)
      <3>1. WillBe(flash, writes, BlindKey(b), blinds[b])
        BY <2>2, Zenon DEF Settled, BlindsKept
      <3> QED BY <2>2, <3>1, Untouched
    <2> QED BY <2>1, <2>2
  <1>2. BlindListKept'
    <2>1. CASE SaveBlindList(blinds') \in Range(writes')
      BY <2>1 DEF BlindListKept, WillBe, SaveBlindList
    <2>2. CASE DOMAIN blinds' = DOMAIN blinds /\ \A e \in Range(writes') : e.key # BlindList
      BY <2>2, Untouched DEF Settled, BlindListKept
    <2> QED BY <2>1, <2>2
  <1> QED BY <1>1, <1>2, Zenon DEF BlindsKept

\* What is listed is complete as long as no handler has begun to write.
LEMMA CompleteBefore ==
  ASSUME Settled, writes = <<>>, flash' = flash,
         \A b \in DOMAIN blinds' : b \in Listed(BlindList) =>
           b \in DOMAIN blinds /\ blinds'[b] = blinds[b]
  PROVE  \A b \in DOMAIN blinds' \cap Listed(BlindList)' : Complete(b)'
  <1>1. \A k : ~ HalfWritten(k)
    BY DEF HalfWritten
  <1>2. /\ \A k : Stored(k)' <=> Stored(k)
        /\ Listed(OwnList)' = Listed(OwnList) /\ Listed(BlindList)' = Listed(BlindList)
    BY DEF Stored, Listed
  <1>3. ASSUME NEW b \in DOMAIN blinds' \cap Listed(BlindList)
        PROVE  Complete(b)'
    <2>1. b \in DOMAIN blinds \cap Listed(BlindList) /\ blinds'[b] = blinds[b]
      BY <1>3
    <2>2. Complete(b)
      BY <2>1, Zenon DEF Settled
    <2> QED BY <1>1, <1>2, <2>1, <2>2 DEF Complete
  <1> QED BY <1>2, <1>3

LEMMA NewEntries ==
  ASSUME NEW table, NEW r
  PROVE  /\ Range(WritesOfNew(table, r))
              = {SaveRemoteConfig(table, r), OwnEntry(table), ExternalEntry(table)}
         /\ Orderly(WritesOfNew(table, r))
         /\ \A e \in Range(WritesOfNew(table, r)) :
              e.key \in {RemoteKey(r), OwnList, ExternalList}
         /\ Range(WritesOfRemoval(table, r))
              = {Clear(RemoteKey(r)), OwnEntry(table), ExternalEntry(table)}
         /\ Orderly(WritesOfRemoval(table, r))
         /\ \A e \in Range(WritesOfRemoval(table, r)) :
              e.key \in {RemoteKey(r), OwnList, ExternalList}
  <1> DEFINE lists == RemoteLists(table)
  <1>1. /\ lists = <<OwnEntry(table), ExternalEntry(table)>>
        /\ Range(lists) = {OwnEntry(table), ExternalEntry(table)} /\ Orderly(lists)
        /\ OwnEntry(table).key = OwnList /\ ExternalEntry(table).key = ExternalList
    BY ListEntries
  <1>2. /\ RemoteKey(r) # OwnList /\ RemoteKey(r) # ExternalList /\ RemoteKey(r) # BlindList
        /\ OwnList # BlindList /\ ExternalList # BlindList
    BY KeysDiffer DEF Lists
  <1>3. SaveRemoteConfig(table, r).key = RemoteKey(r) /\ Clear(RemoteKey(r)).key = RemoteKey(r)
    BY EntriesAre DEF SaveRemoteConfig
  <1> HIDE DEF lists
  <1>4. ASSUME NEW e, e.key = RemoteKey(r)
        PROVE  /\ Range(<<e>> \o lists) = {e, OwnEntry(table), ExternalEntry(table)}
               /\ Orderly(<<e>> \o lists)
    <2> DEFINE S == {e, OwnEntry(table), ExternalEntry(table)}
    <2>1. <<e>> \in Seq(S) /\ lists \in Seq(S)
      <3>1. e \in S /\ OwnEntry(table) \in S /\ ExternalEntry(table) \in S
        OBVIOUS
      <3> HIDE DEF S
      <3>2. <<e>> \in Seq(S) /\ <<OwnEntry(table), ExternalEntry(table)>> \in Seq(S)
        BY <3>1
      <3> QED BY <1>1, <3>2, Zenon
    <2>2. Range(<<e>>) = {e} /\ Orderly(<<e>>)
      BY OneEntry
    <2>3. \A x \in Range(<<e>>) : x.key # BlindList /\ \A f \in Range(lists) : x.key # f.key
      BY <1>1, <1>2, <1>4, <2>2
    <2> HIDE DEF S
    <2>4. Range(<<e>> \o lists) = Range(<<e>>) \cup Range(lists) /\ Orderly(<<e>> \o lists)
      <3>1. PICK s \in Seq(S) : s = <<e>>
        BY <2>1
      <3>2. PICK t \in Seq(S) : t = lists
        BY <2>1
      <3>3. /\ Orderly(s) /\ Orderly(t)
            /\ \A x \in Range(s) : x.key # BlindList /\ \A f \in Range(t) : x.key # f.key
        BY <1>1, <2>2, <2>3, <3>1, <3>2, Zenon
      <3>4. Range(s \o t) = Range(s) \cup Range(t) /\ Orderly(s \o t)
        BY <3>3, MoreEntries, Zenon
      <3> QED BY <3>1, <3>2, <3>4, Zenon
    <2> QED BY <1>1, <2>2, <2>4
  <1>5. /\ WritesOfNew(table, r) = <<SaveRemoteConfig(table, r)>> \o lists
        /\ WritesOfRemoval(table, r) = <<Clear(RemoteKey(r))>> \o lists
    BY DEF WritesOfNew, WritesOfRemoval, lists
  <1>6. /\ Range(WritesOfNew(table, r))
             = {SaveRemoteConfig(table, r), OwnEntry(table), ExternalEntry(table)}
        /\ Orderly(WritesOfNew(table, r))
    BY <1>3, <1>4, <1>5
  <1>7. /\ Range(WritesOfRemoval(table, r))
             = {Clear(RemoteKey(r)), OwnEntry(table), ExternalEntry(table)}
        /\ Orderly(WritesOfRemoval(table, r))
    BY <1>3, <1>4, <1>5
  <1> QED BY <1>1, <1>3, <1>6, <1>7

\* A remote that is made or imported.
LEMMA NewSettles ==
  ASSUME IInv, Settled, writes = <<>>, flash' = flash, blinds' = blinds, Typed(remotes)',
         NEW r \in RemoteIds, NEW external,
         remotes' = With(remotes, r, Remote(external, {}, FALSE)),
         writes' = WritesOfNew(remotes', r)
  PROVE  Settled'
  <1>1. /\ Range(writes')
             = {SaveRemoteConfig(remotes', r), OwnEntry(remotes'), ExternalEntry(remotes')}
        /\ Orderly(writes')
        /\ \A e \in Range(writes') : e.key \in {RemoteKey(r), OwnList, ExternalList}
    BY NewEntries
  <1>2. OwnKept' /\ ExternalKept'
    BY <1>1, ListsWritten
  <1>3. /\ DOMAIN remotes' = DOMAIN remotes \cup {r}
        /\ \A x \in DOMAIN remotes : x # r => remotes'[x] = remotes[x]
    BY DEF With
  <1>4. /\ \A x : RemoteKey(x) # OwnList /\ RemoteKey(x) # ExternalList
        /\ \A b : /\ BlindKey(b) # RemoteKey(r)
                  /\ BlindKey(b) # OwnList /\ BlindKey(b) # ExternalList
        /\ BlindList \notin {RemoteKey(r), OwnList, ExternalList}
    BY KeysDiffer DEF Lists
  <1>5. RemotesKept'
    <2>1. ASSUME NEW x \in DOMAIN remotes', x = r
          PROVE  \E v : /\ Save(RemoteKey(x), v) \in Range(writes')
                        /\ v.blinds = remotes'[x].blinds
      <3> DEFINE v == [remoteId |-> r, blinds |-> remotes'[r].blinds]
      <3>1. Save(RemoteKey(x), v) \in Range(writes') /\ v.blinds = remotes'[x].blinds
        BY <1>1, <2>1 DEF SaveRemoteConfig
      <3> QED BY <3>1, Zenon
    <2>2. ASSUME NEW x \in DOMAIN remotes', x # r
          PROVE  /\ x \in DOMAIN remotes /\ remotes'[x] = remotes[x]
                 /\ \A e \in Range(writes') : e.key # RemoteKey(x)
      <3>1. x \in RemoteIds
        BY <2>2 DEF Typed
      <3>2. RemoteKey(x) # RemoteKey(r)
        BY <2>2, <3>1, RemoteKeysDiffer
      <3> QED BY <1>1, <1>3, <1>4, <2>2, <3>2
    <2> QED BY <2>1, <2>2, RemotesRule
  <1>6. BlindsKept' /\ BlindListKept'
    BY <1>1, <1>4, BlindsRule
  <1>7. \A b \in DOMAIN blinds' \cap Listed(BlindList)' : Complete(b)'
    BY CompleteBefore
  <1> QED BY <1>1, <1>2, <1>5, <1>6, <1>7 DEF Settled

LEMMA AddRemoteSettles ==
  ASSUME IInv, IInv', Settled, AddRemote PROVE Settled'
  <1>1. /\ writes = <<>> /\ flash' = flash /\ blinds' = blinds
        /\ nextRemote \in OwnIds
        /\ remotes' = With(remotes, nextRemote, Remote(FALSE, {}, FALSE))
        /\ writes' = WritesOfNew(remotes', nextRemote)
    BY DEF AddRemote, Idle
  <1>2. nextRemote \in RemoteIds /\ Typed(remotes)'
    BY <1>1, KindsDiffer DEF IInv
  <1> QED BY <1>1, <1>2, NewSettles

LEMMA ImportRemoteSettles ==
  ASSUME IInv, IInv', Settled, NEW r \in Importable, ImportRemote(r) PROVE Settled'
  <1>1. /\ writes = <<>> /\ flash' = flash /\ blinds' = blinds
        /\ remotes' = With(remotes, r, Remote(TRUE, {}, FALSE))
        /\ writes' = WritesOfNew(remotes', r)
    BY DEF ImportRemote, Idle
  <1>2. r \in RemoteIds /\ Typed(remotes)'
    BY KindsDiffer DEF IInv
  <1> QED BY <1>1, <1>2, NewSettles

\* The records of the remotes that stay are left alone.
LEMMA OthersStay ==
  ASSUME Settled, Typed(remotes), writes = <<>>, flash' = flash,
         NEW r \in RemoteIds \cup {RomWord}, remotes' = Without(remotes, r),
         \A e \in Range(writes') : \A x : e.key = RemoteKey(x) => e.key = RemoteKey(r)
  PROVE  RemotesKept'
  <1>1. /\ DOMAIN remotes' = DOMAIN remotes \ {r}
        /\ \A x \in DOMAIN remotes' : remotes'[x] = remotes[x]
    <2>1. /\ DOMAIN Without(remotes, r) = DOMAIN remotes \ {r}
          /\ \A x \in DOMAIN remotes : x # r => Without(remotes, r)[x] = remotes[x]
      BY WithoutIs, Zenon
    <2> QED BY <2>1, Zenon
  <1>2. ASSUME NEW x \in DOMAIN remotes', NEW e \in Range(writes') PROVE e.key # RemoteKey(x)
    <2>1. x \in RemoteIds /\ x # r
      BY <1>1 DEF Typed
    <2>2. RemoteKey(x) # RemoteKey(r)
      BY <2>1, RemoteKeysDiffer
    <2> QED BY <2>2
  <1> QED BY <1>1, <1>2, RemotesRule

LEMMA DeleteRemoteSettles ==
  ASSUME IInv, IInv', Settled, NEW r \in RemoteIds \cup {RomWord}, DeleteRemote(r)
  PROVE  Settled'
  <1>1. /\ writes = <<>> /\ flash' = flash /\ blinds' = blinds
        /\ remotes' = Without(remotes, r)
        /\ writes' = WritesOfRemoval(remotes', r)
    BY DEF DeleteRemote, Idle, RemoteGoes
  <1>2. /\ Range(writes') = {Clear(RemoteKey(r)), OwnEntry(remotes'), ExternalEntry(remotes')}
        /\ Orderly(writes')
        /\ \A e \in Range(writes') : e.key \in {RemoteKey(r), OwnList, ExternalList}
    BY <1>1, NewEntries
  <1>3. OwnKept' /\ ExternalKept'
    BY <1>2, ListsWritten DEF IInv
  <1>4. /\ \A x : RemoteKey(x) # OwnList /\ RemoteKey(x) # ExternalList
        /\ \A b : /\ BlindKey(b) # RemoteKey(r)
                  /\ BlindKey(b) # OwnList /\ BlindKey(b) # ExternalList
        /\ BlindList \notin {RemoteKey(r), OwnList, ExternalList}
    BY KeysDiffer DEF Lists
  <1>5. RemotesKept'
    <2>1. \A e \in Range(writes') : \A x : e.key = RemoteKey(x) => e.key = RemoteKey(r)
      BY <1>2, <1>4
    <2>2. Typed(remotes)
      BY DEF IInv
    <2> QED BY <1>1, <2>1, <2>2, OthersStay
  <1>6. BlindsKept' /\ BlindListKept'
    BY <1>1, <1>2, <1>4, BlindsRule
  <1>7. \A b \in DOMAIN blinds' \cap Listed(BlindList)' : Complete(b)'
    BY <1>1, CompleteBefore
  <1> QED BY <1>2, <1>3, <1>5, <1>6, <1>7 DEF Settled

\* A binding, a new name or a press marks the remote and writes nothing.
LEMMA MarkingSettles ==
  ASSUME IInv, Settled, NEW r \in RemoteIds, NEW b,
         Bind(r, b) \/ Unbind(r, b) \/ UpdateRemote(r) \/ Press(r)
  PROVE  Settled'
  <1>1. /\ writes = <<>> /\ writes' = writes /\ flash' = flash /\ blinds' = blinds
        /\ r \in DOMAIN remotes /\ DOMAIN remotes' = DOMAIN remotes
        /\ \A x \in DOMAIN remotes : x # r => remotes'[x] = remotes[x]
    BY DEF Bind, Unbind, UpdateRemote, Press, Idle
  <1>2. remotes'[r].dirty
    <2>1. CASE Bind(r, b)
      BY <1>1, <2>1 DEF Bind, Bound, Remote
    <2>2. CASE Unbind(r, b)
      BY <1>1, <2>2 DEF Unbind, Bound, Remote
    <2>3. CASE UpdateRemote(r) \/ Press(r)
      <3>1. remotes[r] \in [external : BOOLEAN, blinds : SUBSET BlindIds, dirty : BOOLEAN]
        BY <1>1 DEF IInv, Typed
      <3>2. remotes'[r] = [remotes[r] EXCEPT !.dirty = TRUE]
        BY <1>1, <2>3 DEF UpdateRemote, Press
      <3> QED BY <3>1, <3>2
    <2> QED BY <2>1, <2>2, <2>3
  <1>3. Range(writes') = {}
    BY <1>1, NothingToWrite
  <1>4. RemotesKept'
    BY <1>1, <1>2, <1>3, RemotesRule
  <1>5. OwnKept' /\ ExternalKept'
    BY <1>1, <1>3, ListsStay
  <1>6. BlindsKept' /\ BlindListKept'
    BY <1>1, <1>3, BlindsRule
  <1>7. \A x \in DOMAIN blinds' \cap Listed(BlindList)' : Complete(x)'
    BY <1>1, CompleteBefore
  <1>8. Orderly(writes')
    BY <1>1 DEF Settled
  <1> QED BY <1>4, <1>5, <1>6, <1>7, <1>8 DEF Settled

\* A map is visited once, and wholly.
LEMMA OrderVisitsAll ==
  ASSUME NEW S \in SUBSET Nat, IsFiniteSet(S), NEW order \in Orders(S)
  PROVE  /\ \A i, j \in DOMAIN order : order[i] = order[j] => i = j
         /\ \A i \in DOMAIN order : order[i] \in S
         /\ \A x \in S : \E i \in DOMAIN order : order[i] = x
  <1> DEFINE n == Cardinality(S)
  <1>1. /\ n \in Nat /\ DOMAIN order = 1 .. n /\ order \in [1 .. n -> S]
        /\ \A i, j \in 1 .. n : i < j => order[i] < order[j]
    BY FS_CardinalityType DEF Orders
  <1> HIDE DEF n
  <1>2. \A i, j \in DOMAIN order : order[i] = order[j] => i = j
    <2> SUFFICES ASSUME NEW i \in 1 .. n, NEW j \in 1 .. n, order[i] = order[j], i # j
                 PROVE  FALSE
      BY <1>1
    <2>1. order[i] \in Nat /\ order[j] \in Nat
      BY <1>1
    <2>2. i < j \/ j < i
      BY <1>1
    <2> QED BY <1>1, <2>1, <2>2
  <1>3. order \in Injection(1 .. n, S)
    BY <1>1, <1>2 DEF Injection, IsInjective
  <1>4. IsFiniteSet(1 .. n) /\ Cardinality(1 .. n) = n
    BY <1>1, FS_Interval
  <1>5. order \in Surjection(1 .. n, S)
    BY <1>3, <1>4, FS_Injection DEF n
  <1> QED BY <1>1, <1>2, <1>5 DEF Surjection

\* One entry for each member of a set, in the order of a map.
LEMMA EntriesInOrder ==
  ASSUME NEW S \in SUBSET Nat, IsFiniteSet(S), NEW order \in Orders(S), NEW f, NEW entries,
         DOMAIN entries = DOMAIN order, \A i \in DOMAIN order : entries[i] = f[order[i]],
         \A x, y \in S : f[x].key = f[y].key => x = y,
         \A x \in S : f[x].key # BlindList
  PROVE  /\ Orderly(entries)
         /\ \A e \in Range(entries) : \E x \in S : e = f[x]
         /\ \A x \in S : f[x] \in Range(entries)
  <1>1. /\ \A i, j \in DOMAIN order : order[i] = order[j] => i = j
        /\ \A i \in DOMAIN order : order[i] \in S
        /\ \A x \in S : \E i \in DOMAIN order : order[i] = x
    BY OrderVisitsAll
  <1>2. Orderly(entries)
    <2>1. ASSUME NEW i \in DOMAIN entries, NEW j \in DOMAIN entries, entries[i].key = entries[j].key
          PROVE  i = j
      <3>1. /\ order[i] \in S /\ order[j] \in S
            /\ entries[i] = f[order[i]] /\ entries[j] = f[order[j]]
        BY <1>1
      <3>2. order[i] = order[j]
        BY <2>1, <3>1
      <3> QED BY <1>1, <3>2
    <2>2. ASSUME NEW i \in DOMAIN entries PROVE entries[i].key # BlindList
      <3>1. order[i] \in S /\ entries[i] = f[order[i]]
        BY <1>1
      <3> QED BY <3>1
    <2> QED BY <2>1, <2>2, Zenon DEF Orderly
  <1>3. ASSUME NEW e \in Range(entries) PROVE \E x \in S : e = f[x]
    <2>1. PICK i \in DOMAIN entries : e = entries[i]
      BY Zenon DEF Range
    <2> QED BY <1>1, <2>1
  <1>4. ASSUME NEW x \in S PROVE f[x] \in Range(entries)
    <2>1. PICK i \in DOMAIN order : order[i] = x
      BY <1>1
    <2>2. i \in DOMAIN entries /\ entries[i] = f[x]
      BY <2>1
    <2> QED BY <2>2, Zenon DEF Range
  <1> QED BY <1>2, <1>3, <1>4

\* What the timers write: the remotes that are dirty, and blinds as they are.
LEMMA SavedAre ==
  ASSUME IInv, NEW order \in Orders(DirtyRemotes)
  PROVE  /\ Orderly(Saved(order))
         /\ \A e \in Range(Saved(order)) : \E r \in DirtyRemotes :
              e = SaveRemoteConfig(remotes, r) /\ e.key = RemoteKey(r)
         /\ \A r \in DirtyRemotes : SaveRemoteConfig(remotes, r) \in Range(Saved(order))
  <1> DEFINE f == [r \in DirtyRemotes |-> SaveRemoteConfig(remotes, r)]
  <1>1. DirtyRemotes \in SUBSET RemoteIds
    BY DEF DirtyRemotes, IInv, TypeOK
  <1>2. DirtyRemotes \in SUBSET Nat /\ IsFiniteSet(DirtyRemotes)
    BY <1>1, Numbers, FS_Subset
  <1>3. \A r \in DirtyRemotes : f[r].key = RemoteKey(r)
    BY EntriesAre DEF SaveRemoteConfig
  <1>4. /\ \A r, s \in DirtyRemotes : f[r].key = f[s].key => r = s
        /\ \A r \in DirtyRemotes : f[r].key # BlindList
    BY <1>1, <1>3, RemoteKeysDiffer, KeysDiffer DEF Lists
  <1>5. /\ DOMAIN Saved(order) = DOMAIN order
        /\ \A i \in DOMAIN order : Saved(order)[i] = f[order[i]]
    <2>1. \A i \in DOMAIN order : order[i] \in DirtyRemotes
      BY <1>2, OrderVisitsAll
    <2> QED BY <2>1 DEF Saved
  <1>6. /\ Orderly(Saved(order))
        /\ \A e \in Range(Saved(order)) : \E r \in DirtyRemotes : e = f[r]
        /\ \A r \in DirtyRemotes : f[r] \in Range(Saved(order))
    <2> HIDE DEF f
    <2> QED BY <1>2, <1>4, <1>5, EntriesInOrder
  <1> QED BY <1>3, <1>6

LEMMA BlindsSavedAre ==
  ASSUME IInv, NEW order \in Orders(DOMAIN blinds)
  PROVE  /\ Orderly(BlindsSaved(order))
         /\ \A e \in Range(BlindsSaved(order)) : \E b \in DOMAIN blinds :
              e = Save(BlindKey(b), blinds[b]) /\ e.key = BlindKey(b)
         /\ \A b \in DOMAIN blinds : Save(BlindKey(b), blinds[b]) \in Range(BlindsSaved(order))
  <1> DEFINE f == [b \in DOMAIN blinds |-> Save(BlindKey(b), blinds[b])]
  <1>1. DOMAIN blinds \in SUBSET BlindIds
    BY DEF IInv, TypeOK
  <1>2. DOMAIN blinds \in SUBSET Nat /\ IsFiniteSet(DOMAIN blinds)
    BY <1>1, Numbers, FS_Subset
  <1>3. \A b \in DOMAIN blinds : f[b].key = BlindKey(b)
    BY EntriesAre
  <1>4. /\ \A a, b \in DOMAIN blinds : f[a].key = f[b].key => a = b
        /\ \A b \in DOMAIN blinds : f[b].key # BlindList
    BY <1>1, <1>3, KeysDiffer DEF Lists
  <1>5. /\ DOMAIN BlindsSaved(order) = DOMAIN order
        /\ \A i \in DOMAIN order : BlindsSaved(order)[i] = f[order[i]]
    <2>1. \A i \in DOMAIN order : order[i] \in DOMAIN blinds
      BY <1>2, OrderVisitsAll
    <2> QED BY <2>1 DEF BlindsSaved
  <1>6. /\ Orderly(BlindsSaved(order))
        /\ \A e \in Range(BlindsSaved(order)) : \E b \in DOMAIN blinds : e = f[b]
        /\ \A b \in DOMAIN blinds : f[b] \in Range(BlindsSaved(order))
    <2> HIDE DEF f
    <2> QED BY <1>2, <1>4, <1>5, EntriesInOrder
  <1> QED BY <1>3, <1>6

LEMMA SavingSettles ==
  ASSUME IInv, Settled, SaveRemoteState \/ SaveBlindState \/ Stop
  PROVE  Settled'
  <1>1. writes = <<>> /\ flash' = flash /\ blinds' = blinds
    BY DEF SaveRemoteState, SaveBlindState, Stop, Idle
  <1>2. /\ Orderly(writes')
        /\ \A e \in Range(writes') :
             \/ \E r \in DirtyRemotes : e = SaveRemoteConfig(remotes, r) /\ e.key = RemoteKey(r)
             \/ \E b \in DOMAIN blinds : e = Save(BlindKey(b), blinds[b]) /\ e.key = BlindKey(b)
        /\ \/ remotes' = remotes /\ \A e \in Range(writes') : \A r : e.key # RemoteKey(r)
           \/ /\ AllClean
              /\ \A r \in DirtyRemotes : SaveRemoteConfig(remotes, r) \in Range(writes')
    <2>1. CASE SaveRemoteState
      <3>1. AllClean /\ \E order \in Orders(DirtyRemotes) : writes' = Saved(order)
        BY <2>1 DEF SaveRemoteState
      <3> QED BY <3>1, SavedAre
    <2>2. CASE SaveBlindState
      <3>1. remotes' = remotes /\ \E order \in Orders(DOMAIN blinds) : writes' = BlindsSaved(order)
        BY <2>2 DEF SaveBlindState
      <3>2. \A r, b : RemoteKey(r) # BlindKey(b)
        BY KeysDiffer
      <3>3. PICK order \in Orders(DOMAIN blinds) : writes' = BlindsSaved(order)
        BY <3>1
      <3>4. /\ Orderly(writes')
            /\ \A e \in Range(writes') :
                 \E b \in DOMAIN blinds : e = Save(BlindKey(b), blinds[b]) /\ e.key = BlindKey(b)
        BY <3>3, BlindsSavedAre
      <3> QED BY <3>1, <3>2, <3>4
    <2>3. CASE Stop
      <3>1. AllClean
        BY <2>3 DEF Stop
      <3>2. PICK first \in Orders(DirtyRemotes), second \in Orders(DOMAIN blinds) :
              writes' = Saved(first) \o BlindsSaved(second)
        BY <2>3, Zenon DEF Stop
      <3> DEFINE s == Saved(first)
                 t == BlindsSaved(second)
      <3>3. /\ Orderly(s)
            /\ \A e \in Range(s) : \E r \in DirtyRemotes :
                 e = SaveRemoteConfig(remotes, r) /\ e.key = RemoteKey(r)
            /\ \A r \in DirtyRemotes : SaveRemoteConfig(remotes, r) \in Range(s)
        BY SavedAre
      <3>4. /\ Orderly(t)
            /\ \A e \in Range(t) : \E b \in DOMAIN blinds :
                 e = Save(BlindKey(b), blinds[b]) /\ e.key = BlindKey(b)
        BY BlindsSavedAre
      <3>5. s \in Seq(Agreeing(blinds)) /\ t \in Seq(Agreeing(blinds))
        BY SavesAre
      <3> HIDE DEF s, t
      <3>6. \A e \in Range(s) : e.key # BlindList /\ \A f \in Range(t) : e.key # f.key
        <4>1. \A r, b : RemoteKey(r) # BlindKey(b) /\ RemoteKey(r) # BlindList
          BY KeysDiffer DEF Lists
        <4> QED BY <3>3, <3>4, <4>1, Zenon
      <3>7. Range(s \o t) = Range(s) \cup Range(t) /\ Orderly(s \o t)
        BY <3>3, <3>4, <3>5, <3>6, MoreEntries
      <3>8. writes' = s \o t
        BY <3>2 DEF s, t
      <3> QED BY <3>1, <3>3, <3>4, <3>7, <3>8
    <2> QED BY <2>1, <2>2, <2>3
  <1>3. DOMAIN remotes' = DOMAIN remotes
    BY <1>2 DEF AllClean
  <1>4. /\ DirtyRemotes \subseteq DOMAIN remotes /\ DOMAIN remotes \subseteq RemoteIds
        /\ \A r \in DOMAIN remotes : r \in DirtyRemotes <=> remotes[r].dirty
    BY DEF DirtyRemotes, IInv, TypeOK
  <1>5. /\ \A r, b : RemoteKey(r) # BlindKey(b)
        /\ \A r : RemoteKey(r) \notin Lists
        /\ \A b : BlindKey(b) \notin Lists
        /\ \A a, b : BlindKey(a) = BlindKey(b) => a = b
    BY KeysDiffer
  <1>6. RemotesKept'
    <2>1. CASE remotes' = remotes /\ \A e \in Range(writes') : \A r : e.key # RemoteKey(r)
      BY <1>1, <2>1, RemotesRule
    <2>2. CASE AllClean /\ \A r \in DirtyRemotes : SaveRemoteConfig(remotes, r) \in Range(writes')
      <3>1. ASSUME NEW r \in DOMAIN remotes
            PROVE  remotes'[r].blinds = remotes[r].blinds
        <4>1. remotes'[r] = [remotes[r] EXCEPT !.dirty = FALSE]
          BY <2>2 DEF AllClean
        <4>2. remotes[r] \in [external : BOOLEAN, blinds : SUBSET BlindIds, dirty : BOOLEAN]
          BY DEF IInv, Typed
        <4> QED BY <4>1, <4>2
      <3>2. ASSUME NEW r \in DirtyRemotes
            PROVE  \E v : /\ Save(RemoteKey(r), v) \in Range(writes')
                          /\ v.blinds = remotes'[r].blinds
        <4> DEFINE v == [remoteId |-> r, blinds |-> remotes[r].blinds]
        <4>1. Save(RemoteKey(r), v) \in Range(writes') /\ v.blinds = remotes'[r].blinds
          BY <1>4, <2>2, <3>1 DEF SaveRemoteConfig
        <4> QED BY <4>1, Zenon
      <3>3. ASSUME NEW r \in DOMAIN remotes \ DirtyRemotes, NEW e \in Range(writes')
            PROVE  e.key # RemoteKey(r)
        <4>1. \A x \in DirtyRemotes : RemoteKey(x) # RemoteKey(r)
          BY <1>4, RemoteKeysDiffer
        <4> QED BY <1>2, <1>5, <4>1
      <3>4. \A r \in DOMAIN remotes \ DirtyRemotes : ~ remotes[r].dirty
        BY <1>4
      <3> QED BY <1>1, <1>3, <3>1, <3>2, <3>3, <3>4, RemotesRule
    <2> QED BY <1>2, <2>1, <2>2
  <1>7. OwnKept' /\ ExternalKept'
    <2>1. ASSUME NEW e \in Range(writes')
          PROVE  /\ e.key # OwnList /\ e.key # ExternalList
                 /\ \A r \in RemoteIds : e.key = RemoteKey(r) => r \in DOMAIN remotes
      <3>1. CASE \E r \in DirtyRemotes : e.key = RemoteKey(r)
        BY <1>4, <1>5, <3>1, RemoteKeysDiffer DEF Lists
      <3>2. CASE \E b \in DOMAIN blinds : e.key = BlindKey(b)
        BY <1>5, <3>2 DEF Lists
      <3> QED BY <1>2, <3>1, <3>2
    <2> QED BY <1>1, <1>3, <2>1, ListsStay
  <1>8. BlindsKept' /\ BlindListKept'
    <2>1. ASSUME NEW b \in DOMAIN blinds
          PROVE  \/ Save(BlindKey(b), blinds[b]) \in Range(writes')
                 \/ \A e \in Range(writes') : e.key # BlindKey(b)
      <3> SUFFICES ASSUME NEW e \in Range(writes'), e.key = BlindKey(b)
                   PROVE  e = Save(BlindKey(b), blinds[b])
        OBVIOUS
      <3> QED BY <1>2, <1>5
    <2>2. \A e \in Range(writes') : e.key # BlindList
      BY <1>2, <1>5 DEF Lists
    <2> QED BY <1>1, <2>1, <2>2, BlindsRule
  <1>9. \A x \in DOMAIN blinds' \cap Listed(BlindList)' : Complete(x)'
    BY <1>1, CompleteBefore
  <1> QED BY <1>2, <1>6, <1>7, <1>8, <1>9 DEF Settled

\* A new blind, after its remote: five entries, the list of blinds last.
LEMMA AddBlindSettles ==
  ASSUME IInv, IInv', Settled, AddBlind
  PROVE  Settled'
  <1>0. PICK r, b : r = nextRemote /\ b = nextBlind
    OBVIOUS
  <1> DEFINE saved == With(remotes, r, Remote(FALSE, {}, FALSE))
  <1>1. /\ writes = <<>> /\ flash' = flash
        /\ r \in OwnIds /\ b \in BlindIds
        /\ remotes' = With(remotes, r, Remote(FALSE, {b}, TRUE))
        /\ blinds' = With(blinds, b, r)
        /\ writes' = WritesOfNew(saved, r) \o RecordBeforeList(b, r)
    BY <1>0 DEF AddBlind, Idle
  <1>2. /\ DOMAIN remotes' = DOMAIN remotes \cup {r} /\ remotes'[r].dirty
        /\ \A x \in DOMAIN remotes : x # r => remotes'[x] = remotes[x]
        /\ DOMAIN blinds' = DOMAIN blinds \cup {b} /\ blinds'[b] = r
        /\ \A x \in DOMAIN blinds : x # b => blinds'[x] = blinds[x]
    BY <1>1 DEF With, Remote
  <1>3. Typed(remotes) /\ Typed(remotes)' /\ r \in RemoteIds /\ r \notin Importable
    BY <1>1, KindsDiffer DEF IInv
  \* The lists are the same with the record that is saved and with the one in memory.
  <1>4. Typed(saved) /\ r \in DOMAIN saved /\ DOMAIN saved = DOMAIN remotes'
    <2>1. Typed(saved) /\ r \in DOMAIN saved
      BY <1>3, WithTyped
    <2>2. DOMAIN saved = DOMAIN remotes \cup {r}
      BY DEF With
    <2> QED BY <1>2, <2>1, <2>2
  <1>5. OwnEntry(saved) = OwnEntry(remotes') /\ ExternalEntry(saved) = ExternalEntry(remotes')
    <2>1. Externals(saved) = DOMAIN saved \cap Importable
      BY <1>4 DEF Externals, Typed
    <2>2. Externals(remotes') = DOMAIN remotes' \cap Importable
      BY <1>3 DEF Externals, Typed
    <2> HIDE DEF saved
    <2> QED BY <1>4, <2>1, <2>2 DEF OwnEntry, ExternalEntry
  <1> DEFINE s == WritesOfNew(saved, r)
             record == Save(BlindKey(b), r)
             list == SaveBlindList(blinds')
             t == <<record, list>>
  <1>6. /\ Range(s) = {SaveRemoteConfig(saved, r), OwnEntry(saved), ExternalEntry(saved)}
        /\ Orderly(s)
        /\ \A e \in Range(s) : e.key \in {RemoteKey(r), OwnList, ExternalList}
    BY NewEntries
  <1>7. /\ \A x : RemoteKey(x) \notin Lists
        /\ \A x : BlindKey(x) # RemoteKey(r) /\ BlindKey(x) \notin Lists
        /\ OwnList # BlindList /\ ExternalList # BlindList
        /\ \A x : BlindKey(x) = BlindKey(b) => x = b
        /\ \A x, y : RemoteKey(x) # BlindKey(y)
    BY KeysDiffer
  <1>8. record.key = BlindKey(b) /\ list.key = BlindList
    BY EntriesAre DEF SaveBlindList
  <1>9. Range(t) = {record, list} /\ Orderly(t)
    BY <1>7, <1>8, TwoEntries DEF Lists
  <1>10. s \in Seq(Agreeing(blinds')) /\ t \in Seq(Agreeing(blinds'))
    <2>1. s \in Seq(Agreeing(blinds'))
      BY <1>4, NewWrites
    <2>2. DOMAIN blinds' \subseteq BlindIds /\ \A x \in DOMAIN blinds' : blinds'[x] \in OwnIds
      BY DEF IInv, TypeOK
    <2>3. record \in Agreeing(blinds') /\ list \in Agreeing(blinds')
      <3>1. record = Save(BlindKey(b), blinds'[b]) /\ b \in DOMAIN blinds'
        BY <1>2
      <3>2. /\ SaveBlindList(blinds') \in Agreeing(blinds')
            /\ \A x \in DOMAIN blinds' : Save(BlindKey(x), blinds'[x]) \in Agreeing(blinds')
        BY <2>2, BlindWrites
      <3> QED BY <3>1, <3>2
    <2>4. \A X, e, f : e \in X /\ f \in X => <<e, f>> \in Seq(X)
      OBVIOUS
    <2>5. <<record, list>> \in Seq(Agreeing(blinds'))
      BY <2>3, <2>4, Zenon
    <2> QED BY <2>1, <2>5, Zenon
  <1>11. writes' = s \o t
    BY <1>1 DEF RecordBeforeList
  <1> HIDE DEF s, t, record, list, saved
  <1>12. \A e \in Range(s) : e.key # BlindList /\ \A f \in Range(t) : e.key # f.key
    BY <1>6, <1>7, <1>8, <1>9 DEF Lists
  <1>13. /\ Orderly(writes')
         /\ Range(writes') = Range(s) \cup {record, list}
    <2>1. Range(s \o t) = Range(s) \cup Range(t) /\ Orderly(s \o t)
      BY <1>6, <1>9, <1>10, <1>12, MoreEntries
    <2> QED BY <1>9, <1>11, <2>1
  <1>14. OwnKept' /\ ExternalKept'
    BY <1>3, <1>5, <1>6, <1>13, ListsWritten
  <1>15. RemotesKept'
    <2>1. \E v : Save(RemoteKey(r), v) \in Range(writes')
      BY <1>6, <1>13, Zenon DEF SaveRemoteConfig
    <2>2. ASSUME NEW x \in DOMAIN remotes', x # r, NEW e \in Range(writes')
          PROVE  e.key # RemoteKey(x)
      <3>1. RemoteKey(x) # RemoteKey(r)
        BY <1>3, <2>2, RemoteKeysDiffer DEF Typed
      <3> QED BY <1>6, <1>7, <1>8, <1>13, <3>1 DEF Lists
    <2> QED BY <1>1, <1>2, <2>1, <2>2, RemotesRule
  <1>16. BlindsKept' /\ BlindListKept'
    <2>1. ASSUME NEW x \in DOMAIN blinds'
          PROVE  \/ Save(BlindKey(x), blinds'[x]) \in Range(writes')
                 \/ /\ x \in DOMAIN blinds /\ blinds'[x] = blinds[x]
                    /\ \A e \in Range(writes') : e.key # BlindKey(x)
      <3>1. CASE x = b
        BY <1>2, <1>13, <3>1 DEF record
      <3>2. CASE x # b
        BY <1>2, <1>6, <1>7, <1>8, <1>13, <3>2 DEF Lists
      <3> QED BY <3>1, <3>2
    <2>2. SaveBlindList(blinds') \in Range(writes')
      BY <1>13 DEF list
    <2> QED BY <1>1, <2>1, <2>2, BlindsRule
  <1>17. \A x \in DOMAIN blinds' \cap Listed(BlindList)' : Complete(x)'
    <2>1. Listed(BlindList) \subseteq DOMAIN blinds
      BY <1>1, IdleIs
    <2>2. b \notin DOMAIN blinds
      <3>1. b \in DOMAIN blinds => b < b
        BY <1>0 DEF IInv, NextIsNew
      <3>2. b \in Nat
        BY <1>1, Numbers
      <3> QED BY <3>1, <3>2
    <2> QED BY <1>1, <1>2, <2>1, <2>2, CompleteBefore
  <1> QED BY <1>13, <1>14, <1>15, <1>16, <1>17 DEF Settled

LEMMA DeleteBlindSettles ==
  ASSUME IInv, IInv', Settled, NEW b \in BlindIds, DeleteBlind(b)
  PROVE  Settled'
  <1>0. PICK r : r = blinds[b]
    OBVIOUS
  <1>1. /\ writes = <<>> /\ flash' = flash /\ b \in DOMAIN blinds
        /\ blinds' = Without(blinds, b) /\ remotes' = Without(remotes, r)
        /\ writes' = WritesOfRemoval(remotes', r) \o <<Clear(BlindKey(b)), SaveBlindList(blinds')>>
    BY <1>0 DEF DeleteBlind, Idle, RemoteGoes
  <1>2. /\ DOMAIN blinds' = DOMAIN blinds \ {b}
        /\ \A x \in DOMAIN blinds' : blinds'[x] = blinds[x]
    BY <1>1, WithoutIs
  <1>3. Typed(remotes) /\ Typed(remotes)' /\ r \in RemoteIds
    BY <1>0, <1>1, KindsDiffer DEF IInv, TypeOK
  <1> DEFINE s == WritesOfRemoval(remotes', r)
             gone == Clear(BlindKey(b))
             list == SaveBlindList(blinds')
             t == <<gone, list>>
  <1>6. /\ Range(s) = {Clear(RemoteKey(r)), OwnEntry(remotes'), ExternalEntry(remotes')}
        /\ Orderly(s)
        /\ \A e \in Range(s) : e.key \in {RemoteKey(r), OwnList, ExternalList}
    BY NewEntries
  <1>7. /\ \A x : RemoteKey(x) \notin Lists
        /\ \A x : BlindKey(x) # RemoteKey(r) /\ BlindKey(x) \notin Lists
        /\ OwnList # BlindList /\ ExternalList # BlindList
        /\ \A x : BlindKey(x) = BlindKey(b) => x = b
        /\ \A x, y : RemoteKey(x) # BlindKey(y)
    BY KeysDiffer
  <1>8. gone.key = BlindKey(b) /\ list.key = BlindList
    BY EntriesAre DEF SaveBlindList
  <1>9. Range(t) = {gone, list} /\ Orderly(t)
    BY <1>7, <1>8, TwoEntries DEF Lists
  <1>10. s \in Seq(Agreeing(blinds')) /\ t \in Seq(Agreeing(blinds'))
    <2>1. s \in Seq(Agreeing(blinds'))
      BY <1>3, NewWrites
    <2>2. DOMAIN blinds' \subseteq BlindIds /\ \A x \in DOMAIN blinds' : blinds'[x] \in OwnIds
      BY DEF IInv, TypeOK
    <2>3. gone \in Agreeing(blinds') /\ list \in Agreeing(blinds')
      BY <2>2, BlindWrites
    <2> HIDE DEF gone, list
    <2> QED BY <2>1, <2>3
  <1>11. writes' = s \o t
    BY <1>1
  <1> HIDE DEF s, t, gone, list
  <1>12. \A e \in Range(s) : e.key # BlindList /\ \A f \in Range(t) : e.key # f.key
    BY <1>6, <1>7, <1>8, <1>9 DEF Lists
  <1>13. /\ Orderly(writes')
         /\ Range(writes') = Range(s) \cup {gone, list}
    <2>1. Range(s \o t) = Range(s) \cup Range(t) /\ Orderly(s \o t)
      BY <1>6, <1>9, <1>10, <1>12, MoreEntries
    <2> QED BY <1>9, <1>11, <2>1
  <1>14. OwnKept' /\ ExternalKept'
    BY <1>3, <1>6, <1>13, ListsWritten
  <1>15. RemotesKept'
    <2>1. \A e \in Range(writes') : \A x : e.key = RemoteKey(x) => e.key = RemoteKey(r)
      BY <1>6, <1>7, <1>8, <1>13 DEF Lists
    <2> QED BY <1>1, <1>3, <2>1, OthersStay
  <1>16. BlindsKept' /\ BlindListKept'
    <2>1. ASSUME NEW x \in DOMAIN blinds', NEW e \in Range(writes') PROVE e.key # BlindKey(x)
      BY <1>2, <1>6, <1>7, <1>8, <1>13 DEF Lists
    <2>2. SaveBlindList(blinds') \in Range(writes')
      BY <1>13 DEF list
    <2> QED BY <1>1, <1>2, <2>1, <2>2, BlindsRule
  <1>17. \A x \in DOMAIN blinds' \cap Listed(BlindList)' : Complete(x)'
    BY <1>1, <1>2, CompleteBefore
  <1> QED BY <1>13, <1>14, <1>15, <1>16, <1>17 DEF Settled

\* Whatever a boot finds, it takes what the records say, and clears only records
\* of blinds that it has left out.
LEMMA BootSettles ==
  ASSUME IInv, Boot
  PROVE  Settled'
  <1>1. remotes' = LoadedRemotes /\ blinds' = LoadedBlinds /\ flash' = flash
    BY DEF Boot
  <1>2. PICK order \in Orders(Orphans) :
          writes' = IF Orphans = {} THEN <<>>
                    ELSE [i \in DOMAIN order |-> Clear(BlindKey(order[i]))]
                         \o <<SaveBlindList(LoadedBlinds)>>
    BY Zenon DEF Boot
  <1>3. /\ OwnListed \subseteq OwnIds
        /\ Typed(LoadedRemotes)
        /\ DOMAIN LoadedRemotes \cap OwnIds \subseteq OwnListed
        /\ Listed(BlindList) \subseteq BlindIds
        /\ DOMAIN LoadedBlinds \subseteq Listed(BlindList)
        /\ \A b \in DOMAIN LoadedBlinds :
              /\ Stored(BlindKey(b)) /\ LoadedBlinds[b] = flash[BlindKey(b)]
              /\ LoadedBlinds[b] \in OwnListed /\ LoadedBlinds[b] \in DOMAIN LoadedRemotes
    BY LoadedAre
  <1>4. Orphans \in SUBSET Nat /\ IsFiniteSet(Orphans) /\ Orphans \subseteq BlindIds
    <2>1. Orphans \in SUBSET BlindIds
      BY <1>3 DEF Orphans
    <2> QED BY <2>1, Numbers, FS_Subset
  <1>5. /\ \A b : BlindKey(b) \notin Lists /\ \A r : BlindKey(b) # RemoteKey(r)
        /\ \A a, b : BlindKey(a) = BlindKey(b) => a = b
        /\ \A r : RemoteKey(r) \notin Lists
        /\ OwnList # BlindList /\ ExternalList # BlindList
    BY KeysDiffer
  <1>6. /\ Orderly(writes')
        /\ \A e \in Range(writes') :
             e.key = BlindList \/ \E b \in Orphans : e.key = BlindKey(b)
        /\ IF Orphans = {} THEN Range(writes') = {}
           ELSE SaveBlindList(LoadedBlinds) \in Range(writes')
    <2>1. CASE Orphans = {}
      <3>1. writes' = <<>>
        BY <1>2, <2>1
      <3> QED BY <2>1, <3>1, NothingToWrite DEF Orderly
    <2>2. CASE Orphans # {}
      <3> DEFINE s == [i \in DOMAIN order |-> Clear(BlindKey(order[i]))]
                 list == SaveBlindList(LoadedBlinds)
                 f == [b \in Orphans |-> Clear(BlindKey(b))]
                 S == Entries \cup {list}
      <3>1. /\ \A i \in DOMAIN order : order[i] \in Orphans
            /\ DOMAIN order = 1 .. Cardinality(Orphans) /\ Cardinality(Orphans) \in Nat
        BY <1>4, OrdersAre
      <3>2. /\ \A b \in Orphans : f[b].key = BlindKey(b) /\ f[b].key # BlindList
            /\ \A a, b \in Orphans : f[a].key = f[b].key => a = b
        BY <1>5, EntriesAre DEF Lists
      <3>3. DOMAIN s = DOMAIN order /\ \A i \in DOMAIN order : s[i] = f[order[i]]
        BY <3>1
      <3>4. s \in Seq(S) /\ <<list>> \in Seq(S)
        <4>1. \A b \in Orphans : Clear(BlindKey(b)) \in Entries
          BY <1>4, KeysAre, EntriesAre
        <4>2. s \in [1 .. Cardinality(Orphans) -> S]
          BY <3>1, <4>1
        <4>3. list \in S
          OBVIOUS
        <4> HIDE DEF S, list, s
        <4> QED BY <3>1, <4>2, <4>3
      <3> HIDE DEF f, s, list, S
      <3>5. Orderly(s) /\ \A e \in Range(s) : \E b \in Orphans : e = f[b]
        BY <1>4, <3>2, <3>3, EntriesInOrder
      <3>6. Range(<<list>>) = {list} /\ Orderly(<<list>>)
        BY OneEntry
      <3>7. list.key = BlindList
        BY EntriesAre DEF list, SaveBlindList
      <3>8. \A e \in Range(s) : e.key # BlindList /\ \A x \in Range(<<list>>) : e.key # x.key
        BY <3>2, <3>5, <3>6, <3>7
      <3>9. Range(s \o <<list>>) = Range(s) \cup Range(<<list>>) /\ Orderly(s \o <<list>>)
        BY <3>4, <3>5, <3>6, <3>8, MoreEntries
      <3>10. writes' = s \o <<list>>
        BY <1>2, <2>2 DEF s, list
      <3>11. \A e \in Range(s) : \E b \in Orphans : e.key = BlindKey(b)
        BY <3>2, <3>5
      <3> QED BY <2>2, <3>6, <3>7, <3>9, <3>10, <3>11 DEF list
    <2> QED BY <2>1, <2>2
  <1>7. \A r : \A e \in Range(writes') : e.key # RemoteKey(r)
    BY <1>5, <1>6 DEF Lists
  <1>8. \A e \in Range(writes') : e.key # OwnList /\ e.key # ExternalList
    BY <1>5, <1>6 DEF Lists
  <1>9. DOMAIN LoadedRemotes = {x \in OwnListed \cup Listed(ExternalList) : Stored(RemoteKey(x))}
    BY DEF LoadedRemotes
  <1>10. RemotesKept'
    <2>1. ASSUME NEW r \in DOMAIN LoadedRemotes
          PROVE  \E v : /\ WillBe(flash', writes', RemoteKey(r), v)
                        /\ v.blinds = LoadedRemotes[r].blinds
      <3> DEFINE v == flash[RemoteKey(r)]
      <3>1. Stored(RemoteKey(r)) /\ LoadedRemotes[r].blinds = v.blinds
        BY <1>9 DEF LoadedRemotes
      <3>2. WillBe(flash', writes', RemoteKey(r), v)
        BY <1>1, <1>7, <3>1 DEF WillBe, Stored
      <3> QED BY <3>1, <3>2, Zenon
    <2> QED BY <1>1, <2>1, Zenon DEF RemotesKept
  <1>11. OwnKept'
    <2> DEFINE L == Listed(OwnList)
    <2>1. L \in SUBSET (1 .. MaxOwn)
      BY ValuesAre DEF Listed, Stored, IInv, TypeOK
    <2>2. \/ WillBe(flash', writes', OwnList, L)
          \/ L = {} /\ WillMiss(flash', writes', OwnList)
      BY <1>1, <1>8 DEF WillBe, WillMiss, Listed, Stored
    <2>3. ASSUME NEW r \in DOMAIN LoadedRemotes \cap OwnIds PROVE LowHalf(r) \in L
      <3>1. PICK low \in L : r = BaseRemoteId + low
        BY <1>3, <2>3 DEF OwnListed
      <3>2. LowHalf(r) = r - BaseRemoteId
        BY LowHalfIs
      <3>3. LowHalf(r) = low
        BY <2>1, <3>1, <3>2, Numbers
      <3> QED BY <3>3
    <2>4. ASSUME NEW low \in L
          PROVE  \/ BaseRemoteId + low \in DOMAIN LoadedRemotes
                 \/ WillMiss(flash', writes', RemoteKey(BaseRemoteId + low))
      <3>1. BaseRemoteId + low \in OwnListed
        BY DEF OwnListed
      <3> HIDE DEF L
      <3> QED BY <1>1, <1>7, <1>9, <3>1 DEF WillMiss, Stored
    <2> HIDE DEF L
    <2> QED BY <1>1, <2>1, <2>2, <2>3, <2>4, Zenon DEF OwnKept
  <1>12. ExternalKept'
    <2> DEFINE L == Listed(ExternalList)
    <2>1. L \in SUBSET Importable
      BY ValuesAre DEF Listed, Stored, IInv, TypeOK
    <2>2. \/ WillBe(flash', writes', ExternalList, L)
          \/ L = {} /\ WillMiss(flash', writes', ExternalList)
      BY <1>1, <1>8 DEF WillBe, WillMiss, Listed, Stored
    <2>3. DOMAIN LoadedRemotes \cap Importable \subseteq L
      BY <1>3, <1>9, KindsDiffer
    <2>4. ASSUME NEW r \in L
          PROVE  r \in DOMAIN LoadedRemotes \/ WillMiss(flash', writes', RemoteKey(r))
      BY <1>1, <1>7, <1>9 DEF WillMiss, Stored
    <2> HIDE DEF L
    <2> QED BY <1>1, <2>1, <2>2, <2>3, <2>4, Zenon DEF ExternalKept
  <1>13. BlindsKept'
    <2>1. ASSUME NEW b \in DOMAIN LoadedBlinds
          PROVE  WillBe(flash', writes', BlindKey(b), LoadedBlinds[b])
      <3>1. \A e \in Range(writes') : e.key # BlindKey(b)
        BY <1>5, <1>6 DEF Lists, Orphans
      <3> QED BY <1>1, <1>3, <3>1 DEF WillBe, Stored
    <2> QED BY <1>1, <2>1, Zenon DEF BlindsKept
  <1>14. BlindListKept'
    <2>1. CASE Orphans # {}
      BY <1>1, <1>6, <2>1 DEF BlindListKept, WillBe, SaveBlindList
    <2>2. CASE Orphans = {}
      <3>1. DOMAIN LoadedBlinds = Listed(BlindList) /\ Range(writes') = {}
        BY <1>3, <1>6, <2>2 DEF Orphans
      <3> QED BY <1>1, <3>1 DEF BlindListKept, WillBe, WillMiss, Listed, Stored
    <2> QED BY <2>1, <2>2
  <1>15. ASSUME NEW b \in DOMAIN LoadedBlinds
         PROVE  /\ Stored(BlindKey(b))' /\ Stored(RemoteKey(LoadedBlinds[b]))
                /\ LowHalf(LoadedBlinds[b]) \in Listed(OwnList)
    <2>1. Stored(BlindKey(b))'
      BY <1>1, <1>3 DEF Stored
    <2>2. Stored(RemoteKey(LoadedBlinds[b]))
      BY <1>3, <1>9
    <2>3. LowHalf(LoadedBlinds[b]) \in Listed(OwnList)
      <3>1. PICK low \in Listed(OwnList) : LoadedBlinds[b] = BaseRemoteId + low
        BY <1>3 DEF OwnListed
      <3>2. low \in 1 .. MaxOwn
        BY ValuesAre DEF Listed, Stored, IInv, TypeOK
      <3>3. LowHalf(LoadedBlinds[b]) = LoadedBlinds[b] - BaseRemoteId
        BY <1>3, LowHalfIs
      <3>4. LowHalf(LoadedBlinds[b]) = low
        BY <3>1, <3>2, <3>3, Numbers
      <3> QED BY <3>4
    <2> QED BY <2>1, <2>2, <2>3
  <1>16. \A b \in DOMAIN blinds' \cap Listed(BlindList)' : Complete(b)'
    <2>1. Listed(OwnList)' = Listed(OwnList) /\ \A k : Stored(k)' <=> Stored(k)
      BY <1>1 DEF Listed, Stored
    <2> QED BY <1>1, <1>15, <2>1 DEF Complete
  <1> QED BY <1>6, <1>10, <1>11, <1>12, <1>13, <1>14, <1>16 DEF Settled

-----------------------------------------------------------------------------
LEMMA SettledInit == Init => Settled
  <1> SUFFICES ASSUME Init PROVE Settled
    OBVIOUS
  <1>1. /\ DOMAIN flash = {} /\ DOMAIN remotes = {} /\ DOMAIN blinds = {}
        /\ writes = <<>> /\ Range(writes) = {}
    BY NothingToWrite DEF Init
  <1>2. \A k : WillMiss(flash, writes, k)
    BY <1>1 DEF WillMiss
  <1>3. RemotesKept /\ BlindsKept /\ BlindListKept
    BY <1>1, <1>2 DEF RemotesKept, BlindsKept, BlindListKept
  <1>4. OwnKept
    <2>1. {} \in SUBSET (1 .. MaxOwn)
      OBVIOUS
    <2> QED BY <1>1, <1>2, <2>1 DEF OwnKept
  <1>5. ExternalKept
    <2>1. {} \in SUBSET Importable
      OBVIOUS
    <2> QED BY <1>1, <1>2, <2>1 DEF ExternalKept
  <1> QED BY <1>1, <1>3, <1>4, <1>5 DEF Settled, Orderly

LEMMA SettledNext == IInv /\ IInv' /\ Settled /\ [Next]_vars => Settled'
  <1> SUFFICES ASSUME IInv, IInv', Settled, [Next]_vars PROVE Settled'
    OBVIOUS
  <1>1. CASE SkipEqual \/ DeleteOld \/ WriteNew \/ ClearOld
    BY <1>1, FlashSettles
  <1>2. CASE AddRemote \/ AddBlind
    BY <1>2, AddRemoteSettles, AddBlindSettles
  <1>3. CASE \E r \in Importable : ImportRemote(r)
    BY <1>3, ImportRemoteSettles
  <1>4. CASE \E r \in RemoteIds \cup {RomWord} : DeleteRemote(r)
    BY <1>4, DeleteRemoteSettles
  <1>5. CASE \E b \in BlindIds : DeleteBlind(b)
    BY <1>5, DeleteBlindSettles
  <1>6. CASE \E r \in RemoteIds, b \in BlindIds : Bind(r, b) \/ Unbind(r, b)
    BY <1>6, MarkingSettles
  <1>7. CASE \E r \in RemoteIds : UpdateRemote(r) \/ Press(r)
    BY <1>7, MarkingSettles
  <1>8. CASE SaveRemoteState \/ SaveBlindState \/ Stop
    BY <1>8, SavingSettles
  <1>9. CASE Restart \/ PowerCut
    BY <1>9, BootSettles DEF Restart, PowerCut
  <1>10. CASE UNCHANGED vars
    <2>1. /\ remotes' = remotes /\ blinds' = blinds /\ flash' = flash /\ writes' = writes
      BY <1>10 DEF vars
    <2>2. RemotesKept' /\ OwnKept' /\ ExternalKept' /\ BlindsKept' /\ BlindListKept'
      BY <2>1 DEF Settled, RemotesKept, OwnKept, ExternalKept, BlindsKept, BlindListKept
    <2>3. \A b \in DOMAIN blinds' \cap Listed(BlindList)' : Complete(b)'
      <3>1. /\ \A k : HalfWritten(k)' <=> HalfWritten(k)
            /\ \A k : Stored(k)' <=> Stored(k)
            /\ \A k : Listed(k)' = Listed(k)
        BY <2>1 DEF HalfWritten, Listed, Stored, Due
      <3>2. \A b : Complete(b)' <=> Complete(b)
        BY <2>1, <3>1 DEF Complete
      <3> QED BY <2>1, <3>1, <3>2 DEF Settled
    <2> QED BY <2>1, <2>2, <2>3 DEF Settled
  <1> QED BY <1>1, <1>2, <1>3, <1>4, <1>5, <1>6, <1>7, <1>8, <1>9, <1>10 DEF Next

\* The table of blinds is a map, as what a boot loads is.
IsMap == blinds = [b \in DOMAIN blinds |-> blinds[b]]

LEMMA MapInit == Init => IsMap
  BY DEF Init, IsMap

LEMMA MapNext == IsMap /\ [Next]_vars => IsMap'
  <1> SUFFICES ASSUME IsMap, [Next]_vars PROVE IsMap'
    OBVIOUS
  <1>1. \/ blinds' = blinds \/ blinds' = LoadedBlinds
        \/ \E b, r : blinds' = With(blinds, b, r)
        \/ \E b : blinds' = Without(blinds, b)
    BY DEF Next, vars, SkipEqual, DeleteOld, WriteNew, ClearOld, Proceed, AddRemote, AddBlind,
           ImportRemote, DeleteRemote, DeleteBlind, Bind, Unbind, UpdateRemote, Press,
           SaveRemoteState, SaveBlindState, Stop, Restart, PowerCut, Boot
  <1>2. ASSUME NEW b, NEW r, blinds' = With(blinds, b, r) PROVE IsMap'
    BY <1>2 DEF With, IsMap
  <1>3. ASSUME NEW b, blinds' = Without(blinds, b) PROVE IsMap'
    BY <1>3 DEF Without, Restrict, IsMap
  <1>4. CASE blinds' = LoadedBlinds
    BY <1>4 DEF LoadedBlinds, IsMap
  <1> QED BY <1>1, <1>2, <1>3, <1>4 DEF IsMap

\* When nothing is left to write, flash says what the tables say.
LEMMA WrittenIsLoaded ==
  ASSUME IInv, Settled, IsMap, writes = <<>>
  PROVE  /\ LoadedBlinds = blinds
         /\ DOMAIN LoadedRemotes = DOMAIN remotes
         /\ \A r \in DOMAIN remotes :
              /\ LoadedRemotes[r].external = remotes[r].external
              /\ ~ remotes[r].dirty => LoadedRemotes[r].blinds = remotes[r].blinds
  <1>1. /\ \A k, v : WillBe(flash, writes, k, v) <=> Stored(k) /\ flash[k] = v
        /\ \A k : WillMiss(flash, writes, k) <=> ~ Stored(k)
    BY NothingToWrite DEF Stored
  <1>2. ASSUME NEW r \in DOMAIN remotes
        PROVE  /\ Stored(RemoteKey(r))
               /\ ~ remotes[r].dirty => flash[RemoteKey(r)].blinds = remotes[r].blinds
    <2>1. PICK v : /\ WillBe(flash, writes, RemoteKey(r), v)
                   /\ ~ remotes[r].dirty => v.blinds = remotes[r].blinds
      BY Zenon DEF Settled, RemotesKept
    <2>2. Stored(RemoteKey(r)) /\ flash[RemoteKey(r)] = v
      BY <1>1, <2>1
    <2> QED BY <2>1, <2>2
  <1>3. /\ Listed(OwnList) \subseteq 1 .. MaxOwn
        /\ \A r \in DOMAIN remotes \cap OwnIds : LowHalf(r) \in Listed(OwnList)
        /\ \A low \in Listed(OwnList) : \/ BaseRemoteId + low \in DOMAIN remotes
                                        \/ ~ Stored(RemoteKey(BaseRemoteId + low))
    <2>1. PICK L \in SUBSET (1 .. MaxOwn) :
            /\ \/ WillBe(flash, writes, OwnList, L)
               \/ L = {} /\ WillMiss(flash, writes, OwnList)
            /\ \A r \in DOMAIN remotes \cap OwnIds : LowHalf(r) \in L
            /\ \A low \in L : \/ BaseRemoteId + low \in DOMAIN remotes
                              \/ WillMiss(flash, writes, RemoteKey(BaseRemoteId + low))
      BY Zenon DEF Settled, OwnKept
    <2>2. L = Listed(OwnList)
      BY <1>1, <2>1 DEF Listed
    <2> QED BY <1>1, <2>1, <2>2
  <1>4. /\ Listed(ExternalList) \subseteq Importable
        /\ DOMAIN remotes \cap Importable \subseteq Listed(ExternalList)
        /\ \A r \in Listed(ExternalList) : r \in DOMAIN remotes \/ ~ Stored(RemoteKey(r))
    <2>1. PICK L \in SUBSET Importable :
            /\ \/ WillBe(flash, writes, ExternalList, L)
               \/ L = {} /\ WillMiss(flash, writes, ExternalList)
            /\ DOMAIN remotes \cap Importable \subseteq L
            /\ \A r \in L : r \in DOMAIN remotes \/ WillMiss(flash, writes, RemoteKey(r))
      BY Zenon DEF Settled, ExternalKept
    <2>2. L = Listed(ExternalList)
      BY <1>1, <2>1 DEF Listed
    <2> QED BY <1>1, <2>1, <2>2
  <1>5. /\ DOMAIN remotes \subseteq RemoteIds
        /\ \A r \in DOMAIN remotes :
             remotes[r].external \in BOOLEAN /\ (remotes[r].external <=> r \in Importable)
    BY DEF IInv, Typed
  <1>6. DOMAIN LoadedRemotes = {x \in OwnListed \cup Listed(ExternalList) : Stored(RemoteKey(x))}
    BY DEF LoadedRemotes
  <1>7. ASSUME NEW r \in DOMAIN remotes PROVE r \in DOMAIN LoadedRemotes
    <2>1. CASE r \in OwnIds
      <3>1. LowHalf(r) \in Listed(OwnList)
        BY <1>3, <2>1
      <3>2. BaseRemoteId + LowHalf(r) = r
        BY <2>1, LowHalfIs, Numbers
      <3> QED BY <1>2, <1>6, <3>1, <3>2 DEF OwnListed
    <2>2. CASE r \in Importable
      BY <1>2, <1>4, <1>6, <2>2
    <2> QED BY <1>5, <2>1, <2>2, KindsDiffer
  <1>8. ASSUME NEW r \in DOMAIN LoadedRemotes PROVE r \in DOMAIN remotes
    <2>1. Stored(RemoteKey(r)) /\ r \in OwnListed \cup Listed(ExternalList)
      BY <1>6
    <2>2. CASE r \in OwnListed
      BY <1>3, <2>1, <2>2 DEF OwnListed
    <2> QED BY <1>4, <2>1, <2>2
  <1>9. DOMAIN LoadedRemotes = DOMAIN remotes
    BY <1>7, <1>8
  <1>10. ASSUME NEW r \in DOMAIN remotes
         PROVE  /\ LoadedRemotes[r].external = remotes[r].external
                /\ ~ remotes[r].dirty => LoadedRemotes[r].blinds = remotes[r].blinds
    <2>1. /\ LoadedRemotes[r].external \in BOOLEAN
          /\ LoadedRemotes[r].external <=> r \in Importable
      BY <1>7, LoadedAre DEF Typed
    <2>2. LoadedRemotes[r].external = remotes[r].external
      BY <1>5, <2>1
    <2>3. LoadedRemotes[r].blinds = flash[RemoteKey(r)].blinds
      BY <1>7 DEF LoadedRemotes
    <2> QED BY <1>2, <2>2, <2>3
  <1>11. LoadedBlinds = blinds
    <2>1. Listed(BlindList) = DOMAIN blinds
      BY <1>1 DEF Settled, BlindListKept, Listed
    <2>2. ASSUME NEW b \in DOMAIN blinds
          PROVE  Stored(BlindKey(b)) /\ flash[BlindKey(b)] = blinds[b]
      BY <1>1 DEF Settled, BlindsKept
    <2>3. \A b \in DOMAIN blinds : blinds[b] \in DOMAIN LoadedRemotes
      BY <1>7 DEF IInv, BlindsHaveRemotes
    <2>4. {x \in Listed(BlindList) : HasRemote(x)} = DOMAIN blinds
      BY <2>1, <2>2, <2>3 DEF HasRemote
    <2>5. LoadedBlinds = [b \in DOMAIN blinds |-> flash[BlindKey(b)]]
      BY <2>4 DEF LoadedBlinds
    <2> QED BY <2>2, <2>5 DEF IsMap
  <1> QED BY <1>9, <1>10, <1>11

LEMMA CompleteSurvives == IInv /\ Settled => StoredBlindSurvives
  <1> SUFFICES ASSUME IInv, Settled, NEW b \in DOMAIN blinds \cap Listed(BlindList),
                      \A k \in {BlindKey(b), RemoteKey(blinds[b]), OwnList} : ~ HalfWritten(k)
               PROVE  b \in DOMAIN LoadedBlinds
    BY DEF StoredBlindSurvives
  <1> DEFINE r == blinds[b]
  <1>1. Stored(BlindKey(b)) /\ Stored(RemoteKey(r)) /\ LowHalf(r) \in Listed(OwnList)
    BY DEF Settled, Complete
  <1>2. flash[BlindKey(b)] = r
    BY <1>1 DEF IInv, RecordsMatch, Matches
  <1>3. BaseRemoteId + LowHalf(r) = r
    <2>1. r \in OwnIds
      BY DEF IInv, TypeOK
    <2> HIDE DEF r
    <2> QED BY <2>1, LowHalfIs, Numbers
  <1>4. r \in DOMAIN LoadedRemotes
    <2>1. r \in OwnListed
      BY <1>1, <1>3 DEF OwnListed
    <2> QED BY <1>1, <2>1 DEF LoadedRemotes
  <1>5. HasRemote(b)
    BY <1>1, <1>2, <1>4 DEF HasRemote
  <1> QED BY <1>5 DEF LoadedBlinds

\* Once a handler has written what it writes, a restart changes nothing but
\* bindings that wait for the timer (DeviceConfig's saves and deletes, the
\* constructor of SomfyRemotes, Blinds::Initialize).
THEOREM RestartsAreInvisible == Spec => []RestartInvisible
  <1>1. IInv /\ Settled /\ IsMap => RestartInvisible
    BY WrittenIsLoaded DEF RestartInvisible
  <1> QED BY <1>1, InvInit, InvNext, SettledInit, SettledNext, MapInit, MapNext, PTL DEF Spec

\* Wherever the power is cut, a boot finds every blind that was listed, unless the
\* cut comes between the delete and the write of a record it needs (DoAddBlind saves
\* the remote first and the list last; SaveRemoteConfig, SaveBlindConfig).
THEOREM StoredBlindsSurvive == Spec => []StoredBlindSurvives
  BY InvInit, InvNext, SettledInit, SettledNext, CompleteSurvives, PTL DEF Spec
=============================================================================
