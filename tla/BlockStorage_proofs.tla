------------------------- MODULE BlockStorage_proofs -------------------------
(***************************************************************************)
(* Proofs about BlockStorage, for any number of sectors, blocks and ids.   *)
(*                                                                         *)
(* The invariant behind them is that SaveBlock and the flash agree: a      *)
(* block chosen by SaveBlock stays free until it is programmed, and by     *)
(* then no block holds the id any more.                                    *)
(***************************************************************************)
EXTENDS BlockStorage, TLAPS, WellFoundedInduction, FiniteSetTheorems

\* Both sizes are positive, so there is a block in every sector.
LEMMA BlockNumbers ==
  /\ Blocks \subseteq Nat
  /\ 0 \in Blocks
  /\ \A b \in Blocks : SectorOf(b) \in 0 .. Sectors - 1
  /\ \A s \in 0 .. Sectors - 1 : BlocksOf(s) # {}
  <1> DEFINE n == Sectors * PerSector
  <1>1. n \in Nat /\ n > 0
    BY BlockStorageAssumption, SMT
  <1>2. ASSUME NEW b \in Blocks PROVE SectorOf(b) \in 0 .. Sectors - 1
    <2>1. /\ b \in Nat /\ b < Sectors * PerSector
          /\ PerSector \in Nat /\ PerSector > 0 /\ Sectors \in Nat
      BY <1>1, BlockStorageAssumption DEF Blocks
    <2>2. PICK q \in Int : q = b \div PerSector
      BY <2>1, SMT
    <2>3. q >= 0 /\ q * PerSector <= b
      BY <2>1, <2>2, SMTT(30)
    <2>4. q >= Sectors => q * PerSector >= Sectors * PerSector
      BY <2>1, SMTT(30)
    <2>5. q * PerSector \in Int /\ Sectors * PerSector \in Int
      BY <2>1, SMT
    <2> QED BY <2>1, <2>2, <2>3, <2>4, <2>5 DEF SectorOf
  <1>3. ASSUME NEW s \in 0 .. Sectors - 1 PROVE BlocksOf(s) # {}
    <2>1. s * PerSector \in Nat /\ s * PerSector < Sectors * PerSector
      BY BlockStorageAssumption, SMTT(30)
    <2>2. (s * PerSector) \div PerSector = s
      BY BlockStorageAssumption, SMTT(30)
    <2> HIDE DEF n
    <2>3. n \in Nat /\ s * PerSector < n
      BY <1>1, <2>1 DEF n
    <2>4. s * PerSector \in 0 .. n - 1
      BY <2>1, <2>3
    <2>5. s * PerSector \in Blocks
      BY <2>4 DEF n, Blocks
    <2> QED BY <2>2, <2>5 DEF BlocksOf, SectorOf
  <1>4. Blocks \subseteq Nat
    BY <1>1 DEF Blocks
  <1>5. 0 \in Blocks
    BY <1>1 DEF Blocks
  <1> QED BY <1>2, <1>3, <1>4, <1>5

\* FindBlock finds a block that holds the word, if there is one.
LEMMA MinInside ==
  ASSUME NEW S \in SUBSET Nat, S # {}
  PROVE  Min(S) \in S
  <1> DEFINE Less == OpToRel(<, Nat)
  <1>1. \A x, y \in Nat : x < y => <<x, y>> \in Less
    BY DEF OpToRel
  <1>2. IsWellFoundedOn(Less, Nat)
    BY NatLessThanWellFounded
  <1> HIDE DEF Less
  <1>3. PICK m \in S : \A k \in S : ~ (<<k, m>> \in Less)
    BY <1>2, WFMin
  <1>4. ASSUME NEW k \in S PROVE m <= k
    <2>1. k \in Nat /\ m \in Nat
      OBVIOUS
    <2>2. ~ (k < m)
      BY <1>1, <1>3, <2>1, Zenon
    <2> QED BY <2>1, <2>2
  <1> QED BY <1>4 DEF Min

LEMMA FindBlockHolds ==
  \A w : Found(w) => FindBlock(w) \in Blocks /\ flash[FindBlock(w)].id = w
  BY BlockNumbers, MinInside DEF Found, FindBlock, Holding

-----------------------------------------------------------------------------
LEMMA ContentTypes ==
  /\ FreeBlock \in Contents /\ EmptyBlock \in Contents /\ TornBlock \in Contents
  /\ \A i \in Ids, d \in Data \cup {Damaged} : Record(i, d) \in Contents
  BY DEF Contents, Record

LEMMA BetweenType ==
  ASSUME NEW old \in Contents, NEW new \in Contents
  PROVE  Between(old, new) \subseteq Contents
  BY ContentTypes DEF Between

LEMMA TypeInit == Init => TypeOK
  BY BlockNumbers, ContentTypes, BlockStorageAssumption DEF Init, TypeOK, Requests

\* The flash after an operation that was cut short.
LEMMA CutShortType ==
  ASSUME NEW B \in SUBSET Blocks, NEW new \in Contents, flash \in [Blocks -> Contents],
         CutShort(B, new)
  PROVE  /\ flash' \in [Blocks -> Contents]
         /\ \A b \in Blocks \ B : flash'[b] = flash[b]
         /\ \A b \in B : flash'[b] \in Between(flash[b], new)
  BY BetweenType DEF CutShort

LEMMA ContentIds ==
  /\ BlockFree \notin Ids /\ BlockEmpty \notin Ids /\ Torn \notin Ids
  /\ FreeBlock.id = BlockFree /\ EmptyBlock.id = BlockEmpty /\ TornBlock.id = Torn
  /\ FreeBlock # TornBlock /\ EmptyBlock # TornBlock
  /\ \A c \in Contents : \/ c.id \in Ids /\ c.data \in Data \cup {Damaged}
                         \/ c \in {FreeBlock, EmptyBlock, TornBlock}
  /\ \A i, d : Record(i, d).id = i /\ Record(i, d).data = d
  BY BlockStorageAssumption DEF Contents, FreeBlock, EmptyBlock, TornBlock, Record

LEMMA FreeOnly ==
  \A c \in Contents : c.id = BlockFree => c = FreeBlock
  BY ContentIds, BlockStorageAssumption

LEMMA SaveParts ==
  \A q \in Saves : q.op = "save" /\ q.id \in Ids /\ q.data \in Data
  BY DEF Saves

LEMMA ClearParts ==
  \A q \in Clears : q.op = "clear" /\ q.id \in Ids
  BY DEF Clears

LEMMA FreeBlockFound ==
  TypeOK /\ Found(BlockFree) => /\ FindBlock(BlockFree) \in Blocks
                                /\ flash[FindBlock(BlockFree)] = FreeBlock
  <1> SUFFICES ASSUME TypeOK, Found(BlockFree)
               PROVE  /\ FindBlock(BlockFree) \in Blocks
                      /\ flash[FindBlock(BlockFree)] = FreeBlock
    OBVIOUS
  <1>1. PICK b \in Blocks : b = FindBlock(BlockFree) /\ flash[b].id = BlockFree
    BY FindBlockHolds
  <1>2. flash[b] \in Contents
    BY DEF TypeOK
  <1>3. flash[b] = FreeBlock
    BY <1>1, <1>2, FreeOnly
  <1> QED BY <1>1, <1>3

\* What the call in progress knows about the flash.
InCall ==
  /\ at \in {"erase", "delete", "program"} => request \in Saves
  /\ at = "clear" => request \in Clears
  /\ at = "format" => request = [op |-> "format"]
  /\ at \in {"delete", "program"} => flash[block] = FreeBlock
  /\ at = "program" => \A b \in Blocks : flash[b].id # request.id
  /\ at = "format" => \A b \in Blocks : SectorOf(b) < sector => flash[b] = FreeBlock

-----------------------------------------------------------------------------
\* The flash after each kind of step.
LEMMA OldDeletedIs ==
  ASSUME TypeOK, NEW i
  PROVE  /\ OldDeleted(i) \in [Blocks -> Contents]
         /\ \A b \in Blocks : OldDeleted(i)[b] \in {flash[b], EmptyBlock}
         /\ \A b \in Blocks : flash[b].id # i => OldDeleted(i)[b] = flash[b]
         /\ Found(i) => OldDeleted(i)[FindBlock(i)] = EmptyBlock
  BY FindBlockHolds, ContentTypes DEF OldDeleted, Zeroed, TypeOK

LEMMA ErasedIs ==
  ASSUME TypeOK, NEW s
  PROVE  /\ Erased(s) \in [Blocks -> Contents]
         /\ \A b \in BlocksOf(s) : Erased(s)[b] = FreeBlock
         /\ \A b \in Blocks \ BlocksOf(s) : Erased(s)[b] = flash[b]
  BY ContentTypes DEF Erased, TypeOK, BlocksOf

LEMMA ProgrammedIs ==
  ASSUME TypeOK, InCall, at = "program"
  PROVE  /\ NewRecord \in Contents /\ NewRecord = Record(request.id, request.data)
         /\ request.id \in Ids /\ request.data \in Data
         /\ Programmed(block, NewRecord) = [flash EXCEPT ![block] = NewRecord]
  BY ContentTypes, SaveParts DEF TypeOK, InCall, Programmed, NewRecord

\* Whatever is cut short, a block keeps its record, loses it, or the record is
\* damaged; the one exception is the record being programmed.
Decays(b) == \/ flash'[b] = flash[b]
             \/ flash'[b] \in {FreeBlock, EmptyBlock, TornBlock}
             \/ flash[b].id \in Ids /\ flash'[b] = Record(flash[b].id, Damaged)

LEMMA CutDecays ==
  ASSUME TypeOK, NEW B \in SUBSET Blocks, NEW new \in {FreeBlock, EmptyBlock}, CutShort(B, new)
  PROVE  /\ flash' \in [Blocks -> Contents]
         /\ \A b \in Blocks : Decays(b)
         /\ \A b \in Blocks \ B : flash'[b] = flash[b]
  <1>1. new \in Contents /\ new.id \notin Ids
    BY ContentTypes, ContentIds
  <1>2. /\ flash' \in [Blocks -> Contents]
        /\ \A b \in Blocks \ B : flash'[b] = flash[b]
        /\ \A b \in B : flash'[b] \in Between(flash[b], new)
    BY <1>1, CutShortType DEF TypeOK
  <1>3. ASSUME NEW b \in B PROVE Decays(b)
    BY <1>1, <1>2 DEF Between, Decays
  <1> QED BY <1>2, <1>3 DEF Decays

LEMMA CutProgram ==
  ASSUME TypeOK, InCall, CutDuringProgram
  PROVE  /\ flash' \in [Blocks -> Contents]
         /\ \A b \in Blocks : b # block => flash'[b] = flash[b]
         /\ flash'[block] \in {FreeBlock, TornBlock, NewRecord, Record(request.id, Damaged)}
  <1>1. at = "program" /\ CutShort({block}, NewRecord) /\ block \in Blocks
    BY DEF CutDuringProgram, TypeOK
  <1>2. NewRecord \in Contents /\ NewRecord.id = request.id /\ FreeBlock.id \notin Ids
    BY <1>1, ProgrammedIs, ContentIds
  <1>3. flash[block] = FreeBlock
    BY <1>1 DEF InCall
  <1>4. /\ flash' \in [Blocks -> Contents]
        /\ \A b \in Blocks \ {block} : flash'[b] = flash[b]
        /\ flash'[block] \in Between(flash[block], NewRecord)
    BY <1>1, <1>2, CutShortType DEF TypeOK
  <1>5. Between(FreeBlock, NewRecord) \subseteq
          {FreeBlock, TornBlock, NewRecord, Record(request.id, Damaged)}
    BY <1>2 DEF Between
  <1> QED BY <1>3, <1>4, <1>5

\* Every other way a power cut can come.
LEMMA CutOther ==
  ASSUME TypeOK, InCall, CutDuringDelete \/ CutDuringErase \/ CutBetween
  PROVE  flash' \in [Blocks -> Contents] /\ \A b \in Blocks : Decays(b)
  <1>1. CASE CutDuringDelete
    <2>1. FindBlock(request.id) \in Blocks /\ CutShort({FindBlock(request.id)}, EmptyBlock)
      BY <1>1, FindBlockHolds DEF CutDuringDelete
    <2> QED BY <2>1, CutDecays
  <1>2. CASE CutDuringErase
    <2>1. BlocksOf(sector) \subseteq Blocks /\ CutShort(BlocksOf(sector), FreeBlock)
      BY <1>2 DEF CutDuringErase, BlocksOf
    <2> QED BY <2>1, CutDecays
  <1>3. CASE CutBetween
    BY <1>3 DEF CutBetween, Decays, TypeOK
  <1> QED BY <1>1, <1>2, <1>3

\* What every step does to the flash: all but the programming of a record let
\* blocks decay.
Programs ==
  /\ at = "program"
  /\ \A b \in Blocks : b # block => flash'[b] = flash[b]
  /\ flash'[block] \in {FreeBlock, TornBlock, NewRecord, Record(request.id, Damaged)}

LEMMA FlashStep ==
  TypeOK /\ InCall /\ [Next]_vars =>
    flash' \in [Blocks -> Contents] /\ (Programs \/ \A b \in Blocks : Decays(b))
  <1> SUFFICES ASSUME TypeOK, InCall, [Next]_vars
               PROVE  flash' \in [Blocks -> Contents] /\ (Programs \/ \A b \in Blocks : Decays(b))
    OBVIOUS
  <1>1. CASE UNCHANGED flash
    BY <1>1 DEF TypeOK, Decays
  <1>2. CASE EraseEmptySector \/ FormatSector
    <2>1. flash' = Erased(sector) \/ flash' = flash
      BY <1>2 DEF EraseEmptySector, FormatSector
    <2> QED BY <2>1, <1>1, ErasedIs DEF Decays
  <1>3. CASE DeleteOld \/ ClearPage
    <2>1. flash' = OldDeleted(request.id)
      BY <1>3 DEF DeleteOld, ClearPage
    <2> QED BY <2>1, OldDeletedIs DEF Decays
  <1>4. CASE ProgramNew
    <2>1. at = "program" /\ flash' = Programmed(block, NewRecord)
      BY <1>4 DEF ProgramNew
    <2> QED BY <2>1, ProgrammedIs DEF Programs, TypeOK
  <1>5. CASE PowerCut
    <2>1. CASE CutDuringProgram
      BY <2>1, CutProgram DEF CutDuringProgram, Programs
    <2>2. CASE CutDuringDelete \/ CutDuringErase \/ CutBetween
      BY <2>2, CutOther
    <2> QED BY <1>5, <2>1, <2>2 DEF PowerCut
  <1> QED BY <1>1, <1>2, <1>3, <1>4, <1>5
          DEF Next, vars, SaveBlock, SaveAfterErase, SaveRefused, ClearBlock, Format, FormatEnds

LEMMA TypeStep == TypeOK /\ InCall /\ [Next]_vars => TypeOK'
  <1> SUFFICES ASSUME TypeOK, InCall, [Next]_vars PROVE TypeOK'
    OBVIOUS
  <1>1. flash' \in [Blocks -> Contents]
    BY FlashStep
  <1>2. ASSUME NEW i \in Ids, NEW d \in Data, SaveBlock(i, d) PROVE TypeOK'
    <2>1. request' \in Requests /\ block' \in Blocks
      BY <1>2, FindBlockHolds DEF SaveBlock, Requests, Saves, TypeOK
    <2> QED BY <1>1, <1>2, <2>1, BlockStorageAssumption DEF SaveBlock, TypeOK
  <1>3. CASE EraseEmptySector
    BY <1>1, <1>3, BlockStorageAssumption DEF EraseEmptySector, SectorsToVisit, TypeOK
  <1>4. CASE SaveAfterErase
    BY <1>1, <1>4, FindBlockHolds DEF SaveAfterErase, BlockFoundAgain, TypeOK
  <1>5. CASE SaveRefused \/ DeleteOld \/ ProgramNew
    BY <1>1, <1>5 DEF SaveRefused, DeleteOld, ProgramNew, TypeOK
  <1>6. ASSUME NEW i \in Ids, ClearBlock(i) PROVE TypeOK'
    BY <1>1, <1>6 DEF ClearBlock, Requests, Clears, TypeOK
  <1>7. CASE ClearPage \/ FormatEnds
    BY <1>1, <1>7 DEF ClearPage, FormatEnds, TypeOK
  <1>8. CASE Format
    BY <1>1, <1>8, BlockStorageAssumption DEF Format, Requests, TypeOK
  <1>9. CASE FormatSector
    BY <1>1, <1>9, BlockStorageAssumption DEF FormatSector, TypeOK
  <1>10. CASE PowerCut
    BY <1>1, <1>10, BlockStorageAssumption DEF PowerCut, TypeOK
  <1>11. CASE UNCHANGED vars
    BY <1>1, <1>11 DEF vars, TypeOK
  <1> QED BY <1>2, <1>3, <1>4, <1>5, <1>6, <1>7, <1>8, <1>9, <1>10, <1>11 DEF Next

LEMMA InCallStep == TypeOK /\ InCall /\ OneCopy /\ [Next]_vars => InCall'
  <1> SUFFICES ASSUME TypeOK, InCall, OneCopy, [Next]_vars PROVE InCall'
    OBVIOUS
  <1>1. ASSUME NEW i \in Ids, NEW d \in Data, SaveBlock(i, d) PROVE InCall'
    <2>1. request' \in Saves /\ at' \in {"erase", "delete"} /\ flash' = flash
      BY <1>1 DEF SaveBlock, Saves
    <2>2. at' = "delete" => flash'[block'] = FreeBlock
      BY <1>1, FreeBlockFound DEF SaveBlock
    <2> QED BY <2>1, <2>2 DEF InCall
  <1>2. CASE EraseEmptySector
    BY <1>2 DEF EraseEmptySector, InCall
  <1>3. CASE SaveAfterErase
    <2>1. request' = request /\ request \in Saves /\ at' = "delete" /\ flash' = flash
      BY <1>3 DEF SaveAfterErase, InCall
    <2>2. flash'[block'] = FreeBlock
      BY <1>3, FreeBlockFound DEF SaveAfterErase, BlockFoundAgain
    <2> QED BY <2>1, <2>2 DEF InCall
  <1>4. CASE SaveRefused \/ ProgramNew \/ ClearPage \/ FormatEnds \/ PowerCut
    BY <1>4 DEF SaveRefused, ProgramNew, ClearPage, FormatEnds, PowerCut, InCall
  <1>5. CASE DeleteOld
    <2>1. /\ at = "delete" /\ at' = "program" /\ flash' = OldDeleted(request.id)
          /\ UNCHANGED <<request, block>> /\ request \in Saves /\ flash[block] = FreeBlock
      BY <1>5 DEF DeleteOld, InCall
    <2>2. request.id \in Ids /\ block \in Blocks
      BY <2>1, SaveParts DEF TypeOK
    <2>3. flash'[block] = FreeBlock
      BY <2>1, <2>2, OldDeletedIs, ContentIds
    <2>4. ASSUME NEW b \in Blocks PROVE flash'[b].id # request.id
      <3>1. CASE flash[b].id = request.id
        <4>1. Found(request.id)
          BY <3>1 DEF Found, Holding
        <4>2. b = FindBlock(request.id)
          BY <2>2, <3>1, <4>1, FindBlockHolds DEF OneCopy
        <4> QED BY <2>1, <2>2, <4>1, <4>2, OldDeletedIs, ContentIds
      <3>2. CASE flash[b].id # request.id
        BY <2>1, <3>2, OldDeletedIs
      <3> QED BY <3>1, <3>2
    <2> QED BY <2>1, <2>3, <2>4 DEF InCall
  <1>6. ASSUME NEW i \in Ids, ClearBlock(i) PROVE InCall'
    BY <1>6 DEF ClearBlock, Clears, InCall
  <1>7. CASE Format
    <2>1. \A b \in Blocks : ~ (SectorOf(b) < 0)
      BY BlockNumbers
    <2> QED BY <1>7, <2>1 DEF Format, InCall
  <1>8. CASE FormatSector
    <2>1. /\ at = "format" /\ at' = "format" /\ request' = request /\ request = [op |-> "format"]
          /\ flash' = Erased(sector) /\ sector' = sector + 1
          /\ \A b \in Blocks : SectorOf(b) < sector => flash[b] = FreeBlock
      BY <1>8 DEF FormatSector, InCall
    <2>2. ASSUME NEW b \in Blocks, SectorOf(b) < sector + 1 PROVE flash'[b] = FreeBlock
      <3>1. SectorOf(b) = sector \/ SectorOf(b) < sector
        BY <2>2, BlockNumbers DEF TypeOK
      <3> QED BY <2>1, <3>1, ErasedIs DEF BlocksOf
    <2> QED BY <2>1, <2>2 DEF InCall
  <1>9. CASE UNCHANGED vars
    BY <1>9 DEF vars, InCall
  <1> QED BY <1>1, <1>2, <1>3, <1>4, <1>5, <1>6, <1>7, <1>8, <1>9 DEF Next

LEMMA OneCopyStep == TypeOK /\ InCall /\ OneCopy /\ [Next]_vars => OneCopy'
  <1> SUFFICES ASSUME TypeOK, InCall, OneCopy, [Next]_vars PROVE OneCopy'
    OBVIOUS
  <1>1. CASE \A b \in Blocks : Decays(b)
    <2>1. \A b \in Blocks : flash'[b].id \in Ids => flash'[b].id = flash[b].id
      BY <1>1, ContentIds DEF Decays
    <2> QED BY <2>1 DEF OneCopy
  <1>2. CASE Programs
    <2>1. request.id \in Ids /\ (\A b \in Blocks : flash[b].id # request.id) /\ block \in Blocks
      BY <1>2, SaveParts DEF Programs, InCall, TypeOK
    <2>2. flash'[block].id \in Ids => flash'[block].id = request.id
      BY <1>2, ContentIds DEF Programs, NewRecord
    <2>3. \A b \in Blocks : b # block => flash'[b] = flash[b]
      BY <1>2 DEF Programs
    <2> QED BY <2>1, <2>2, <2>3 DEF OneCopy
  <1> QED BY <1>1, <1>2, FlashStep

LEMMA InvInit == Init => InCall /\ OneCopy
  <1> SUFFICES ASSUME Init PROVE InCall /\ OneCopy
    OBVIOUS
  <1>1. \A b \in Blocks : flash[b].id = BlockFree
    BY ContentIds DEF Init
  <1> QED BY <1>1, ContentIds DEF Init, InCall, OneCopy

LEMMA InvCorrect == Spec => [](TypeOK /\ InCall /\ OneCopy)
  BY TypeInit, InvInit, TypeStep, InCallStep, OneCopyStep, PTL DEF Spec

\* Blocks, requests and sectors stay in range, whatever a power cut leaves.
THEOREM TypeCorrect == Spec => []TypeOK
  BY InvCorrect, PTL

\* At most one block holds an id, at every moment, power cuts included.
THEOREM OneRecordPerId == Spec => []OneCopy
  BY InvCorrect, PTL

-----------------------------------------------------------------------------
LEMMA WearStep == TypeOK /\ InCall /\ NeverProgramsTwice /\ [Next]_vars => NeverProgramsTwice'
  <1> SUFFICES ASSUME TypeOK, InCall, NeverProgramsTwice, [Next]_vars, cuts' = 0
               PROVE  \A b \in Blocks : flash'[b] # TornBlock /\ flash'[b].data # Damaged
    BY DEF NeverProgramsTwice
  <1>1. ~ PowerCut /\ cuts = 0
    BY DEF PowerCut, TypeOK, Next, vars, SaveBlock, EraseEmptySector, SaveAfterErase,
           SaveRefused, DeleteOld, ProgramNew, ClearBlock, ClearPage, Format, FormatSector,
           FormatEnds
  <1>2. \A b \in Blocks : flash[b] # TornBlock /\ flash[b].data # Damaged
    BY <1>1 DEF NeverProgramsTwice
  <1>3. /\ FreeBlock # TornBlock /\ EmptyBlock # TornBlock
        /\ FreeBlock.data # Damaged /\ EmptyBlock.data # Damaged
    BY ContentIds, BlockStorageAssumption DEF FreeBlock, EmptyBlock
  <1>4. CASE EraseEmptySector \/ FormatSector
    <2>1. flash' = Erased(sector) \/ flash' = flash
      BY <1>4 DEF EraseEmptySector, FormatSector
    <2> QED BY <1>2, <1>3, <2>1, ErasedIs
  <1>5. CASE DeleteOld \/ ClearPage
    <2>1. flash' = OldDeleted(request.id)
      BY <1>5 DEF DeleteOld, ClearPage
    <2>2. \A b \in Blocks : flash'[b] \in {flash[b], EmptyBlock}
      BY <2>1, OldDeletedIs
    <2> QED BY <1>2, <1>3, <2>2
  <1>6. CASE ProgramNew
    <2>1. at = "program" /\ flash' = Programmed(block, NewRecord)
      BY <1>6 DEF ProgramNew
    <2>2. /\ NewRecord.id \in Ids /\ NewRecord.data \in Data
          /\ flash' = [flash EXCEPT ![block] = NewRecord]
      BY <2>1, ProgrammedIs, ContentIds
    <2>3. NewRecord # TornBlock /\ NewRecord.data # Damaged
      BY <2>2, ContentIds, BlockStorageAssumption
    <2> QED BY <1>2, <2>2, <2>3 DEF TypeOK
  <1> QED BY <1>1, <1>2, <1>4, <1>5, <1>6
          DEF Next, vars, SaveBlock, SaveAfterErase, SaveRefused, ClearBlock, Format, FormatEnds

\* Without a power cut, a record is only ever programmed into an erased block.
THEOREM ProgramsErasedBlocks == Spec => []NeverProgramsTwice
  <1>1. Init => NeverProgramsTwice
    BY ContentIds, BlockStorageAssumption DEF Init, NeverProgramsTwice, FreeBlock
  <1> QED BY <1>1, InvCorrect, WearStep, PTL DEF Spec

-----------------------------------------------------------------------------
(***************************************************************************)
(* Room: after FormatEmptySectors every sector that was visited holds a    *)
(* block that is not deleted.  If none of them is free, each sector holds  *)
(* a block in use, and these are as many blocks as there are sectors.      *)
(***************************************************************************)
Visited ==
  at = "erase" =>
    \A s \in 0 .. Sectors - 1 : s < sector => \E b \in BlocksOf(s) : flash[b].id # BlockEmpty

Crowded ==
  outcome = "full" =>
    /\ at = "idle"
    /\ \A s \in 0 .. Sectors - 1 : \E b \in BlocksOf(s) : b \in Used

LEMMA VisitedStep == TypeOK /\ Visited /\ [Next]_vars => Visited'
  <1> SUFFICES ASSUME TypeOK, Visited, [Next]_vars, at' = "erase",
                      NEW s \in 0 .. Sectors - 1, s < sector'
               PROVE  \E b \in BlocksOf(s) : flash'[b].id # BlockEmpty
    BY DEF Visited
  <1>1. CASE EraseEmptySector
    <2>1. /\ at = "erase" /\ sector' = sector + 1
          /\ flash' = IF MayErase(sector) THEN Erased(sector) ELSE flash
      BY <1>1 DEF EraseEmptySector
    <2>2. s < sector \/ s = sector
      BY <2>1 DEF TypeOK
    <2>3. CASE s = sector /\ MayErase(sector)
      <3>1. PICK b \in BlocksOf(s) : TRUE
        BY BlockNumbers
      <3>2. flash'[b] = FreeBlock
        BY <2>1, <2>3, ErasedIs
      <3> QED BY <3>1, <3>2, ContentIds, BlockStorageAssumption
    <2>4. CASE s = sector /\ ~ MayErase(sector)
      BY <2>1, <2>4 DEF MayErase
    <2>5. CASE s < sector
      <3>1. PICK b \in BlocksOf(s) : flash[b].id # BlockEmpty
        BY <2>1, <2>5 DEF Visited
      <3>2. b \in Blocks \ BlocksOf(sector)
        BY <2>5 DEF BlocksOf, TypeOK
      <3>3. flash'[b] = flash[b]
        BY <2>1, <3>2, ErasedIs
      <3> QED BY <3>1, <3>3
    <2> QED BY <2>2, <2>3, <2>4, <2>5
  <1>2. CASE \E i \in Ids, d \in Data : SaveBlock(i, d)
    <2>1. sector' = 0
      BY <1>2 DEF SaveBlock
    <2> QED BY <2>1
  <1>3. CASE UNCHANGED vars
    BY <1>3 DEF vars, Visited
  <1> QED BY <1>1, <1>2, <1>3
          DEF Next, SaveAfterErase, SaveRefused, DeleteOld, ProgramNew, ClearBlock, ClearPage,
              Format, FormatSector, FormatEnds, PowerCut

LEMMA CrowdedStep == TypeOK /\ Visited /\ Crowded /\ [Next]_vars => Crowded'
  <1> SUFFICES ASSUME TypeOK, Visited, Crowded, [Next]_vars, outcome' = "full" PROVE Crowded'
    BY DEF Crowded
  <1>1. CASE SaveRefused
    <2>1. at' = "idle" /\ flash' = flash /\ at = "erase" /\ sector = Sectors /\ ~ Found(BlockFree)
      BY <1>1 DEF SaveRefused, SectorsToVisit
    <2>2. ASSUME NEW s \in 0 .. Sectors - 1 PROVE \E b \in BlocksOf(s) : b \in Used
      <3>1. s < sector
        BY <2>1, BlockStorageAssumption
      <3>2. PICK b \in BlocksOf(s) : flash[b].id # BlockEmpty
        BY <2>1, <3>1 DEF Visited
      <3>3. b \in Blocks /\ flash[b].id # BlockFree
        BY <2>1 DEF BlocksOf, Found, Holding
      <3> QED BY <3>2, <3>3 DEF Used
    <2> QED BY <2>1, <2>2 DEF Crowded, Used
  <1>2. CASE UNCHANGED vars
    BY <1>2 DEF vars, Crowded, Used
  <1>3. outcome = "full" => at = "idle"
    BY DEF Crowded
  <1> QED BY <1>1, <1>2, <1>3
          DEF Next, SaveBlock, EraseEmptySector, SaveAfterErase, DeleteOld, ProgramNew,
              ClearBlock, ClearPage, Format, FormatSector, FormatEnds, PowerCut

\* One block from each sector: as many blocks as sectors.
LEMMA OneEach ==
  ASSUME NEW U \in SUBSET Blocks, \A s \in 0 .. Sectors - 1 : \E b \in BlocksOf(s) : b \in U
  PROVE  Cardinality(U) >= Sectors
  <1> DEFINE S == 0 .. Sectors - 1
             f == [s \in S |-> CHOOSE b \in BlocksOf(s) : b \in U]
  <1>1. \A s \in S : f[s] \in U /\ SectorOf(f[s]) = s
    BY DEF BlocksOf
  <1>2. f \in Injection(S, U)
    BY <1>1 DEF Injection, IsInjective
  <1>3. IsFiniteSet(U)
    <2>1. Sectors * PerSector \in Int
      BY BlockStorageAssumption, SMT
    <2>2. IsFiniteSet(Blocks)
      BY <2>1, FS_Interval DEF Blocks
    <2> QED BY <2>2, FS_Subset
  <1>4. Cardinality(S) <= Cardinality(U)
    BY <1>2, <1>3, FS_Injection
  <1>5. Cardinality(S) = Sectors
    BY FS_Interval, BlockStorageAssumption
  <1>6. Cardinality(U) \in Nat
    BY <1>3, FS_CardinalityType
  <1> QED BY <1>4, <1>5, <1>6, BlockStorageAssumption

\* SaveBlock never refuses while fewer blocks than there are sectors hold
\* something, no matter in which order they were written and deleted.
THEOREM SpaceComesBack == Spec => []RefusedOnlyWhenCrowded
  <1>1. Init => Visited /\ Crowded
    BY DEF Init, Visited, Crowded
  <1>2. Crowded => RefusedOnlyWhenCrowded
    <2> SUFFICES ASSUME Crowded, outcome = "full" PROVE Cardinality(Used) >= Sectors
      BY DEF RefusedOnlyWhenCrowded
    <2>1. Used \in SUBSET Blocks
      BY DEF Used
    <2> QED BY <2>1, OneEach DEF Crowded
  <1> QED BY <1>1, <1>2, InvCorrect, VisitedStep, CrowdedStep, PTL DEF Spec

-----------------------------------------------------------------------------
(***************************************************************************)
(* Refinement.  With one copy of a record, what GetBlock returns depends   *)
(* on the block that holds the id only, not on where it lies.              *)
(***************************************************************************)
Reads ==
  \A i \in Ids :
    /\ (\A b \in Blocks : flash[b].id # i) => GetBlock(i) = Missing
    /\ \A b \in Blocks : flash[b].id = i => GetBlock(i) = flash[b].data
    /\ GetBlock(i) \in Data \cup {Missing, Damaged}

LEMMA ReadsCorrect == TypeOK /\ OneCopy => Reads
  <1> SUFFICES ASSUME TypeOK, OneCopy, NEW i \in Ids
               PROVE  /\ (\A b \in Blocks : flash[b].id # i) => GetBlock(i) = Missing
                      /\ \A b \in Blocks : flash[b].id = i => GetBlock(i) = flash[b].data
                      /\ GetBlock(i) \in Data \cup {Missing, Damaged}
    BY DEF Reads
  <1>1. (\A b \in Blocks : flash[b].id # i) => GetBlock(i) = Missing
    BY DEF GetBlock, Found, Holding
  <1>2. ASSUME NEW b \in Blocks, flash[b].id = i PROVE GetBlock(i) = flash[b].data
    <2>1. Found(i)
      BY <1>2 DEF Found, Holding
    <2>2. FindBlock(i) = b
      BY <1>2, <2>1, FindBlockHolds DEF OneCopy
    <2> QED BY <2>1, <2>2 DEF GetBlock
  <1>3. \A b \in Blocks : flash[b].id = i => flash[b].data \in Data \cup {Damaged}
    BY ContentIds DEF TypeOK
  <1> QED BY <1>1, <1>2, <1>3

\* The record of an id whose blocks are left alone.
LEMMA SameRecord ==
  ASSUME Reads, Reads', NEW i \in Ids,
         \A b \in Blocks : flash[b].id = i => flash'[b] = flash[b],
         \A b \in Blocks : flash'[b].id = i => flash[b].id = i
  PROVE  GetBlock(i)' = GetBlock(i)
  <1>1. CASE \E b \in Blocks : flash[b].id = i
    BY <1>1 DEF Reads
  <1>2. CASE \A b \in Blocks : flash[b].id # i
    BY <1>2 DEF Reads
  <1> QED BY <1>1, <1>2

\* The record of an id whose blocks decay.
LEMMA DecayedRecord ==
  ASSUME TypeOK, Reads, Reads', NEW i \in Ids, \A b \in Blocks : Decays(b)
  PROVE  \/ GetBlock(i)' = GetBlock(i)
         \/ GetBlock(i)' = Missing
         \/ GetBlock(i)' = Damaged /\ GetBlock(i) # Missing
  <1>1. CASE \A b \in Blocks : flash'[b].id # i
    BY <1>1 DEF Reads
  <1>2. CASE \E b \in Blocks : flash'[b].id = i
    <2>1. PICK b \in Blocks : flash'[b].id = i
      BY <1>2
    <2>2. flash[b].id = i /\ (flash'[b] = flash[b] \/ flash'[b].data = Damaged)
      BY <2>1, ContentIds DEF Decays
    <2>3. GetBlock(i)' = flash'[b].data /\ GetBlock(i) = flash[b].data
      BY <2>1, <2>2 DEF Reads
    <2>4. flash[b].data # Missing
      <3>1. flash[b] \in Contents
        BY DEF TypeOK
      <3>2. flash[b].data \in Data \cup {Damaged}
        BY <2>2, <3>1, ContentIds
      <3> QED BY <3>2, BlockStorageAssumption
    <2> QED BY <2>2, <2>3, <2>4
  <1> QED BY <1>1, <1>2

\* A step that leaves the flash alone.
LEMMA SameFlash ==
  ASSUME Reads, Reads', flash' = flash
  PROVE  \A i \in Ids : GetBlock(i)' = GetBlock(i)
  BY SameRecord

\* Deleting the old record.
LEMMA DeletedRecord ==
  ASSUME TypeOK, OneCopy, Reads, Reads', NEW q \in Ids, flash' = OldDeleted(q)
  PROVE  /\ GetBlock(q)' = Missing
         /\ \A i \in Ids : i # q => GetBlock(i)' = GetBlock(i)
  <1>1. ASSUME NEW b \in Blocks PROVE flash'[b].id # q
    <2>1. CASE flash[b].id = q
      <3>1. Found(q)
        BY <2>1 DEF Found, Holding
      <3>2. b = FindBlock(q)
        BY <2>1, <3>1, FindBlockHolds DEF OneCopy
      <3> QED BY <3>1, <3>2, OldDeletedIs, ContentIds
    <2>2. CASE flash[b].id # q
      BY <2>2, OldDeletedIs
    <2> QED BY <2>1, <2>2
  <1>2. ASSUME NEW i \in Ids, i # q PROVE GetBlock(i)' = GetBlock(i)
    <2>1. \A b \in Blocks : flash[b].id = i => flash'[b] = flash[b]
      BY <1>2, OldDeletedIs
    <2>2. \A b \in Blocks : flash'[b].id = i => flash[b].id = i
      BY <1>2, OldDeletedIs, ContentIds
    <2> QED BY <2>1, <2>2, SameRecord
  <1> QED BY <1>1, <1>2 DEF Reads

\* Programming the new record.
LEMMA NewRecordOnly ==
  ASSUME TypeOK, InCall, Reads, Reads', Programs, NEW q \in Ids, q = request.id
  PROVE  /\ GetBlock(q)' \in {Missing, request.data, Damaged}
         /\ flash'[block] = NewRecord => GetBlock(q)' = request.data
         /\ \A i \in Ids : i # q => GetBlock(i)' = GetBlock(i)
  <1>1. /\ request \in Saves /\ request.id \in Ids /\ block \in Blocks
        /\ \A b \in Blocks : flash[b].id # request.id
        /\ flash[block] = FreeBlock
        /\ \A b \in Blocks : b # block => flash'[b] = flash[b]
    BY SaveParts DEF Programs, InCall, TypeOK
  <1>2. \/ flash'[block] \in {FreeBlock, TornBlock}
        \/ flash'[block] = Record(request.id, request.data)
        \/ flash'[block] = Record(request.id, Damaged)
    BY DEF Programs, NewRecord
  <1>3. flash'[block].id = q => GetBlock(q)' = flash'[block].data
    BY <1>1 DEF Reads
  <1>4. flash'[block].id # q => GetBlock(q)' = Missing
    <2>1. flash'[block].id # q => \A b \in Blocks : flash'[b].id # q
      BY <1>1
    <2> QED BY <2>1 DEF Reads
  <1>5. ASSUME NEW i \in Ids, i # q PROVE GetBlock(i)' = GetBlock(i)
    <2>1. flash[block].id # i /\ flash'[block].id # i
      BY <1>1, <1>2, <1>5, ContentIds
    <2>2. \A b \in Blocks : flash[b].id = i => flash'[b] = flash[b]
      BY <1>1, <2>1
    <2>3. \A b \in Blocks : flash'[b].id = i => flash[b].id = i
      BY <1>1, <2>1
    <2> QED BY <2>2, <2>3, SameRecord
  <1>6. flash'[block] = NewRecord => GetBlock(q)' = request.data
    BY <1>3, ContentIds DEF NewRecord
  <1>7. GetBlock(q)' \in {Missing, request.data, Damaged}
    BY <1>2, <1>3, <1>4, ContentIds
  <1> QED BY <1>5, <1>6, <1>7

\* The three stages of a call, as RecordStore sees them.
Stage == IF at = "idle" THEN "idle" ELSE IF at = "program" THEN "committed" ELSE "asked"

Stored == [i \in Ids |-> GetBlock(i)]

LEMMA StoredSame ==
  ASSUME \A i \in Ids : GetBlock(i)' = GetBlock(i)
  PROVE  Stored' = Stored
  BY DEF Stored

LEMMA StoredExcept ==
  ASSUME NEW q \in Ids, NEW x, GetBlock(q)' = x,
         \A i \in Ids : i # q => GetBlock(i)' = GetBlock(i)
  PROVE  Stored' = [Stored EXCEPT ![q] = x]
  BY DEF Stored

LEMMA CallSteps ==
  TypeOK /\ InCall /\ Reads /\ Reads' /\ flash' = flash =>
    /\ (\E i \in Ids, d \in Data : SaveBlock(i, d)) \/ (\E i \in Ids : ClearBlock(i)) \/ Format
         => Stage = "idle" /\ Stage' = "asked" /\ request' \in Requests /\ Stored' = Stored
    /\ SaveAfterErase => UNCHANGED <<Stored, Stage, request>>
    /\ SaveRefused => Stage = "asked" /\ request.op = "save" /\ Stage' = "idle"
                      /\ UNCHANGED <<Stored, request>>
    /\ FormatEnds => Stage = "asked" /\ request.op = "format" /\ Stage' = "idle"
                     /\ Stored = [i \in Ids |-> Missing] /\ UNCHANGED <<Stored, request>>
    /\ UNCHANGED vars => UNCHANGED <<Stored, Stage, request>>
  <1> SUFFICES ASSUME TypeOK, InCall, Reads, Reads', flash' = flash
      PROVE
      /\ (\E i \in Ids, d \in Data : SaveBlock(i, d)) \/ (\E i \in Ids : ClearBlock(i)) \/ Format
           => Stage = "idle" /\ Stage' = "asked" /\ request' \in Requests /\ Stored' = Stored
      /\ SaveAfterErase => UNCHANGED <<Stored, Stage, request>>
      /\ SaveRefused => Stage = "asked" /\ request.op = "save" /\ Stage' = "idle"
                        /\ UNCHANGED <<Stored, request>>
      /\ FormatEnds => Stage = "asked" /\ request.op = "format" /\ Stage' = "idle"
                       /\ Stored = [i \in Ids |-> Missing] /\ UNCHANGED <<Stored, request>>
      /\ UNCHANGED vars => UNCHANGED <<Stored, Stage, request>>
    OBVIOUS
  <1>1. Stored' = Stored
    BY SameFlash, StoredSame
  <1>2. ASSUME FormatEnds PROVE Stored = [i \in Ids |-> Missing]
    <2>1. \A b \in Blocks : flash[b].id \notin Ids
      BY <1>2, BlockNumbers, ContentIds, BlockStorageAssumption DEF FormatEnds, InCall
    <2> QED BY <2>1 DEF Stored, Reads
  <1>3. (\E i \in Ids, d \in Data : SaveBlock(i, d)) \/ (\E i \in Ids : ClearBlock(i)) \/ Format
           => Stage = "idle" /\ Stage' = "asked" /\ request' \in Requests
    BY DEF SaveBlock, ClearBlock, Format, Stage, Requests, Saves, Clears
  <1>4. SaveAfterErase => UNCHANGED <<Stage, request>>
    BY DEF SaveAfterErase, Stage
  <1>5. SaveRefused => Stage = "asked" /\ request.op = "save" /\ Stage' = "idle" /\ UNCHANGED request
    BY SaveParts DEF SaveRefused, Stage, InCall
  <1>6. FormatEnds => Stage = "asked" /\ request.op = "format" /\ Stage' = "idle" /\ UNCHANGED request
    BY DEF FormatEnds, Stage, InCall
  <1>7. UNCHANGED vars => UNCHANGED <<Stage, request>>
    BY DEF vars, Stage
  <1> QED BY <1>1, <1>2, <1>3, <1>4, <1>5, <1>6, <1>7

LEMMA WorkSteps ==
  ASSUME TypeOK, InCall, OneCopy, Reads, Reads'
  PROVE
    /\ EraseEmptySector => UNCHANGED <<Stored, Stage, request>>
    /\ DeleteOld => /\ Stage = "asked" /\ request.op = "save" /\ Stage' = "committed"
                    /\ Stored' = [Stored EXCEPT ![request.id] = Missing] /\ UNCHANGED request
    /\ ProgramNew => /\ Stage = "committed" /\ Stage' = "idle" /\ UNCHANGED request
                     /\ Stored' = [Stored EXCEPT ![request.id] = request.data]
    /\ ClearPage => /\ Stage = "asked" /\ request.op = "clear" /\ Stage' = "idle"
                    /\ Stored' = [Stored EXCEPT ![request.id] = Missing] /\ UNCHANGED request
    /\ FormatSector => /\ Stage = "asked" /\ request.op = "format" /\ UNCHANGED <<Stage, request>>
                       /\ \E S \in SUBSET Ids :
                            Stored' = [i \in Ids |-> IF i \in S THEN Missing ELSE Stored[i]]
  <1>1. ASSUME EraseEmptySector PROVE UNCHANGED <<Stored, Stage, request>>
    <2>1. /\ UNCHANGED <<at, request>>
          /\ flash' = IF MayErase(sector) THEN Erased(sector) ELSE flash
      BY <1>1 DEF EraseEmptySector
    <2>2. CASE flash' = flash
      BY <2>1, <2>2, SameFlash, StoredSame DEF Stage
    <2>3. CASE flash' = Erased(sector) /\ MayErase(sector)
      <3>1. \A b \in BlocksOf(sector) : flash[b].id \notin Ids /\ flash'[b].id \notin Ids
        BY <2>3, ErasedIs, ContentIds DEF MayErase
      <3>2. \A b \in Blocks \ BlocksOf(sector) : flash'[b] = flash[b]
        BY <2>3, ErasedIs
      <3>3. \A i \in Ids : GetBlock(i)' = GetBlock(i)
        BY <3>1, <3>2, SameRecord
      <3> QED BY <2>1, <3>3, StoredSame DEF Stage
    <2> QED BY <2>1, <2>2, <2>3
  <1>2. ASSUME DeleteOld \/ ClearPage
        PROVE  /\ Stored' = [Stored EXCEPT ![request.id] = Missing] /\ UNCHANGED request
               /\ DeleteOld => Stage = "asked" /\ request.op = "save" /\ Stage' = "committed"
               /\ ClearPage => Stage = "asked" /\ request.op = "clear" /\ Stage' = "idle"
    <2>1. /\ flash' = OldDeleted(request.id) /\ UNCHANGED request
          /\ request \in Saves \/ request \in Clears
      BY <1>2 DEF DeleteOld, ClearPage, InCall
    <2>2. PICK q \in Ids : q = request.id
      BY <2>1, SaveParts, ClearParts
    <2>3. Stored' = [Stored EXCEPT ![q] = Missing]
      BY <2>1, <2>2, DeletedRecord, StoredExcept
    <2>4. DeleteOld => Stage = "asked" /\ request.op = "save" /\ Stage' = "committed"
      BY SaveParts DEF DeleteOld, Stage, InCall
    <2>5. ClearPage => Stage = "asked" /\ request.op = "clear" /\ Stage' = "idle"
      BY ClearParts DEF ClearPage, Stage, InCall
    <2> QED BY <2>1, <2>2, <2>3, <2>4, <2>5
  <1>3. ASSUME ProgramNew
        PROVE  /\ Stage = "committed" /\ Stage' = "idle" /\ UNCHANGED request
               /\ Stored' = [Stored EXCEPT ![request.id] = request.data]
    <2>1. /\ at = "program" /\ flash' = Programmed(block, NewRecord) /\ UNCHANGED request
          /\ at' = "idle"
      BY <1>3 DEF ProgramNew
    <2>2. Programs /\ flash'[block] = NewRecord
      BY <2>1, ProgrammedIs DEF Programs, TypeOK
    <2>3. PICK q \in Ids : q = request.id
      BY <2>1, ProgrammedIs
    <2>4. Stored' = [Stored EXCEPT ![q] = request.data]
      BY <2>2, <2>3, NewRecordOnly, StoredExcept
    <2> QED BY <2>1, <2>3, <2>4 DEF Stage
  <1>4. ASSUME FormatSector
        PROVE  /\ Stage = "asked" /\ request.op = "format" /\ UNCHANGED <<Stage, request>>
               /\ \E S \in SUBSET Ids :
                    Stored' = [i \in Ids |-> IF i \in S THEN Missing ELSE Stored[i]]
    <2>1. /\ Stage = "asked" /\ request.op = "format" /\ UNCHANGED <<Stage, request>>
          /\ flash' = Erased(sector)
      BY <1>4 DEF FormatSector, Stage, InCall
    <2>2. ASSUME NEW i \in Ids PROVE GetBlock(i)' = GetBlock(i) \/ GetBlock(i)' = Missing
      <3>1. \A b \in Blocks : flash'[b] = flash[b] \/ flash'[b] = FreeBlock
        BY <2>1, ErasedIs
      <3>2. CASE \A b \in Blocks : flash'[b].id # i
        BY <3>2 DEF Reads
      <3>3. CASE \E b \in Blocks : flash'[b].id = i
        <4>1. PICK b \in Blocks : flash'[b].id = i
          BY <3>3
        <4>2. flash'[b] = flash[b]
          BY <3>1, <4>1, ContentIds
        <4> QED BY <4>1, <4>2 DEF Reads
      <3> QED BY <3>2, <3>3
    <2> DEFINE S == {i \in Ids : GetBlock(i)' = Missing}
    <2>3. Stored' = [i \in Ids |-> IF i \in S THEN Missing ELSE Stored[i]]
      BY <2>2 DEF Stored
    <2>4. S \in SUBSET Ids
      OBVIOUS
    <2> HIDE DEF S
    <2> QED BY <2>1, <2>3, <2>4
  <1> QED BY <1>1, <1>2, <1>3, <1>4

\* What a power cut may make of the record of an id.
CutOutcome(i) ==
  IF Stage = "idle" \/ (request.op # "format" /\ request.id # i) THEN {Stored[i]}
  ELSE IF Stage = "committed" THEN {Missing, request.data, Damaged}
  ELSE IF Stored[i] = Missing THEN {Missing}
  ELSE {Stored[i], Missing, Damaged}

LEMMA CutStep ==
  ASSUME TypeOK, InCall, OneCopy, Reads, Reads', PowerCut, NEW i \in Ids
  PROVE  GetBlock(i)' \in CutOutcome(i)
  <1>0. Stored[i] = GetBlock(i)
    BY DEF Stored
  <1>1. CASE CutDuringProgram
    <2>1. at = "program" /\ Programs /\ request \in Saves
      BY <1>1, CutProgram DEF CutDuringProgram, Programs, InCall
    <2>2. PICK q \in Ids : q = request.id
      BY <2>1, SaveParts
    <2>3. /\ GetBlock(q)' \in {Missing, request.data, Damaged}
          /\ i # q => GetBlock(i)' = GetBlock(i)
      BY <2>1, <2>2, NewRecordOnly
    <2>4. Stage = "committed" /\ request.op # "format"
      BY <2>1, SaveParts DEF Stage
    <2>5. CASE i = q
      BY <2>2, <2>3, <2>4, <2>5 DEF CutOutcome
    <2>6. CASE i # q
      BY <1>0, <2>2, <2>3, <2>4, <2>6 DEF CutOutcome
    <2> QED BY <2>5, <2>6
  <1>2. CASE CutBetween
    <2>1. GetBlock(i)' = GetBlock(i)
      BY <1>2, SameFlash DEF CutBetween
    <2>2. Stage = "committed" /\ request.op # "format" /\ request.id = i => GetBlock(i) = Missing
      BY DEF Stage, InCall, Reads
    <2>3. Stage = "committed" => request.op # "format"
      BY SaveParts DEF Stage, InCall
    <2> QED BY <1>0, <2>1, <2>2, <2>3 DEF CutOutcome
  <1>3. CASE CutDuringDelete
    <2>1. /\ at \in {"delete", "clear"} /\ Found(request.id)
          /\ CutShort({FindBlock(request.id)}, EmptyBlock)
      BY <1>3 DEF CutDuringDelete
    <2>2. Stage = "asked"
      BY <2>1 DEF Stage
    <2>3. FindBlock(request.id) \in Blocks /\ flash[FindBlock(request.id)].id = request.id
      BY <2>1, FindBlockHolds
    <2>4. /\ \A b \in Blocks : Decays(b)
          /\ \A b \in Blocks : b # FindBlock(request.id) => flash'[b] = flash[b]
      BY <2>1, <2>3, CutDecays
    <2>5. CASE request.id = i
      BY <1>0, <2>2, <2>4, <2>5, DecayedRecord DEF CutOutcome
    <2>6. CASE request.id # i
      <3>1. \A b \in Blocks : flash[b].id = i => flash'[b] = flash[b]
        BY <2>3, <2>4, <2>6
      <3>2. \A b \in Blocks : flash'[b].id = i => flash[b].id = i
        BY <2>4, ContentIds DEF Decays
      <3>3. GetBlock(i)' = GetBlock(i)
        BY <3>1, <3>2, SameRecord
      <3>4. request.op # "format"
        BY <2>1, SaveParts, ClearParts DEF InCall
      <3> QED BY <1>0, <2>6, <3>3, <3>4 DEF CutOutcome
    <2> QED BY <2>5, <2>6
  <1>4. CASE CutDuringErase /\ at = "erase"
    <2>1. MayErase(sector) /\ CutShort(BlocksOf(sector), FreeBlock) /\ BlocksOf(sector) \subseteq Blocks
      BY <1>4 DEF CutDuringErase, BlocksOf
    <2>2. /\ \A b \in Blocks : Decays(b)
          /\ \A b \in Blocks \ BlocksOf(sector) : flash'[b] = flash[b]
      BY <2>1, CutDecays
    <2>3. \A b \in BlocksOf(sector) : flash[b].id \notin Ids
      BY <2>1, ContentIds DEF MayErase
    <2>4. \A b \in Blocks : flash[b].id = i => flash'[b] = flash[b]
      BY <2>2, <2>3
    <2>5. \A b \in Blocks : flash'[b].id = i => flash[b].id = i
      BY <2>2, ContentIds DEF Decays
    <2>6. GetBlock(i)' = GetBlock(i)
      BY <2>4, <2>5, SameRecord
    <2>7. Stage = "asked"
      BY <1>4 DEF Stage
    <2> QED BY <1>0, <2>6, <2>7 DEF CutOutcome
  <1>5. CASE CutDuringErase /\ at = "format"
    <2>1. Stage = "asked" /\ request.op = "format"
      BY <1>5 DEF Stage, InCall
    <2>2. \A b \in Blocks : Decays(b)
      BY <1>5, CutOther
    <2> QED BY <1>0, <2>1, <2>2, DecayedRecord DEF CutOutcome
  <1> QED BY <1>1, <1>2, <1>3, <1>4, <1>5 DEF PowerCut, CutDuringErase

LEMMA StoreStep ==
  TypeOK /\ InCall /\ OneCopy /\ Reads /\ (TypeOK /\ Reads)' /\ [Next]_vars => [Store!Next]_(Store!rvars)
  <1> SUFFICES ASSUME TypeOK, InCall, OneCopy, Reads, TypeOK', Reads', [Next]_vars
               PROVE  [Store!Next]_(Store!rvars)
    OBVIOUS
  <1> USE DEF Stored, Stage
  <1>1. CASE (\E i \in Ids, d \in Data : SaveBlock(i, d)) \/ (\E i \in Ids : ClearBlock(i)) \/ Format
    <2>1. flash' = flash
      BY <1>1 DEF SaveBlock, ClearBlock, Format
    <2>2. Stage = "idle" /\ Stage' = "asked" /\ request' \in Requests /\ Stored' = Stored
      BY <1>1, <2>1, CallSteps
    <2>3. Store!Ask(request')
      BY <2>2 DEF Store!Ask
    <2>4. request' \in Store!Requests
      BY <2>2 DEF Store!Requests, Store!Saves, Store!Clears, Requests, Saves, Clears
    <2> QED BY <2>3, <2>4 DEF Store!Next
  <1>2. CASE SaveRefused
    <2>1. flash' = flash
      BY <1>2 DEF SaveRefused
    <2> QED BY <1>2, <2>1, CallSteps DEF Store!Next, Store!Refuse
  <1>3. CASE FormatEnds
    <2>1. flash' = flash
      BY <1>3 DEF FormatEnds
    <2> QED BY <1>3, <2>1, CallSteps DEF Store!Next, Store!FormatDone
  <1>4. CASE SaveAfterErase \/ EraseEmptySector \/ UNCHANGED vars
    <2>1. SaveAfterErase \/ UNCHANGED vars => flash' = flash
      BY DEF SaveAfterErase, vars
    <2> QED BY <1>4, <2>1, CallSteps, WorkSteps DEF Store!rvars
  <1>5. CASE DeleteOld
    BY <1>5, WorkSteps DEF Store!Next, Store!Commit
  <1>6. CASE ProgramNew
    BY <1>6, WorkSteps DEF Store!Next, Store!Write
  <1>7. CASE ClearPage
    BY <1>7, WorkSteps DEF Store!Next, Store!Clear
  <1>8. CASE FormatSector
    BY <1>8, WorkSteps DEF Store!Next, Store!FormatSome, Store!Lose
  <1>9. CASE PowerCut
    <2>1. Stage' = "idle" /\ UNCHANGED request
      BY <1>9 DEF PowerCut
    <2>2. \A i \in Ids : GetBlock(i)' \in CutOutcome(i)
      BY <1>9, CutStep
    <2>3. \A i \in Ids : GetBlock(i)' \in Data \cup {Missing, Damaged}
      BY DEF Reads
    <2>4. Stored' \in [Ids -> Data \cup {Missing, Damaged}]
      BY <2>3
    <2>5. \A i \in Ids : IF i \in Store!AtRisk THEN Stored'[i] \in Store!AfterCut(i)
                                             ELSE Stored'[i] = Stored[i]
      BY <2>2 DEF Store!AtRisk, Store!AfterCut, CutOutcome
    <2>6. Store!PowerCut
      BY <2>1, <2>4, <2>5 DEF Store!PowerCut
    <2> QED BY <2>6 DEF Store!Next
  <1> QED BY <1>1, <1>2, <1>3, <1>4, <1>5, <1>6, <1>7, <1>8, <1>9 DEF Next

\* The flash with its free, deleted and live blocks behaves like the record
\* store: a save that finds no room changes nothing, any other one replaces
\* one record, and no step touches the record of another id.
THEOREM BlocksImplementStore == Spec => ImplementsRecordStore
  <1>1. Init /\ Reads => Store!Init
    <2> SUFFICES ASSUME Init, Reads PROVE Store!Init
      OBVIOUS
    <2>1. \A i \in Ids : GetBlock(i) = Missing
      BY ContentIds DEF Init, Reads
    <2> QED BY <2>1 DEF Init, Store!Init, Store!Requests
  <1> QED BY <1>1, InvCorrect, ReadsCorrect, StoreStep, PTL DEF Spec, ImplementsRecordStore, Store!Spec
=============================================================================
