---------------------------- MODULE BlockStorage ----------------------------
(***************************************************************************)
(* BlockStorage (blockStorage.cpp): records in NOR flash.                  *)
(*                                                                         *)
(* The flash is erased a sector at a time and programmed a page at a time, *)
(* and a block is one page (STORAGE_BLOCK_SIZE 252).  The first word of a  *)
(* block is the id of its record, BLOCK_FREE after an erase, BLOCK_EMPTY   *)
(* once its record was deleted.  Programming can only clear bits: a block  *)
(* that is not free cannot be given a record, and zeroing it deletes it.   *)
(*                                                                         *)
(* All calls come from core 0, one at a time.  A power cut may come        *)
(* between two flash operations or during one, which leaves the block, or  *)
(* the sector, as it was, as it was to be, or damaged.  A damaged first    *)
(* word is taken to be no id that is in use.                               *)
(***************************************************************************)
EXTENDS Integers, FiniteSets, FiniteSetsExt

CONSTANTS
  Ids,         \* the ids records are saved under
  Data,        \* what is saved
  Missing,     \* GetBlock returns nullptr
  Damaged,     \* data of a record that was being written at a power cut
  Sectors,     \* _sectors (32)
  PerSector,   \* blocks in a sector (16)
  BlockFree,   \* BLOCK_FREE
  BlockEmpty,  \* BLOCK_EMPTY
  Torn,        \* first word of a block after an interrupted flash operation
  MaxCuts      \* bound: power cuts

ASSUME BlockStorageAssumption ==
  /\ Sectors \in Nat \ {0} /\ PerSector \in Nat \ {0}
  /\ Missing \notin Data \cup {Damaged} /\ Damaged \notin Data
  /\ {BlockFree, BlockEmpty, Torn} \cap Ids = {}
  /\ BlockFree # BlockEmpty /\ BlockFree # Torn /\ BlockEmpty # Torn
  /\ MaxCuts \in Nat

VARIABLES
  flash,    \* the first word and the data of each block
  at,       \* where the call in progress is
  request,  \* the last call
  block,    \* SaveBlock's freeBlock
  sector,   \* the sector the erase is at
  outcome,  \* how the last call ended
  cuts      \* bound: power cuts so far

vars == <<flash, at, request, block, sector, outcome, cuts>>

Blocks      == 0 .. Sectors * PerSector - 1
SectorOf(b) == b \div PerSector
BlocksOf(s) == {b \in Blocks : SectorOf(b) = s}
FreeBlock   == [id |-> BlockFree, data |-> Missing]
EmptyBlock  == [id |-> BlockEmpty, data |-> Missing]
TornBlock   == [id |-> Torn, data |-> Missing]
Record(i, d) == [id |-> i, data |-> d]
Contents    == {FreeBlock, EmptyBlock, TornBlock} \cup [id : Ids, data : Data \cup {Damaged}]

Saves    == [op : {"save"}, id : Ids, data : Data]
Clears   == [op : {"clear"}, id : Ids]
Requests == Saves \cup Clears \cup {[op |-> "format"]}

Init ==
  /\ flash = [b \in Blocks |-> FreeBlock]
  /\ at = "idle"
  /\ request = [op |-> "format"]
  /\ block = 0
  /\ sector = 0
  /\ outcome = "none"
  /\ cuts = 0

-----------------------------------------------------------------------------
\* FindBlock: the first block whose first word is the one given, if any.
Holding(word)   == {b \in Blocks : flash[b].id = word}
Found(word)     == Holding(word) # {}
FindBlock(word) == Min(Holding(word))

\* GetBlock
GetBlock(i) == IF Found(i) THEN flash[FindBlock(i)].data ELSE Missing

\* DeletePage zeroes the first page of a block.
Zeroed(f, b) == [f EXCEPT ![b] = EmptyBlock]

OldDeleted(i) == IF Found(i) THEN Zeroed(flash, FindBlock(i)) ELSE flash

\* flash_range_program of a record: bits are only cleared.
Programmed(b, r) == [flash EXCEPT ![b] = IF @ = FreeBlock THEN r ELSE TornBlock]

\* flash_range_erase of one sector.
Erased(s) == [b \in Blocks |-> IF b \in BlocksOf(s) THEN FreeBlock ELSE flash[b]]

-----------------------------------------------------------------------------
\* SaveBlock looks for a free block first.
SaveBlock(i, d) ==
  /\ at = "idle"
  /\ request' = [op |-> "save", id |-> i, data |-> d]
  /\ outcome' = "busy"
  /\ \/ /\ Found(BlockFree)
        /\ block' = FindBlock(BlockFree)
        /\ at' = "delete"
        /\ UNCHANGED sector
     \/ /\ ~ Found(BlockFree)
        /\ sector' = 0
        /\ at' = "erase"
        /\ UNCHANGED block
  /\ UNCHANGED <<flash, cuts>>

\* Mutation: one empty block is enough for the sector to be erased.
MayEraseSome(s) == \E b \in BlocksOf(s) : flash[b].id = BlockEmpty

MayErase(s) == \A b \in BlocksOf(s) : flash[b].id = BlockEmpty

\* Mutation: the run of empty sectors at the end is forgotten.
LastSectorForgotten == Sectors - 1

SectorsToVisit == Sectors

\* FormatEmptySectors: the sectors that hold nothing but deleted blocks are
\* erased, in order.
EraseEmptySector ==
  /\ at = "erase"
  /\ sector < SectorsToVisit
  /\ flash' = IF MayErase(sector) THEN Erased(sector) ELSE flash
  /\ sector' = sector + 1
  /\ UNCHANGED <<at, request, block, outcome, cuts>>

\* Mutation: the block found before the erase is used.
BlockFoundBefore == block

BlockFoundAgain == FindBlock(BlockFree)

\* SaveBlock looks for a free block again.
SaveAfterErase ==
  /\ at = "erase"
  /\ sector = SectorsToVisit
  /\ Found(BlockFree)
  /\ block' = BlockFoundAgain
  /\ at' = "delete"
  /\ UNCHANGED <<flash, request, sector, outcome, cuts>>

\* "ERROR: Still no free blocks found": SaveBlock returns, and tells nobody.
SaveRefused ==
  /\ at = "erase"
  /\ sector = SectorsToVisit
  /\ ~ Found(BlockFree)
  /\ at' = "idle"
  /\ outcome' = "full"
  /\ UNCHANGED <<flash, request, block, sector, cuts>>

DeleteOld ==
  /\ at = "delete"
  /\ flash' = OldDeleted(request.id)
  /\ at' = "program"
  /\ UNCHANGED <<request, block, sector, outcome, cuts>>

NewRecord == Record(request.id, request.data)

ProgramNew ==
  /\ at = "program"
  /\ flash' = Programmed(block, NewRecord)
  /\ at' = "idle"
  /\ outcome' = "stored"
  /\ UNCHANGED <<request, block, sector, cuts>>

\* ClearBlock is one flash operation.
ClearBlock(i) ==
  /\ at = "idle"
  /\ request' = [op |-> "clear", id |-> i]
  /\ at' = "clear"
  /\ outcome' = "busy"
  /\ UNCHANGED <<flash, block, sector, cuts>>

ClearPage ==
  /\ at = "clear"
  /\ flash' = OldDeleted(request.id)
  /\ at' = "idle"
  /\ outcome' = "cleared"
  /\ UNCHANGED <<request, block, sector, cuts>>

\* Format erases every sector.
Format ==
  /\ at = "idle"
  /\ request' = [op |-> "format"]
  /\ at' = "format"
  /\ sector' = 0
  /\ outcome' = "busy"
  /\ UNCHANGED <<flash, block, cuts>>

FormatSector ==
  /\ at = "format"
  /\ sector < Sectors
  /\ flash' = Erased(sector)
  /\ sector' = sector + 1
  /\ UNCHANGED <<at, request, block, outcome, cuts>>

FormatEnds ==
  /\ at = "format"
  /\ sector = Sectors
  /\ at' = "idle"
  /\ outcome' = "formatted"
  /\ UNCHANGED <<flash, request, block, sector, cuts>>

-----------------------------------------------------------------------------
\* What is left of a block when the operation that turns it from one content
\* into another is cut short.  Nothing in a record tells that it is damaged.
Between(old, new) ==
  {old, new, TornBlock} \cup {Record(c.id, Damaged) : c \in {x \in {old, new} : x.id \in Ids}}

CutShort(B, new) ==
  \E left \in [B -> UNION {Between(flash[b], new) : b \in B}] :
    /\ \A b \in B : left[b] \in Between(flash[b], new)
    /\ flash' = [b \in Blocks |-> IF b \in B THEN left[b] ELSE flash[b]]

CutDuringDelete ==
  /\ at \in {"delete", "clear"}
  /\ Found(request.id)
  /\ CutShort({FindBlock(request.id)}, EmptyBlock)

CutDuringProgram ==
  /\ at = "program"
  /\ CutShort({block}, NewRecord)

CutDuringErase ==
  /\ \/ at = "erase" /\ sector < SectorsToVisit /\ MayErase(sector)
     \/ at = "format" /\ sector < Sectors
  /\ CutShort(BlocksOf(sector), FreeBlock)

CutBetween == UNCHANGED flash

PowerCut ==
  /\ cuts < MaxCuts
  /\ CutDuringDelete \/ CutDuringProgram \/ CutDuringErase \/ CutBetween
  /\ at' = "idle"
  /\ outcome' = "cut"
  /\ cuts' = cuts + 1
  /\ UNCHANGED <<request, block, sector>>

Next ==
  \/ \E i \in Ids, d \in Data : SaveBlock(i, d)
  \/ EraseEmptySector \/ SaveAfterErase \/ SaveRefused
  \/ DeleteOld \/ ProgramNew
  \/ \E i \in Ids : ClearBlock(i)
  \/ ClearPage
  \/ Format \/ FormatSector \/ FormatEnds
  \/ PowerCut

Spec == Init /\ [][Next]_vars

-----------------------------------------------------------------------------
TypeOK ==
  /\ flash \in [Blocks -> Contents]
  /\ at \in {"idle", "erase", "delete", "program", "clear", "format"}
  /\ request \in Requests
  /\ block \in Blocks
  /\ sector \in 0 .. Sectors
  /\ outcome \in {"none", "busy", "full", "stored", "cleared", "formatted", "cut"}
  /\ cuts \in 0 .. MaxCuts

\* There is at most one record for an id, whatever calls were cut short: a
\* second one would bring an old rolling code back as soon as the first is
\* deleted.
OneCopy ==
  \A b, c \in Blocks :
    flash[b].id \in Ids /\ flash[b].id = flash[c].id => b = c

\* Only a power cut spoils a block: no record is ever programmed over another
\* one, or over a deleted one that was not erased since.
NeverProgramsTwice ==
  cuts = 0 => \A b \in Blocks : flash[b] # TornBlock /\ flash[b].data # Damaged

Used == {b \in Blocks : flash[b].id \notin {BlockFree, BlockEmpty}}

\* SaveBlock finds room as long as fewer blocks than there are sectors are in
\* use, wherever they lie: the space of deleted records comes back.
RefusedOnlyWhenCrowded == outcome = "full" => Cardinality(Used) >= Sectors

-----------------------------------------------------------------------------
Store == INSTANCE RecordStore WITH
  store <- [i \in Ids |-> GetBlock(i)],
  doing <- IF at = "idle" THEN "idle"
           ELSE IF at = "program" THEN "committed" ELSE "asked"

\* The blocks behave like the record store of RecordStore: a save that finds
\* no room leaves the old record, any other one replaces it, and neither a
\* save, an erase nor a power cut touches the record of another id.
ImplementsRecordStore == Store!Spec
=============================================================================
