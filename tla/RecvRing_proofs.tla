-------------------------- MODULE RecvRing_proofs ---------------------------
(***************************************************************************)
(* For every size of the buffer, every set of commands and every bound:    *)
(* the indexes of RecvRing stay consistent, the oldest press is the one    *)
(* that has been quiet the longest, the buffer is a bounded queue, and     *)
(* every packet of a press is in it or has been delivered.                 *)
(***************************************************************************)
EXTENDS RecvRing, Sequences, WellFoundedInduction, TLAPS

\* The modulo of a sum of two indexes.
LEMMA SmallMod ==
  ASSUME NEW N \in Nat \ {0}, NEW x \in 0 .. N - 1
  PROVE  x % N = x
  BY SMT

LEMMA WrapMod ==
  ASSUME NEW N \in Nat \ {0}, NEW x \in N .. 2 * N - 1
  PROVE  x % N = x - N
  BY SMT

\* Both indexes wrap from the last slot to the first.
LEMMA FollowingWraps ==
  ASSUME NEW i \in Index
  PROVE  /\ Following(i) \in Index
         /\ Following(i) = IF i = RingSize - 1 THEN 0 ELSE i + 1
  BY SmallMod, WrapMod, RecvRingAssumption DEF Following, Index

\* The k-th slot from slot r on, without the modulo.
Place(r, k) == IF r + k < RingSize THEN r + k ELSE r + k - RingSize

LEMMA PlaceIsModulo ==
  ASSUME NEW r \in Index, NEW k \in Index
  PROVE  /\ (r + k) % RingSize = Place(r, k)
         /\ Place(r, k) \in Index
  <1>1. CASE r + k < RingSize
    BY <1>1, SmallMod, RecvRingAssumption DEF Place, Index
  <1>2. CASE r + k >= RingSize
    <2>1. r + k \in RingSize .. 2 * RingSize - 1
      BY <1>2, RecvRingAssumption DEF Index
    <2>2. \A x \in RingSize .. 2 * RingSize - 1 : x % RingSize = x - RingSize
      BY WrapMod, RecvRingAssumption
    <2> QED BY <1>2, <2>1, <2>2, RecvRingAssumption DEF Place, Index
  <1> QED BY <1>1, <1>2, RecvRingAssumption DEF Index

\* Different presses are in different slots.
LEMMA PlaceInjective ==
  ASSUME NEW r \in Index, NEW j \in Index, NEW k \in Index, Place(r, j) = Place(r, k)
  PROVE  j = k
  BY RecvRingAssumption DEF Place, Index

\* The walk around the buffer, one slot at a time from either end.
LEMMA PlaceFollows ==
  ASSUME NEW r \in Index, NEW k \in Index, k + 1 \in Index
  PROVE  /\ Following(Place(r, k)) = Place(r, k + 1)
         /\ Place(Following(r), k) = Place(r, k + 1)
         /\ Place(r, 0) = r
  <1>1. Place(r, k) \in Index
    BY PlaceIsModulo
  <1> QED BY <1>1, FollowingWraps, RecvRingAssumption DEF Place, Index

-----------------------------------------------------------------------------
\* TypeOK is inductive.
LEMMA TypeInit == Init => TypeOK
  <1> SUFFICES ASSUME Init PROVE TypeOK
    OBVIOUS
  <1>1. slots \in [Index -> Slot]
    BY RecvRingAssumption DEF Init, Leftover, Slot
  <1> QED BY <1>1, RecvRingAssumption DEF Init, TypeOK, Index

LEMMA TypeStep == TypeOK /\ [Next]_vars => TypeOK'
  <1> SUFFICES ASSUME TypeOK, [Next]_vars PROVE TypeOK'
    OBVIOUS
  <1> USE RecvRingAssumption
  <1>r. \A n \in Nat : n % RepeatMod \in 0 .. RepeatMod - 1
    BY SMT
  <1>1. CASE Tick
    BY <1>1 DEF Tick, TypeOK, ring
  <1>2. ASSUME NEW c \in Commands, Decode(c) PROVE TypeOK'
    BY <1>2 DEF Decode, TypeOK, ring
  <1>3. CASE ReceiveCommand
    <2> USE DEF TypeOK, ReceiveCommand
    <2>w. writer.now \in Nat /\ writer.cmd \in Commands
      BY <1>3
    <2>f. Following(recvWrite) \in Index
      BY FollowingWraps
    <2>h. CountHeard => heard' \in [Commands -> Nat]
      BY <2>w DEF CountHeard
    <2>s. ASSUME NEW i \in Index, StoreAt(i), recvCount < RingSize - 1
          PROVE  /\ slots' \in [Index -> Slot]
                 /\ recvWrite' \in Index
                 /\ recvCount' \in 0 .. RingSize - 1
      BY <2>s, <2>w DEF StoreAt, Slot
    <2>1. CASE BumpRepeat
      <3>1. slots[recvWrite] \in Slot
        OBVIOUS
      <3>2. (slots[recvWrite].repeat + 1) % RepeatMod \in 0 .. RepeatMod - 1
        BY <3>1, <1>r DEF Slot
      <3>3. slots' \in [Index -> Slot]
        BY <2>1, <2>w, <3>1, <3>2 DEF BumpRepeat, MergeSlot, Slot
      <3> QED BY <3>3, <2>1, <2>h, <1>3 DEF BumpRepeat
    <2>2. CASE Discard
      BY <2>2, <1>3 DEF Discard
    <2>3. CASE StoreNext
      BY <2>3, <2>f, <2>s, <2>h, <1>3 DEF StoreNext, Full
    <2>4. CASE StoreFirst
      BY <2>4, <2>s, <2>h, <1>3 DEF StoreFirst
    <2> QED BY <1>3, <2>1, <2>2, <2>3, <2>4
  <1>4. CASE ReadNow
    BY <1>4 DEF ReadNow, TypeOK, ring
  <1>5. CASE ReadNothing
    BY <1>5 DEF ReadNothing, Return, TypeOK, ring
  <1>6. CASE ReadCommand
    <2> USE DEF TypeOK, ReadCommand
    <2>1. slots[recvRead] \in Slot
      BY <1>6
    <2>2. handed' \in [cmd : Commands, repeat : 0 .. RepeatMod - 1]
      BY <1>6, <2>1 DEF Slot
    <2>3. reported' \in [Commands -> Nat]
      BY <1>6, <2>1 DEF Slot
    <2>4. Following(recvRead) \in Index
      BY FollowingWraps
    <2>5. recvRead' \in Index /\ recvWrite' \in Index
      BY <1>6, <2>4 DEF WriteIndexAfterRead
    <2> QED BY <1>6, <2>2, <2>3, <2>5 DEF Return
  <1>7. CASE UNCHANGED vars
    BY <1>7 DEF vars, ring, TypeOK
  <1> QED BY <1>1, <1>2, <1>3, <1>4, <1>5, <1>6, <1>7 DEF Next

\* Every variable keeps its type: above all, no index leaves the buffer and
\* the count never reaches its size.
THEOREM TypeCorrect == Spec => []TypeOK
  BY TypeInit, TypeStep, PTL DEF Spec

-----------------------------------------------------------------------------
(***************************************************************************)
(* The index and the order of the time stamps depend on each other's parts *)
(* only one way: WriteIndexNamesNewest is inductive by itself (with        *)
(* TypeOK), the order needs it to know which slot a packet goes to, and    *)
(* that no time lies in the future.                                        *)
(***************************************************************************)
WriteIndex == recvWrite = IF recvCount = 0 THEN recvRead ELSE Place(recvRead, recvCount - 1)

LEMMA WriteIndexIs == TypeOK => (WriteIndexNamesNewest <=> WriteIndex)
  <1> SUFFICES ASSUME TypeOK, recvCount # 0
               PROVE  (recvRead + recvCount - 1) % RingSize = Place(recvRead, recvCount - 1)
    BY DEF WriteIndexNamesNewest, WriteIndex
  <1>1. recvCount - 1 \in Index /\ recvRead \in Index
    BY RecvRingAssumption DEF TypeOK, Index
  <1>2. recvRead + recvCount - 1 = recvRead + (recvCount - 1)
    BY <1>1 DEF TypeOK, Index
  <1> QED BY <1>1, <1>2, PlaceIsModulo

\* A step leaves the indexes alone, stores a press, or hands one over.
LEMMA WriteIndexStep == TypeOK /\ WriteIndex /\ [Next]_vars => WriteIndex'
  <1> SUFFICES ASSUME TypeOK, WriteIndex, [Next]_vars PROVE WriteIndex'
    OBVIOUS
  <1> USE RecvRingAssumption
  <1>t. recvRead \in Index /\ recvWrite \in Index /\ recvCount \in 0 .. RingSize - 1
    BY DEF TypeOK
  <1>u. ASSUME UNCHANGED <<recvRead, recvWrite, recvCount>> PROVE WriteIndex'
    BY <1>u DEF WriteIndex
  <1>1. CASE Tick \/ ReadNow \/ ReadNothing \/ (\E c \in Commands : Decode(c)) \/ UNCHANGED vars
    BY <1>1, <1>u DEF Tick, ReadNow, ReadNothing, Decode, vars, ring
  <1>2. CASE ReceiveCommand
    <2>0. recvRead' = recvRead
      BY <1>2 DEF ReceiveCommand
    <2>1. CASE BumpRepeat \/ Discard
      BY <2>0, <2>1, <1>u DEF BumpRepeat, Discard
    <2>2. CASE StoreNext
      <3>1. /\ recvCount # 0 /\ recvCount # RingSize - 1
            /\ recvWrite' = Following(recvWrite)
            /\ recvCount' = recvCount + 1
        BY <2>2 DEF StoreNext, StoreAt, Full
      <3>2. recvCount - 1 \in Index /\ (recvCount - 1) + 1 \in Index /\ (recvCount - 1) + 1 = recvCount
        BY <3>1, <1>t DEF Index
      <3>3. Following(Place(recvRead, recvCount - 1)) = Place(recvRead, recvCount)
        BY <3>2, <1>t, PlaceFollows
      <3> QED BY <3>1, <3>3, <2>0, <1>t DEF WriteIndex
    <2>3. CASE StoreFirst
      <3>1. recvCount = 0 /\ recvWrite' = recvWrite /\ recvCount' = 1
        BY <2>3 DEF StoreFirst, StoreAt
      <3>2. Place(recvRead, 0) = recvRead
        BY <1>t DEF Place, Index
      <3> QED BY <3>1, <3>2, <2>0 DEF WriteIndex
    <2> QED BY <1>2, <2>1, <2>2, <2>3 DEF ReceiveCommand
  <1>3. CASE ReadCommand
    <2>1. /\ recvCount # 0 /\ recvCount' = recvCount - 1
          /\ recvRead' = Following(recvRead)
          /\ recvWrite' = IF recvCount = 1 THEN Following(recvRead) ELSE recvWrite
      BY <1>3 DEF ReadCommand, WriteIndexAfterRead
    <2>2. CASE recvCount = 1
      BY <2>1, <2>2 DEF WriteIndex
    <2>3. CASE recvCount # 1
      <3>1. recvCount - 2 \in Index /\ (recvCount - 2) + 1 \in Index /\ (recvCount - 2) + 1 = recvCount - 1
        BY <2>1, <2>3, <1>t DEF Index
      <3>2. Place(Following(recvRead), recvCount - 2) = Place(recvRead, recvCount - 1)
        BY <3>1, <1>t, PlaceFollows
      <3> QED BY <2>1, <2>3, <3>2, <1>t DEF WriteIndex
    <2> QED BY <2>2, <2>3
  <1> QED BY <1>1, <1>2, <1>3 DEF Next

\* The write index names the newest undelivered press, or the next free slot
\* when there is none.
THEOREM WriteIndexCorrect == Spec => []WriteIndexNamesNewest
  <1>1. Init => WriteIndex
    BY DEF Init, WriteIndex
  <1>2. TypeOK /\ WriteIndex => WriteIndexNamesNewest
    BY WriteIndexIs
  <1> QED BY <1>1, <1>2, TypeCorrect, WriteIndexStep, PTL DEF Spec

-----------------------------------------------------------------------------
\* The k-th undelivered press and the time of its last packet.
PressAt(k) == slots[Place(recvRead, k)]
LastAt(k) == PressAt(k).last

TimeOrder ==
  /\ \A i, j \in 0 .. recvCount - 1 : i <= j => LastAt(i) <= LastAt(j)
  /\ \A j \in 0 .. recvCount - 1 : LastAt(j) <= clock
  /\ writer.at = "lock" => /\ \A j \in 0 .. recvCount - 1 : LastAt(j) <= writer.now
                           /\ writer.now <= clock

LEMMA TimeOrderSuffices == TypeOK /\ TimeOrder => OldestIsQuietest
  <1> SUFFICES ASSUME TypeOK, TimeOrder PROVE OldestIsQuietest
    OBVIOUS
  <1>1. ASSUME NEW k \in 0 .. recvCount - 1 PROVE SlotOf(k).last = LastAt(k)
    <2>1. k \in Index /\ recvRead \in Index
      BY RecvRingAssumption DEF TypeOK, Index
    <2>2. (recvRead + k) % RingSize = Place(recvRead, k)
      BY <2>1, PlaceIsModulo
    <2> QED BY <2>2 DEF SlotOf, PressAt, LastAt
  <1>2. ASSUME NEW j \in 0 .. recvCount - 1, NEW i \in 0 .. j
        PROVE  i \in 0 .. recvCount - 1 /\ i <= j
    BY DEF TypeOK
  <1> QED BY <1>1, <1>2 DEF TimeOrder, OldestIsQuietest

LEMMA LastAtType ==
  ASSUME TypeOK, NEW k \in 0 .. recvCount - 1
  PROVE  /\ k \in Index
         /\ Place(recvRead, k) \in Index
         /\ LastAt(k) \in Nat
  <1>1. k \in Index /\ recvRead \in Index
    BY RecvRingAssumption DEF TypeOK, Index
  <1>2. Place(recvRead, k) \in Index
    BY <1>1, PlaceIsModulo
  <1> QED BY <1>1, <1>2 DEF TypeOK, Slot, PressAt, LastAt

\* What a step does to the undelivered presses: the newest gets a repeat and
\* the writer's time, one with the writer's time is added, or the oldest goes.
Bumped(s) == [cmd |-> s.cmd, repeat |-> (s.repeat + 1) % RepeatMod, last |-> writer.now]
Fresh     == [cmd |-> writer.cmd, repeat |-> 0, last |-> writer.now]

LEMMA AfterBump ==
  ASSUME TypeOK, WriteIndex, BumpRepeat, recvRead' = recvRead
  PROVE  /\ recvCount # 0 /\ recvCount' = recvCount
         /\ PressAt(recvCount - 1).cmd = writer.cmd
         /\ \A k \in 0 .. recvCount - 1 :
              PressAt(k)' = IF k = recvCount - 1 THEN Bumped(PressAt(k)) ELSE PressAt(k)
  <1>1. /\ recvCount # 0 /\ recvWrite = Place(recvRead, recvCount - 1)
        /\ slots[recvWrite].cmd = writer.cmd
    BY DEF BumpRepeat, IsRepeat, MergeSlot, WriteIndex
  <1>2. recvCount - 1 \in 0 .. recvCount - 1
    BY <1>1 DEF TypeOK
  <1>3. ASSUME NEW k \in 0 .. recvCount - 1
        PROVE  PressAt(k)' = IF k = recvCount - 1 THEN Bumped(PressAt(k)) ELSE PressAt(k)
    <2>1. k \in Index /\ recvCount - 1 \in Index /\ recvRead \in Index
      BY <1>2, LastAtType DEF TypeOK
    <2>2. k # recvCount - 1 => Place(recvRead, k) # recvWrite
      BY <1>1, <2>1, PlaceInjective
    <2>3. Place(recvRead, k) \in Index
      BY <2>1, PlaceIsModulo
    <2>4. /\ slots'[recvWrite] = Bumped(slots[recvWrite])
          /\ \A i \in Index \ {recvWrite} : slots'[i] = slots[i]
      BY DEF BumpRepeat, MergeSlot, Bumped, TypeOK, Slot
    <2> QED BY <1>1, <2>2, <2>3, <2>4 DEF PressAt
  <1> QED BY <1>1, <1>3 DEF BumpRepeat, PressAt

LEMMA AfterStoreNext ==
  ASSUME TypeOK, WriteIndex, StoreNext, recvRead' = recvRead
  PROVE  /\ recvCount < RingSize - 1 /\ recvCount' = recvCount + 1
         /\ recvCount # 0 /\ PressAt(recvCount - 1).cmd # writer.cmd
         /\ \A k \in 0 .. recvCount :
              PressAt(k)' = IF k = recvCount THEN Fresh ELSE PressAt(k)
  <1>1. /\ recvCount # 0 /\ recvCount # RingSize - 1
        /\ recvWrite = Place(recvRead, recvCount - 1)
        /\ slots[recvWrite].cmd # writer.cmd
    BY DEF StoreNext, Full, IsRepeat, MergeSlot, WriteIndex
  <1>t. recvCount \in 0 .. RingSize - 1 /\ recvRead \in 0 .. RingSize - 1
    BY RecvRingAssumption DEF TypeOK, Index
  <1>2. /\ recvCount - 1 \in Index /\ recvCount \in Index /\ recvRead \in Index
        /\ (recvCount - 1) + 1 = recvCount
    BY <1>1, <1>t, RecvRingAssumption DEF Index
  <1>3. Following(recvWrite) = Place(recvRead, recvCount)
    BY <1>1, <1>2, PlaceFollows
  <1>4. ASSUME NEW k \in 0 .. recvCount
        PROVE  PressAt(k)' = IF k = recvCount THEN Fresh ELSE PressAt(k)
    <2>1. k \in Index
      BY <1>2, RecvRingAssumption DEF Index
    <2>2. k # recvCount => Place(recvRead, k) # Place(recvRead, recvCount)
      BY <1>2, <2>1, PlaceInjective
    <2>3. Place(recvRead, k) \in Index
      BY <1>2, <2>1, PlaceIsModulo
    <2> QED BY <1>3, <2>2, <2>3 DEF PressAt, Fresh, StoreNext, StoreAt, TypeOK
  <1> QED BY <1>1, <1>4, RecvRingAssumption DEF StoreNext, StoreAt, PressAt, TypeOK

LEMMA AfterStoreFirst ==
  ASSUME TypeOK, WriteIndex, StoreFirst, recvRead' = recvRead
  PROVE  recvCount = 0 /\ recvCount' = 1 /\ PressAt(0)' = Fresh
  <1>1. recvCount = 0 /\ recvWrite = recvRead /\ Place(recvRead, 0) = recvRead
    BY RecvRingAssumption DEF StoreFirst, WriteIndex, Place, TypeOK, Index
  <1> QED BY <1>1 DEF StoreFirst, StoreAt, PressAt, Fresh, TypeOK

LEMMA AfterRead ==
  ASSUME TypeOK, ReadCommand
  PROVE  /\ recvCount # 0 /\ recvCount' = recvCount - 1
         /\ PressAt(0) = slots[recvRead]
         /\ \A k \in 0 .. recvCount - 2 : PressAt(k)' = PressAt(k + 1)
  <1>1. ASSUME NEW k \in 0 .. recvCount - 2 PROVE PressAt(k)' = PressAt(k + 1)
    <2>1. k \in Index /\ k + 1 \in Index /\ recvRead \in Index
      BY RecvRingAssumption DEF TypeOK, Index
    <2>2. Place(Following(recvRead), k) = Place(recvRead, k + 1)
      BY <2>1, PlaceFollows
    <2> QED BY <2>2 DEF PressAt, ReadCommand
  <1>2. Place(recvRead, 0) = recvRead
    BY RecvRingAssumption DEF Place, TypeOK, Index
  <1>3. recvCount # 0 /\ recvCount' = recvCount - 1
    BY DEF ReadCommand
  <1> QED BY <1>1, <1>2, <1>3 DEF PressAt

LEMMA TimeOrderStep == TypeOK /\ WriteIndex /\ TimeOrder /\ [Next]_vars => TimeOrder'
  <1> SUFFICES ASSUME TypeOK, WriteIndex, TimeOrder, [Next]_vars PROVE TimeOrder'
    OBVIOUS
  <1>n. /\ recvCount \in 0 .. RingSize - 1 /\ clock \in Nat
        /\ \A k \in 0 .. recvCount - 1 : LastAt(k) \in Nat
    BY LastAtType, RecvRingAssumption DEF TypeOK
  <1>s. ASSUME UNCHANGED ring PROVE recvCount' = recvCount /\ \A k : LastAt(k)' = LastAt(k)
    BY <1>s DEF ring, LastAt, PressAt
  <1>1. CASE Tick
    BY <1>1, <1>n, <1>s DEF Tick, TimeOrder, TypeOK
  <1>2. ASSUME NEW c \in Commands, Decode(c) PROVE TimeOrder'
    BY <1>2, <1>n, <1>s DEF Decode, TimeOrder
  <1>3. CASE ReceiveCommand
    <2>1. /\ writer.at = "lock" /\ writer'.at = "idle"
          /\ recvRead' = recvRead /\ clock' = clock
      BY <1>3 DEF ReceiveCommand
    <2>2. writer.now \in Nat
      BY <2>1 DEF TypeOK
    <2>3. CASE BumpRepeat
      BY <2>1, <2>2, <2>3, <1>n, AfterBump DEF TimeOrder, LastAt, Bumped, Fresh
    <2>4. CASE Discard
      BY <2>1, <2>4 DEF Discard, TimeOrder, LastAt, PressAt
    <2>5. CASE StoreNext
      BY <2>1, <2>2, <2>5, <1>n, AfterStoreNext DEF TimeOrder, LastAt, Bumped, Fresh
    <2>6. CASE StoreFirst
      BY <2>1, <2>2, <2>6, <1>n, AfterStoreFirst DEF TimeOrder, LastAt, Bumped, Fresh
    <2> QED BY <1>3, <2>3, <2>4, <2>5, <2>6 DEF ReceiveCommand
  <1>4. CASE ReadNow \/ ReadNothing
    BY <1>4, <1>s DEF ReadNow, ReadNothing, TimeOrder
  <1>5. CASE ReadCommand
    <2>1. UNCHANGED <<clock, writer>>
      BY <1>5 DEF ReadCommand
    <2> QED BY <2>1, <1>5, <1>n, AfterRead DEF TimeOrder, LastAt
  <1>6. CASE UNCHANGED vars
    BY <1>6, <1>s DEF vars, TimeOrder
  <1> QED BY <1>1, <1>2, <1>3, <1>4, <1>5, <1>6 DEF Next

\* The press ReadCommand looks at is the one that has been quiet the longest,
\* whatever passes between reading a clock and taking the lock.
THEOREM OldestFirst == Spec => []OldestIsQuietest
  <1>1. Init => WriteIndex /\ TimeOrder
    BY DEF Init, WriteIndex, TimeOrder
  <1>2. TypeOK /\ TimeOrder => OldestIsQuietest
    BY TimeOrderSuffices
  <1> QED BY <1>1, <1>2, TypeCorrect, WriteIndexStep, TimeOrderStep, PTL DEF Spec

-----------------------------------------------------------------------------
(***************************************************************************)
(* Refinement: the presses from the read index on, as a sequence.          *)
(***************************************************************************)
UndeliveredIs ==
  /\ Undelivered = [k \in 1 .. recvCount |-> PressAt(k - 1)]
  /\ Undelivered \in Seq(Slot)
  /\ Len(Undelivered) = recvCount

LEMMA UndeliveredLemma == TypeOK => UndeliveredIs
  <1> SUFFICES ASSUME TypeOK PROVE UndeliveredIs
    OBVIOUS
  <1>1. ASSUME NEW k \in 1 .. recvCount
        PROVE  SlotOf(k - 1) = PressAt(k - 1) /\ PressAt(k - 1) \in Slot
    <2>1. k - 1 \in Index /\ recvRead \in Index
      BY RecvRingAssumption DEF TypeOK, Index
    <2>2. /\ (recvRead + (k - 1)) % RingSize = Place(recvRead, k - 1)
          /\ Place(recvRead, k - 1) \in Index
      BY <2>1, PlaceIsModulo
    <2> QED BY <2>2 DEF SlotOf, PressAt, TypeOK
  <1>2. Undelivered = [k \in 1 .. recvCount |-> PressAt(k - 1)]
    BY <1>1 DEF Undelivered
  <1>3. recvCount \in Nat
    BY DEF TypeOK
  <1> QED BY <1>1, <1>2, <1>3 DEF UndeliveredIs

LEMMA StepRefines ==
  TypeOK /\ TypeOK' /\ WriteIndex /\ TimeOrder /\ [Next]_vars => [Fifo!Next]_(Fifo!fvars)
  <1> SUFFICES ASSUME TypeOK, TypeOK', WriteIndex, TimeOrder, [Next]_vars
               PROVE  Fifo!Next \/ UNCHANGED <<Undelivered, handed>>
    BY DEF Fifo!fvars
  <1>u. /\ Undelivered = [k \in 1 .. recvCount |-> PressAt(k - 1)]
        /\ Undelivered \in Seq(Slot)
        /\ Len(Undelivered) = recvCount
        /\ recvCount \in 0 .. RingSize - 1
    BY UndeliveredLemma DEF UndeliveredIs, TypeOK
  <1>v. /\ Undelivered' = [k \in 1 .. recvCount' |-> PressAt(k - 1)']
        /\ Undelivered' \in Seq(Slot)
        /\ Len(Undelivered') = recvCount'
    <2>1. UndeliveredIs'
      BY UndeliveredLemma, PTL
    <2> QED BY <2>1 DEF UndeliveredIs
  <1>s. ASSUME UNCHANGED ring PROVE UNCHANGED Undelivered
    BY <1>s DEF ring, Undelivered, SlotOf
  <1>1. CASE Tick \/ ReadNow \/ ReadNothing \/ (\E c \in Commands : Decode(c)) \/ UNCHANGED vars
    BY <1>1, <1>s DEF Tick, ReadNow, ReadNothing, Decode, vars
  <1>2. CASE ReceiveCommand
    <2>1. /\ writer.at = "lock" /\ recvRead' = recvRead /\ handed' = handed
      BY <1>2 DEF ReceiveCommand
    <2>2. writer.cmd \in Commands /\ writer.now \in 0 .. MaxClock
      BY <2>1 DEF TypeOK, TimeOrder
    <2>3. CASE BumpRepeat
      <3>1. /\ recvCount # 0 /\ recvCount' = recvCount
            /\ PressAt(recvCount - 1).cmd = writer.cmd
            /\ \A k \in 0 .. recvCount - 1 :
                 PressAt(k)' = IF k = recvCount - 1 THEN Bumped(PressAt(k)) ELSE PressAt(k)
        BY <2>1, <2>3, AfterBump
      <3>2. Fifo!IsRepeatOfNewest(writer.cmd)
        BY <3>1, <1>u DEF Fifo!IsRepeatOfNewest
      <3>3. Undelivered[recvCount] = PressAt(recvCount - 1) /\ PressAt(recvCount - 1) \in Slot
        BY <1>u, <3>1
      <3>4. Undelivered' = [Undelivered EXCEPT ![recvCount] = Bumped(PressAt(recvCount - 1))]
        <4>1. Undelivered' = [k \in 1 .. recvCount |-> PressAt(k - 1)']
          BY <3>1, <1>v
        <4>2. ASSUME NEW k \in 1 .. recvCount
              PROVE  PressAt(k - 1)' = IF k = recvCount THEN Bumped(PressAt(recvCount - 1))
                                                       ELSE PressAt(k - 1)
          BY <3>1, <1>u
        <4>3. DOMAIN Undelivered = 1 .. recvCount /\ \A k \in 1 .. recvCount : Undelivered[k] = PressAt(k - 1)
          BY <1>u
        <4> QED BY <4>1, <4>2, <4>3
      <3>5. Undelivered' = [Undelivered EXCEPT ![recvCount].repeat = (@ + 1) % RepeatMod,
                                               ![recvCount].last = writer.now]
        BY <3>3, <3>4, <1>u DEF Bumped, Slot
      <3>6. Fifo!Repeat(writer.cmd, writer.now)
        BY <3>2, <3>5, <1>u, <2>1 DEF Fifo!Repeat
      <3> QED BY <3>6, <2>2 DEF Fifo!Next
    <2>4. CASE Discard
      BY <2>1, <2>4, <1>s DEF Discard, ring
    <2>5. CASE StoreNext
      <3>1. /\ recvCount < RingSize - 1 /\ recvCount' = recvCount + 1
            /\ recvCount # 0 /\ PressAt(recvCount - 1).cmd # writer.cmd
            /\ \A k \in 0 .. recvCount :
                 PressAt(k)' = IF k = recvCount THEN Fresh ELSE PressAt(k)
        BY <2>1, <2>5, AfterStoreNext
      <3>2. ~ Fifo!IsRepeatOfNewest(writer.cmd)
        BY <3>1, <1>u DEF Fifo!IsRepeatOfNewest
      <3>3. Undelivered' = Append(Undelivered, Fresh)
        BY <3>1, <1>u, <1>v
      <3>4. Fifo!Press(writer.cmd, writer.now)
        BY <3>1, <3>2, <3>3, <1>u, <2>1 DEF Fifo!Press, Fresh
      <3> QED BY <3>4, <2>2 DEF Fifo!Next
    <2>6. CASE StoreFirst
      <3>1. recvCount = 0 /\ recvCount' = 1 /\ PressAt(0)' = Fresh
        BY <2>1, <2>6, AfterStoreFirst
      <3>2. Undelivered = <<>>
        BY <3>1, <1>u
      <3>3. Undelivered' = Append(Undelivered, Fresh)
        BY <3>1, <3>2, <1>v
      <3>4. Fifo!Press(writer.cmd, writer.now)
        BY <3>1, <3>2, <3>3, <2>1, RecvRingAssumption
        DEF Fifo!Press, Fifo!IsRepeatOfNewest, Fresh
      <3> QED BY <3>4, <2>2 DEF Fifo!Next
    <2> QED BY <1>2, <2>3, <2>4, <2>5, <2>6 DEF ReceiveCommand
  <1>3. CASE ReadCommand
    <2>1. /\ recvCount # 0 /\ recvCount' = recvCount - 1
          /\ PressAt(0) = slots[recvRead]
          /\ \A k \in 0 .. recvCount - 2 : PressAt(k)' = PressAt(k + 1)
      BY <1>3, AfterRead
    <2>2. Undelivered # <<>> /\ Head(Undelivered) = slots[recvRead]
      BY <2>1, <1>u
    <2>3. Undelivered' = Tail(Undelivered)
      BY <2>1, <1>u, <1>v
    <2>4. Fifo!Deliver(reader.now)
      BY <1>3, <2>2, <2>3 DEF ReadCommand, HeadIsQuiet, Fifo!Deliver
    <2>5. reader.now \in 0 .. MaxClock
      BY DEF TypeOK
    <2> QED BY <2>4, <2>5 DEF Fifo!Next
  <1> QED BY <1>1, <1>2, <1>3 DEF Next

\* The circular buffer of ReceiveCommand and ReadCommand, for every size and
\* every interleaving of the two cores, is the bounded queue of RecvFifo.
THEOREM RingImplementsFifo == Spec => ImplementsFifo
  <1>1. Init => WriteIndex /\ TimeOrder
    BY DEF Init, WriteIndex, TimeOrder
  <1>2. Init => Fifo!Init
    BY DEF Init, Fifo!Init, Undelivered
  <1> QED BY <1>1, <1>2, TypeCorrect, WriteIndexStep, TimeOrderStep, StepRefines, PTL
          DEF Spec, ImplementsFifo, Fifo!Spec

-----------------------------------------------------------------------------
(***************************************************************************)
(* No packet is lost or counted twice.  PacketsOf is a recursive function; *)
(* the invariant is about any function that obeys its equations, so that a *)
(* step can name the function after it: the last entry changes when a      *)
(* press is repeated, an entry is added when one is stored, and the        *)
(* entries move down by one, less the first, when one is handed over.      *)
(***************************************************************************)
Below == {p \in Nat \X Nat : p[1] < p[2]}

\* A nonempty set of naturals has a least element.
LEMMA LeastNatural ==
  ASSUME NEW T \in SUBSET Nat, T # {}
  PROVE  \E x \in T : \A y \in T : x <= y
  <1>1. IsWellFoundedOn(Below, Nat)
    BY NatLessThanWellFounded DEF OpToRel, Below
  <1>2. PICK x \in T : \A y \in T : ~ (<<y, x>> \in Below)
    BY <1>1, WFMin
  <1>3. \A m, n \in Nat : m < n => <<m, n>> \in Below
    BY DEF Below
  <1>4. ASSUME NEW y \in T PROVE x <= y
    <2>1. x \in Nat /\ y \in Nat
      OBVIOUS
    <2>2. ~ (y < x)
      BY <1>2, <1>3, <2>1
    <2> QED BY <2>1, <2>2
  <1> QED BY <1>4

\* Two functions on 0 .. n that start alike and take the same steps are equal.
LEMMA SameSteps ==
  ASSUME NEW n \in Nat, NEW f, NEW g, f[0] = g[0],
         \A k \in 1 .. n : f[k - 1] = g[k - 1] => f[k] = g[k]
  PROVE  \A k \in 0 .. n : f[k] = g[k]
  <1> DEFINE Differ == {k \in 0 .. n : f[k] # g[k]}
  <1> SUFFICES ASSUME Differ # {} PROVE FALSE
    OBVIOUS
  <1>1. Differ \in SUBSET Nat
    OBVIOUS
  <1>2. PICK x \in Differ : \A y \in Differ : x <= y
    BY <1>1, LeastNatural
  <1>3. x \in 1 .. n /\ x - 1 \in 0 .. n /\ ~ (x <= x - 1)
    BY <1>2
  <1>4. f[x - 1] = g[x - 1]
    BY <1>2, <1>3
  <1> QED BY <1>2, <1>3, <1>4

\* The packets of c in the k-th undelivered press.
Packets(c, k) == IF PressAt(k).cmd = c THEN PressAt(k).repeat + 1 ELSE 0

\* s[k] is the number of packets of c in the first k undelivered presses.
Among(c, s) ==
  /\ s \in [0 .. recvCount -> Nat]
  /\ s[0] = 0
  /\ \A k \in 0 .. recvCount - 1 : s[k + 1] = s[k] + Packets(c, k)

LEMMA PacketsOfIs ==
  ASSUME TypeOK, NEW c \in Commands, NEW s, Among(c, s)
  PROVE  PacketsOf(c) = s[recvCount]
  <1>n. recvCount \in Nat
    BY DEF TypeOK
  <1>p. ASSUME NEW n \in 1 .. recvCount
        PROVE  (IF SlotOf(n - 1).cmd = c THEN SlotOf(n - 1).repeat + 1 ELSE 0)
                 = Packets(c, n - 1)
    <2>1. n - 1 \in Index /\ recvRead \in Index
      BY RecvRingAssumption DEF TypeOK, Index
    <2>2. (recvRead + (n - 1)) % RingSize = Place(recvRead, n - 1)
      BY <2>1, PlaceIsModulo
    <2> QED BY <2>2 DEF SlotOf, PressAt, Packets
  <1> DEFINE Steps(f) == [n \in 0 .. recvCount |->
               IF n = 0 THEN 0
               ELSE f[n - 1] + (IF SlotOf(n - 1).cmd = c THEN SlotOf(n - 1).repeat + 1 ELSE 0)]
  <1>1. s = Steps(s)
    <2>1. s = [n \in 0 .. recvCount |-> s[n]]
      BY DEF Among
    <2>2. ASSUME NEW n \in 0 .. recvCount, n # 0
          PROVE  s[n] = s[n - 1] + Packets(c, n - 1)
      <3>1. n - 1 \in 0 .. recvCount - 1 /\ (n - 1) + 1 = n
        BY <1>n, <2>2
      <3> QED BY <3>1 DEF Among
    <2> QED BY <2>1, <2>2, <1>p DEF Among
  <1> DEFINE among == CHOOSE f : f = Steps(f)
  <1>2. among = Steps(among)
    BY <1>1
  <1>3. PacketsOf(c) = among[recvCount]
    BY DEF PacketsOf
  <1> HIDE DEF among
  <1>4. among[0] = s[0]
    BY <1>1, <1>2, <1>n
  <1>5. ASSUME NEW k \in 1 .. recvCount, among[k - 1] = s[k - 1] PROVE among[k] = s[k]
    BY <1>1, <1>2, <1>5, <1>n
  <1>6. \A k \in 0 .. recvCount : among[k] = s[k]
    BY <1>4, <1>5, <1>n, SameSteps
  <1> QED BY <1>3, <1>6, <1>n

\* How often a command was heard, and that every packet heard is reported or
\* in the buffer.
Heard ==
  /\ \A c \in Commands : heard[c] <= MaxHeard
  /\ writer.at = "lock" => heard[writer.cmd] < MaxHeard

Accounted ==
  \A c \in Commands : \E s : Among(c, s) /\ heard[c] = reported[c] + s[recvCount]

LEMMA AccountedSuffices == TypeOK /\ Accounted => EveryPacketAccountedFor
  BY PacketsOfIs DEF Accounted, EveryPacketAccountedFor

LEMMA PressAtType ==
  ASSUME TypeOK, NEW k \in 0 .. recvCount - 1
  PROVE  PressAt(k).cmd \in Commands /\ PressAt(k).repeat \in Nat
  BY LastAtType, RecvRingAssumption DEF PressAt, TypeOK, Slot

\* A press that holds a packet of c is counted by the sums.
LEMMA NewestCounted ==
  ASSUME TypeOK, recvCount # 0, NEW c \in Commands, NEW s, Among(c, s),
         PressAt(recvCount - 1).cmd = c
  PROVE  PressAt(recvCount - 1).repeat + 1 <= s[recvCount]
  <1>1. recvCount \in Nat \ {0}
    BY DEF TypeOK
  <1>2. /\ recvCount - 1 \in 0 .. recvCount - 1
        /\ recvCount - 1 \in 0 .. recvCount
        /\ (recvCount - 1) + 1 = recvCount
    BY <1>1
  <1>3. PressAt(recvCount - 1).repeat \in Nat
    BY <1>2, PressAtType
  <1>4. s[recvCount] = s[recvCount - 1] + (PressAt(recvCount - 1).repeat + 1)
    BY <1>2 DEF Among, Packets
  <1>5. s[recvCount - 1] \in Nat
    BY <1>2 DEF Among
  <1> QED BY <1>3, <1>4, <1>5

LEMMA HeardInit == Init => Heard
  BY RecvRingAssumption DEF Init, Heard

LEMMA HeardStep == TypeOK /\ Heard /\ [Next]_vars => Heard'
  <1> SUFFICES ASSUME TypeOK, Heard, [Next]_vars PROVE Heard'
    OBVIOUS
  <1>t. MaxHeard \in Nat /\ heard \in [Commands -> Nat]
    BY RecvRingAssumption DEF TypeOK
  <1>1. ASSUME UNCHANGED <<writer, heard>> PROVE Heard'
    BY <1>1 DEF Heard
  <1>2. CASE Tick \/ ReadNow \/ ReadNothing \/ ReadCommand \/ UNCHANGED vars
    BY <1>1, <1>2 DEF Tick, ReadNow, ReadNothing, ReadCommand, vars
  <1>3. ASSUME NEW c \in Commands, Decode(c) PROVE Heard'
    BY <1>3 DEF Decode, Heard
  <1>4. CASE ReceiveCommand
    <2>1. writer.at = "lock" /\ writer'.at = "idle"
      BY <1>4 DEF ReceiveCommand
    <2>2. writer.cmd \in Commands
      BY <2>1 DEF TypeOK
    <2>3. heard' = heard \/ heard' = [heard EXCEPT ![writer.cmd] = @ + 1]
      BY <1>4 DEF ReceiveCommand, BumpRepeat, Discard, StoreNext, StoreFirst, CountHeard
    <2> QED BY <1>t, <2>1, <2>2, <2>3 DEF Heard
  <1> QED BY <1>2, <1>3, <1>4 DEF Next

\* The sums after each step.
LEMMA AccountedBump ==
  ASSUME MaxHeard <= RepeatMod, TypeOK, WriteIndex, Heard, Accounted,
         writer.at = "lock", BumpRepeat, recvRead' = recvRead, reported' = reported
  PROVE  Accounted'
  <1>t. /\ recvCount \in Nat /\ RepeatMod \in Nat /\ MaxHeard \in Nat
        /\ heard \in [Commands -> Nat] /\ reported \in [Commands -> Nat]
        /\ writer.cmd \in Commands
    BY RecvRingAssumption DEF TypeOK
  <1>1. /\ recvCount # 0 /\ recvCount' = recvCount
        /\ PressAt(recvCount - 1).cmd = writer.cmd
        /\ \A k \in 0 .. recvCount - 1 :
             PressAt(k)' = IF k = recvCount - 1 THEN Bumped(PressAt(k)) ELSE PressAt(k)
    BY AfterBump
  <1>2. recvCount - 1 \in 0 .. recvCount - 1 /\ (recvCount - 1) + 1 = recvCount
    BY <1>1, <1>t
  <1>3. PressAt(recvCount - 1).repeat \in Nat
    BY <1>2, PressAtType
  <1>4. PressAt(recvCount - 1).repeat + 1 < RepeatMod
    <2>1. PICK s : Among(writer.cmd, s) /\ heard[writer.cmd] = reported[writer.cmd] + s[recvCount]
      BY <1>t DEF Accounted
    <2>2. PressAt(recvCount - 1).repeat + 1 <= s[recvCount]
      BY <1>1, <1>t, <2>1, NewestCounted
    <2>4. s[recvCount] \in Nat /\ reported[writer.cmd] \in Nat
      BY <1>t, <2>1 DEF Among
    <2>3. heard[writer.cmd] < MaxHeard
      BY DEF Heard
    <2> QED BY <1>3, <1>t, <2>1, <2>2, <2>3, <2>4
  <1>5. (PressAt(recvCount - 1).repeat + 1) % RepeatMod = PressAt(recvCount - 1).repeat + 1
    BY <1>3, <1>4, <1>t, SmallMod, RecvRingAssumption
  <1>6. ASSUME NEW c \in Commands, NEW k \in 0 .. recvCount - 1
        PROVE  Packets(c, k)' = IF k = recvCount - 1 /\ c = writer.cmd
                                THEN Packets(c, k) + 1 ELSE Packets(c, k)
    <2>1. CASE k = recvCount - 1
      <3>1. PressAt(k)'.cmd = PressAt(k).cmd /\ PressAt(k)'.repeat = PressAt(k).repeat + 1
        BY <1>1, <1>5, <2>1 DEF Bumped
      <3> QED BY <1>1, <1>3, <2>1, <3>1 DEF Packets
    <2>2. CASE k # recvCount - 1
      <3>1. PressAt(k)' = PressAt(k)
        BY <1>1, <2>2
      <3> QED BY <2>2, <3>1 DEF Packets
    <2> QED BY <2>1, <2>2
  <1>7. heard' = [heard EXCEPT ![writer.cmd] = @ + 1]
    BY DEF BumpRepeat, CountHeard
  <1>8. ASSUME NEW c \in Commands
        PROVE  \E s : Among(c, s)' /\ heard'[c] = reported'[c] + s[recvCount']
    <2>1. PICK s : Among(c, s) /\ heard[c] = reported[c] + s[recvCount]
      BY DEF Accounted
    <2>2. CASE c # writer.cmd
      <3>1. Among(c, s)'
        BY <1>1, <1>6, <2>1, <2>2 DEF Among
      <3> QED BY <1>1, <1>7, <1>t, <2>1, <2>2, <3>1
    <2>3. CASE c = writer.cmd
      <3> DEFINE r == [k \in 0 .. recvCount |-> IF k = recvCount THEN s[k] + 1 ELSE s[k]]
      <3>1. r \in [0 .. recvCount -> Nat] /\ r[0] = 0
        BY <1>1, <1>t, <2>1 DEF Among
      <3>2. ASSUME NEW k \in 0 .. recvCount - 1
            PROVE  r[k + 1] = r[k] + Packets(c, k)'
        <4>1. /\ k \in 0 .. recvCount /\ k + 1 \in 0 .. recvCount /\ k # recvCount
              /\ k + 1 = recvCount <=> k = recvCount - 1
              /\ s[k] \in Nat /\ s[k + 1] = s[k] + Packets(c, k)
          BY <1>t, <2>1 DEF Among
        <4>2. Packets(c, k) \in Nat
          BY PressAtType DEF Packets
        <4>3. Packets(c, k)' = IF k = recvCount - 1 THEN Packets(c, k) + 1 ELSE Packets(c, k)
          BY <1>6, <2>3
        <4> QED BY <4>1, <4>2, <4>3
      <3>3. r[recvCount] = s[recvCount] + 1 /\ s[recvCount] \in Nat
        BY <1>t, <2>1 DEF Among
      <3>4. PICK z : z = r
        OBVIOUS
      <3>5. Among(c, z)'
        BY <1>1, <3>1, <3>2, <3>4 DEF Among
      <3>6. heard'[c] = reported'[c] + z[recvCount']
        <4>1. heard'[c] = heard[c] + 1
          BY <1>7, <1>t, <2>3
        <4>2. z[recvCount'] = s[recvCount] + 1
          BY <1>1, <3>3, <3>4
        <4>3. reported'[c] = reported[c] /\ reported[c] \in Nat
          BY <1>t
        <4> QED BY <2>1, <3>3, <4>1, <4>2, <4>3
      <3> QED BY <3>5, <3>6
    <2> QED BY <2>2, <2>3
  <1> QED BY <1>8 DEF Accounted

\* A press is added behind the others, or as the only one.
LEMMA AccountedStore ==
  ASSUME TypeOK, WriteIndex, Accounted, writer.at = "lock",
         StoreNext \/ StoreFirst, recvRead' = recvRead, reported' = reported
  PROVE  Accounted'
  <1>t. /\ recvCount \in Nat
        /\ heard \in [Commands -> Nat] /\ reported \in [Commands -> Nat]
        /\ writer.cmd \in Commands
    BY DEF TypeOK
  <1>1. /\ recvCount' = recvCount + 1
        /\ \A k \in 0 .. recvCount :
             PressAt(k)' = IF k = recvCount THEN Fresh ELSE PressAt(k)
    <2>1. CASE StoreNext
      BY <2>1, AfterStoreNext
    <2>2. CASE StoreFirst
      <3>1. recvCount = 0 /\ recvCount' = 1 /\ PressAt(0)' = Fresh
        BY <2>2, AfterStoreFirst
      <3> QED BY <3>1
    <2> QED BY <2>1, <2>2
  <1>2. heard' = [heard EXCEPT ![writer.cmd] = @ + 1]
    BY DEF StoreNext, StoreFirst, CountHeard
  <1>3. ASSUME NEW c \in Commands
        PROVE  \E s : Among(c, s)' /\ heard'[c] = reported'[c] + s[recvCount']
    <2>1. PICK s : Among(c, s) /\ heard[c] = reported[c] + s[recvCount]
      BY DEF Accounted
    <2> DEFINE new == IF c = writer.cmd THEN 1 ELSE 0
               r == [k \in 0 .. recvCount + 1 |-> IF k = recvCount + 1 THEN s[recvCount] + new ELSE s[k]]
    <2>2. /\ \A k \in 0 .. recvCount : s[k] \in Nat
          /\ s[0] = 0
          /\ \A k \in 0 .. recvCount - 1 : s[k + 1] = s[k] + Packets(c, k)
      BY <2>1 DEF Among
    <2>3. r \in [0 .. recvCount + 1 -> Nat] /\ r[0] = 0
      BY <2>2, <1>t
    <2>4. ASSUME NEW k \in 0 .. recvCount
          PROVE  r[k + 1] = r[k] + Packets(c, k)'
      <3>1. CASE k = recvCount
        <4>1. Packets(c, k)' = new
          BY <1>1, <3>1 DEF Packets, Fresh
        <4>2. r[k + 1] = s[recvCount] + new /\ r[k] = s[recvCount]
          BY <1>t, <3>1
        <4> QED BY <4>1, <4>2
      <3>2. CASE k # recvCount
        <4>1. Packets(c, k)' = Packets(c, k)
          BY <1>1, <3>2 DEF Packets
        <4>2. r[k + 1] = s[k + 1] /\ r[k] = s[k] /\ k \in 0 .. recvCount - 1
          BY <1>t, <3>2
        <4> QED BY <2>2, <4>1, <4>2
      <3> QED BY <3>1, <3>2
    <2>5. r[recvCount + 1] = s[recvCount] + new /\ s[recvCount] \in Nat
      BY <1>t, <2>2
    <2>6. PICK z : z = r
      OBVIOUS
    <2>7. Among(c, z)'
      <3>1. recvCount' - 1 = recvCount
        BY <1>1, <1>t
      <3> QED BY <1>1, <2>3, <2>4, <2>6, <3>1 DEF Among
    <2>8. heard'[c] = reported'[c] + z[recvCount']
      <3>1. heard'[c] = heard[c] + new
        BY <1>2, <1>t
      <3>2. z[recvCount'] = s[recvCount] + new
        BY <1>1, <2>5, <2>6
      <3>3. reported'[c] = reported[c] /\ reported[c] \in Nat
        BY <1>t
      <3> QED BY <2>1, <2>5, <3>1, <3>2, <3>3
    <2> QED BY <2>7, <2>8
  <1> QED BY <1>3 DEF Accounted

\* The oldest press goes to the main loop: its packets move from the sums to
\* what was reported.
LEMMA AccountedRead ==
  ASSUME TypeOK, Accounted, ReadCommand
  PROVE  Accounted'
  <1>t. /\ recvCount \in Nat
        /\ heard \in [Commands -> Nat] /\ reported \in [Commands -> Nat]
    BY DEF TypeOK
  <1>1. /\ recvCount # 0 /\ recvCount' = recvCount - 1
        /\ PressAt(0) = slots[recvRead]
        /\ \A k \in 0 .. recvCount - 2 : PressAt(k)' = PressAt(k + 1)
    BY AfterRead
  <1>2. 0 \in 0 .. recvCount - 1
    BY <1>1, <1>t
  <1>3. PressAt(0).cmd \in Commands /\ PressAt(0).repeat \in Nat
    BY <1>2, PressAtType
  <1>4. /\ reported' = [reported EXCEPT ![PressAt(0).cmd] = @ + PressAt(0).repeat + 1]
        /\ heard' = heard
    BY <1>1 DEF ReadCommand
  <1>5. ASSUME NEW c \in Commands
        PROVE  \E s : Among(c, s)' /\ heard'[c] = reported'[c] + s[recvCount']
    <2>1. PICK s : Among(c, s) /\ heard[c] = reported[c] + s[recvCount]
      BY DEF Accounted
    <2> DEFINE r == [k \in 0 .. recvCount - 1 |-> s[k + 1] - s[1]]
    <2>2. /\ \A k \in 0 .. recvCount : s[k] \in Nat
          /\ s[0] = 0
          /\ \A k \in 0 .. recvCount - 1 : s[k + 1] = s[k] + Packets(c, k)
      BY <2>1 DEF Among
    <2>3. \A k \in 0 .. recvCount - 1 : Packets(c, k) \in Nat
      BY PressAtType DEF Packets
    <2>4. s[1] = Packets(c, 0)
      <3>1. s[0 + 1] = s[0] + Packets(c, 0)
        BY <1>2, <2>2
      <3> QED BY <1>2, <2>2, <2>3, <3>1
    <2>5. \A k \in 1 .. recvCount : s[1] <= s[k]
      <3> DEFINE Lower == {k \in 1 .. recvCount : ~ (s[1] <= s[k])}
      <3> SUFFICES ASSUME Lower # {} PROVE FALSE
        OBVIOUS
      <3>1. Lower \in SUBSET Nat
        OBVIOUS
      <3>2. PICK x \in Lower : \A y \in Lower : x <= y
        BY <3>1, LeastNatural
      <3>3. x \in 1 .. recvCount /\ ~ (s[1] <= s[x]) /\ s[1] \in Nat
        BY <2>2, <3>2, <1>1, <1>t
      <3>4. x # 1
        BY <3>3
      <3>5. x - 1 \in 1 .. recvCount /\ ~ (x <= x - 1) /\ x - 1 \in 0 .. recvCount - 1
        BY <3>3, <3>4, <1>t
      <3>6. s[1] <= s[x - 1]
        BY <3>2, <3>5
      <3>7. s[x] = s[x - 1] + Packets(c, x - 1)
        <4>1. (x - 1) + 1 = x
          BY <3>3
        <4> QED BY <2>2, <3>5, <4>1
      <3> QED BY <2>2, <2>3, <3>3, <3>5, <3>6, <3>7
    <2>6. r \in [0 .. recvCount - 1 -> Nat] /\ r[0] = 0
      <3>1. ASSUME NEW k \in 0 .. recvCount - 1 PROVE r[k] \in Nat
        <4>1. k + 1 \in 1 .. recvCount /\ k + 1 \in 0 .. recvCount /\ 1 \in 0 .. recvCount
          BY <1>1, <1>t
        <4> QED BY <2>2, <2>5, <4>1
      <3>2. r[0] = 0
        <4>1. s[1] \in Nat
          BY <1>1, <1>t, <2>2
        <4> QED BY <1>2, <4>1
      <3> QED BY <3>1, <3>2
    <2>7. ASSUME NEW k \in 0 .. recvCount - 2
          PROVE  r[k + 1] = r[k] + Packets(c, k)'
      <3>1. /\ k \in 0 .. recvCount - 1 /\ k + 1 \in 0 .. recvCount - 1
            /\ k + 1 \in 0 .. recvCount /\ (k + 1) + 1 \in 0 .. recvCount /\ 1 \in 0 .. recvCount
        BY <1>1, <1>t
      <3>2. Packets(c, k)' = Packets(c, k + 1)
        BY <1>1 DEF Packets
      <3>3. s[(k + 1) + 1] = s[k + 1] + Packets(c, k + 1)
        BY <2>2, <3>1
      <3>4. /\ s[(k + 1) + 1] \in Nat /\ s[k + 1] \in Nat /\ s[1] \in Nat
            /\ Packets(c, k + 1) \in Nat
        BY <2>2, <2>3, <3>1
      <3>5. r[k + 1] = s[(k + 1) + 1] - s[1] /\ r[k] = s[k + 1] - s[1]
        BY <3>1
      <3> HIDE DEF r
      <3> QED BY <3>2, <3>3, <3>4, <3>5
    <2>8. PICK z : z = r
      OBVIOUS
    <2>9. Among(c, z)'
      <3>1. recvCount' - 1 = recvCount - 2
        BY <1>1, <1>t
      <3> QED BY <1>1, <2>6, <2>7, <2>8, <3>1 DEF Among
    <2>10. heard'[c] = reported'[c] + z[recvCount']
      <3>1. heard'[c] = heard[c]
        BY <1>4
      <3>2. reported'[c] = reported[c] + Packets(c, 0) /\ reported[c] \in Nat
        BY <1>3, <1>4, <1>t DEF Packets
      <3>3. z[recvCount'] = s[recvCount] - s[1]
        <4>1. recvCount - 1 \in 0 .. recvCount - 1 /\ (recvCount - 1) + 1 = recvCount
          BY <1>1, <1>t
        <4> QED BY <1>1, <2>8, <4>1
      <3>4. s[recvCount] \in Nat /\ s[1] \in Nat
        BY <1>1, <1>t, <2>2
      <3> QED BY <2>1, <2>4, <3>1, <3>2, <3>3, <3>4
    <2> QED BY <2>9, <2>10
  <1> QED BY <1>5 DEF Accounted

LEMMA AccountedStep ==
  ASSUME MaxHeard <= RepeatMod, TypeOK, WriteIndex, Heard, Accounted, [Next]_vars
  PROVE  Accounted'
  <1>1. ASSUME UNCHANGED <<ring, heard, reported>> PROVE Accounted'
    <2>1. \A c, k : Packets(c, k)' = Packets(c, k)
      BY <1>1 DEF Packets, PressAt, ring
    <2>2. \A c, s : Among(c, s)' <=> Among(c, s)
      BY <1>1, <2>1 DEF Among, ring
    <2> QED BY <1>1, <2>2 DEF Accounted, ring
  <1>2. CASE Tick \/ ReadNow \/ ReadNothing \/ (\E c \in Commands : Decode(c)) \/ UNCHANGED vars
    BY <1>1, <1>2 DEF Tick, ReadNow, ReadNothing, Decode, vars
  <1>3. CASE ReceiveCommand
    <2>1. writer.at = "lock" /\ recvRead' = recvRead /\ reported' = reported
      BY <1>3 DEF ReceiveCommand
    <2>2. CASE BumpRepeat
      BY <2>1, <2>2, AccountedBump
    <2>3. CASE Discard
      BY <1>1, <2>1, <2>3 DEF Discard, ring
    <2>4. CASE StoreNext \/ StoreFirst
      BY <2>1, <2>4, AccountedStore
    <2> QED BY <1>3, <2>2, <2>3, <2>4 DEF ReceiveCommand
  <1>4. CASE ReadCommand
    BY <1>4, AccountedRead
  <1> QED BY <1>2, <1>3, <1>4 DEF Next

LEMMA AccountedInit == Init => Accounted
  <1> SUFFICES ASSUME Init, NEW c \in Commands
               PROVE  \E s : Among(c, s) /\ heard[c] = reported[c] + s[recvCount]
    BY DEF Accounted
  <1> DEFINE r == [k \in 0 .. 0 |-> 0]
  <1>1. Among(c, r) /\ heard[c] = reported[c] + r[recvCount]
    BY DEF Init, Among
  <1> QED BY <1>1

\* Whatever the two cores do in between, every packet that was stored or
\* merged is in the buffer or was reported, once, as long as no command is
\* heard more often than the uint16_t repeat count of its press can hold.
THEOREM NothingLostInTheBuffer ==
  ASSUME MaxHeard <= RepeatMod
  PROVE  Spec => []EveryPacketAccountedFor
  <1>1. Init => WriteIndex
    BY DEF Init, WriteIndex
  <1>2. TypeOK /\ WriteIndex /\ Heard /\ Accounted /\ [Next]_vars => Accounted'
    BY AccountedStep
  <1> QED BY <1>1, <1>2, TypeCorrect, WriteIndexStep, HeardInit, HeardStep,
             AccountedInit, AccountedSuffices, PTL DEF Spec
=============================================================================
