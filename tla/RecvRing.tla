------------------------------ MODULE RecvRing ------------------------------
(***************************************************************************)
(* The buffer of presses heard from other remotes, in RadioCommandQueue    *)
(* (commandQueue.cpp).  The worker on core 1 stores packets in a circular  *)
(* buffer (ReceiveCommand) that the main loop on core 0 empties            *)
(* (ReadCommand).  A spin lock makes each critical section atomic, but     *)
(* both sides read the clock BEFORE they take it, so each handler is two   *)
(* steps here: one that reads the clock, one that holds the lock.          *)
(*                                                                         *)
(* Packets that fail the checksum or carry another button than Up, Down or *)
(* My return before the lock and change nothing; they are left out.        *)
(***************************************************************************)
EXTENDS Integers

CONSTANTS
  Commands,   \* decoded presses: (remote id, rolling code, button)
  RingSize,   \* MAX_RECV_QUEUE
  Quiet,      \* the 250000 us of ReadCommand, in clock ticks
  RepeatMod,  \* 2^16: the repeat count is a uint16_t
  MaxClock,   \* bound: the clock stops here
  AirTime,    \* bound: no packet is heard after this time
  MaxHeard,   \* bound: packets heard of one command
  None        \* nothing has been handed over yet

ASSUME RecvRingAssumption ==
  /\ RingSize \in Nat /\ RingSize > 1
  /\ Quiet \in Nat
  /\ RepeatMod \in Nat \ {0}
  /\ MaxClock \in Nat /\ AirTime \in Nat /\ MaxHeard \in Nat

VARIABLES
  clock,      \* get_absolute_time()
  slots,      \* _receivedCommands
  recvRead,   \* _recvRead
  recvWrite,  \* _recvWrite
  recvCount,  \* _recvCount
  reader,     \* core 0 in ReadCommand: its place and its local "now"
  writer,     \* core 1 in ReceiveCommand: its place, its packet and its "now"
  handed,     \* the command the last successful ReadCommand returned
  heard,      \* history: packets stored or merged, for each command
  reported    \* history: packets reported to the main loop, for each command

ring == <<slots, recvRead, recvWrite, recvCount>>
vars == <<clock, ring, reader, writer, handed, heard, reported>>

Index == 0 .. RingSize - 1
Slot  == [cmd : Commands, repeat : 0 .. RepeatMod - 1, last : Nat]

\* The constructor leaves _receivedCommands uninitialised: whatever is there
\* may look like a press.
Leftover == [cmd : Commands, repeat : {0}, last : {0}]

Init ==
  /\ clock = 0
  /\ slots \in [Index -> Leftover]
  /\ recvRead = 0 /\ recvWrite = 0 /\ recvCount = 0
  /\ reader = [at |-> "idle", now |-> 0]
  /\ writer = [at |-> "idle", now |-> 0, cmd |-> None]
  /\ handed = None
  /\ heard = [c \in Commands |-> 0]
  /\ reported = [c \in Commands |-> 0]

-----------------------------------------------------------------------------
Tick ==
  /\ clock < MaxClock
  /\ clock' = clock + 1
  /\ UNCHANGED <<ring, reader, writer, handed, heard, reported>>

\* ReceiveCommand up to the lock: a packet decoded, the time taken.
Decode(c) ==
  /\ writer.at = "idle"
  /\ clock <= AirTime
  /\ heard[c] < MaxHeard
  /\ writer' = [at |-> "lock", now |-> clock, cmd |-> c]
  /\ UNCHANGED <<clock, ring, reader, handed, heard, reported>>

Following(i) == (i + 1) % RingSize

\* Mutation: the packet is compared with the oldest press.
OldestSlot == recvRead

\* The slot a repeat is merged into.
MergeSlot == recvWrite

\* Mutation: the comparison is made in an empty buffer too.
MatchesLeftover == slots[MergeSlot].cmd = writer.cmd

IsRepeat == recvCount # 0 /\ slots[MergeSlot].cmd = writer.cmd

\* Mutation: the buffer is never found full.
NeverFull == FALSE

\* One slot is never used.
Full == recvCount = RingSize - 1

StoreAt(i) ==
  /\ slots' = [slots EXCEPT ![i] = [cmd |-> writer.cmd, repeat |-> 0, last |-> writer.now]]
  /\ recvWrite' = i
  /\ recvCount' = recvCount + 1

CountHeard == heard' = [heard EXCEPT ![writer.cmd] = @ + 1]

\* The critical section of ReceiveCommand: its four outcomes.
BumpRepeat ==
  /\ IsRepeat
  /\ slots' = [slots EXCEPT ![MergeSlot].repeat = (@ + 1) % RepeatMod,
                            ![MergeSlot].last = writer.now]
  /\ UNCHANGED <<recvWrite, recvCount>>
  /\ CountHeard

Discard ==
  /\ recvCount # 0 /\ ~ IsRepeat /\ Full
  /\ UNCHANGED <<slots, recvWrite, recvCount, heard>>

StoreNext ==
  /\ recvCount # 0 /\ ~ IsRepeat /\ ~ Full
  /\ StoreAt(Following(recvWrite))
  /\ CountHeard

StoreFirst ==
  /\ recvCount = 0
  /\ StoreAt(recvWrite)
  /\ CountHeard

ReceiveCommand ==
  /\ writer.at = "lock"
  /\ BumpRepeat \/ Discard \/ StoreNext \/ StoreFirst
  /\ writer' = [at |-> "idle", now |-> 0, cmd |-> None]
  /\ UNCHANGED <<clock, recvRead, reader, handed, reported>>

-----------------------------------------------------------------------------
\* ReadCommand up to the lock: the time taken.
ReadNow ==
  /\ reader.at = "idle"
  /\ reader' = [at |-> "lock", now |-> clock]
  /\ UNCHANGED <<clock, ring, writer, handed, heard, reported>>

Return == reader' = [at |-> "idle", now |-> 0]

\* Mutation: the arguments of absolute_time_diff_us are swapped.
HeadIsQuietSwapped == slots[recvRead].last - reader.now >= Quiet

\* absolute_time_diff_us is signed: a press stored after "now" was read is
\* not quiet.
HeadIsQuiet == reader.now - slots[recvRead].last >= Quiet

\* The critical section of ReadCommand, which returns false...
ReadNothing ==
  /\ reader.at = "lock"
  /\ recvCount = 0 \/ ~ HeadIsQuiet
  /\ Return
  /\ UNCHANGED <<clock, ring, writer, handed, heard, reported>>

WriteIndexAfterRead == IF recvCount = 1 THEN Following(recvRead) ELSE recvWrite

\* ... or the oldest press.
ReadCommand ==
  /\ reader.at = "lock"
  /\ recvCount # 0
  /\ HeadIsQuiet
  /\ LET s == slots[recvRead] IN
       /\ handed' = [cmd |-> s.cmd, repeat |-> s.repeat]
       /\ reported' = [reported EXCEPT ![s.cmd] = @ + s.repeat + 1]
  /\ recvCount' = recvCount - 1
  /\ recvRead' = Following(recvRead)
  /\ recvWrite' = WriteIndexAfterRead
  /\ Return
  /\ UNCHANGED <<clock, slots, writer, heard>>

Next ==
  \/ Tick
  \/ \E c \in Commands : Decode(c)
  \/ ReceiveCommand
  \/ ReadNow
  \/ ReadNothing
  \/ ReadCommand

Spec == Init /\ [][Next]_vars

\* Time passes, a critical section ends, and the main loop calls ReadCommand
\* at every turn (picoSomfy.cpp, runServiceMode).
FairSpec ==
  /\ Spec
  /\ WF_vars(Tick)
  /\ WF_vars(ReceiveCommand)
  /\ WF_vars(ReadNow)
  /\ WF_vars(ReadNothing \/ ReadCommand)
-----------------------------------------------------------------------------
\* The slot of the k-th undelivered press, k \in 0 .. recvCount - 1.
SlotOf(k) == slots[(recvRead + k) % RingSize]

TypeOK ==
  /\ clock \in 0 .. MaxClock
  /\ slots \in [Index -> Slot]
  /\ recvRead \in Index /\ recvWrite \in Index
  /\ recvCount \in 0 .. RingSize - 1
  /\ reader \in [at : {"idle", "lock"}, now : 0 .. MaxClock]
  /\ writer \in [at : {"idle"}, now : {0}, cmd : {None}]
                \cup [at : {"lock"}, now : 0 .. MaxClock, cmd : Commands]
  /\ handed \in [cmd : Commands, repeat : 0 .. RepeatMod - 1] \cup {None}
  /\ heard \in [Commands -> Nat]
  /\ reported \in [Commands -> Nat]

\* The write index names the newest undelivered press; in an empty buffer it
\* names the slot the next press goes to, which is the one read next.  It is
\* what lets ReceiveCommand compare a packet with one slot only.
WriteIndexNamesNewest ==
  recvWrite = IF recvCount = 0 THEN recvRead
              ELSE (recvRead + recvCount - 1) % RingSize

\* The undelivered presses are in the order of the last packet heard for each,
\* and no time stamp lies in the future of either core, although each core
\* reads the clock before it takes the lock.  So the one press ReadCommand
\* looks at is the one that has been quiet the longest: a press that is still
\* being repeated never holds back another that is complete.
OldestIsQuietest ==
  \A j \in 0 .. recvCount - 1 :
    /\ \A i \in 0 .. j : SlotOf(i).last <= SlotOf(j).last
    /\ SlotOf(j).last <= clock
    /\ writer.at = "lock" => SlotOf(j).last <= writer.now

\* The packets of command c that the buffer holds: a press and its repeats,
\* over the undelivered presses.
PacketsOf(c) ==
  LET among[n \in 0 .. recvCount] ==
        IF n = 0 THEN 0
        ELSE among[n - 1] + (IF SlotOf(n - 1).cmd = c THEN SlotOf(n - 1).repeat + 1 ELSE 0)
  IN  among[recvCount]

\* Every packet that was stored or merged is in the buffer or was reported,
\* once: none is lost by a wrong index, none is counted twice.
EveryPacketAccountedFor ==
  \A c \in Commands : heard[c] = reported[c] + PacketsOf(c)

\* Once the air is silent the main loop gets every press: the quiet time of
\* the last one ends, and none stays behind in the buffer.
BufferDrains == <>[](recvCount = 0 /\ reported = heard)

-----------------------------------------------------------------------------
\* The undelivered presses as a sequence, oldest first.
Undelivered == [k \in 1 .. recvCount |-> SlotOf(k - 1)]

Fifo == INSTANCE RecvFifo WITH fifo <- Undelivered, Capacity <- RingSize - 1,
                               Times <- 0 .. MaxClock

\* The circular buffer behaves like the bounded queue of RecvFifo.
ImplementsFifo == Fifo!Spec
=============================================================================
