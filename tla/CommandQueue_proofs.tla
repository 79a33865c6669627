------------------------ MODULE CommandQueue_proofs -------------------------
(***************************************************************************)
(* CommandQueue, SomfyPacket and Radio, for every number of remotes, every *)
(* queue size and every bound: the types, what the rolling codes promise   *)
(* across restarts and power cuts, the round trip of a packet, that the    *)
(* worker with its driver and chip does what CommandQueue says of it, and  *)
(* what goes over the air and comes from it.                               *)
(***************************************************************************)
EXTENDS Radio, SequenceTheorems, WellFoundedInduction, TLAPS

LEMMA NoWrap ==
  ASSUME NEW N \in Nat, NEW c \in Nat, c + 1 < N
  PROVE  (c + 1) % N = c + 1
  BY SMT

-----------------------------------------------------------------------------
(* Types *)

LEMMA TypeInit == Init => TypeOK
  <1> SUFFICES ASSUME Init PROVE TypeOK
    OBVIOUS
  <1> USE CommandQueueAssumption DEF Init
  <1>1. QueueType
    BY DEF QueueType
  <1>4. Core1Type /\ RadioType /\ Core0Type
    BY DEF Core1Type, RadioType, Core0Type, Entry
  <1>2. RemotesType
    BY DEF RemotesType, FirstCode, Codes
  <1>3. SentType /\ UsedType
    BY DEF SentType, UsedType
  <1> QED BY <1>1, <1>2, <1>3, <1>4 DEF TypeOK

\* What an action leaves alone keeps its type.
LEMMA SameTypes ==
  ASSUME TypeOK
  PROVE  /\ UNCHANGED queue => QueueType'
         /\ UNCHANGED core1 => Core1Type'
         /\ UNCHANGED radio => RadioType'
         /\ UNCHANGED core0 => Core0Type'
         /\ UNCHANGED remotes => RemotesType'
         /\ UNCHANGED <<accepted, base, sent, spent>> => SentType'
         /\ UNCHANGED used => UsedType'
  BY DEF TypeOK, QueueType, Core1Type, RadioType, Core0Type, RemotesType, SentType, UsedType,
         core1, radio, core0, remotes

\* queue_try_add keeps the queue a bounded sequence of entries.
LEMMA TryAddType ==
  ASSUME QueueType, NEW e \in Entry, TryAdd(e)
  PROVE  QueueType'
  BY AppendProperties, CommandQueueAssumption DEF QueueType, TryAdd, HasRoom

LEMMA UseType ==
  ASSUME UsedType,
         \/ Use("presses") /\ used.presses < MaxPresses
         \/ Use("packets") /\ used.packets < MaxPackets
         \/ Use("restarts") /\ used.restarts < MaxRestarts
         \/ Use("cuts") /\ used.cuts < MaxCuts
  PROVE  UsedType'
  BY CommandQueueAssumption DEF UsedType, Use

LEMMA BootType ==
  ASSUME TypeOK, Boot
  PROVE  QueueType' /\ Core1Type' /\ RadioType' /\ Core0Type' /\ RemotesType'
  <1>1. QueueType'
    BY CommandQueueAssumption DEF Boot, QueueType
  <1>3. Core1Type' /\ RadioType' /\ Core0Type'
    BY DEF Boot, Core1Type, RadioType, Core0Type, Entry
  <1>2. RemotesType'
    BY DEF Boot, TypeOK, RemotesType
  <1> QED BY <1>1, <1>2, <1>3

LEMMA TypeStep == TypeOK /\ [Next]_vars => TypeOK'
  <1> SUFFICES ASSUME TypeOK, [Next]_vars PROVE TypeOK'
    OBVIOUS
  <1> USE CommandQueueAssumption, SameTypes
  <1>1. ASSUME NEW r \in Remotes, Press(r) PROVE TypeOK'
    <2> DEFINE c == [kind |-> "send", remote |-> r, code |-> roll[r]]
    <2>1. c \in Command /\ c \in Entry
      BY DEF Command, Entry, TypeOK, RemotesType
    <2>2. QueueType'
      BY <1>1, <2>1, TryAddType DEF Press, TypeOK
    <2>3. SentType'
      BY <1>1, <2>1, AppendProperties DEF Press, TypeOK, SentType
    <2>4. RemotesType'
      BY <1>1 DEF Press, NextCode, Codes, TypeOK, RemotesType
    <2> QED BY <1>1, <2>2, <2>3, <2>4, UseType DEF Press, TypeOK
  <1>2. CASE SaveTimer
    <2>1. Core0Type'
      BY <1>2 DEF SaveTimer, StartSaving, Polling, Core0Type
    <2> QED BY <1>2, <2>1 DEF SaveTimer, TypeOK, history
  <1>3. ASSUME NEW r \in Remotes, SaveOne(r) PROVE TypeOK'
    <2>1. SentCodes(r) \subseteq Codes
      <3>1. \A j \in 1 .. Len(sent) : sent[j] \in Command
        BY ElementOfSeq DEF TypeOK, SentType
      <3> QED BY <3>1 DEF SentCodes, Command
    <2>2. SentType'
      BY <1>3, <2>1 DEF SaveOne, TypeOK, SentType
    <2>3. RemotesType'
      BY <1>3 DEF SaveOne, CodeToSave, TypeOK, RemotesType
    <2>4. Core0Type'
      BY <1>3 DEF SaveOne, TypeOK, Core0Type
    <2> QED BY <1>3, <2>2, <2>3, <2>4 DEF SaveOne, TypeOK
  <1>4. CASE SavingDone \/ LeaveLoop \/ ShutdownReturns
    <2>1. Core0Type'
      BY <1>4 DEF SavingDone, LeaveLoop, ShutdownReturns, StartSaving, TypeOK, Core0Type
    <2> QED BY <1>4, <2>1 DEF SavingDone, LeaveLoop, ShutdownReturns, TypeOK, history
  <1>5. CASE QueueStop
    <2>1. QueueType'
      BY <1>5, AppendProperties DEF QueueStop, HasRoom, TypeOK, QueueType, Entry
    <2>2. Core0Type'
      BY <1>5 DEF QueueStop, TypeOK, Core0Type
    <2> QED BY <1>5, <2>1, <2>2 DEF QueueStop, TypeOK, history
  <1>6. CASE Reboot
    <2>1. SentType'
      BY <1>6 DEF Reboot, Boot, TypeOK, SentType
    <2> QED BY <1>6, <2>1, BootType, UseType DEF Reboot, TypeOK
  <1>7. CASE PowerCut
    <2>1. SentType'
      BY <1>7 DEF PowerCut, Boot, TypeOK, SentType
    <2> QED BY <1>7, <2>1, BootType, UseType DEF PowerCut, TypeOK
  <1>8. CASE \/ WorkerStarts \/ EnableReceive \/ EnableInterrupt \/ SkipReceive
             \/ DisableInterrupt \/ Standby \/ ReceiveCommand \/ WorkerStops
    <2>1. Core1Type' /\ RadioType'
      BY <1>8 DEF WorkerStarts, EnableReceive, EnableInterrupt, SkipReceive, DisableInterrupt, Standby,
                  ReceiveCommand, WorkerStops, AfterStop, TypeOK, Core1Type, RadioType, radio
    <2> QED BY <1>8, <2>1 DEF WorkerStarts, EnableReceive, EnableInterrupt, SkipReceive, DisableInterrupt, Standby,
                              ReceiveCommand, WorkerStops, TypeOK, history
  <1>9. CASE Remove
    <2>1. QueueType' /\ Core1Type'
      BY <1>9, HeadTailProperties DEF Remove, RestAfterRemove, TypeOK, QueueType, Core1Type
    <2> QED BY <1>9, <2>1 DEF Remove, TypeOK, history
  <1>10. CASE ExecuteCommand
    <2>1. entry \in Command
      BY <1>10 DEF ExecuteCommand, TypeOK, Core1Type, Entry, Stop, Receive
    <2>2. SentType'
      BY <1>10, <2>1, AppendProperties DEF ExecuteCommand, TypeOK, SentType
    <2>3. Core1Type' /\ RadioType'
      BY <1>10 DEF ExecuteCommand, TypeOK, Core1Type, RadioType
    <2> QED BY <1>10, <2>2, <2>3 DEF ExecuteCommand, TypeOK
  <1>11. CASE PacketHeard
    <2>1. QueueType'
      BY <1>11, TryAddType DEF PacketHeard, TypeOK, Entry
    <2>2. RadioType'
      BY <1>11 DEF PacketHeard, TypeOK, RadioType
    <2> QED BY <1>11, <2>1, <2>2, UseType DEF PacketHeard, TypeOK
  <1>12. CASE UNCHANGED vars
    BY <1>12 DEF vars, TypeOK, history
  <1> QED BY <1>1, <1>2, <1>3, <1>4, <1>5, <1>6, <1>7, <1>8, <1>9, <1>10, <1>11, <1>12
          DEF Next, Worker, Core0Proceeds

\* Every variable keeps its type: the queue never holds more than its
\* capacity, and nothing else than commands is sent.
THEOREM TypeCorrect == Spec => []TypeOK
  BY TypeInit, TypeStep, PTL DEF Spec

-----------------------------------------------------------------------------
(* What the actions do to the two sequences, element by element. *)

LEMMA Added ==
  ASSUME TypeOK, NEW e \in Entry, queue' = Append(queue, e) \/ queue' = queue
  PROVE  \A i \in 1 .. Len(queue') :
           \/ i \in 1 .. Len(queue) /\ queue'[i] = queue[i]
           \/ i = Len(queue) + 1 /\ queue'[i] = e
  BY AppendProperties DEF TypeOK, QueueType

LEMMA StillThere ==
  ASSUME TypeOK, NEW e \in Entry, queue' = Append(queue, e) \/ queue' = queue
  PROVE  \A i \in 1 .. Len(queue) : i \in 1 .. Len(queue') /\ queue'[i] = queue[i]
  BY AppendProperties DEF TypeOK, QueueType

LEMMA Removed ==
  ASSUME TypeOK, Remove
  PROVE  /\ 1 \in 1 .. Len(queue) /\ entry' = queue[1]
         /\ \A i \in 1 .. Len(queue') : i + 1 \in 1 .. Len(queue) /\ queue'[i] = queue[i + 1]
         /\ \A i \in 1 .. Len(queue) : i = 1 \/ (i - 1 \in 1 .. Len(queue') /\ queue'[i - 1] = queue[i])
  BY HeadTailProperties, EmptySeq DEF Remove, RestAfterRemove, TypeOK, QueueType

LEMMA Transmitted ==
  ASSUME TypeOK, ExecuteCommand
  PROVE  /\ Len(sent') = Len(sent) + 1
         /\ \A k \in 1 .. Len(sent') :
              \/ k \in 1 .. Len(sent) /\ sent'[k] = sent[k]
              \/ k = Len(sent) + 1 /\ sent'[k] = entry
  <1>1. entry \in Command
    BY DEF ExecuteCommand, TypeOK, Core1Type, Entry, Stop, Receive
  <1> QED BY <1>1, AppendProperties DEF ExecuteCommand, TypeOK, SentType

LEMMA SentAreCommands ==
  ASSUME TypeOK
  PROVE  \A k \in 1 .. Len(sent) : sent[k] \in Command
  BY ElementOfSeq DEF TypeOK, SentType

LEMMA QueuedAreEntries ==
  ASSUME TypeOK
  PROVE  \A i \in 1 .. Len(queue) : queue[i] \in Entry
  BY ElementOfSeq DEF TypeOK, QueueType

LEMMA CommandParts ==
  ASSUME NEW e \in Entry, e.kind = "send"
  PROVE  e \in Command /\ e.remote \in Remotes /\ e.code \in Nat
  BY CommandQueueAssumption DEF Entry, Command, Stop, Receive, Codes

-----------------------------------------------------------------------------
(***************************************************************************)
(* A remote's counter stays ahead of flash, agrees with it unless the      *)
(* remote is marked as changed, and does not wrap around.                  *)
(***************************************************************************)
Counters ==
  \A r \in Remotes : /\ roll[r] <= FirstCode + used.presses
                     /\ saved[r] <= roll[r]
                     /\ dirty[r] \/ saved[r] = roll[r]

LEMMA PressCounts ==
  ASSUME TypeOK, Counters, NEW r \in Remotes, Press(r)
  PROVE  /\ roll' = [roll EXCEPT ![r] = roll[r] + 1]
         /\ roll[r] \in Nat
  <1>1. /\ roll[r] \in Nat /\ used.presses \in Nat
        /\ used.presses < MaxPresses /\ roll[r] <= 1 + used.presses
    BY CommandQueueAssumption
    DEF TypeOK, RemotesType, UsedType, Codes, Counters, FirstCode, Press
  <1>2. roll[r] + 1 < CodeMod
    BY <1>1, CommandQueueAssumption
  <1>3. (roll[r] + 1) % CodeMod = roll[r] + 1
    BY <1>1, <1>2, NoWrap, CommandQueueAssumption
  <1> QED BY <1>1, <1>3 DEF Press, NextCode

LEMMA CountersStep == TypeOK /\ Counters /\ [Next]_vars => Counters'
  <1> SUFFICES ASSUME TypeOK, Counters, [Next]_vars PROVE Counters'
    OBVIOUS
  <1>n. \A r \in Remotes : roll[r] \in Nat /\ saved[r] \in Nat /\ dirty[r] \in BOOLEAN
    BY CommandQueueAssumption DEF TypeOK, RemotesType, Codes
  <1>u. used.presses \in Nat
    BY CommandQueueAssumption DEF TypeOK, UsedType
  <1>1. ASSUME NEW r \in Remotes, Press(r) PROVE Counters'
    <2>1. roll' = [roll EXCEPT ![r] = roll[r] + 1]
      BY <1>1, PressCounts
    <2>2. used'.presses = used.presses + 1
      BY <1>1 DEF Press, Use, TypeOK, UsedType
    <2>3. saved' = saved /\ dirty' = [dirty EXCEPT ![r] = TRUE]
      BY <1>1 DEF Press
    <2> QED BY <1>n, <1>u, <2>1, <2>2, <2>3 DEF Counters, FirstCode, TypeOK, RemotesType
  <1>2. ASSUME NEW r \in Remotes, SaveOne(r) PROVE Counters'
    <2>1. /\ saved' = IF dirty[r] THEN [saved EXCEPT ![r] = roll[r]] ELSE saved
          /\ dirty' = [dirty EXCEPT ![r] = FALSE]
          /\ UNCHANGED <<roll, used>>
      BY <1>2 DEF SaveOne, CodeToSave
    <2> QED BY <1>n, <2>1 DEF Counters, TypeOK, RemotesType
  <1>3. CASE Reboot \/ PowerCut
    <2>1. /\ roll' = saved /\ saved' = saved
          /\ used'.presses = used.presses
      BY <1>3 DEF Reboot, PowerCut, Boot, Use, TypeOK, UsedType
    <2> QED BY <1>n, <1>u, <2>1 DEF Counters, FirstCode
  <1>4. CASE PacketHeard
    <2>1. UNCHANGED remotes /\ used'.presses = used.presses
      BY <1>4 DEF PacketHeard, Use, TypeOK, UsedType
    <2> QED BY <2>1 DEF Counters, remotes
  <1>5. CASE UNCHANGED <<remotes, used>>
    BY <1>5 DEF Counters, remotes
  <1> QED BY <1>1, <1>2, <1>3, <1>4, <1>5
          DEF Next, Worker, Core0Proceeds, SaveTimer, LeaveLoop, SavingDone, QueueStop,
              ShutdownReturns, WorkerStarts, EnableReceive, EnableInterrupt, SkipReceive,
              Remove, DisableInterrupt, Standby, ExecuteCommand, ReceiveCommand, WorkerStops, vars, history

-----------------------------------------------------------------------------
(***************************************************************************)
(* The commands sent, the one in hand and those that wait form one line in *)
(* which the codes of each remote go up, all of them below its counter.    *)
(***************************************************************************)
Before(c, d) == c.kind = "send" /\ d.kind = "send" /\ c.remote = d.remote => c.code < d.code
Issued(c)    == c.kind = "send" => c.code < roll[c.remote]
Handling     == at \in {"standby", "abort", "run"} /\ entry.kind = "send"

QueueOrdered ==
  \A i \in 1 .. Len(queue) :
    /\ Issued(queue[i])
    /\ \A j \in 1 .. Len(queue) : i < j => Before(queue[i], queue[j])

HandOrdered ==
  Handling => /\ Issued(entry)
              /\ \A i \in 1 .. Len(queue) : Before(entry, queue[i])
              /\ \A k \in 1 .. Len(sent) : Before(sent[k], entry)

SentOrdered ==
  \A k \in 1 .. Len(sent) :
    /\ Issued(sent[k])
    /\ \A i \in 1 .. Len(queue) : Before(sent[k], queue[i])
    /\ \A l \in 1 .. Len(sent) : k < l => Before(sent[k], sent[l])

Line == QueueOrdered /\ HandOrdered /\ SentOrdered

LEMMA LineSuffices == TypeOK /\ Line => RollingCodesIncrease
  <1> SUFFICES ASSUME TypeOK, Line PROVE RollingCodesIncrease
    OBVIOUS
  <1>1. \A k \in 1 .. Len(sent) : sent[k].kind = "send"
    BY SentAreCommands DEF Command
  <1> QED BY <1>1 DEF Line, SentOrdered, Before, RollingCodesIncrease

\* A longer queue whose new entry is no command, or the newest of its remote.
LEMMA LineGrows ==
  ASSUME TypeOK, TypeOK', Line, NEW e \in Entry, queue' = Append(queue, e) \/ queue' = queue,
         UNCHANGED <<core1, sent>>,
         \A r \in Remotes : roll[r] <= roll'[r],
         e.kind = "send" => e.code = roll[e.remote] /\ e.code < roll'[e.remote]
  PROVE  Line'
  <1>q. \A i \in 1 .. Len(queue') :
          \/ i \in 1 .. Len(queue) /\ queue'[i] = queue[i]
          \/ i = Len(queue) + 1 /\ queue'[i] = e
    BY Added
  <1>l. Len(queue) \in Nat
    BY DEF TypeOK, QueueType
  <1>n. \A r \in Remotes : roll[r] \in Nat /\ roll'[r] \in Nat
    BY CommandQueueAssumption DEF TypeOK, RemotesType, Codes
  <1>i. ASSUME NEW c \in Entry, c.kind = "send", Issued(c)
        PROVE  /\ Issued(c)'
               /\ e.kind = "send" /\ c.remote = e.remote => c.code < e.code
    <2>1. c.remote \in Remotes /\ c.code \in Nat
      BY <1>i, CommandParts
    <2> QED BY <1>i, <1>n, <2>1 DEF Issued
  <1>f. \A c \in Entry : c.kind = "send" /\ Issued(c)
                         => Issued(c)' /\ (e.kind = "send" /\ c.remote = e.remote => c.code < e.code)
    BY <1>i
  <1>1. QueueOrdered'
    <2>1. ASSUME NEW i \in 1 .. Len(queue') PROVE Issued(queue[i])'
      <3>1. CASE i \in 1 .. Len(queue) /\ queue'[i] = queue[i]
        <4>1. queue[i] \in Entry /\ Issued(queue[i])
          BY <3>1, QueuedAreEntries DEF Line, QueueOrdered
        <4> QED BY <3>1, <4>1, <1>f DEF Issued
      <3>2. CASE queue'[i] = e
        BY <3>2 DEF Issued
      <3> QED BY <3>1, <3>2, <1>q
    <2>2. ASSUME NEW i \in 1 .. Len(queue'), NEW j \in 1 .. Len(queue'), i < j
          PROVE  Before(queue'[i], queue'[j])
      <3>1. i \in 1 .. Len(queue) /\ queue'[i] = queue[i] /\ queue[i] \in Entry
        BY <2>2, <1>q, <1>l, QueuedAreEntries
      <3>2. CASE j \in 1 .. Len(queue) /\ queue'[j] = queue[j]
        BY <2>2, <3>1, <3>2 DEF Line, QueueOrdered
      <3>3. CASE queue'[j] = e
        BY <3>1, <3>3, <1>f DEF Line, QueueOrdered, Before
      <3> QED BY <3>2, <3>3, <1>q
    <2> QED BY <2>1, <2>2 DEF QueueOrdered
  <1>2. HandOrdered'
    <2>1. entry \in Entry /\ entry' = entry /\ Handling' = Handling /\ sent' = sent
      BY DEF TypeOK, Core1Type, Handling, core1
    <2>2. Handling => Issued(entry)' /\ Before(entry, e)
      BY <2>1, <1>f DEF Line, HandOrdered, Handling, Before, Issued
    <2> QED BY <1>q, <2>1, <2>2 DEF Line, HandOrdered
  <1>3. SentOrdered'
    <2>1. ASSUME NEW k \in 1 .. Len(sent) PROVE Issued(sent[k])' /\ Before(sent[k], e)
      <3>1. sent[k] \in Entry /\ sent[k].kind = "send" /\ Issued(sent[k]) /\ sent' = sent
        BY SentAreCommands DEF Entry, Command, Line, SentOrdered
      <3> QED BY <3>1, <1>f DEF Before, Issued
    <2> QED BY <1>q, <2>1 DEF Line, SentOrdered
  <1> QED BY <1>1, <1>2, <1>3 DEF Line

\* The oldest entry moves from the queue to the worker's hand.
LEMMA LineMoves ==
  ASSUME TypeOK, Line, Remove
  PROVE  Line'
  <1>1. /\ 1 \in 1 .. Len(queue) /\ entry' = queue[1]
        /\ \A i \in 1 .. Len(queue') : i + 1 \in 1 .. Len(queue) /\ queue'[i] = queue[i + 1]
    BY Removed
  <1>2. UNCHANGED <<sent, roll>> /\ at' = "standby"
    BY DEF Remove, remotes, history
  <1>3. QueueOrdered'
    BY <1>1, <1>2 DEF Line, QueueOrdered, Issued
  <1>4. HandOrdered'
    BY <1>1, <1>2 DEF Line, QueueOrdered, SentOrdered, HandOrdered, Issued
  <1>5. SentOrdered'
    BY <1>1, <1>2 DEF Line, SentOrdered, Issued
  <1> QED BY <1>3, <1>4, <1>5 DEF Line

\* The command in hand goes on the air.
LEMMA LineSends ==
  ASSUME TypeOK, Line, ExecuteCommand
  PROVE  Line'
  <1>1. \A k \in 1 .. Len(sent') :
          \/ k \in 1 .. Len(sent) /\ sent'[k] = sent[k]
          \/ k = Len(sent) + 1 /\ sent'[k] = entry
    BY Transmitted
  <1>2. /\ Handling /\ at' = "top" /\ UNCHANGED <<queue, entry, roll>>
        /\ Len(sent) \in Nat
    BY DEF ExecuteCommand, Handling, remotes, TypeOK, SentType
  <1>3. QueueOrdered'
    BY <1>2 DEF Line, QueueOrdered, Issued
  <1>4. HandOrdered'
    BY <1>2 DEF HandOrdered, Handling
  <1>5. SentOrdered'
    BY <1>1, <1>2 DEF Line, HandOrdered, SentOrdered, Issued
  <1> QED BY <1>3, <1>4, <1>5 DEF Line

\* A step that touches neither the line nor the counters.
LEMMA LineStays ==
  ASSUME Line, UNCHANGED <<queue, sent, roll, entry>>, Handling' => Handling
  PROVE  Line'
  BY DEF Line, QueueOrdered, HandOrdered, SentOrdered, Issued

-----------------------------------------------------------------------------
(***************************************************************************)
(* While Shutdown waits the stop entry is in the queue or in the worker's  *)
(* hand; when it returns the worker can only end.                          *)
(***************************************************************************)
Stopping == at \in {"standby", "abort", "run", "exited"} /\ entry = Stop

StopFound ==
  /\ main = "drain" => Stopping \/ \E i \in 1 .. Len(queue) : queue[i] = Stop
  /\ ShutDown => Stopping

\* Nothing but a boot takes the worker out of Stopping.
LEMMA StoppingStays ==
  ASSUME Stopping, Worker
  PROVE  Stopping' /\ UNCHANGED sent
  BY DEF Stopping, Stop, Worker, WorkerStarts, EnableReceive, EnableInterrupt, SkipReceive,
         Remove, DisableInterrupt, Standby, ExecuteCommand, ReceiveCommand, WorkerStops, AfterStop, history

LEMMA StopFoundStep == TypeOK /\ StopFound /\ [Next]_vars => StopFound'
  <1> SUFFICES ASSUME TypeOK, StopFound, [Next]_vars PROVE StopFound'
    OBVIOUS
  <1>s. ASSUME NEW e \in Entry, queue' = Append(queue, e) \/ queue' = queue,
               \E i \in 1 .. Len(queue) : queue[i] = Stop
        PROVE  \E i \in 1 .. Len(queue') : queue'[i] = Stop
    BY <1>s, StillThere
  <1>1. ASSUME NEW r \in Remotes, Press(r) PROVE StopFound'
    BY <1>1 DEF Press, Polling, core0, core1, StopFound, ShutDown, Stopping
  <1>2. CASE SaveTimer
    BY <1>2 DEF SaveTimer, Polling, StartSaving, core1, StopFound, ShutDown, Stopping
  <1>3. ASSUME NEW r \in Remotes, SaveOne(r) PROVE StopFound'
    BY <1>3 DEF SaveOne, core1, StopFound, ShutDown, Stopping
  <1>4. CASE SavingDone
    BY <1>4 DEF SavingDone, core1, StopFound, ShutDown, Stopping, TypeOK, Core0Type
  <1>5. CASE LeaveLoop
    BY <1>5 DEF LeaveLoop, core1, StopFound, ShutDown, Stopping
  <1>6. CASE QueueStop
    <2>1. Len(queue) + 1 \in 1 .. Len(queue') /\ queue'[Len(queue) + 1] = Stop
      BY <1>6, AppendProperties DEF QueueStop, TypeOK, QueueType, Entry
    <2> QED BY <1>6, <2>1 DEF QueueStop, StopFound, ShutDown
  <1>7. CASE ShutdownReturns
    BY <1>7 DEF ShutdownReturns, StartSaving, Drained, core1, StopFound, ShutDown, Stopping
  <1>8. CASE Reboot \/ PowerCut
    BY <1>8 DEF Reboot, PowerCut, Boot, StopFound, ShutDown
  <1>9. CASE Worker
    <2>0. UNCHANGED core0
      BY <1>9 DEF Worker, WorkerStarts, EnableReceive, EnableInterrupt, SkipReceive, Remove,
                  DisableInterrupt, Standby, ExecuteCommand, ReceiveCommand, WorkerStops
    <2>1. CASE Stopping
      BY <1>9, <2>0, <2>1, StoppingStays DEF StopFound, ShutDown, core0
    <2>2. CASE ~ Stopping /\ Remove
      <3>1. /\ entry' = queue[1] /\ at' = "standby"
            /\ \A i \in 1 .. Len(queue) :
                 i = 1 \/ (i - 1 \in 1 .. Len(queue') /\ queue'[i - 1] = queue[i])
        BY <2>2, Removed DEF Remove
      <3> QED BY <2>0, <2>2, <3>1 DEF StopFound, ShutDown, Stopping, core0
    <2>3. CASE ~ Stopping /\ ~ Remove
      <3>1. UNCHANGED queue
        BY <1>9, <2>3 DEF Worker, WorkerStarts, EnableReceive, EnableInterrupt, SkipReceive,
                          DisableInterrupt, Standby, ExecuteCommand, ReceiveCommand, WorkerStops
      <3> QED BY <2>0, <2>3, <3>1 DEF StopFound, ShutDown, core0
    <2> QED BY <2>1, <2>2, <2>3
  <1>10. CASE PacketHeard
    <2>1. queue' = Append(queue, Receive) \/ queue' = queue
      BY <1>10 DEF PacketHeard, TryAdd
    <2>2. Receive \in Entry /\ UNCHANGED <<core0, core1>>
      BY <1>10 DEF PacketHeard, Entry
    <2> QED BY <2>1, <2>2, <1>s DEF StopFound, ShutDown, Stopping, core0, core1
  <1>11. CASE UNCHANGED vars
    BY <1>11 DEF vars, core0, core1, StopFound, ShutDown, Stopping
  <1> QED BY <1>1, <1>2, <1>3, <1>4, <1>5, <1>6, <1>7, <1>8, <1>9, <1>10, <1>11
          DEF Next, Core0Proceeds

-----------------------------------------------------------------------------
(***************************************************************************)
(* Before the reboot the codes of everything that was sent are in flash.   *)
(* This is where the parts meet: what was sent is below the counters       *)
(* (Line), the counters are saved (Counters), and the worker sends nothing *)
(* in between (StopFound).                                                 *)
(***************************************************************************)
Durable(r) == \A k \in 1 .. Len(sent) : sent[k].remote = r => sent[k].code < saved[r]

AllDurable ==
  /\ main = "restart" => \A r \in Remotes : Durable(r)
  /\ ShutDown => \A r \in Remotes \ todo : Durable(r) \/ main = "restart"

LEMMA AllDurableStep ==
  TypeOK /\ Counters /\ Line /\ StopFound /\ AllDurable /\ [Next]_vars => AllDurable'
  <1> SUFFICES ASSUME TypeOK, Counters, Line, StopFound, AllDurable, [Next]_vars PROVE AllDurable'
    OBVIOUS
  <1>1. ASSUME NEW r \in Remotes, Press(r) PROVE AllDurable'
    BY <1>1 DEF Press, Polling, core0, AllDurable, ShutDown, Durable
  <1>2. CASE SaveTimer
    BY <1>2 DEF SaveTimer, StartSaving, AllDurable, ShutDown
  <1>3. ASSUME NEW r \in Remotes, SaveOne(r) PROVE AllDurable'
    <2>1. /\ UNCHANGED sent /\ main' = "saving" /\ after' = after /\ main = "saving"
          /\ todo' = todo \ {r}
          /\ saved' = IF dirty[r] THEN [saved EXCEPT ![r] = roll[r]] ELSE saved
      BY <1>3 DEF SaveOne, CodeToSave
    <2>2. saved'[r] = roll[r]
      BY <2>1 DEF Counters, TypeOK, RemotesType
    <2>3. \A k \in 1 .. Len(sent) : sent[k].remote = r => sent[k].code < roll[r]
      BY SentAreCommands DEF Command, Line, SentOrdered, Issued
    <2>4. Durable(r)'
      BY <2>1, <2>2, <2>3 DEF Durable
    <2>5. ASSUME NEW q \in Remotes, q # r, Durable(q) PROVE Durable(q)'
      BY <2>1, <2>5 DEF Durable, TypeOK, RemotesType
    <2> QED BY <2>1, <2>4, <2>5 DEF AllDurable, ShutDown
  <1>4. CASE SavingDone
    BY <1>4 DEF SavingDone, remotes, history, AllDurable, ShutDown, Durable
  <1>5. CASE LeaveLoop \/ QueueStop \/ Reboot \/ PowerCut
    BY <1>5 DEF LeaveLoop, QueueStop, Reboot, PowerCut, Boot, AllDurable, ShutDown
  <1>6. CASE ShutdownReturns
    BY <1>6 DEF ShutdownReturns, StartSaving, AllDurable, ShutDown
  <1>7. CASE Worker
    <2>1. UNCHANGED <<core0, saved>>
      BY <1>7 DEF Worker, WorkerStarts, EnableReceive, EnableInterrupt, SkipReceive, Remove,
                  DisableInterrupt, Standby, ExecuteCommand, ReceiveCommand, WorkerStops, remotes
    <2>2. ShutDown => UNCHANGED sent
      BY <1>7, StoppingStays DEF StopFound
    <2> QED BY <2>1, <2>2 DEF AllDurable, ShutDown, Durable, core0
  <1>8. CASE PacketHeard \/ UNCHANGED vars
    BY <1>8 DEF PacketHeard, vars, remotes, core0, history, AllDurable, ShutDown, Durable
  <1> QED BY <1>1, <1>2, <1>3, <1>4, <1>5, <1>6, <1>7, <1>8 DEF Next, Core0Proceeds

LEMMA LineStep ==
  TypeOK /\ TypeOK' /\ Counters /\ Line /\ AllDurable /\ [Next]_vars => Line'
  <1> SUFFICES ASSUME TypeOK, TypeOK', Counters, Line, AllDurable, [Next]_vars PROVE Line'
    OBVIOUS
  <1>1. ASSUME NEW r \in Remotes, Press(r) PROVE Line'
    <2> DEFINE c == [kind |-> "send", remote |-> r, code |-> roll[r]]
    <2>1. c \in Entry
      BY DEF Command, Entry, TypeOK, RemotesType
    <2>2. roll' = [roll EXCEPT ![r] = roll[r] + 1] /\ roll[r] \in Nat
      BY <1>1, PressCounts
    <2>3. queue' = Append(queue, c) \/ queue' = queue
      BY <1>1 DEF Press, TryAdd
    <2>4. \A q \in Remotes : roll[q] \in Nat /\ roll[q] <= roll'[q]
      BY <2>2, CommandQueueAssumption DEF TypeOK, RemotesType, Codes
    <2>5. UNCHANGED <<core1, sent>> /\ c.code < roll'[c.remote]
      BY <1>1, <2>2 DEF Press, TypeOK, RemotesType
    <2> HIDE DEF c
    <2>6. c.code = roll[c.remote]
      BY DEF c
    <2> QED BY <2>1, <2>3, <2>4, <2>5, <2>6, LineGrows
  <1>2. CASE QueueStop \/ PacketHeard
    <2>1. PICK e \in {Stop, Receive} : queue' = Append(queue, e) \/ queue' = queue
      BY <1>2 DEF QueueStop, PacketHeard, TryAdd
    <2>2. e \in Entry /\ e.kind # "send"
      BY DEF Entry, Stop, Receive
    <2>3. UNCHANGED <<core1, sent>> /\ UNCHANGED roll
      BY <1>2 DEF QueueStop, PacketHeard, remotes, history
    <2>4. \A q \in Remotes : roll[q] <= roll'[q]
      BY <2>3, CommandQueueAssumption DEF TypeOK, RemotesType, Codes
    <2> QED BY <2>1, <2>2, <2>3, <2>4, LineGrows
  <1>3. CASE Remove
    BY <1>3, LineMoves
  <1>4. CASE ExecuteCommand
    BY <1>4, LineSends
  <1>5. CASE Reboot
    <2>1. /\ queue' = <<>> /\ at' = "init" /\ roll' = saved /\ sent' = sent
          /\ \A r \in Remotes : Durable(r)
      BY <1>5 DEF Reboot, Boot, AllDurable
    <2>2. QueueOrdered' /\ HandOrdered'
      BY <2>1 DEF QueueOrdered, HandOrdered, Handling
    <2>3. SentOrdered'
      BY <2>1, SentAreCommands DEF Line, SentOrdered, Durable, Issued, Command
    <2> QED BY <2>2, <2>3 DEF Line
  <1>6. CASE PowerCut
    BY <1>6 DEF PowerCut, Boot, Line, QueueOrdered, HandOrdered, SentOrdered, Handling
  <1>7. CASE WorkerStarts \/ EnableReceive \/ EnableInterrupt \/ SkipReceive \/ DisableInterrupt \/ Standby
             \/ ReceiveCommand \/ WorkerStops
    <2>1. UNCHANGED <<queue, sent, roll, entry>> /\ (Handling' => Handling)
      BY <1>7 DEF WorkerStarts, EnableReceive, EnableInterrupt, SkipReceive, DisableInterrupt, Standby,
                  ReceiveCommand, WorkerStops, AfterStop, Handling, remotes, history
    <2> QED BY <2>1, LineStays
  <1>8. CASE SaveTimer \/ SavingDone \/ LeaveLoop \/ ShutdownReturns
             \/ (\E r \in Remotes : SaveOne(r)) \/ UNCHANGED vars
    <2>1. UNCHANGED <<queue, sent, roll, core1>>
      BY <1>8 DEF SaveTimer, SavingDone, LeaveLoop, ShutdownReturns, SaveOne, vars, remotes, history
    <2> QED BY <2>1, LineStays DEF core1, Handling
  <1> QED BY <1>1, <1>2, <1>3, <1>4, <1>5, <1>6, <1>7, <1>8 DEF Next, Worker, Core0Proceeds

-----------------------------------------------------------------------------
\* What holds initially.
LEMMA CodesInit == Init => Counters /\ Line /\ StopFound /\ AllDurable
  <1> SUFFICES ASSUME Init PROVE Counters /\ Line /\ StopFound /\ AllDurable
    OBVIOUS
  <1>1. Counters
    BY DEF Init, Counters, FirstCode
  <1>2. Line
    BY DEF Init, Line, QueueOrdered, HandOrdered, SentOrdered, Handling
  <1>3. StopFound /\ AllDurable
    BY DEF Init, StopFound, AllDurable, ShutDown
  <1> QED BY <1>1, <1>2, <1>3

CodesInv == Counters /\ Line /\ StopFound /\ AllDurable

LEMMA CodesInvCorrect == Spec => [](TypeOK /\ CodesInv)
  BY TypeInit, TypeStep, CodesInit, CountersStep, LineStep, StopFoundStep, AllDurableStep, PTL
  DEF Spec, CodesInv

\* Since the last power cut no remote's rolling code has been sent twice or
\* gone back, whatever was pressed and however often the device restarted:
\* Shutdown, the save that follows it and the worker's end see to it.
THEOREM CodesIncrease == Spec => []RollingCodesIncrease
  BY CodesInvCorrect, LineSuffices, PTL DEF CodesInv

-----------------------------------------------------------------------------
(***************************************************************************)
(* A code that had been sent when its remote was saved lies behind flash,  *)
(* and behind every command of the remote that is still to be sent.        *)
(***************************************************************************)
SpentBehind ==
  \A r \in Remotes : \A c \in spent[r] :
    /\ c < saved[r]
    /\ \A i \in 1 .. Len(queue) :
         queue[i].kind = "send" /\ queue[i].remote = r => c < queue[i].code
    /\ Handling /\ entry.remote = r => c < entry.code

LEMMA SpentStep ==
  TypeOK /\ CodesInv /\ SpentBehind /\ [Next]_vars => SpentBehind'
  <1> SUFFICES ASSUME TypeOK, CodesInv, SpentBehind, [Next]_vars PROVE SpentBehind'
    OBVIOUS
  <1> USE DEF CodesInv
  <1>n. \A q \in Remotes : /\ roll[q] \in Nat /\ saved[q] \in Nat
                           /\ \A c \in spent[q] : c \in Nat
    BY CommandQueueAssumption DEF TypeOK, RemotesType, SentType, Codes
  <1>1. ASSUME NEW r \in Remotes, Press(r) PROVE SpentBehind'
    <2> DEFINE e == [kind |-> "send", remote |-> r, code |-> roll[r]]
    <2>1. e \in Entry
      BY DEF Command, Entry, TypeOK, RemotesType
    <2>2. \A i \in 1 .. Len(queue') : \/ i \in 1 .. Len(queue) /\ queue'[i] = queue[i]
                                      \/ i = Len(queue) + 1 /\ queue'[i] = e
      BY <1>1, <2>1, Added DEF Press, TryAdd
    <2>3. \A c \in spent[r] : c < roll[r]
      BY <1>n DEF SpentBehind, Counters
    <2>4. UNCHANGED <<core1, saved, spent>>
      BY <1>1 DEF Press
    <2> QED BY <2>2, <2>3, <2>4 DEF SpentBehind, Handling, core1
  <1>2. CASE QueueStop \/ PacketHeard
    <2>1. PICK e \in {Stop, Receive} : queue' = Append(queue, e) \/ queue' = queue
      BY <1>2 DEF QueueStop, PacketHeard, TryAdd
    <2>2. e \in Entry /\ e.kind # "send"
      BY DEF Entry, Stop, Receive
    <2>3. UNCHANGED <<core1, saved, spent>>
      BY <1>2 DEF QueueStop, PacketHeard, remotes, history
    <2>4. \A i \in 1 .. Len(queue') : \/ i \in 1 .. Len(queue) /\ queue'[i] = queue[i]
                                      \/ i = Len(queue) + 1 /\ queue'[i] = e
      BY <2>1, <2>2, Added
    <2> QED BY <2>2, <2>3, <2>4 DEF SpentBehind, Handling, core1
  <1>3. CASE Remove
    <2>1. /\ 1 \in 1 .. Len(queue) /\ entry' = queue[1]
          /\ \A i \in 1 .. Len(queue') : i + 1 \in 1 .. Len(queue) /\ queue'[i] = queue[i + 1]
      BY <1>3, Removed
    <2>2. UNCHANGED <<saved, spent>>
      BY <1>3 DEF Remove, remotes, history
    <2> QED BY <2>1, <2>2 DEF SpentBehind, Handling
  <1>4. ASSUME NEW r \in Remotes, SaveOne(r) PROVE SpentBehind'
    <2>1. /\ UNCHANGED <<queue, core1, sent, roll>>
          /\ spent' = [spent EXCEPT ![r] = @ \cup SentCodes(r)]
          /\ saved' = IF dirty[r] THEN [saved EXCEPT ![r] = roll[r]] ELSE saved
      BY <1>4 DEF SaveOne, CodeToSave
    <2>2. saved'[r] = roll[r] /\ saved[r] <= roll[r]
      BY <2>1 DEF Counters, TypeOK, RemotesType
    <2>3. ASSUME NEW c \in SentCodes(r)
          PROVE  /\ c < roll[r]
                 /\ \A i \in 1 .. Len(queue) :
                      queue[i].kind = "send" /\ queue[i].remote = r => c < queue[i].code
                 /\ Handling /\ entry.remote = r => c < entry.code
      <3>1. PICK k \in 1 .. Len(sent) : sent[k].remote = r /\ sent[k].code = c
        BY DEF SentCodes
      <3>2. sent[k].kind = "send"
        BY SentAreCommands DEF Command
      <3> QED BY <3>1, <3>2 DEF Line, SentOrdered, HandOrdered, Issued, Before, Handling
    <2>4. ASSUME NEW c \in spent[r] PROVE c < roll[r]
      BY <2>2, <1>n DEF SpentBehind
    <2>5. spent'[r] = spent[r] \cup SentCodes(r)
      BY <2>1 DEF TypeOK, SentType
    <2>6. \A c \in spent'[r] :
            /\ c < saved'[r]
            /\ \A i \in 1 .. Len(queue') :
                 queue'[i].kind = "send" /\ queue'[i].remote = r => c < queue'[i].code
            /\ Handling' /\ entry'.remote = r => c < entry'.code
      BY <2>1, <2>2, <2>3, <2>4, <2>5 DEF SpentBehind, Handling, core1
    <2>7. \A q \in Remotes \ {r} : saved'[q] = saved[q] /\ spent'[q] = spent[q]
      BY <2>1 DEF TypeOK, RemotesType, SentType
    <2> QED BY <2>1, <2>6, <2>7 DEF SpentBehind, Handling, core1
  <1>5. CASE Reboot \/ PowerCut
    BY <1>5 DEF Reboot, PowerCut, Boot, SpentBehind, Handling
  <1>6. CASE WorkerStarts \/ EnableReceive \/ EnableInterrupt \/ SkipReceive \/ DisableInterrupt \/ Standby
             \/ ReceiveCommand \/ WorkerStops \/ ExecuteCommand
    <2>1. UNCHANGED <<queue, saved, spent, entry>> /\ (Handling' => Handling)
      BY <1>6 DEF WorkerStarts, EnableReceive, EnableInterrupt, SkipReceive, DisableInterrupt, Standby,
                  ReceiveCommand, WorkerStops, AfterStop, ExecuteCommand, Handling, remotes, history
    <2> QED BY <2>1 DEF SpentBehind
  <1>7. CASE SaveTimer \/ SavingDone \/ LeaveLoop \/ ShutdownReturns \/ UNCHANGED vars
    <2>1. UNCHANGED <<queue, saved, spent, core1>>
      BY <1>7 DEF SaveTimer, SavingDone, LeaveLoop, ShutdownReturns, vars, remotes, history
    <2> QED BY <2>1 DEF SpentBehind, core1, Handling
  <1> QED BY <1>1, <1>2, <1>3, <1>4, <1>5, <1>6, <1>7 DEF Next, Worker, Core0Proceeds

\* What a power cut may cost: a code that was on the air before its remote's
\* last save is never sent again, whatever is cut and when.
THEOREM SpentCodesStaySpent == Spec => NoSpentCodeAgain
  <1>1. Init => SpentBehind
    BY DEF Init, SpentBehind
  <1>2. TypeOK /\ SpentBehind /\ [Next]_vars =>
          [Len(sent') = Len(sent) + 1 =>
             LET c == sent'[Len(sent')] IN c.code \notin spent[c.remote]]_vars
    <2> SUFFICES ASSUME TypeOK, SpentBehind, Next, Len(sent') = Len(sent) + 1
                 PROVE  sent'[Len(sent')].code \notin spent[sent'[Len(sent')].remote]
      OBVIOUS
    <2>0. Len(sent) \in Nat
      BY DEF TypeOK, SentType
    <2>1. ExecuteCommand
      <3>1. sent' # sent
        BY <2>0
      <3>2. ~ PowerCut
        BY <2>0 DEF PowerCut
      <3>3. ~ \E r \in Remotes : Press(r) \/ SaveOne(r)
        BY <3>1 DEF Press, SaveOne
      <3>4. ~ (SaveTimer \/ LeaveLoop \/ SavingDone \/ QueueStop \/ ShutdownReturns \/ Reboot)
        BY <3>1 DEF SaveTimer, LeaveLoop, SavingDone, QueueStop, ShutdownReturns, Reboot, history
      <3>5. ~ (WorkerStarts \/ EnableReceive \/ EnableInterrupt \/ SkipReceive \/ Remove
               \/ DisableInterrupt \/ Standby \/ ReceiveCommand \/ WorkerStops \/ PacketHeard)
        BY <3>1 DEF WorkerStarts, EnableReceive, EnableInterrupt, SkipReceive, Remove, DisableInterrupt, Standby,
                    ReceiveCommand, WorkerStops, PacketHeard, history
      <3> QED BY <3>2, <3>3, <3>4, <3>5 DEF Next, Worker, Core0Proceeds
    <2>2. sent'[Len(sent')] = entry
      BY <2>0, <2>1, AppendProperties DEF ExecuteCommand, TypeOK, SentType, Core1Type, Entry, Stop, Receive
    <2>3. Handling /\ entry \in Entry
      BY <2>1 DEF ExecuteCommand, Handling, TypeOK, Core1Type
    <2>4. entry.remote \in Remotes /\ entry.code \in Nat
      BY <2>3, CommandParts DEF Handling
    <2> QED BY <2>2, <2>3, <2>4 DEF SpentBehind
  <1> QED BY <1>1, <1>2, CodesInvCorrect, SpentStep, PTL DEF Spec, NoSpentCodeAgain

-----------------------------------------------------------------------------
(***************************************************************************)
(* What was accepted since boot is what was sent since, then the command   *)
(* in hand, then the commands that wait, in the order of the queue.  This  *)
(* is CommandsInOrder, with a function from the accepted commands to their *)
(* places in the queue where that collects them one by one.                *)
(***************************************************************************)
Done  == Len(sent) - base
Taken == Done + (IF Handling THEN 1 ELSE 0)

\* The accepted commands from the first on wait at these places of the queue.
Waits(place, first) ==
  /\ place \in [first .. Len(accepted) -> 1 .. Len(queue)]
  /\ \A i, j \in first .. Len(accepted) : i < j => place[i] < place[j]
  /\ \A i \in first .. Len(accepted) : queue[place[i]] = accepted[i]
  /\ \A k \in 1 .. Len(queue) :
       queue[k].kind = "send" => \E i \in first .. Len(accepted) : place[i] = k

InQueue(first) ==
  \E place \in [first .. Len(accepted) -> 1 .. Len(queue)] : Waits(place, first)

InLine ==
  /\ Taken <= Len(accepted)
  /\ \A i \in 1 .. Done : accepted[i] = sent[base + i]
  /\ Handling => accepted[Done + 1] = entry
  /\ ~ ShutDown => \A first \in Nat : first = Taken + 1 => InQueue(first)
  /\ ShutDown => Taken = Len(accepted)

LEMMA Counts ==
  ASSUME TypeOK
  PROVE  /\ Len(sent) \in Nat /\ base \in Nat /\ Done \in Nat /\ Taken \in Nat
         /\ Len(queue) \in Nat /\ Len(accepted) \in Nat
         /\ Taken = (IF Handling THEN Done + 1 ELSE Done)
  BY DEF TypeOK, SentType, QueueType, Done, Taken

\* An entry that is no command, or none at all, comes to the queue.
LEMMA WaitsOn ==
  ASSUME TypeOK, NEW first, NEW place, Waits(place, first), UNCHANGED accepted,
         NEW e \in Entry, e.kind # "send", queue' = Append(queue, e) \/ queue' = queue
  PROVE  Waits(place, first)'
  <1>1. /\ \A i \in 1 .. Len(queue) : i \in 1 .. Len(queue') /\ queue'[i] = queue[i]
        /\ \A i \in 1 .. Len(queue') :
             \/ i \in 1 .. Len(queue) /\ queue'[i] = queue[i]
             \/ i = Len(queue) + 1 /\ queue'[i] = e
    BY StillThere, Added
  <1>2. place \in [first .. Len(accepted) -> 1 .. Len(queue')]
    BY <1>1 DEF Waits
  <1>3. \A i \in first .. Len(accepted) : queue'[place[i]] = accepted[i]
    BY <1>1 DEF Waits
  <1>4. ASSUME NEW k \in 1 .. Len(queue'), queue'[k].kind = "send"
        PROVE  \E i \in first .. Len(accepted) : place[i] = k
    BY <1>1, <1>4 DEF Waits
  <1> QED BY <1>2, <1>3, <1>4 DEF Waits

\* A command comes to the queue.
LEMMA WaitsLonger ==
  ASSUME TypeOK, NEW first \in Nat \ {0}, first <= Len(accepted) + 1,
         NEW place, Waits(place, first), NEW e \in Entry,
         queue' = Append(queue, e), accepted' = Append(accepted, e), e.kind = "send"
  PROVE  InQueue(first)'
  <1> DEFINE n == Len(accepted)
             m == Len(queue)
  <1>l. PICK longer : longer = [i \in first .. n + 1 |-> IF i = n + 1 THEN m + 1 ELSE place[i]]
    OBVIOUS
  <1>1. n \in Nat /\ m \in Nat
    BY Counts
  <1>2. /\ Len(queue') = m + 1 /\ queue'[m + 1] = e
        /\ \A i \in 1 .. m : queue'[i] = queue[i]
        /\ Len(accepted') = n + 1 /\ accepted'[n + 1] = e
        /\ \A i \in 1 .. n : accepted'[i] = accepted[i]
    <2>1. e \in Command
      BY CommandParts
    <2> QED BY <2>1, AppendProperties DEF TypeOK, QueueType, SentType
  <1>3. /\ \A i \in first .. n : place[i] \in 1 .. m /\ queue[place[i]] = accepted[i]
        /\ \A i, j \in first .. n : i < j => place[i] < place[j]
        /\ \A k \in 1 .. m : queue[k].kind = "send" => \E i \in first .. n : place[i] = k
    BY DEF Waits
  <1> HIDE DEF n, m
  <1>4. \A i \in first .. n + 1 : i = n + 1 \/ (i \in first .. n /\ i # n + 1)
    BY <1>1
  <1>a. \A i \in first .. n : i \in first .. n + 1 /\ i # n + 1
    BY <1>1
  <1>5. longer \in [first .. n + 1 -> 1 .. m + 1]
    <2>1. \A i \in first .. n + 1 : longer[i] \in 1 .. m + 1
      BY <1>1, <1>3, <1>4, <1>l
    <2> QED BY <2>1, <1>l
  <1>b. /\ longer[n + 1] = m + 1
        /\ \A i \in first .. n : longer[i] = place[i]
    <2>1. n + 1 \in first .. n + 1
      BY <1>1 DEF n
    <2> QED BY <2>1, <1>a, <1>l
  <1>6. \A i, j \in first .. n + 1 : i < j => longer[i] < longer[j]
    <2> SUFFICES ASSUME NEW i \in first .. n + 1, NEW j \in first .. n + 1, i < j
                 PROVE  longer[i] < longer[j]
      OBVIOUS
    <2>1. i \in first .. n
      BY <1>1
    <2>2. CASE j = n + 1
      BY <1>1, <1>3, <1>b, <2>1, <2>2
    <2>3. CASE j \in first .. n
      BY <1>3, <1>b, <2>1, <2>3
    <2> QED BY <1>4, <2>2, <2>3
  <1>7. ASSUME NEW i \in first .. n + 1 PROVE queue'[longer[i]] = accepted'[i]
    <2>1. CASE i = n + 1
      BY <1>2, <1>b, <2>1
    <2>2. CASE i \in first .. n
      <3>1. i \in 1 .. n
        BY <1>1, <2>2
      <3>3. place[i] \in 1 .. m /\ queue'[place[i]] = accepted[i]
        BY <1>2, <1>3, <2>2
      <3> QED BY <1>2, <1>b, <2>2, <3>1, <3>3
    <2> QED BY <1>4, <2>1, <2>2
  <1>8. ASSUME NEW k \in 1 .. m + 1, queue'[k].kind = "send"
        PROVE  \E i \in first .. n + 1 : longer[i] = k
    <2>1. CASE k = m + 1
      <3>1. n + 1 \in first .. n + 1
        BY <1>1 DEF n
      <3> QED BY <1>b, <2>1, <3>1
    <2>2. CASE k \in 1 .. m
      <3>1. queue[k].kind = "send"
        BY <1>2, <1>8, <2>2
      <3>2. PICK i \in first .. n : place[i] = k
        BY <1>3, <2>2, <3>1
      <3> QED BY <1>a, <1>b, <3>2
    <2>3. k = m + 1 \/ k \in 1 .. m
      BY <1>1
    <2> QED BY <2>1, <2>2, <2>3
  <1>9. Waits(longer, first)'
    BY <1>2, <1>5, <1>6, <1>7, <1>8 DEF Waits
  <1> QED BY <1>2, <1>5, <1>9 DEF InQueue

\* The worker takes the head: the first command that waits, or no command.
LEMMA WaitsShorter ==
  ASSUME TypeOK, Remove, UNCHANGED accepted,
         NEW first \in Nat \ {0}, NEW place, Waits(place, first),
         NEW next, next = IF queue[1].kind = "send" THEN first + 1 ELSE first
  PROVE  /\ queue[1].kind = "send" => first <= Len(accepted) /\ accepted[first] = queue[1]
         /\ InQueue(next)'
  <1> DEFINE n == Len(accepted)
  <1>1. /\ 1 \in 1 .. Len(queue)
        /\ \A i \in 1 .. Len(queue') : i + 1 \in 1 .. Len(queue) /\ queue'[i] = queue[i + 1]
        /\ \A i \in 1 .. Len(queue) : i = 1 \/ (i - 1 \in 1 .. Len(queue') /\ queue'[i - 1] = queue[i])
    BY Removed
  <1>2. n \in Nat /\ Len(queue) \in Nat
    BY Counts
  <1>3. /\ \A i \in first .. n : place[i] \in 1 .. Len(queue) /\ queue[place[i]] = accepted[i]
        /\ \A i, j \in first .. n : i < j => place[i] < place[j]
        /\ \A k \in 1 .. Len(queue) : queue[k].kind = "send" => \E i \in first .. n : place[i] = k
    BY DEF Waits
  <1>4. \A i \in first .. n : accepted[i].kind = "send"
    <2>1. \A i \in 1 .. n : accepted[i] \in Command
      BY ElementOfSeq DEF TypeOK, SentType
    <2>2. \A i \in first .. n : i \in 1 .. n
      BY <1>2
    <2> QED BY <2>1, <2>2 DEF Command
  <1> HIDE DEF n
  <1>5. ASSUME queue[1].kind = "send"
        PROVE  first \in first .. n /\ place[first] = 1
    <2>1. PICK i \in first .. n : place[i] = 1
      BY <1>1, <1>3, <1>5
    <2>2. first \in first .. n
      BY <1>2, <2>1
    <2>3. i # first => place[first] < 1
      <3>1. i # first => first < i
        BY <1>2, <2>1
      <3> QED BY <1>3, <2>1, <2>2, <3>1
    <2>4. place[first] \in 1 .. Len(queue)
      BY <1>3, <2>2
    <2> QED BY <1>2, <2>1, <2>2, <2>3, <2>4
  <1>6. next = IF queue[1].kind = "send" THEN first + 1 ELSE first
    OBVIOUS
  <1>7. \A i \in next .. n : i \in first .. n /\ place[i] # 1
    <2>1. CASE queue[1].kind = "send"
      <3>1. next = first + 1
        BY <1>6, <2>1
      <3>2. \A i \in next .. n : i \in first .. n /\ first < i
        BY <1>2, <3>1
      <3>3. \A i \in next .. n : place[first] < place[i] /\ place[first] = 1
        BY <1>3, <1>5, <2>1, <3>2
      <3>4. \A i \in next .. n : place[i] \in 1 .. Len(queue)
        BY <1>3, <3>2
      <3> QED BY <3>2, <3>3, <3>4
    <2>2. CASE queue[1].kind # "send"
      <3>1. next = first
        BY <1>6, <2>2
      <3>2. \A i \in first .. n : place[i] # 1
        BY <1>3, <1>4, <2>2
      <3> QED BY <3>1, <3>2
    <2> QED BY <2>1, <2>2
  <1>8. PICK shorter : shorter = [i \in next .. n |-> place[i] - 1]
    OBVIOUS
  <1>9. \A i \in next .. n : /\ place[i] \in 1 .. Len(queue)
                             /\ shorter[i] = place[i] - 1 /\ shorter[i] \in 1 .. Len(queue')
                             /\ queue'[shorter[i]] = accepted[i]
    <2> SUFFICES ASSUME NEW i \in next .. n
                 PROVE  /\ place[i] \in 1 .. Len(queue)
                        /\ shorter[i] = place[i] - 1 /\ shorter[i] \in 1 .. Len(queue')
                        /\ queue'[shorter[i]] = accepted[i]
      OBVIOUS
    <2>1. place[i] \in 1 .. Len(queue) /\ place[i] # 1 /\ queue[place[i]] = accepted[i]
      BY <1>3, <1>7
    <2>2. place[i] - 1 \in 1 .. Len(queue') /\ queue'[place[i] - 1] = queue[place[i]]
      BY <1>1, <2>1
    <2>3. shorter[i] = place[i] - 1
      BY <1>8
    <2> QED BY <2>1, <2>2, <2>3
  <1>10. shorter \in [next .. n -> 1 .. Len(queue')]
    BY <1>8, <1>9
  <1>11. \A i, j \in next .. n : i < j => shorter[i] < shorter[j]
    <2> SUFFICES ASSUME NEW i \in next .. n, NEW j \in next .. n, i < j
                 PROVE  shorter[i] < shorter[j]
      OBVIOUS
    <2>1. place[i] < place[j]
      BY <1>3, <1>7
    <2> QED BY <1>9, <2>1
  <1>12. ASSUME NEW k \in 1 .. Len(queue'), queue'[k].kind = "send"
         PROVE  \E i \in next .. n : shorter[i] = k
    <2>1. k + 1 \in 1 .. Len(queue) /\ queue[k + 1].kind = "send"
      BY <1>1, <1>12
    <2>2. PICK i \in first .. n : place[i] = k + 1
      BY <1>3, <2>1
    <2>3. i \in next .. n
      <3>1. CASE queue[1].kind = "send"
        <4>1. next = first + 1 /\ place[first] = 1
          BY <1>5, <1>6, <3>1
        <4>2. i # first
          BY <2>2, <4>1
        <4> QED BY <1>2, <2>2, <4>1, <4>2
      <3>2. CASE queue[1].kind # "send"
        BY <1>6, <2>2, <3>2
      <3> QED BY <3>1, <3>2
    <2>4. shorter[i] = place[i] - 1
      BY <1>9, <2>3, Zenon
    <2>5. place[i] - 1 = k
      BY <2>2
    <2> QED BY <2>3, <2>4, <2>5, Zenon
  <1>13. Waits(shorter, next)'
    <2>1. Len(accepted') = n /\ accepted' = accepted
      BY DEF n
    <2> QED BY <1>9, <1>10, <1>11, <1>12, <2>1 DEF Waits
  <1>14. queue[1].kind = "send" => first <= n /\ accepted[first] = queue[1]
    BY <1>2, <1>3, <1>5
  <1>15. InQueue(next)'
    BY <1>10, <1>13 DEF InQueue, n
  <1> QED BY <1>14, <1>15 DEF n

\* Steps after which the same commands wait.
LEMMA InLineStays ==
  ASSUME TypeOK, InLine, UNCHANGED <<sent, base, accepted>>, Handling' = Handling,
         Handling => entry' = entry, ShutDown' = ShutDown,
         NEW e \in Entry, e.kind # "send", queue' = Append(queue, e) \/ queue' = queue
  PROVE  InLine'
  <1>1. Done' = Done /\ Taken' = Taken
    BY DEF Done, Taken
  <1>2. ASSUME ~ ShutDown, NEW first \in Nat, first = Taken + 1
        PROVE  InQueue(first)'
    <2>1. PICK place \in [first .. Len(accepted) -> 1 .. Len(queue)] : Waits(place, first)
      BY <1>2 DEF InLine, InQueue
    <2>2. Waits(place, first)'
      BY <2>1, WaitsOn
    <2> QED BY <2>2 DEF InQueue, Waits
  <1>3. \A i \in 1 .. Done' : i \in 1 .. Done
    BY <1>1
  <1> QED BY <1>1, <1>2, <1>3 DEF InLine

LEMMA InLineInit == Init => InLine
  <1> SUFFICES ASSUME Init PROVE InLine
    OBVIOUS
  <1>1. /\ Len(accepted) = 0 /\ Len(queue) = 0 /\ Len(sent) = 0 /\ base = 0
        /\ ~ Handling /\ ~ ShutDown
    BY DEF Init, Handling, ShutDown
  <1>2. Done = 0 /\ Taken = 0
    BY <1>1 DEF Done, Taken
  <1>3. ASSUME NEW first \in Nat, first = Taken + 1 PROVE InQueue(first)
    <2>1. PICK place : place = [i \in 1 .. 0 |-> i]
      OBVIOUS
    <2>2. place \in [1 .. 0 -> 1 .. 0] /\ Waits(place, first) /\ first = 1
      BY <1>1, <1>2, <1>3, <2>1 DEF Waits
    <2> QED BY <1>1, <2>2 DEF InQueue
  <1> QED BY <1>1, <1>2, <1>3 DEF InLine

LEMMA InLineStep ==
  TypeOK /\ TypeOK' /\ CodesInv /\ InLine /\ [Next]_vars => InLine'
  <1> SUFFICES ASSUME TypeOK, TypeOK', StopFound, InLine, [Next]_vars PROVE InLine'
    BY DEF CodesInv
  <1>c. /\ Len(sent) \in Nat /\ base \in Nat /\ Done \in Nat /\ Taken \in Nat
        /\ Len(queue) \in Nat /\ Len(accepted) \in Nat
        /\ Taken = (IF Handling THEN Done + 1 ELSE Done)
    BY Counts
  <1>e. Stop \in Entry /\ Stop.kind # "send" /\ Receive \in Entry /\ Receive.kind # "send"
    BY DEF Entry, Stop, Receive
  <1>1. ASSUME NEW r \in Remotes, Press(r), main = "loop", HasRoom PROVE InLine'
    <2>1. PICK c \in Command : /\ c = [kind |-> "send", remote |-> r, code |-> roll[r]]
                               /\ queue' = Append(queue, c) /\ accepted' = Append(accepted, c)
      BY <1>1 DEF Press, TryAdd, Command, TypeOK, RemotesType
    <2>2. UNCHANGED <<core0, core1, base, sent>>
      BY <1>1 DEF Press
    <2>3. /\ Done' = Done /\ Taken' = Taken /\ Handling' = Handling /\ entry' = entry
          /\ ~ ShutDown /\ ~ ShutDown'
      BY <1>1, <2>2 DEF Done, Taken, Handling, core1, core0, ShutDown
    <2>4. /\ Len(accepted') = Len(accepted) + 1
          /\ \A i \in 1 .. Len(accepted) : accepted'[i] = accepted[i]
      BY <2>1, AppendProperties DEF TypeOK, SentType
    <2>5. c \in Entry /\ c.kind = "send"
      BY <2>1 DEF Entry, Command
    <2>6. ASSUME NEW first \in Nat, first = Taken + 1 PROVE InQueue(first)'
      <3>1. PICK place : Waits(place, first)
        BY <2>3, <2>6 DEF InLine, InQueue
      <3>2. first \in Nat \ {0} /\ first <= Len(accepted) + 1
        BY <1>c, <2>6 DEF InLine
      <3> QED BY <2>1, <2>5, <3>1, <3>2, WaitsLonger
    <2>7. Taken <= Len(accepted') /\ \A i \in 1 .. Taken : i \in 1 .. Len(accepted)
      BY <1>c, <2>4 DEF InLine
    <2>8. /\ \A i \in 1 .. Done : i \in 1 .. Taken
          /\ Handling => Done + 1 \in 1 .. Taken
      BY <1>c
    <2> QED BY <2>2, <2>3, <2>4, <2>6, <2>7, <2>8 DEF InLine
  <1>2. ASSUME NEW r \in Remotes, Press(r), ~ HasRoom PROVE InLine'
    <2>1. /\ queue' = queue /\ UNCHANGED <<sent, base, accepted, core0, core1>>
      BY <1>2 DEF Press, TryAdd
    <2>2. Handling' = Handling /\ entry' = entry /\ ShutDown' = ShutDown
      BY <2>1 DEF core0, core1, Handling, ShutDown
    <2> QED BY <1>e, <2>1, <2>2, InLineStays
  <1>3. ASSUME ShutDown, ShutDown', UNCHANGED <<sent, base, accepted, core1>> PROVE InLine'
    <2>1. Done' = Done /\ Taken' = Taken /\ Handling' = Handling /\ entry' = entry
      BY <1>3 DEF Done, Taken, Handling, core1
    <2> QED BY <1>3, <2>1 DEF InLine
  <1>4. ASSUME NEW r \in Remotes, Press(r), main # "loop" PROVE InLine'
    BY <1>3, <1>4 DEF Press, Polling, ShutDown, core0
  <1>5. CASE QueueStop \/ PacketHeard
    <2>1. PICK e \in {Stop, Receive} : queue' = Append(queue, e) \/ queue' = queue
      BY <1>5 DEF QueueStop, PacketHeard, TryAdd
    <2>2. /\ UNCHANGED <<sent, base, accepted, core1>>
          /\ ShutDown' = ShutDown
      BY <1>5 DEF QueueStop, PacketHeard, history, core0, ShutDown
    <2>3. Handling' = Handling /\ entry' = entry
      BY <2>2 DEF core1, Handling
    <2> QED BY <1>e, <2>1, <2>2, <2>3, InLineStays
  <1>6. CASE \/ WorkerStarts \/ EnableReceive \/ EnableInterrupt \/ SkipReceive \/ DisableInterrupt
             \/ Standby \/ ReceiveCommand \/ WorkerStops
             \/ SaveTimer \/ (\E r \in Remotes : SaveOne(r)) \/ SavingDone \/ LeaveLoop \/ UNCHANGED vars
    <2>1. queue' = queue /\ UNCHANGED <<sent, base, accepted, entry>>
      BY <1>6 DEF WorkerStarts, EnableReceive, EnableInterrupt, SkipReceive, DisableInterrupt, Standby,
                  ReceiveCommand, WorkerStops, SaveTimer, SaveOne, SavingDone, LeaveLoop, vars, history, core1
    <2>2. Handling' = Handling
      BY <1>6 DEF WorkerStarts, EnableReceive, EnableInterrupt, SkipReceive, DisableInterrupt, Standby,
                  ReceiveCommand, WorkerStops, AfterStop, SaveTimer, SaveOne, SavingDone, LeaveLoop, vars,
                  core1, Handling
    <2>3. ShutDown' = ShutDown
      BY <1>6 DEF WorkerStarts, EnableReceive, EnableInterrupt, SkipReceive, DisableInterrupt, Standby,
                  ReceiveCommand, WorkerStops, SaveTimer, StartSaving, Polling, SaveOne, SavingDone, LeaveLoop,
                  vars, core0, ShutDown, TypeOK, Core0Type
    <2> QED BY <1>e, <2>1, <2>2, <2>3, InLineStays
  <1>7. CASE Remove
    <2>1. /\ UNCHANGED <<core0, sent, base, accepted>> /\ ~ Handling
          /\ Handling' = (queue[1].kind = "send") /\ entry' = queue[1]
      BY <1>7, Removed DEF Remove, history, Handling
    <2>2. ShutDown' = ShutDown /\ Done' = Done /\ Taken = Done
      BY <1>c, <2>1 DEF ShutDown, core0, Done
    <2>3. ~ ShutDown
      BY <1>7, <2>1 DEF StopFound, Stopping, Remove
    <2>4. Taken' = IF queue[1].kind = "send" THEN Done + 1 ELSE Done
      BY <1>c, <2>1, <2>2 DEF Taken
    <2>5. PICK first \in Nat \ {0} : first = Taken + 1
      BY <1>c
    <2>6. PICK place : Waits(place, first)
      BY <2>3, <2>5 DEF InLine, InQueue
    <2>7. ASSUME NEW next \in Nat, next = Taken' + 1
          PROVE  /\ queue[1].kind = "send" => first <= Len(accepted) /\ accepted[first] = queue[1]
                 /\ InQueue(next)'
      <3>1. next = IF queue[1].kind = "send" THEN first + 1 ELSE first
        BY <1>c, <2>2, <2>4, <2>5, <2>7
      <3> QED BY <1>7, <2>1, <2>5, <2>6, <3>1, WaitsShorter
    <2>8. Taken' \in Nat
      BY <1>c, <2>4
    <2>9. queue[1].kind = "send" => first <= Len(accepted) /\ accepted[first] = queue[1]
      <3>1. PICK taken \in Nat : taken = Taken'
        BY <2>8
      <3>2. taken + 1 \in Nat
        OBVIOUS
      <3> QED BY <2>7, <3>1, <3>2
    <2>10. Taken' <= Len(accepted)
      BY <1>c, <2>2, <2>4, <2>5, <2>9 DEF InLine
    <2> QED BY <2>1, <2>2, <2>3, <2>5, <2>7, <2>9, <2>10 DEF InLine
  <1>8. CASE ExecuteCommand
    <2>1. /\ UNCHANGED <<queue, core0, base, accepted, entry>> /\ Handling /\ ~ Handling'
      BY <1>8 DEF ExecuteCommand, Handling
    <2>2. /\ Len(sent') = Len(sent) + 1
          /\ \A k \in 1 .. Len(sent') :
              \/ k \in 1 .. Len(sent) /\ sent'[k] = sent[k]
              \/ k = Len(sent) + 1 /\ sent'[k] = entry
      BY <1>8, Transmitted
    <2>3. ShutDown' = ShutDown /\ Done' = Done + 1 /\ Taken' = Done + 1 /\ Taken = Done + 1
      BY <1>c, <2>1, <2>2 DEF ShutDown, core0, Done, Taken
    <2>4. ASSUME NEW i \in 1 .. Done + 1 PROVE accepted[i] = sent'[base + i]
      <3>1. CASE i = Done + 1
        <4>1. base + i = Len(sent) + 1 /\ base + i \in 1 .. Len(sent')
          BY <1>c, <2>2, <3>1 DEF Done
        <4>2. sent'[base + i] = entry
          BY <1>c, <2>2, <4>1
        <4> QED BY <2>1, <3>1, <4>2 DEF InLine
      <3>2. CASE i # Done + 1
        <4>1. i \in 1 .. Done /\ base + i \in 1 .. Len(sent) /\ base + i \in 1 .. Len(sent')
          BY <1>c, <2>2, <3>2 DEF Done
        <4>2. sent'[base + i] = sent[base + i]
          BY <1>c, <2>2, <4>1
        <4> QED BY <4>1, <4>2 DEF InLine
      <3> QED BY <3>1, <3>2
    <2>5. ASSUME ~ ShutDown, NEW first \in Nat, first = Taken + 1 PROVE InQueue(first)'
      <3>1. InQueue(first)
        BY <2>5 DEF InLine
      <3> QED BY <2>1, <3>1 DEF InQueue, Waits
    <2> QED BY <2>1, <2>3, <2>4, <2>5 DEF InLine
  <1>9. CASE ShutdownReturns
    <2>1. /\ UNCHANGED <<sent, base, accepted, core1>> /\ Len(queue) = 0
          /\ ShutDown' /\ main = "drain"
      BY <1>9 DEF ShutdownReturns, Drained, StartSaving, history, ShutDown
    <2>2. Stopping /\ ~ Handling /\ ~ ShutDown
      BY <2>1 DEF StopFound, Stopping, Handling, Stop, ShutDown
    <2>3. PICK first \in Nat : first = Taken + 1
      BY <1>c
    <2>4. PICK place : Waits(place, first)
      BY <2>2, <2>3 DEF InLine, InQueue
    <2>5. \A i \in first .. Len(accepted) : FALSE
      BY <2>1, <2>4 DEF Waits
    <2>6. Taken = Len(accepted)
      BY <1>c, <2>3, <2>5 DEF InLine
    <2>7. Done' = Done /\ Taken' = Taken /\ Handling' = Handling /\ entry' = entry
      BY <2>1 DEF Done, Taken, Handling, core1
    <2> QED BY <2>1, <2>6, <2>7 DEF InLine
  <1>10. CASE Reboot \/ PowerCut
    <2>1. /\ Len(accepted') = 0 /\ Len(queue') = 0 /\ Len(sent') = base'
          /\ ~ Handling' /\ ~ ShutDown' /\ base' \in Nat
      BY <1>c, <1>10 DEF Reboot, PowerCut, Boot, Handling, ShutDown
    <2>2. Done' = 0 /\ Taken' = 0
      <3>1. PICK b \in Nat : base' = b /\ Len(sent') = b
        BY <2>1
      <3>2. Done' = b - b
        BY <3>1 DEF Done
      <3>3. Done' = 0
        BY <3>1, <3>2
      <3>4. Taken' = Done' + 0
        BY <2>1, <3>3 DEF Taken
      <3> QED BY <3>3, <3>4
    <2>3. ASSUME NEW first \in Nat, first = Taken' + 1 PROVE InQueue(first)'
      <3>1. PICK place : place = [i \in 1 .. 0 |-> i]
        OBVIOUS
      <3>2. place \in [1 .. 0 -> 1 .. 0] /\ Waits(place, first)' /\ first = 1
        BY <2>1, <2>2, <2>3, <3>1 DEF Waits
      <3> QED BY <2>1, <3>2 DEF InQueue
    <2> QED BY <2>1, <2>2, <2>3 DEF InLine
  <1> QED BY <1>1, <1>2, <1>4, <1>5, <1>6, <1>7, <1>8, <1>9, <1>10 DEF Next, Worker, Core0Proceeds

LEMMA InLineSuffices == TypeOK /\ StopFound /\ InLine => ShutdownFlushes
  <1> SUFFICES ASSUME TypeOK, StopFound, InLine, ShutDown
               PROVE  /\ accepted = SentSinceBoot
                      /\ at \in {"standby", "abort", "run", "exited"} /\ entry = Stop
    BY DEF ShutdownFlushes
  <1>1. Stopping /\ ~ Handling
    BY DEF StopFound, Stopping, Handling, Stop
  <1>2. /\ Len(sent) \in Nat /\ base \in Nat /\ Done \in Nat /\ base <= Len(sent)
        /\ Taken = Done /\ Len(accepted) = Done /\ Done = Len(sent) - base
    BY <1>1, Counts DEF InLine, Done, TypeOK, SentType
  <1>3. /\ SentSinceBoot \in Seq(Command) /\ Len(SentSinceBoot) = Done
        /\ \A i \in 1 .. Done : SentSinceBoot[i] = sent[base + i]
    BY <1>2, SubSeqProperties DEF SentSinceBoot, TypeOK, SentType
  <1>4. accepted = SentSinceBoot
    BY <1>2, <1>3, SeqEqual DEF InLine, TypeOK, SentType
  <1> QED BY <1>1, <1>4 DEF Stopping

\* When Shutdown returns, every command queued before it is on the air, each
\* one once and in the order of the calls, and the worker sends nothing more.
THEOREM ShutdownAlwaysFlushes == Spec => []ShutdownFlushes
  <1>1. TypeOK /\ CodesInv => StopFound
    BY DEF CodesInv
  <1> QED BY <1>1, CodesInvCorrect, InLineInit, InLineStep, InLineSuffices, PTL DEF Spec

(***************************************************************************)
(* From those places back to the sequence that Waiting builds: after k     *)
(* entries of the queue it has reached the last command whose place is not *)
(* behind the k-th entry.                                                  *)
(***************************************************************************)
Below == {p \in Nat \X Nat : p[1] < p[2]}

\* A nonempty set of naturals has a least element.
LEMMA LeastNatural ==
  ASSUME NEW T \in SUBSET Nat, T # {}
  PROVE  \E x \in T : \A y \in T : x <= y
  <1>1. IsWellFoundedOn(Below, Nat)
    BY NatLessThanWellFounded DEF OpToRel, Below
  <1>2. PICK x \in T : \A y \in T : ~ (<<y, x>> \in Below)
    BY <1>1, WFMin
  <1>3. \A m, n \in Nat : m < n => <<m, n>> \in Below
    BY DEF Below
  <1>4. ASSUME NEW y \in T PROVE x <= y
    <2>1. x \in Nat /\ y \in Nat
      OBVIOUS
    <2>2. ~ (y < x)
      BY <1>2, <1>3, <2>1
    <2> QED BY <2>1, <2>2
  <1> QED BY <1>4

\* The accepted commands from the first to the k-th.
Stretch(first, k) == SubSeq(accepted, first, k)

LEMMA StretchIs ==
  ASSUME TypeOK, NEW first \in Nat \ {0}, NEW k \in Nat,
         first <= k + 1, k <= Len(accepted)
  PROVE  /\ Stretch(first, k) \in Seq(Command)
         /\ Len(Stretch(first, k)) = k - first + 1
         /\ \A i \in 1 .. k - first + 1 : Stretch(first, k)[i] = accepted[first + i - 1]
  <1>1. ASSUME NEW i \in first .. k PROVE accepted[i] \in Command
    <2>1. i \in 1 .. Len(accepted)
      BY Counts
    <2> QED BY <2>1, ElementOfSeq DEF TypeOK, SentType
  <1>2. first \in Int /\ k \in Int
    OBVIOUS
  <1>3. /\ Stretch(first, k) \in Seq(Command)
        /\ Len(Stretch(first, k)) = IF first <= k THEN k - first + 1 ELSE 0
        /\ \A i \in 1 .. k - first + 1 : Stretch(first, k)[i] = accepted[first + i - 1]
    BY <1>1, <1>2, SubSeqProperties DEF Stretch
  <1>4. k - first + 1 = IF first <= k THEN k - first + 1 ELSE 0
    OBVIOUS
  <1> QED BY <1>3, <1>4

LEMMA StretchGrows ==
  ASSUME TypeOK, NEW first \in Nat \ {0}, NEW k \in Nat, first <= k + 1, k + 1 <= Len(accepted)
  PROVE  Append(Stretch(first, k), accepted[k + 1]) = Stretch(first, k + 1)
  <1>1. k + 1 \in 1 .. Len(accepted) /\ k <= Len(accepted)
    BY Counts
  <1>2. accepted[k + 1] \in Command
    BY <1>1, ElementOfSeq DEF TypeOK, SentType
  <1> DEFINE short == Stretch(first, k)
             long  == Stretch(first, k + 1)
             grown == Append(short, accepted[k + 1])
  <1>3. /\ short \in Seq(Command) /\ Len(short) = k - first + 1
        /\ \A i \in 1 .. k - first + 1 : short[i] = accepted[first + i - 1]
    BY <1>1, StretchIs
  <1>4. /\ long \in Seq(Command) /\ Len(long) = k - first + 2
        /\ \A i \in 1 .. k - first + 2 : long[i] = accepted[first + i - 1]
    <2>1. first <= (k + 1) + 1 /\ k + 1 \in Nat /\ k + 1 <= Len(accepted)
      BY <1>1
    <2>2. (k + 1) - first + 1 = k - first + 2
      OBVIOUS
    <2> QED BY <2>1, <2>2, StretchIs
  <1>5. /\ grown \in Seq(Command) /\ Len(grown) = Len(short) + 1
        /\ \A i \in 1 .. Len(short) : grown[i] = short[i]
        /\ grown[Len(short) + 1] = accepted[k + 1]
    BY <1>2, <1>3, AppendProperties
  <1> HIDE DEF short, long, grown
  <1>6. ASSUME NEW i \in 1 .. Len(grown) PROVE grown[i] = long[i]
    <2>1. i \in 1 .. k - first + 2
      BY <1>3, <1>5
    <2>2. CASE i = k - first + 2
      <3>1. first + i - 1 = k + 1 /\ i = Len(short) + 1
        BY <1>3, <2>2
      <3> QED BY <1>4, <1>5, <2>1, <3>1
    <2>3. CASE i # k - first + 2
      <3>1. i \in 1 .. k - first + 1
        BY <2>1, <2>3
      <3> QED BY <1>3, <1>4, <1>5, <2>1, <3>1
    <2> QED BY <2>2, <2>3
  <1>7. Len(grown) = Len(long)
    BY <1>3, <1>4, <1>5
  <1>8. grown = long
    BY <1>4, <1>5, <1>6, <1>7, SeqEqual
  <1> QED BY <1>8 DEF grown, long, short

\* The commands that wait are the accepted ones from the first that is not
\* yet taken on.
LEMMA WaitingIs ==
  ASSUME TypeOK, NEW first \in Nat \ {0}, first <= Len(accepted) + 1,
         NEW place, Waits(place, first)
  PROVE  Waiting = Stretch(first, Len(accepted))
  <1> DEFINE m == Len(queue)
             n == Len(accepted)
             Steps(f) == [k \in 0 .. m |->
               IF k = 0 THEN <<>>
               ELSE IF queue[k].kind = "send" THEN Append(f[k - 1], queue[k])
               ELSE f[k - 1]]
  <1>n. n \in Nat /\ m \in Nat
    BY Counts
  <1>w. /\ \A i \in first .. n : place[i] \in 1 .. m /\ queue[place[i]] = accepted[i]
        /\ \A i, j \in first .. n : i < j => place[i] < place[j]
        /\ \A k \in 1 .. m : queue[k].kind = "send" => \E i \in first .. n : place[i] = k
    BY DEF Waits
  <1> DEFINE Splits(k, last) == /\ last \in first - 1 .. n
                                /\ \A i \in first .. n : place[i] <= k <=> i <= last
             upTo == [k \in 0 .. m |-> CHOOSE last \in Nat : Splits(k, last)]
             these == [k \in 0 .. m |-> Stretch(first, upTo[k])]
  <1>1. ASSUME NEW k \in 0 .. m PROVE \E last \in Nat : Splits(k, last)
    <2> DEFINE Later == {i \in first .. n : ~ (place[i] <= k)}
    <2>1. CASE Later = {}
      <3>1. n \in first - 1 .. n /\ \A i \in first .. n : place[i] <= k /\ i <= n
        BY <1>n, <2>1
      <3> QED BY <1>n, <3>1
    <2>2. CASE Later # {}
      <3>1. Later \in SUBSET Nat
        BY <1>n
      <3>2. PICK x \in Later : \A y \in Later : x <= y
        BY <2>2, <3>1, LeastNatural
      <3>3. x \in first .. n /\ ~ (place[x] <= k) /\ x - 1 \in Nat /\ x - 1 \in first - 1 .. n
        BY <3>2, <1>n
      <3>4. ASSUME NEW i \in first .. n PROVE place[i] <= k <=> i <= x - 1
        <4>1. place[i] \in Nat /\ place[x] \in Nat /\ (x < i => place[x] < place[i])
          BY <1>w, <1>n, <3>3
        <4>2. i < x => place[i] <= k
          <5>1. ~ (x <= i) => i \notin Later
            BY <3>2
          <5> QED BY <3>3, <5>1
        <4>3. x <= i => ~ (place[i] <= k)
          BY <3>3, <4>1
        <4> QED BY <3>3, <4>2, <4>3
      <3> QED BY <3>3, <3>4
    <2> QED BY <2>1, <2>2
  <1>2. ASSUME NEW k \in 0 .. m PROVE upTo[k] \in Nat /\ Splits(k, upTo[k])
    BY <1>1
  <1> HIDE DEF upTo
  <1>3. Steps(these) = these
    <2>1. Steps(these)[0] = these[0]
      <3>1. 0 \in 0 .. m
        BY <1>n
      <3>2. upTo[0] = first - 1
        <4>1. upTo[0] \in first - 1 .. n /\ \A i \in first .. n : place[i] <= 0 <=> i <= upTo[0]
          BY <1>2, <3>1
        <4>2. \A i \in first .. n : ~ (place[i] <= 0)
          BY <1>w
        <4>3. first <= upTo[0] => FALSE
          BY <1>n, <4>1, <4>2
        <4> QED BY <1>n, <4>1, <4>3
      <3>3. Stretch(first, first - 1) = <<>>
        BY SubSeqEmpty DEF Stretch
      <3> QED BY <3>1, <3>2, <3>3
    <2>2. ASSUME NEW k \in 1 .. m PROVE Steps(these)[k] = these[k]
      <3>1. k \in 0 .. m /\ k - 1 \in 0 .. m /\ k # 0
        BY <1>n
      <3>2. /\ upTo[k - 1] \in Nat /\ upTo[k - 1] \in first - 1 .. n
            /\ \A i \in first .. n : place[i] <= k - 1 <=> i <= upTo[k - 1]
        BY <1>2, <3>1
      <3>3. /\ upTo[k] \in Nat /\ upTo[k] \in first - 1 .. n
            /\ \A i \in first .. n : place[i] <= k <=> i <= upTo[k]
        BY <1>2, <3>1
      <3>4. CASE queue[k].kind = "send"
        <4>1. PICK x \in first .. n : place[x] = k
          BY <1>w, <3>4
        <4>2. x = upTo[k - 1] + 1
          <5>1. upTo[k - 1] < x
            BY <1>n, <3>2, <4>1
          <5>2. upTo[k - 1] + 1 < x => FALSE
            <6> SUFFICES ASSUME upTo[k - 1] + 1 < x PROVE FALSE
              OBVIOUS
            <6>1. upTo[k - 1] + 1 \in first .. n
              BY <3>2, <4>1, <1>n
            <6>2. place[upTo[k - 1] + 1] < k /\ place[upTo[k - 1] + 1] \in Nat
              BY <1>w, <1>n, <4>1, <6>1
            <6>3. ~ (place[upTo[k - 1] + 1] <= k - 1)
              BY <3>2, <6>1
            <6> QED BY <6>2, <6>3
          <5> QED BY <3>2, <4>1, <5>1, <5>2
        <4>3. upTo[k] = x
          <5>1. x <= upTo[k]
            BY <3>3, <4>1
          <5>2. x < upTo[k] => FALSE
            <6> SUFFICES ASSUME x < upTo[k] PROVE FALSE
              OBVIOUS
            <6>1. upTo[k] \in first .. n
              BY <3>3, <4>1
            <6>2. k < place[upTo[k]] /\ place[upTo[k]] \in Nat
              BY <1>w, <1>n, <4>1, <6>1
            <6>3. place[upTo[k]] <= k
              BY <3>3, <6>1
            <6> QED BY <6>2, <6>3
          <5> QED BY <3>3, <4>1, <5>1, <5>2
        <4>4. queue[k] = accepted[upTo[k - 1] + 1]
          BY <1>w, <4>1, <4>2
        <4>5. Append(Stretch(first, upTo[k - 1]), queue[k]) = Stretch(first, upTo[k])
          <5>1. first <= upTo[k - 1] + 1 /\ upTo[k - 1] + 1 <= Len(accepted)
            BY <3>2, <4>1, <4>2
          <5> QED BY <3>2, <4>2, <4>3, <4>4, <5>1, StretchGrows
        <4> QED BY <3>1, <3>4, <4>5
      <3>5. CASE queue[k].kind # "send"
        <4>1. \A i \in first .. n : place[i] # k
          <5>1. ASSUME NEW i \in first .. n PROVE accepted[i].kind = "send"
            <6>1. i \in 1 .. Len(accepted)
              BY <1>n
            <6>2. accepted[i] \in Command
              BY <6>1, ElementOfSeq DEF TypeOK, SentType
            <6> QED BY <6>2 DEF Command
          <5> QED BY <1>w, <3>5, <5>1
        <4>2. \A i \in first .. n : i <= upTo[k - 1] <=> i <= upTo[k]
          <5>1. ASSUME NEW i \in first .. n PROVE place[i] <= k - 1 <=> place[i] <= k
            BY <1>w, <1>n, <4>1
          <5> QED BY <3>2, <3>3, <5>1
        <4>3. upTo[k - 1] = upTo[k]
          <5>1. ~ (upTo[k - 1] < upTo[k])
            <6>1. upTo[k - 1] < upTo[k] => upTo[k] \in first .. n
              BY <3>2, <3>3
            <6> QED BY <3>2, <3>3, <4>2, <6>1
          <5>2. ~ (upTo[k] < upTo[k - 1])
            <6>1. upTo[k] < upTo[k - 1] => upTo[k - 1] \in first .. n
              BY <3>2, <3>3
            <6> QED BY <3>2, <3>3, <4>2, <6>1
          <5> QED BY <3>2, <3>3, <5>1, <5>2
        <4> QED BY <3>1, <3>5, <4>3
      <3> QED BY <3>4, <3>5
    <2> HIDE DEF these
    <2>3. \A k \in 0 .. m : Steps(these)[k] = these[k]
      <3>1. \A k \in 0 .. m : k = 0 \/ k \in 1 .. m
        BY <1>n
      <3> HIDE DEF Steps
      <3> QED BY <2>1, <2>2, <3>1
    <2>4. these = [k \in 0 .. m |-> these[k]]
      BY DEF these
    <2>5. Steps(these) = [k \in 0 .. m |-> Steps(these)[k]]
      OBVIOUS
    <2> HIDE DEF Steps
    <2> QED BY <2>3, <2>4, <2>5
  <1> DEFINE commands == CHOOSE f : f = Steps(f)
  <1>4. commands = Steps(commands)
    BY <1>3
  <1>5. Waiting = commands[m]
    BY DEF Waiting
  <1> HIDE DEF commands
  <1>6. these[m] = Stretch(first, n)
    <2>1. m \in 0 .. m
      BY <1>n
    <2>2. upTo[m] \in first - 1 .. n /\ \A i \in first .. n : place[i] <= m <=> i <= upTo[m]
      BY <1>2, <2>1
    <2>3. first <= n => n <= upTo[m]
      BY <1>n, <1>w, <2>2
    <2>4. upTo[m] = n
      BY <1>n, <2>2, <2>3
    <2> QED BY <2>1, <2>4
  <1> HIDE DEF these
  <1>7. commands[0] = these[0]
    BY <1>3, <1>4, <1>n
  <1>8. ASSUME NEW k \in 1 .. m, commands[k - 1] = these[k - 1] PROVE commands[k] = these[k]
    <2>1. k \in 0 .. m /\ k # 0
      BY <1>n
    <2> QED BY <1>3, <1>4, <1>8, <2>1
  <1>9. \A k \in 0 .. m : commands[k] = these[k]
    <2> DEFINE Differ == {k \in 0 .. m : commands[k] # these[k]}
    <2> SUFFICES ASSUME Differ # {} PROVE FALSE
      OBVIOUS
    <2>1. Differ \in SUBSET Nat
      BY <1>n
    <2>2. PICK x \in Differ : \A y \in Differ : x <= y
      BY <2>1, LeastNatural
    <2>3. x \in 0 .. m /\ commands[x] # these[x] /\ x # 0
      BY <1>7, <2>2
    <2>4. x \in 1 .. m /\ x - 1 \in 0 .. m /\ ~ (x <= x - 1)
      BY <1>n, <2>3
    <2>5. commands[x - 1] = these[x - 1]
      BY <2>2, <2>4
    <2> QED BY <1>8, <2>3, <2>4, <2>5
  <1> QED BY <1>5, <1>6, <1>9, <1>n

LEMMA InLineInOrder == TypeOK /\ InLine => CommandsInOrder
  <1> SUFFICES ASSUME TypeOK, InLine, ~ ShutDown
               PROVE  accepted = SentSinceBoot \o InHand \o Waiting
    BY DEF CommandsInOrder
  <1> DEFINE n == Len(accepted)
             first == Taken + 1
             hand == IF Handling THEN 1 ELSE 0
  <1>1. /\ Len(sent) \in Nat /\ base \in Nat /\ Done \in Nat /\ Taken \in Nat /\ n \in Nat
        /\ hand \in Nat /\ Taken = Done + hand /\ Taken <= n /\ Done = Len(sent) - base /\ base <= Len(sent)
    BY Counts DEF InLine, Done, Taken, TypeOK, SentType
  <1>2. /\ SentSinceBoot \in Seq(Command) /\ Len(SentSinceBoot) = Done
        /\ \A i \in 1 .. Done : SentSinceBoot[i] = accepted[i]
    <2>1. /\ SentSinceBoot \in Seq(Command) /\ Len(SentSinceBoot) = Done
          /\ \A i \in 1 .. Done : SentSinceBoot[i] = sent[base + i]
      BY <1>1, SubSeqProperties DEF SentSinceBoot, TypeOK, SentType
    <2> QED BY <2>1 DEF InLine
  <1>3. /\ InHand \in Seq(Command) /\ Len(InHand) = hand
        /\ \A i \in 1 .. hand : InHand[i] = accepted[Done + i]
    <2>1. CASE Handling
      <3>1. entry \in Command
        BY <2>1, CommandParts DEF Handling, TypeOK, Core1Type
      <3>2. InHand = <<entry>> /\ accepted[Done + 1] = entry
        BY <2>1 DEF InHand, Handling, InLine
      <3> QED BY <2>1, <3>1, <3>2
    <2>2. CASE ~ Handling
      <3>1. InHand = <<>>
        BY <2>2 DEF InHand, Handling
      <3> QED BY <2>2, <3>1
    <2> QED BY <2>1, <2>2
  <1>4. /\ Waiting \in Seq(Command) /\ Len(Waiting) = n - Taken
        /\ \A i \in 1 .. n - Taken : Waiting[i] = accepted[Taken + i]
    <2>1. PICK place : Waits(place, first)
      BY <1>1 DEF InLine, InQueue
    <2>3. first \in Nat \ {0} /\ first <= n + 1 /\ n - first + 1 = n - Taken
      BY <1>1
    <2>2. Waiting = Stretch(first, n)
      BY <2>1, <2>3, WaitingIs
    <2>4. \A i \in 1 .. n - Taken : first + i - 1 = Taken + i
      BY <1>1
    <2>5. /\ Stretch(first, n) \in Seq(Command)
          /\ Len(Stretch(first, n)) = n - first + 1
          /\ \A i \in 1 .. n - first + 1 : Stretch(first, n)[i] = accepted[first + i - 1]
      <3>1. n \in Nat /\ n <= Len(accepted)
        BY <1>1
      <3> HIDE DEF first
      <3> QED BY <2>3, <3>1, StretchIs
    <2> QED BY <2>2, <2>3, <2>4, <2>5
  <1> HIDE DEF hand
  <1> DEFINE front == SentSinceBoot \o InHand
             all == front \o Waiting
  <1>5. /\ front \in Seq(Command) /\ Len(front) = Taken
        /\ \A i \in 1 .. Taken : front[i] = accepted[i]
    <2>1. /\ front \in Seq(Command) /\ Len(front) = Done + hand
          /\ \A i \in 1 .. Done + hand :
               front[i] = IF i <= Done THEN SentSinceBoot[i] ELSE InHand[i - Done]
      BY <1>2, <1>3, ConcatProperties
    <2> HIDE DEF front
    <2>2. ASSUME NEW i \in 1 .. Done + hand PROVE front[i] = accepted[i]
      <3>1. CASE i <= Done
        BY <1>1, <1>2, <2>1, <3>1
      <3>2. CASE ~ (i <= Done)
        <4>1. i - Done \in 1 .. hand /\ Done + (i - Done) = i
          BY <1>1, <3>2
        <4> QED BY <1>3, <2>1, <3>2, <4>1
      <3> QED BY <3>1, <3>2
    <2> QED BY <1>1, <2>1, <2>2
  <1>6. /\ all \in Seq(Command) /\ Len(all) = n
        /\ \A i \in 1 .. n : all[i] = accepted[i]
    <2>1. /\ all \in Seq(Command) /\ Len(all) = Taken + (n - Taken)
          /\ \A i \in 1 .. Taken + (n - Taken) :
               all[i] = IF i <= Taken THEN front[i] ELSE Waiting[i - Taken]
      <3> HIDE DEF front
      <3> QED BY <1>4, <1>5, ConcatProperties
    <2> HIDE DEF front, all
    <2>2. Taken + (n - Taken) = n
      BY <1>1
    <2>3. ASSUME NEW i \in 1 .. n PROVE all[i] = accepted[i]
      <3>1. CASE i <= Taken
        <4>1. i \in 1 .. Taken /\ i \in 1 .. Taken + (n - Taken)
          BY <1>1, <2>2, <3>1
        <4>2. all[i] = front[i]
          BY <2>1, <3>1, <4>1
        <4> QED BY <1>5, <4>1, <4>2
      <3>2. CASE ~ (i <= Taken)
        <4>1. i - Taken \in 1 .. n - Taken /\ Taken + (i - Taken) = i
          BY <1>1, <3>2
        <4> QED BY <1>4, <2>1, <2>2, <3>2, <4>1
      <3> QED BY <3>1, <3>2
    <2> QED BY <2>1, <2>2, <2>3
  <1> HIDE DEF all, front
  <1>7. accepted \in Seq(Command)
    BY DEF TypeOK, SentType
  <1>8. accepted = all
    BY <1>6, <1>7, SeqEqual
  <1> QED BY <1>8 DEF all, front

\* The worker transmits what the main loop queued: all of it, in that order
\* and each command once, whatever the interrupt and the timers put between.
THEOREM CommandsKeepOrder == Spec => []CommandsInOrder
  <1>1. TypeOK /\ CodesInv => StopFound
    BY DEF CodesInv
  <1> QED BY <1>1, CodesInvCorrect, InLineInit, InLineStep, InLineInOrder, PTL DEF Spec

-----------------------------------------------------------------------------
(* Packets (SomfyPacket) *)

OfBits(x1, x2, x3, x4, x5, x6, x7, x8) ==
  x1 + 2 * x2 + 4 * x3 + 8 * x4 + 16 * x5 + 32 * x6 + 64 * x7 + 128 * x8

\* The bit of weight k of a byte, and the sum of two bits modulo 2.
Weights == {1, 2, 4, 8, 16, 32, 64, 128}
Bit(a, k) == (a \div k) % 2
BitSum(a, b, k) == (a \div k + b \div k) % 2

LEMMA ByteOfBits ==
  ASSUME NEW a \in Bytes
  PROVE  a = OfBits(Bit(a, 1), Bit(a, 2), Bit(a, 4), Bit(a, 8),
                    Bit(a, 16), Bit(a, 32), Bit(a, 64), Bit(a, 128))
  <1>1. a \div 1 = a
    BY DEF Bytes
  <1>2. a = OfBits(a % 2, (a \div 2) % 2, (a \div 4) % 2, (a \div 8) % 2,
                   (a \div 16) % 2, (a \div 32) % 2, (a \div 64) % 2, (a \div 128) % 2)
    BY SMTT(30) DEF Bytes, OfBits
  <1> QED BY <1>1, <1>2 DEF Bit

\* A byte is determined by its bits.
LEMMA SameBits ==
  ASSUME NEW a \in Bytes, NEW d \in Bytes, \A k \in Weights : Bit(d, k) = Bit(a, k)
  PROVE  a = d
  <1>1. /\ Bit(d, 1) = Bit(a, 1) /\ Bit(d, 2) = Bit(a, 2) /\ Bit(d, 4) = Bit(a, 4)
        /\ Bit(d, 8) = Bit(a, 8) /\ Bit(d, 16) = Bit(a, 16) /\ Bit(d, 32) = Bit(a, 32)
        /\ Bit(d, 64) = Bit(a, 64) /\ Bit(d, 128) = Bit(a, 128)
    BY DEF Weights
  <1> QED BY <1>1, ByteOfBits

\* Any eight bits are those of a byte.
LEMMA BitsOfByte ==
  ASSUME NEW x1 \in 0 .. 1, NEW x2 \in 0 .. 1, NEW x3 \in 0 .. 1, NEW x4 \in 0 .. 1,
         NEW x5 \in 0 .. 1, NEW x6 \in 0 .. 1, NEW x7 \in 0 .. 1, NEW x8 \in 0 .. 1,
         NEW c, c = x1 + 2 * x2 + 4 * x3 + 8 * x4 + 16 * x5 + 32 * x6 + 64 * x7 + 128 * x8
  PROVE  /\ c \in Bytes
         /\ Bit(c, 1) = x1 /\ Bit(c, 2) = x2 /\ Bit(c, 4) = x3 /\ Bit(c, 8) = x4
         /\ Bit(c, 16) = x5 /\ Bit(c, 32) = x6 /\ Bit(c, 64) = x7 /\ Bit(c, 128) = x8
  <1>1. c \in Bytes /\ c \div 1 = c
    BY DEF Bytes
  <1>2. Bit(c, 1) = x1
    <2>1. c % 2 = x1
      OBVIOUS
    <2> QED BY <1>1, <2>1 DEF Bit
  <1>3. Bit(c, 2) = x2
    BY DEF Bit
  <1>4. Bit(c, 4) = x3
    BY DEF Bit
  <1>5. Bit(c, 8) = x4
    BY DEF Bit
  <1>6. Bit(c, 16) = x5
    BY DEF Bit
  <1>7. Bit(c, 32) = x6
    BY DEF Bit
  <1>8. Bit(c, 64) = x7
    BY DEF Bit
  <1>9. Bit(c, 128) = x8
    BY DEF Bit
  <1> QED BY <1>1, <1>2, <1>3, <1>4, <1>5, <1>6, <1>7, <1>8, <1>9

\* The exclusive or of two bytes is a byte.  Its bits are the sums of theirs, modulo 2.
LEMMA XorBits ==
  ASSUME NEW a \in Bytes, NEW b \in Bytes
  PROVE  /\ Xor(a, b) \in Bytes
         /\ \A k \in Weights : Bit(Xor(a, b), k) = BitSum(a, b, k)
  <1>1. ASSUME NEW k \in Weights PROVE BitSum(a, b, k) \in 0 .. 1
    <2>1. PICK p \in Nat, q \in Nat : p = a \div k /\ q = b \div k
      BY DEF Bytes, Weights
    <2>2. (p + q) % 2 \in 0 .. 1
      OBVIOUS
    <2> QED BY <2>1, <2>2 DEF BitSum
  <1>2. /\ BitSum(a, b, 1) \in 0 .. 1 /\ BitSum(a, b, 2) \in 0 .. 1
        /\ BitSum(a, b, 4) \in 0 .. 1 /\ BitSum(a, b, 8) \in 0 .. 1
        /\ BitSum(a, b, 16) \in 0 .. 1 /\ BitSum(a, b, 32) \in 0 .. 1
        /\ BitSum(a, b, 64) \in 0 .. 1 /\ BitSum(a, b, 128) \in 0 .. 1
    BY <1>1 DEF Weights
  <1> DEFINE c == Xor(a, b)
  <1>3. c = 1 * BitSum(a, b, 1) + 2 * BitSum(a, b, 2) + 4 * BitSum(a, b, 4)
            + 8 * BitSum(a, b, 8) + 16 * BitSum(a, b, 16) + 32 * BitSum(a, b, 32)
            + 64 * BitSum(a, b, 64) + 128 * BitSum(a, b, 128)
    BY DEF Xor, BitSum
  <1> HIDE DEF c
  <1>4. c = BitSum(a, b, 1) + 2 * BitSum(a, b, 2) + 4 * BitSum(a, b, 4)
            + 8 * BitSum(a, b, 8) + 16 * BitSum(a, b, 16) + 32 * BitSum(a, b, 32)
            + 64 * BitSum(a, b, 64) + 128 * BitSum(a, b, 128)
    BY <1>2, <1>3
  <1>5. /\ c \in Bytes
        /\ Bit(c, 1) = BitSum(a, b, 1) /\ Bit(c, 2) = BitSum(a, b, 2)
        /\ Bit(c, 4) = BitSum(a, b, 4) /\ Bit(c, 8) = BitSum(a, b, 8)
        /\ Bit(c, 16) = BitSum(a, b, 16) /\ Bit(c, 32) = BitSum(a, b, 32)
        /\ Bit(c, 64) = BitSum(a, b, 64) /\ Bit(c, 128) = BitSum(a, b, 128)
    BY <1>2, <1>4, BitsOfByte
  <1> QED BY <1>5 DEF c, Weights

\* A bit added twice cancels.
LEMMA BitTwice ==
  ASSUME NEW a \in Bytes, NEW b \in Bytes, NEW c \in Bytes, NEW d \in Bytes,
         NEW k \in Weights, Bit(c, k) = BitSum(a, b, k), Bit(d, k) = BitSum(c, b, k)
  PROVE  Bit(d, k) = Bit(a, k)
  <1>1. PICK p \in Nat, q \in Nat, r \in Nat, s \in Nat :
            p = a \div k /\ q = b \div k /\ r = c \div k /\ s = d \div k
    <2>1. \A x \in Bytes : x \div k \in Nat
      BY DEF Bytes, Weights
    <2> QED BY <2>1
  <1>2. r % 2 = (p + q) % 2 /\ s % 2 = (r + q) % 2
    BY <1>1 DEF Bit, BitSum
  <1>3. s % 2 = p % 2
    BY <1>2
  <1> QED BY <1>1, <1>3 DEF Bit

\* What is scrambled with a byte is unscrambled with the same byte.
LEMMA XorTwice ==
  ASSUME NEW a \in Bytes, NEW b \in Bytes
  PROVE  Xor(Xor(a, b), b) = a
  <1>1. PICK c \in Bytes : c = Xor(a, b)
    BY XorBits
  <1>2. PICK d \in Bytes : d = Xor(c, b)
    BY XorBits
  <1>3. ASSUME NEW k \in Weights PROVE Bit(d, k) = Bit(a, k)
    <2>1. Bit(c, k) = BitSum(a, b, k)
      BY <1>1, XorBits, Zenon
    <2>2. Bit(d, k) = BitSum(c, b, k)
      BY <1>2, XorBits, Zenon
    <2> QED BY <2>1, <2>2, BitTwice
  <1>4. a = d
    BY <1>3, SameBits, Zenon
  <1> QED BY <1>1, <1>2, <1>4, Zenon

\* Seven bytes, as a sequence and one by one.
LEMMA SevenBytes ==
  ASSUME NEW t \in Seq(Bytes), Len(t) = 7
  PROVE  /\ t \in [1 .. 7 -> Bytes]
         /\ t[1] \in Bytes /\ t[2] \in Bytes /\ t[3] \in Bytes /\ t[4] \in Bytes
         /\ t[5] \in Bytes /\ t[6] \in Bytes /\ t[7] \in Bytes
  <1>1. t \in [1 .. 7 -> Bytes]
    BY LenProperties
  <1> QED BY <1>1

\* The recursion in Encrypted has a solution: each byte is combined with the one before it.
LEMMA EncryptedIs ==
  ASSUME NEW t \in Seq(Bytes), Len(t) = 7
  PROVE  /\ Encrypted(t) \in [1 .. 7 -> Bytes]
         /\ Encrypted(t)[1] = t[1]
         /\ \A i \in 2 .. 7 : Encrypted(t)[i] = Xor(t[i], Encrypted(t)[i - 1])
  <1> DEFINE Body(f) == [i \in 1 .. Len(t) |-> IF i = 1 THEN t[1] ELSE Xor(t[i], f[i - 1])]
             e == CHOOSE f : f = Body(f)
             e1 == t[1]
             e2 == Xor(t[2], e1)
             e3 == Xor(t[3], e2)
             e4 == Xor(t[4], e3)
             e5 == Xor(t[5], e4)
             e6 == Xor(t[6], e5)
             e7 == Xor(t[7], e6)
             w == [i \in 1 .. 7 |-> CASE i = 1 -> e1 [] i = 2 -> e2 [] i = 3 -> e3 [] i = 4 -> e4
                                      [] i = 5 -> e5 [] i = 6 -> e6 [] i = 7 -> e7]
  <1> HIDE DEF e1, e2, e3, e4, e5, e6, e7
  <1>1. w = Body(w)
    <2>1. \A i \in 1 .. 7 : w[i] = IF i = 1 THEN t[1] ELSE Xor(t[i], w[i - 1])
      <3> SUFFICES ASSUME NEW i \in 1 .. 7 PROVE w[i] = IF i = 1 THEN t[1] ELSE Xor(t[i], w[i - 1])
        OBVIOUS
      <3>1. CASE i = 1 
        BY <3>1 DEF e1
      <3>2. CASE i = 2 
        BY <3>2 DEF e2
      <3>3. CASE i = 3 
        BY <3>3 DEF e3
      <3>4. CASE i = 4 
        BY <3>4 DEF e4
      <3>5. CASE i = 5 
        BY <3>5 DEF e5
      <3>6. CASE i = 6 
        BY <3>6 DEF e6
      <3>7. CASE i = 7 
        BY <3>7 DEF e7
      <3> QED BY <3>1, <3>2, <3>3, <3>4, <3>5, <3>6, <3>7
    <2> QED BY <2>1
  <1>2. e = Body(e)
    <2> HIDE DEF w, Body
    <2> QED BY <1>1, Zenon
  <1>3. Encrypted(t) = [i \in 1 .. Len(t) |-> e[i]]
    BY DEF Encrypted
  <1> HIDE DEF e
  <1>4. /\ e[1] = t[1] /\ e[2] = Xor(t[2], e[1]) /\ e[3] = Xor(t[3], e[2]) /\ e[4] = Xor(t[4], e[3])
        /\ e[5] = Xor(t[5], e[4]) /\ e[6] = Xor(t[6], e[5]) /\ e[7] = Xor(t[7], e[6])
    BY <1>2
  <1>5. /\ e[1] \in Bytes /\ e[2] \in Bytes /\ e[3] \in Bytes /\ e[4] \in Bytes
        /\ e[5] \in Bytes /\ e[6] \in Bytes /\ e[7] \in Bytes
    <2>1. \A a, b \in Bytes : Xor(a, b) \in Bytes
      BY XorBits
    <2>2. /\ t[1] \in Bytes /\ t[2] \in Bytes /\ t[3] \in Bytes /\ t[4] \in Bytes
          /\ t[5] \in Bytes /\ t[6] \in Bytes /\ t[7] \in Bytes
      BY SevenBytes
    <2>3. e[1] \in Bytes /\ e[2] \in Bytes /\ e[3] \in Bytes /\ e[4] \in Bytes
      BY <1>4, <2>1, <2>2
    <2> QED BY <1>4, <2>1, <2>2, <2>3
  <1>6. \A i \in 1 .. 7 : e[i] \in Bytes
    BY <1>5
  <1>7. \A i \in 2 .. 7 : e[i] = Xor(t[i], e[i - 1])
    BY <1>2
  <1> HIDE DEF Body
  <1>8. Encrypted(t) = [i \in 1 .. 7 |-> e[i]]
    BY <1>3, Zenon
  <1> HIDE DEF Body
  <1> QED BY <1>4, <1>6, <1>7, <1>8

\* ReceiveCommand undoes the scrambling of ExecuteCommand.
LEMMA DecryptedEncrypted ==
  ASSUME NEW t \in Seq(Bytes), Len(t) = 7
  PROVE  /\ Decrypted(Encrypted(t)) = t
         /\ Encrypted(t) \in Seq(Bytes) /\ Len(Encrypted(t)) = 7
  <1> DEFINE e == Encrypted(t)
  <1>1. /\ e \in [1 .. 7 -> Bytes]
        /\ e[1] = t[1]
        /\ \A i \in 2 .. 7 : e[i] = Xor(t[i], e[i - 1])
    BY EncryptedIs
  <1>2. t \in [1 .. 7 -> Bytes]
    BY SevenBytes
  <1> HIDE DEF e
  <1>3. e \in Seq(Bytes) /\ Len(e) = 7
    <2> e = [i \in 1 .. 7 |-> e[i]]
      BY <1>1
    <2>1. e \in Seq(Bytes)
      BY <1>1
    <2>2. DOMAIN e = 1 .. 7
      BY <1>1
    <2>3. Len(e) \in Nat /\ DOMAIN e = 1 .. Len(e)
      BY <2>1, LenProperties
    <2> QED BY <2>1, <2>2, <2>3
  <1>4. \A i \in 2 .. 7 : Xor(e[i], e[i - 1]) = t[i]
    <2> SUFFICES ASSUME NEW i \in 2 .. 7 PROVE Xor(e[i], e[i - 1]) = t[i]
      OBVIOUS
    <2>1. t[i] \in Bytes /\ e[i - 1] \in Bytes /\ e[i] = Xor(t[i], e[i - 1])
      BY <1>1, <1>2
    <2>2. Xor(Xor(t[i], e[i - 1]), e[i - 1]) = t[i]
      BY <2>1, XorTwice
    <2> QED BY <2>1, <2>2
  <1>5. Decrypted(e) = [i \in 1 .. 7 |-> IF i = 1 THEN e[1] ELSE Xor(e[i], e[i - 1])]
    BY <1>3 DEF Decrypted
  <1>6. Decrypted(e) = [i \in 1 .. 7 |-> t[i]]
    <2>1. \A i \in 1 .. 7 : (IF i = 1 THEN e[1] ELSE Xor(e[i], e[i - 1])) = t[i]
      BY <1>1, <1>4
    <2> QED BY <1>5, <2>1
  <1> QED BY <1>2, <1>3, <1>6 DEF e

\* The recursion in Checksum has a solution: the nibbles are combined byte by byte.
Nibbles(b) == Xor(b, b \div 16)

LEMMA NibblesIs ==
  ASSUME NEW b \in Bytes
  PROVE  b \div 16 \in Bytes /\ Nibbles(b) \in Bytes
  <1>1. b \div 16 \in Bytes
    BY DEF Bytes
  <1> QED BY <1>1, XorBits, Zenon DEF Nibbles

LEMMA ChecksumIs ==
  ASSUME NEW t \in Seq(Bytes), Len(t) = 7
  PROVE  \E sum \in [0 .. 7 -> Bytes] :
           /\ sum[0] = 0
           /\ \A i \in 1 .. 7 : sum[i] = Xor(sum[i - 1], Nibbles(t[i]))
           /\ Checksum(t) = sum[7] % 16
  <1> DEFINE x(i) == Xor(t[i], t[i] \div 16)
             Body(f) == [i \in 0 .. Len(t) |-> IF i = 0 THEN 0 ELSE Xor(f[i - 1], x(i))]
             sum == CHOOSE f : f = Body(f)
             s1 == Xor(0, x(1))
             s2 == Xor(s1, x(2))
             s3 == Xor(s2, x(3))
             s4 == Xor(s3, x(4))
             s5 == Xor(s4, x(5))
             s6 == Xor(s5, x(6))
             s7 == Xor(s6, x(7))
             w == [i \in 0 .. 7 |-> CASE i = 0 -> 0 [] i = 1 -> s1 [] i = 2 -> s2 [] i = 3 -> s3
                                      [] i = 4 -> s4 [] i = 5 -> s5 [] i = 6 -> s6 [] i = 7 -> s7]
  <1> HIDE DEF s1, s2, s3, s4, s5, s6, s7, x
  <1>1. w = Body(w)
    <2>1. \A i \in 0 .. 7 : w[i] = IF i = 0 THEN 0 ELSE Xor(w[i - 1], x(i))
      <3> SUFFICES ASSUME NEW i \in 0 .. 7 PROVE w[i] = IF i = 0 THEN 0 ELSE Xor(w[i - 1], x(i))
        OBVIOUS
      <3>1. CASE i = 0
        BY <3>1
      <3>2. CASE i = 1
        BY <3>2 DEF s1
      <3>3. CASE i = 2
        BY <3>3 DEF s2
      <3>4. CASE i = 3
        BY <3>4 DEF s3
      <3>5. CASE i = 4
        BY <3>5 DEF s4
      <3>6. CASE i = 5
        BY <3>6 DEF s5
      <3>7. CASE i = 6
        BY <3>7 DEF s6
      <3>8. CASE i = 7
        BY <3>8 DEF s7
      <3> QED BY <3>1, <3>2, <3>3, <3>4, <3>5, <3>6, <3>7, <3>8
    <2> QED BY <2>1
  <1>2. sum = Body(sum)
    <2> HIDE DEF w, Body
    <2> QED BY <1>1, Zenon
  <1>3. Checksum(t) = sum[Len(t)] % 16
    BY Zenon DEF Checksum, x
  <1> HIDE DEF sum
  <1>4. /\ sum[0] = 0 /\ sum[1] = Xor(sum[0], x(1)) /\ sum[2] = Xor(sum[1], x(2))
        /\ sum[3] = Xor(sum[2], x(3)) /\ sum[4] = Xor(sum[3], x(4)) /\ sum[5] = Xor(sum[4], x(5))
        /\ sum[6] = Xor(sum[5], x(6)) /\ sum[7] = Xor(sum[6], x(7))
    BY <1>2
  <1> HIDE DEF Body
  <1>5. \A i \in 1 .. 7 : x(i) \in Bytes /\ x(i) = Nibbles(t[i])
    <2>1. t \in [1 .. 7 -> Bytes]
      BY SevenBytes
    <2> QED BY <2>1, NibblesIs, Zenon DEF x, Nibbles
  <1>6. /\ sum[0] \in Bytes /\ sum[1] \in Bytes /\ sum[2] \in Bytes /\ sum[3] \in Bytes
        /\ sum[4] \in Bytes /\ sum[5] \in Bytes /\ sum[6] \in Bytes /\ sum[7] \in Bytes
    <2>1. \A a, b \in Bytes : Xor(a, b) \in Bytes
      BY XorBits
    <2>2. 0 \in Bytes
      BY DEF Bytes
    <2>3. sum[0] \in Bytes /\ sum[1] \in Bytes /\ sum[2] \in Bytes /\ sum[3] \in Bytes
      BY <1>4, <1>5, <2>1, <2>2
    <2> QED BY <1>4, <1>5, <2>1, <2>3
  <1> DEFINE whole == [i \in 0 .. 7 |-> sum[i]]
  <1>7. \A i \in 0 .. 7 : sum[i] \in Bytes
    BY <1>6
  <1>8. \A i \in 1 .. 7 : sum[i] = Xor(sum[i - 1], x(i))
    BY <1>4
  <1>9. whole \in [0 .. 7 -> Bytes] /\ whole[0] = 0 /\ whole[7] = sum[7]
    BY <1>4, <1>7
  <1>10. \A i \in 1 .. 7 : whole[i] = Xor(whole[i - 1], Nibbles(t[i]))
    BY <1>5, <1>8
  <1>11. Checksum(t) = whole[7] % 16
    BY <1>3, <1>9, Zenon
  <1> HIDE DEF whole
  <1> QED BY <1>9, <1>10, <1>11

\* The checksum is a nibble.
LEMMA ChecksumIsNibble ==
  ASSUME NEW t \in Seq(Bytes), Len(t) = 7
  PROVE  Checksum(t) \in 0 .. 15
  <1>1. PICK s \in Bytes : Checksum(t) = s % 16
    BY ChecksumIs
  <1>2. s % 16 \in 0 .. 15
    BY DEF Bytes
  <1> QED BY <1>1, <1>2

\* The bytes of a packet, before the checksum is added, and what they are read as.
LEMMA ClearIs ==
  ASSUME NEW c \in Packet
  PROVE  /\ Clear(c) \in Seq(Bytes) /\ Len(Clear(c)) = 7
         /\ Clear(c)[2] = c.button * 16
         /\ Code(Clear(c)) = c.code
         /\ Clear(c)[5] * 65536 + Clear(c)[6] * 256 + Clear(c)[7] = c.remote
  <1>1. c.remote \in 0 .. MaxId /\ c.code \in 0 .. MaxCode /\ c.button \in 0 .. 15
    BY DEF Packet
  <1> DEFINE n == c.remote
             m == c.code
             b2 == c.button * 16
             b3 == m \div 256
             b4 == m % 256
             b5 == (n \div 65536) % 256
             b6 == (n \div 256) % 256
             b7 == n % 256
  <1>2. Clear(c) = <<Key, b2, b3, b4, b5, b6, b7>>
    BY SMT DEF Clear
  <1>3. b2 \in Bytes
    BY <1>1, SMT DEF Bytes
  <1> HIDE DEF n, m
  <1>4. n \in Nat /\ n <= MaxId /\ m \in Nat /\ m <= MaxCode
    <2>1. MaxId \in Nat /\ MaxCode \in Nat
      BY SMT DEF MaxId, MaxCode
    <2> QED BY <1>1, <2>1 DEF n, m
  <1>5. b3 \in Bytes /\ b4 \in Bytes /\ b3 * 256 + b4 = m
    BY <1>4, SMT DEF MaxCode, Bytes
  <1>6. /\ b5 \in Bytes /\ b6 \in Bytes /\ b7 \in Bytes
        /\ b5 * 65536 + b6 * 256 + b7 = n
    BY <1>4, SMT DEF MaxId, Bytes
  <1>7. Key \in Bytes
    BY SMT DEF Key, Bytes
  <1> HIDE DEF b2, b3, b4, b5, b6, b7
  <1>8. Clear(c) \in Seq(Bytes) /\ Len(Clear(c)) = 7
    BY <1>2, <1>3, <1>5, <1>6, <1>7, SMT
  <1>9. Clear(c)[2] = c.button * 16
    BY <1>2, SMT DEF b2
  <1>10. Code(Clear(c)) = c.code
    BY <1>2, <1>5, SMT DEF Code, m
  <1>11. Clear(c)[5] * 65536 + Clear(c)[6] * 256 + Clear(c)[7] = c.remote
    BY <1>2, <1>6, SMT DEF n
  <1> QED BY <1>8, <1>9, <1>10, <1>11, SMT

\* The round trip: what ExecuteCommand sends, ReceiveCommand takes for the same
\* command, if it is one of the three it knows, and otherwise for none.
THEOREM DecodeEncode ==
  ASSUME NEW c \in Packet
  PROVE  Decode(Encode(c)) = (IF c.button \in {Up, Down, My} THEN c ELSE NotACommand)
  <1> DEFINE k == Checksum(Clear(c))
             t == [Clear(c) EXCEPT ![2] = @ + k]
             d == Decrypted(Encode(c))
             clear == [d EXCEPT ![2] = (@ \div 16) * 16]
             r == [remote |-> d[5] * 65536 + d[6] * 256 + d[7],
                   code |-> Code(d), button |-> d[2] \div 16]
  <1>1. k \in 0 .. 15
    BY ClearIs, ChecksumIsNibble, SMT
  <1>2. c.button \in 0 .. 15
    BY DEF Packet
  <1>3. /\ Clear(c) \in [1 .. 7 -> Bytes] /\ Clear(c)[2] = c.button * 16
    BY ClearIs, SevenBytes, SMT
  <1> HIDE DEF k
  <1>4. \A b, n \in 0 .. 15 : b * 16 + n \in Bytes
    BY DEF Bytes
  <1>5. t \in Seq(Bytes) /\ Len(t) = 7
    <2>1. Clear(c)[2] + k \in Bytes
      BY <1>1, <1>2, <1>3, <1>4, Zenon
    <2> QED BY <2>1, ClearIs, ExceptSeq, SMT
  <1>6. d = t
    <2>1. Encode(c) = Encrypted(t)
      BY DEF Encode, k
    <2> HIDE DEF t
    <2>2. Decrypted(Encrypted(t)) = t
      BY <1>5, DecryptedEncrypted, Zenon
    <2> QED BY <2>1, <2>2, Zenon
  <1>7. /\ t[2] = c.button * 16 + k
        /\ \A i \in 1 .. 7 : i # 2 => t[i] = Clear(c)[i]
    BY <1>3
  <1>8. d[2] \div 16 = c.button /\ d[2] % 16 = k
    <2>1. \A b, n \in 0 .. 15 : (b * 16 + n) \div 16 = b /\ (b * 16 + n) % 16 = n
      OBVIOUS
    <2>2. d[2] = c.button * 16 + k
      BY <1>6, <1>7, Zenon
    <2> HIDE DEF d
    <2> QED BY <1>1, <1>2, <2>1, <2>2
  <1>9. clear = Clear(c)
    <2>1. clear = [t EXCEPT ![2] = c.button * 16]
      <3>1. clear = [t EXCEPT ![2] = (t[2] \div 16) * 16]
        BY <1>6
      <3>2. t[2] \div 16 = c.button
        BY <1>6, <1>8, Zenon
      <3> QED BY <3>1, <3>2, Zenon
    <2>2. t = [Clear(c) EXCEPT ![2] = t[2]]
      BY <1>3
    <2>3. DOMAIN t = 1 .. 7
      BY <1>3
    <2> HIDE DEF t, clear, d
    <2> QED BY <1>3, <1>7, <2>1, <2>2, <2>3
  <1>10. r = c
    <2>1. d[5] = Clear(c)[5] /\ d[6] = Clear(c)[6] /\ d[7] = Clear(c)[7] /\ Code(d) = Code(Clear(c))
      <3> HIDE DEF d, t
      <3> QED BY <1>6, <1>7 DEF Code
    <2>2. d[5] * 65536 + d[6] * 256 + d[7] = c.remote /\ Code(d) = c.code
      BY <2>1, ClearIs, SMT
    <2>3. c = [remote |-> c.remote, code |-> c.code, button |-> c.button]
      BY DEF Packet
    <2> HIDE DEF d
    <2> QED BY <1>8, <2>2, <2>3, SMT
  <1>11. Checksum(clear) = d[2] % 16
    BY <1>8, <1>9, Zenon DEF k
  <1>12. Decode(Encode(c)) = (IF Checksum(clear) = d[2] % 16 /\ r.button \in {Up, Down, My} THEN r
                              ELSE NotACommand)
    BY SMT DEF Decode
  <1> HIDE DEF d, clear, r
  <1> QED BY <1>10, <1>11, <1>12, Zenon

\* A packet is seven bytes.
LEMMA EncodeIs ==
  ASSUME NEW c \in Packet
  PROVE  Encode(c) \in Seq(Bytes) /\ Len(Encode(c)) = 7
  <1> DEFINE k == Checksum(Clear(c))
             t == [Clear(c) EXCEPT ![2] = @ + k]
  <1>1. k \in 0 .. 15
    BY ClearIs, ChecksumIsNibble, SMT
  <1>2. c.button \in 0 .. 15
    BY DEF Packet
  <1> HIDE DEF k
  <1>3. Clear(c)[2] + k \in Bytes
    <2>1. \A b, n \in 0 .. 15 : b * 16 + n \in Bytes
      BY DEF Bytes
    <2>2. Clear(c)[2] = c.button * 16
      BY ClearIs, SMT
    <2> QED BY <1>1, <1>2, <2>1, <2>2, Zenon
  <1>4. t \in Seq(Bytes) /\ Len(t) = 7
    BY <1>3, ClearIs, ExceptSeq, SMT
  <1>5. Encode(c) = Encrypted(t)
    BY DEF Encode, k
  <1> HIDE DEF t
  <1> QED BY <1>4, <1>5, DecryptedEncrypted, Zenon
\* Bits, and the two halves of a byte.
LEMMA BitIs ==
  ASSUME NEW a \in Bytes, NEW k \in Weights
  PROVE  Bit(a, k) \in {0, 1}
  <1>1. PICK p \in Nat : p = a \div k
    BY DEF Bytes, Weights
  <1>2. p % 2 \in {0, 1}
    OBVIOUS
  <1> QED BY <1>1, <1>2 DEF Bit

LEMMA XorBit ==
  ASSUME NEW a \in Bytes, NEW b \in Bytes, NEW k \in Weights
  PROVE  Bit(Xor(a, b), k) = IF Bit(a, k) = Bit(b, k) THEN 0 ELSE 1
  <1>1. PICK p \in Nat, q \in Nat : p = a \div k /\ q = b \div k
    <2>1. \A x \in Bytes : x \div k \in Nat
      BY DEF Bytes, Weights
    <2> QED BY <2>1
  <1>2. Bit(Xor(a, b), k) = (p + q) % 2
    BY <1>1, XorBits DEF BitSum
  <1>3. (p + q) % 2 = IF p % 2 = q % 2 THEN 0 ELSE 1
    OBVIOUS
  <1> QED BY <1>1, <1>2, <1>3 DEF Bit

Low(a)  == a % 16
High(a) == a \div 16
Top(a)  == (a \div 16) * 16

LEMMA HalvesAreBytes ==
  ASSUME NEW a \in Bytes
  PROVE  Low(a) \in Bytes /\ High(a) \in Bytes /\ Top(a) \in Bytes
  BY DEF Bytes, Low, High, Top

LEMMA LowBits ==
  ASSUME NEW a \in Bytes
  PROVE  /\ Bit(Low(a), 1) = Bit(a, 1) /\ Bit(Low(a), 2) = Bit(a, 2)
         /\ Bit(Low(a), 4) = Bit(a, 4) /\ Bit(Low(a), 8) = Bit(a, 8)
         /\ Bit(Low(a), 16) = 0 /\ Bit(Low(a), 32) = 0
         /\ Bit(Low(a), 64) = 0 /\ Bit(Low(a), 128) = 0
  <1>1. Bit(Low(a), 1) = Bit(a, 1) /\ Bit(Low(a), 2) = Bit(a, 2)
    BY DEF Bytes, Low, Bit
  <1>2. Bit(Low(a), 4) = Bit(a, 4) /\ Bit(Low(a), 8) = Bit(a, 8)
    BY DEF Bytes, Low, Bit
  <1>3. Bit(Low(a), 16) = 0 /\ Bit(Low(a), 32) = 0
    BY DEF Bytes, Low, Bit
  <1>4. Bit(Low(a), 64) = 0 /\ Bit(Low(a), 128) = 0
    BY DEF Bytes, Low, Bit
  <1> QED BY <1>1, <1>2, <1>3, <1>4

LEMMA HighBits ==
  ASSUME NEW a \in Bytes
  PROVE  /\ Bit(High(a), 1) = Bit(a, 16) /\ Bit(High(a), 2) = Bit(a, 32)
         /\ Bit(High(a), 4) = Bit(a, 64) /\ Bit(High(a), 8) = Bit(a, 128)
         /\ Bit(High(a), 16) = 0 /\ Bit(High(a), 32) = 0
         /\ Bit(High(a), 64) = 0 /\ Bit(High(a), 128) = 0
  <1>1. Bit(High(a), 1) = Bit(a, 16) /\ Bit(High(a), 2) = Bit(a, 32)
    BY DEF Bytes, High, Bit
  <1>2. Bit(High(a), 4) = Bit(a, 64) /\ Bit(High(a), 8) = Bit(a, 128)
    BY DEF Bytes, High, Bit
  <1>3. Bit(High(a), 16) = 0 /\ Bit(High(a), 32) = 0
    BY DEF Bytes, High, Bit
  <1>4. Bit(High(a), 64) = 0 /\ Bit(High(a), 128) = 0
    BY DEF Bytes, High, Bit
  <1> QED BY <1>1, <1>2, <1>3, <1>4

LEMMA TopIs ==
  ASSUME NEW a \in Bytes
  PROVE  High(Top(a)) = High(a) /\ Top(a) = Xor(a, Low(a))
  <1>1. High(Top(a)) = High(a) /\ a = Top(a) + Low(a)
    BY DEF Bytes, High, Top, Low
  <1>2. /\ Bit(Top(a), 1) = 0 /\ Bit(Top(a), 2) = 0 /\ Bit(Top(a), 4) = 0 /\ Bit(Top(a), 8) = 0
    BY DEF Bytes, Top, Bit
  <1>3. /\ Bit(Top(a), 16) = Bit(a, 16) /\ Bit(Top(a), 32) = Bit(a, 32)
        /\ Bit(Top(a), 64) = Bit(a, 64) /\ Bit(Top(a), 128) = Bit(a, 128)
    BY DEF Bytes, Top, Bit
  <1>4. ASSUME NEW k \in Weights PROVE Bit(Xor(a, Low(a)), k) = Bit(Top(a), k)
    <2>1. Bit(Xor(a, Low(a)), k) = IF Bit(a, k) = Bit(Low(a), k) THEN 0 ELSE 1
      BY XorBit, HalvesAreBytes
    <2>2. CASE k \in {1, 2, 4, 8}
      BY <1>2, <2>1, <2>2, LowBits
    <2>3. CASE k \in {16, 32, 64, 128}
      <3>1. Bit(Low(a), k) = 0 /\ Bit(Top(a), k) = Bit(a, k)
        BY <1>3, <2>3, LowBits
      <3> QED BY <2>1, <3>1, BitIs
    <2> QED BY <2>2, <2>3 DEF Weights
  <1>5. Xor(a, Low(a)) \in Bytes /\ Top(a) \in Bytes
    BY XorBits, HalvesAreBytes
  <1> QED BY <1>1, <1>4, <1>5, SameBits

\* What is combined with a byte and then with another in its place.
LEMMA Telescope ==
  ASSUME NEW u \in Bytes, NEW v \in Bytes, NEW l \in Bytes
  PROVE  Xor(Xor(u, l), Xor(v, u)) = Xor(v, l)
  <1>1. PICK x \in Bytes, y \in Bytes : x = Xor(u, l) /\ y = Xor(v, u)
    BY XorBits
  <1>2. ASSUME NEW k \in Weights PROVE Bit(Xor(x, y), k) = Bit(Xor(v, l), k)
    BY <1>1, BitIs, XorBit
  <1>3. Xor(x, y) \in Bytes /\ Xor(v, l) \in Bytes
    BY XorBits
  <1> QED BY <1>1, <1>2, <1>3, SameBits

LEMMA TelescopeFirst ==
  ASSUME NEW u \in Bytes, NEW v \in Bytes, NEW l \in Bytes
  PROVE  Xor(u, Xor(Xor(v, u), l)) = Xor(v, l)
  <1>1. PICK x \in Bytes, y \in Bytes : x = Xor(v, u) /\ y = Xor(x, l)
    BY XorBits
  <1>2. ASSUME NEW k \in Weights PROVE Bit(Xor(u, y), k) = Bit(Xor(v, l), k)
    BY <1>1, BitIs, XorBit
  <1>3. Xor(u, y) \in Bytes /\ Xor(v, l) \in Bytes
    BY XorBits
  <1> QED BY <1>1, <1>2, <1>3, SameBits

LEMMA ZeroXor ==
  ASSUME NEW a \in Bytes
  PROVE  0 \in Bytes /\ Xor(0, a) = a
  <1>1. 0 \in Bytes /\ \A k \in Weights : Bit(0, k) = 0
    BY DEF Bytes, Weights, Bit
  <1>2. ASSUME NEW k \in Weights PROVE Bit(Xor(0, a), k) = Bit(a, k)
    BY <1>1, BitIs, XorBit
  <1> QED BY <1>1, <1>2, XorBits, SameBits

LEMMA XorSwap ==
  ASSUME NEW a \in Bytes, NEW b \in Bytes, NEW c \in Bytes
  PROVE  Xor(Xor(a, b), c) = Xor(Xor(a, c), b)
  <1>1. PICK x \in Bytes, y \in Bytes : x = Xor(a, b) /\ y = Xor(a, c)
    BY XorBits
  <1>2. ASSUME NEW k \in Weights PROVE Bit(Xor(x, c), k) = Bit(Xor(y, b), k)
    <2>1. Bit(a, k) \in {0, 1} /\ Bit(b, k) \in {0, 1} /\ Bit(c, k) \in {0, 1}
      BY BitIs
    <2>2. /\ Bit(x, k) = IF Bit(a, k) = Bit(b, k) THEN 0 ELSE 1
          /\ Bit(y, k) = IF Bit(a, k) = Bit(c, k) THEN 0 ELSE 1
      BY <1>1, XorBit
    <2>3. /\ Bit(Xor(x, c), k) = IF Bit(x, k) = Bit(c, k) THEN 0 ELSE 1
          /\ Bit(Xor(y, b), k) = IF Bit(y, k) = Bit(b, k) THEN 0 ELSE 1
      BY XorBit
    <2> QED BY <2>1, <2>2, <2>3
  <1>3. Xor(x, c) \in Bytes /\ Xor(y, b) \in Bytes
    BY XorBits
  <1> QED BY <1>1, <1>2, <1>3, SameBits

LEMMA HighXor ==
  ASSUME NEW a \in Bytes, NEW b \in Bytes
  PROVE  High(Xor(a, b)) = Xor(High(a), High(b))
  <1>1. PICK c \in Bytes : c = Xor(a, b)
    BY XorBits
  <1>2. High(c) \in Bytes /\ Xor(High(a), High(b)) \in Bytes /\ High(a) \in Bytes /\ High(b) \in Bytes
    BY HalvesAreBytes, XorBits
  <1>3. ASSUME NEW k \in Weights PROVE Bit(Xor(High(a), High(b)), k) = Bit(High(c), k)
    BY <1>1, <1>2, XorBit, HighBits DEF Weights
  <1> QED BY <1>1, <1>2, <1>3, SameBits

LEMMA NibblesXor ==
  ASSUME NEW a \in Bytes, NEW b \in Bytes
  PROVE  Nibbles(Xor(a, b)) = Xor(Nibbles(a), Nibbles(b))
  <1>1. PICK c \in Bytes, h \in Bytes, i \in Bytes, j \in Bytes :
          c = Xor(a, b) /\ h = High(a) /\ i = High(b) /\ j = Xor(h, i)
    BY XorBits, HalvesAreBytes
  <1>2. Nibbles(a) = Xor(a, h) /\ Nibbles(b) = Xor(b, i) /\ Nibbles(c) = Xor(c, j)
    BY <1>1, HighXor DEF Nibbles, High
  <1>3. PICK x \in Bytes, y \in Bytes : x = Xor(a, h) /\ y = Xor(b, i)
    BY XorBits
  <1>4. ASSUME NEW k \in Weights PROVE Bit(Xor(x, y), k) = Bit(Xor(c, j), k)
    BY <1>1, <1>3, BitIs, XorBit
  <1>5. Xor(x, y) \in Bytes /\ Xor(c, j) \in Bytes
    BY XorBits
  <1>6. Xor(x, y) = Xor(c, j)
    BY <1>4, <1>5, SameBits
  <1> QED BY <1>1, <1>2, <1>3, <1>6

\* Taking the checksum out of a byte.
LEMMA NibblesTop ==
  ASSUME NEW a \in Bytes
  PROVE  Nibbles(Top(a)) = Xor(Nibbles(a), Low(a))
  <1>1. PICK l \in Bytes, t \in Bytes, h \in Bytes :
          l = Low(a) /\ t = Top(a) /\ h = High(a) /\ h = High(t) /\ t = Xor(a, l)
    BY HalvesAreBytes, TopIs
  <1>2. Nibbles(t) = Xor(t, h) /\ Nibbles(a) = Xor(a, h)
    BY <1>1 DEF Nibbles, High
  <1>3. Xor(Xor(a, l), h) = Xor(Xor(a, h), l)
    BY XorSwap
  <1> QED BY <1>1, <1>2, <1>3

\* A nibble is left as it was exactly by a byte of two equal halves.
LEMMA EqualHalves ==
  ASSUME NEW v \in Bytes, NEW a \in Bytes
  PROVE  Low(Xor(Nibbles(v), Low(a))) = Low(a) <=> High(v) = Low(v)
  <1>1. PICK h \in Bytes, l \in Bytes, n \in Bytes, x \in Bytes, y \in Bytes, m \in Bytes :
          /\ h = High(v) /\ l = Low(v) /\ n = Xor(v, h) /\ m = Low(a)
          /\ x = Xor(n, m) /\ y = Low(x)
    BY HalvesAreBytes, XorBits
  <1>2. Nibbles(v) = n
    BY <1>1 DEF Nibbles, High
  <1>3. ASSUME h = l PROVE y = m
    <2>1. ASSUME NEW k \in {1, 2, 4, 8} PROVE Bit(y, k) = Bit(m, k)
      <3>1. k \in Weights
        BY DEF Weights
      <3>2. Bit(y, k) = Bit(x, k) /\ Bit(h, k) = Bit(v, k)
        BY <1>1, <1>3, LowBits
      <3>3. /\ Bit(x, k) = IF Bit(n, k) = Bit(m, k) THEN 0 ELSE 1
            /\ Bit(n, k) = IF Bit(v, k) = Bit(h, k) THEN 0 ELSE 1
        BY <1>1, <3>1, XorBit
      <3>4. Bit(m, k) \in {0, 1}
        BY <3>1, BitIs
      <3> QED BY <3>2, <3>3, <3>4
    <2>2. ASSUME NEW k \in {16, 32, 64, 128} PROVE Bit(y, k) = Bit(m, k)
      BY <1>1, LowBits
    <2> QED BY <2>1, <2>2, SameBits DEF Weights
  <1>4. ASSUME y = m PROVE h = l
    <2>1. ASSUME NEW k \in {1, 2, 4, 8} PROVE Bit(h, k) = Bit(l, k)
      <3>1. k \in Weights
        BY DEF Weights
      <3>2. Bit(x, k) = Bit(m, k) /\ Bit(l, k) = Bit(v, k)
        <4>1. \A b \in Bytes : Bit(Low(b), k) = Bit(b, k)
          BY LowBits
        <4> QED BY <1>1, <1>4, <4>1
      <3>3. /\ Bit(x, k) = IF Bit(n, k) = Bit(m, k) THEN 0 ELSE 1
            /\ Bit(n, k) = IF Bit(v, k) = Bit(h, k) THEN 0 ELSE 1
        BY <1>1, <3>1, XorBit
      <3>4. Bit(m, k) \in {0, 1}
        BY <3>1, BitIs
      <3> QED BY <3>2, <3>3, <3>4
    <2>2. ASSUME NEW k \in {16, 32, 64, 128} PROVE Bit(h, k) = Bit(l, k)
      BY <1>1, LowBits, HighBits
    <2> QED BY <2>1, <2>2, SameBits DEF Weights
  <1> QED BY <1>1, <1>2, <1>3, <1>4

LEMMA DecryptedIs ==
  ASSUME NEW p \in Seq(Bytes), Len(p) = 7
  PROVE  /\ Decrypted(p) \in [1 .. 7 -> Bytes]
         /\ Decrypted(p)[1] = p[1]
         /\ \A i \in 2 .. 7 : Decrypted(p)[i] = Xor(p[i], p[i - 1])
  <1>1. p \in [1 .. 7 -> Bytes]
    BY SevenBytes
  <1>2. Decrypted(p) = [i \in 1 .. 7 |-> IF i = 1 THEN p[1] ELSE Xor(p[i], p[i - 1])]
    BY DEF Decrypted
  <1>3. ASSUME NEW i \in 2 .. 7 PROVE Xor(p[i], p[i - 1]) \in Bytes
    <2>1. p[i] \in Bytes /\ p[i - 1] \in Bytes
      BY <1>1
    <2> QED BY <2>1, XorBits
  <1> QED BY <1>1, <1>2, <1>3

\* What is unscrambled to the same bytes is the same packet.
LEMMA DecryptedSame ==
  ASSUME NEW p \in Seq(Bytes), Len(p) = 7, NEW q \in Seq(Bytes), Len(q) = 7,
         Decrypted(p) = Decrypted(q)
  PROVE  p = q
  <1>1. p \in [1 .. 7 -> Bytes] /\ q \in [1 .. 7 -> Bytes]
    BY SevenBytes
  <1>2. p[1] = q[1] /\ \A i \in 2 .. 7 : Xor(p[i], p[i - 1]) = Xor(q[i], q[i - 1])
    BY DecryptedIs
  <1>3. ASSUME NEW i \in 2 .. 7, p[i - 1] = q[i - 1] PROVE p[i] = q[i]
    <2>1. PICK a \in Bytes, b \in Bytes, x \in Bytes : a = p[i] /\ b = q[i] /\ x = p[i - 1]
      BY <1>1
    <2>2. Xor(Xor(a, x), x) = a /\ Xor(Xor(b, x), x) = b
      BY XorTwice
    <2>3. Xor(a, x) = Xor(b, x)
      BY <1>2, <1>3, <2>1
    <2> QED BY <2>1, <2>2, <2>3
  <1>4. p[2] = q[2] /\ p[3] = q[3] /\ p[4] = q[4]
    <2>1. p[2] = q[2]
      BY <1>2, <1>3
    <2>2. p[3] = q[3]
      BY <1>3, <2>1
    <2> QED BY <1>3, <2>1, <2>2
  <1>5. p[5] = q[5] /\ p[6] = q[6] /\ p[7] = q[7]
    <2>1. p[5] = q[5]
      BY <1>3, <1>4
    <2>2. p[6] = q[6]
      BY <1>3, <2>1
    <2> QED BY <1>3, <2>1, <2>2
  <1>6. \A i \in 1 .. 7 : p[i] = q[i]
    BY <1>2, <1>4, <1>5
  <1> QED BY <1>1, <1>6

\* The checksum of a packet as it was sent: what ReceiveCommand compares.
ChecksumMatches(p) ==
  LET d == Decrypted(p)
  IN  Checksum([d EXCEPT ![2] = (@ \div 16) * 16]) = d[2] % 16

\* Each byte is unscrambled with the one before it, so in the sum over the
\* unscrambled bytes every byte of the packet but the last counts twice: what
\* ReceiveCommand checks is that the last byte has two equal halves, and that
\* is all that it checks.
THEOREM ChecksumSeesLastByte ==
  ASSUME NEW p \in Seq(Bytes), Len(p) = 7
  PROVE  ChecksumMatches(p) <=> p[7] \div 16 = p[7] % 16
  <1> DEFINE d  == Decrypted(p)
             cl == [d EXCEPT ![2] = (@ \div 16) * 16]
  <1>1. p \in [1 .. 7 -> Bytes]
    BY SevenBytes
  <1>2. ChecksumMatches(p) <=> Checksum(cl) = d[2] % 16
    BY DEF ChecksumMatches
  <1>3. d \in [1 .. 7 -> Bytes]
    BY DecryptedIs
  <1>4. d[1] = p[1] /\ \A i \in 2 .. 7 : d[i] = Xor(p[i], p[i - 1])
    BY DecryptedIs
  <1> HIDE DEF d
  <1>5. \A i \in 1 .. 7 : d[i] \in Bytes
    BY <1>3
  <1>6. /\ cl[2] = Top(d[2]) /\ \A i \in 1 .. 7 : i # 2 => cl[i] = d[i]
        /\ cl \in Seq(Bytes) /\ Len(cl) = 7
    <2>1. d[2] \in Bytes /\ Top(d[2]) \in Bytes
      BY <1>5, HalvesAreBytes
    <2>2. d \in [1 .. 7 -> Bytes]
      BY <1>3
    <2>3. cl = [d EXCEPT ![2] = Top(d[2])]
      BY DEF Top
    <2>4. cl \in [1 .. 7 -> Bytes]
      BY <2>1, <2>2, <2>3
    <2>5. cl \in Seq(Bytes) /\ Len(cl) = 7
      <3> HIDE DEF cl
      <3>1. cl = [i \in 1 .. 7 |-> cl[i]]
        BY <2>4
      <3>2. cl \in Seq(Bytes)
        BY <2>4, <3>1
      <3>3. DOMAIN cl = 1 .. 7
        BY <2>4
      <3>4. Len(cl) \in Nat /\ DOMAIN cl = 1 .. Len(cl)
        BY <3>2, LenProperties
      <3> QED BY <3>2, <3>3, <3>4
    <2> QED BY <2>2, <2>3, <2>5
  <1> HIDE DEF cl
  <1>7. PICK sum \in [0 .. 7 -> Bytes] :
          /\ sum[0] = 0
          /\ \A i \in 1 .. 7 : sum[i] = Xor(sum[i - 1], Nibbles(cl[i]))
          /\ Checksum(cl) = sum[7] % 16
    BY <1>6, ChecksumIs
  <1>8. PICK l \in Bytes : l = Low(d[2])
    BY <1>5, HalvesAreBytes
  <1> DEFINE n(i) == Nibbles(p[i])
  <1>9. \A i \in 1 .. 7 : n(i) \in Bytes
    BY <1>1, NibblesIs
  <1>10. ASSUME NEW i \in 2 .. 7 PROVE Nibbles(d[i]) = Xor(n(i), n(i - 1))
    <2>1. p[i] \in Bytes /\ p[i - 1] \in Bytes
      BY <1>1
    <2> QED BY <1>4, <2>1, NibblesXor
  <1>11. Nibbles(cl[2]) = Xor(Nibbles(d[2]), l)
    BY <1>5, <1>6, <1>8, NibblesTop
  <1> HIDE DEF n
  <1>12. sum[2] = Xor(n(2), l)
    <2>1. sum[1] = n(1)
      <3>1. Nibbles(cl[1]) = n(1)
        BY <1>4, <1>6 DEF n
      <3>2. sum[1] = Xor(0, n(1))
        BY <1>7, <3>1
      <3> QED BY <1>9, <3>2, ZeroXor
    <2>2. sum[2] = Xor(sum[1], Nibbles(cl[2]))
      BY <1>7
    <2>3. Nibbles(cl[2]) = Xor(Xor(n(2), n(1)), l)
      BY <1>10, <1>11
    <2>4. n(1) \in Bytes /\ n(2) \in Bytes
      BY <1>9
    <2> QED BY <2>1, <2>2, <2>3, <2>4, TelescopeFirst
  <1>13. ASSUME NEW i \in 3 .. 7, sum[i - 1] = Xor(n(i - 1), l) PROVE sum[i] = Xor(n(i), l)
    <2>1. sum[i] = Xor(sum[i - 1], Nibbles(d[i]))
      BY <1>6, <1>7
    <2>2. Nibbles(d[i]) = Xor(n(i), n(i - 1))
      BY <1>10
    <2>3. PICK u \in Bytes, v \in Bytes : u = n(i - 1) /\ v = n(i)
      BY <1>9
    <2> QED BY <1>13, <2>1, <2>2, <2>3, Telescope
  <1>14. sum[7] = Xor(n(7), l)
    <2>1. sum[3] = Xor(n(3), l)
      BY <1>12, <1>13
    <2>2. sum[4] = Xor(n(4), l)
      BY <1>13, <2>1
    <2>3. sum[5] = Xor(n(5), l)
      BY <1>13, <2>2
    <2>4. sum[6] = Xor(n(6), l)
      BY <1>13, <2>3
    <2> QED BY <1>13, <2>4
  <1>15. p[7] \in Bytes /\ d[2] \in Bytes
    BY <1>1, <1>5
  <1>16. Low(sum[7]) = Low(d[2]) <=> High(p[7]) = Low(p[7])
    BY <1>8, <1>14, <1>15, EqualHalves DEF n
  <1> QED BY <1>2, <1>7, <1>16 DEF Low, High

LEMMA DecodeIs ==
  ASSUME NEW p
  PROVE  LET d == Decrypted(p)
             c == [remote |-> d[5] * 65536 + d[6] * 256 + d[7], code |-> Code(d),
                   button |-> d[2] \div 16]
         IN  Decode(p) = IF ChecksumMatches(p) /\ c.button \in {Up, Down, My} THEN c ELSE NotACommand
  BY SMT DEF Decode, ChecksumMatches

LEMMA SameHalves ==
  ASSUME NEW a \in Bytes, NEW b \in Bytes, a \div 16 = b \div 16, a % 16 = b % 16
  PROVE  a = b
  BY DEF Bytes

\* Bytes are found again in the number they were put together to.
Two(x, y) == x * 256 + y
Three(x, y, z) == x * 65536 + y * 256 + z

LEMMA TwoIs ==
  ASSUME NEW x \in Bytes, NEW y \in Bytes
  PROVE  Two(x, y) \div 256 = x /\ Two(x, y) % 256 = y
  BY DEF Two, Bytes

LEMMA ThreeIs ==
  ASSUME NEW x \in Bytes, NEW y \in Bytes, NEW z \in Bytes
  PROVE  /\ Three(x, y, z) \div 65536 = x
         /\ (Three(x, y, z) \div 256) % 256 = y
         /\ Three(x, y, z) % 256 = z
  <1>1. Three(x, y, z) \div 65536 = x
    BY DEF Three, Bytes
  <1>2. (Three(x, y, z) \div 256) % 256 = y
    <2>1. Three(x, y, z) \div 256 = Two(x, y)
      BY DEF Three, Two, Bytes
    <2> QED BY <2>1, TwoIs
  <1>3. Three(x, y, z) % 256 = z
    BY DEF Three, Bytes
  <1> QED BY <1>1, <1>2, <1>3

\* What the check sees: a packet of a command with one half of its last byte
\* changed is dropped.
THEOREM DamageSeen ==
  ASSUME NEW c \in Packet, c.button \in {Up, Down, My},
         NEW q \in Seq(Bytes), Len(q) = 7, q[7] # Encode(c)[7],
         \/ q[7] \div 16 = Encode(c)[7] \div 16
         \/ q[7] % 16 = Encode(c)[7] % 16
  PROVE  Decode(q) = NotACommand
  <1>1. Encode(c) \in Seq(Bytes) /\ Len(Encode(c)) = 7
    BY EncodeIs
  <1>2. ChecksumMatches(Encode(c))
    <2>1. Decode(Encode(c)) = c
      BY DecodeEncode
    <2>2. c # NotACommand
      BY DEF NotACommand, Up, Down, My
    <2> QED BY <2>1, <2>2, DecodeIs
  <1>3. PICK a \in Bytes, b \in Bytes : a = Encode(c)[7] /\ b = q[7]
    BY <1>1, SevenBytes
  <1>4. a \div 16 = a % 16
    BY <1>1, <1>2, <1>3, ChecksumSeesLastByte
  <1>5. b \div 16 # b % 16
    <2>1. SUFFICES ASSUME b \div 16 = b % 16 PROVE FALSE
      OBVIOUS
    <2>2. b \div 16 = a \div 16 /\ b % 16 = a % 16
      BY <1>3, <1>4, <2>1
    <2> QED BY <1>3, <2>2, SameHalves
  <1>6. ~ ChecksumMatches(q)
    BY <1>3, <1>5, ChecksumSeesLastByte
  <1> QED BY <1>6, DecodeIs

\* What it does not see: a packet that was damaged anywhere between its second
\* and its last byte is never dropped.  It is taken for a press of the same
\* button on another remote, or with another rolling code.
THEOREM DamageUnseen ==
  ASSUME NEW c \in Packet, c.button \in {Up, Down, My},
         NEW q \in Seq(Bytes), Len(q) = 7, q # Encode(c),
         q[1] = Encode(c)[1], q[2] = Encode(c)[2], q[7] = Encode(c)[7]
  PROVE  /\ Decode(q) # NotACommand
         /\ Decode(q).button = c.button
         /\ Decode(q).remote # c.remote \/ Decode(q).code # c.code
  <1>1. PICK e \in Seq(Bytes) : e = Encode(c) /\ Len(e) = 7
    BY EncodeIs
  <1>2. Decode(e) = c /\ c # NotACommand
    BY <1>1, DecodeEncode DEF NotACommand, Up, Down, My
  <1> DEFINE de == Decrypted(e)
             dq == Decrypted(q)
  <1>3. /\ ChecksumMatches(e) /\ c.button = de[2] \div 16 /\ c.code = Code(de)
        /\ c.remote = de[5] * 65536 + de[6] * 256 + de[7]
    BY <1>2, DecodeIs
  <1>4. /\ de \in [1 .. 7 -> Bytes] /\ de[1] = e[1] /\ de[2] = Xor(e[2], e[1])
        /\ dq \in [1 .. 7 -> Bytes] /\ dq[1] = q[1] /\ dq[2] = Xor(q[2], q[1])
    <2>1. 2 \in 2 .. 7 /\ 2 - 1 = 1
      OBVIOUS
    <2> QED BY <1>1, <2>1, DecryptedIs
  <1>5. dq[1] = de[1] /\ dq[2] = de[2]
    BY <1>1, <1>4
  <1>6. ChecksumMatches(q)
    BY <1>1, <1>3, ChecksumSeesLastByte
  <1>7. Decode(q) = [remote |-> dq[5] * 65536 + dq[6] * 256 + dq[7], code |-> Code(dq),
                     button |-> dq[2] \div 16]
    BY <1>3, <1>5, <1>6, DecodeIs
  <1>8. ASSUME Decode(q).remote = c.remote, Decode(q).code = c.code PROVE FALSE
    <2>1. /\ dq[5] * 65536 + dq[6] * 256 + dq[7] = de[5] * 65536 + de[6] * 256 + de[7]
          /\ dq[3] * 256 + dq[4] = de[3] * 256 + de[4]
      BY <1>3, <1>7, <1>8 DEF Code
    <2> HIDE DEF dq, de
    <2>2. /\ dq[3] \in Bytes /\ dq[4] \in Bytes /\ dq[5] \in Bytes /\ dq[6] \in Bytes /\ dq[7] \in Bytes
          /\ de[3] \in Bytes /\ de[4] \in Bytes /\ de[5] \in Bytes /\ de[6] \in Bytes /\ de[7] \in Bytes
      BY <1>4
    <2>3. dq[3] = de[3] /\ dq[4] = de[4]
      <3>1. Two(dq[3], dq[4]) = Two(de[3], de[4])
        BY <2>1 DEF Two
      <3> QED BY <2>2, <3>1, TwoIs
    <2>4. dq[5] = de[5] /\ dq[6] = de[6] /\ dq[7] = de[7]
      <3>1. Three(dq[5], dq[6], dq[7]) = Three(de[5], de[6], de[7])
        BY <2>1 DEF Three
      <3> QED BY <2>2, <3>1, ThreeIs
    <2>5. dq = de
      <3>1. \A i \in 1 .. 7 : dq[i] = de[i]
        BY <1>5, <2>3, <2>4
      <3>2. dq \in [1 .. 7 -> Bytes] /\ de \in [1 .. 7 -> Bytes]
        BY <1>4
      <3>3. dq = [i \in 1 .. 7 |-> dq[i]] /\ de = [i \in 1 .. 7 |-> de[i]]
        BY <3>2
      <3> QED BY <3>1, <3>3
    <2> QED BY <1>1, <2>5, DecryptedSame DEF dq, de
  <1>9. Decode(q).button = c.button
    BY <1>3, <1>5, <1>7
  <1>10. Decode(q) # NotACommand
    BY <1>9 DEF NotACommand, Up, Down, My
  <1> QED BY <1>8, <1>9, <1>10

\* What an empty FIFO reads as is no command.
LEMMA DecodeNothing ==
  ASSUME NEW b \in Bytes
  PROVE  Decode([i \in 1 .. 7 |-> b]) = NotACommand
  <1> DEFINE p == [i \in 1 .. 7 |-> b]
             d == Decrypted(p)
  <1>1. Xor(b, b) = 0
    <2>1. \A n \in Nat : (n + n) % 2 = 0
      OBVIOUS
    <2>2. /\ b \div 1 \in Nat /\ b \div 2 \in Nat /\ b \div 4 \in Nat /\ b \div 8 \in Nat
          /\ b \div 16 \in Nat /\ b \div 32 \in Nat /\ b \div 64 \in Nat /\ b \div 128 \in Nat
      BY DEF Bytes
    <2> QED BY <2>1, <2>2 DEF Xor
  <1>2. Len(p) = 7
    OBVIOUS
  <1>3. d[2] = 0
    <2>1. d = [i \in 1 .. 7 |-> IF i = 1 THEN p[1] ELSE Xor(p[i], p[i - 1])]
      BY <1>2 DEF Decrypted
    <2>2. d[2] = Xor(p[2], p[1])
      <3> HIDE DEF d, p
      <3> QED BY <2>1
    <2> QED BY <1>1, <2>2
  <1> HIDE DEF d
  <1>4. d[2] \div 16 \notin {Up, Down, My}
    BY <1>3 DEF Up, Down, My
  <1> QED BY <1>4, SMT DEF Decode, d

-----------------------------------------------------------------------------
(* The driver *)

\* _listen says whether receive mode was entered, wherever it is looked at,
\* and the interrupt is enabled exactly while the worker waits in that mode.
DriverIs ==
  /\ driver \in [mode : {"sleep", "stby"}, listen : BOOLEAN]
  /\ at \in {"init", "top", "run", "exited"} => ~ driver.listen /\ ~ armed
  /\ at = "arm" => driver.listen
  /\ at \in {"arm", "abort"} => ~ armed
  /\ at \in {"wait", "standby"} => (driver.listen <=> armed)
  /\ hearing => driver.listen

LEMMA DriverInit == RadioInit => DriverIs
  BY DEF RadioInit, Init, FreshDriver, DriverIs

\* Everything core 0 does leaves the worker where it is.
LEMMA Core0Leaves == Core0 => UNCHANGED <<core1, radio, device, traffic>>
  BY DEF Core0, Press, SaveOne, SaveTimer, StartSaving, SavingDone, LeaveLoop, QueueStop,
         ShutdownReturns, history

LEMMA DriverStep == DriverIs /\ Core1Type /\ RadioType /\ [RadioNext]_radioVars => DriverIs'
  <1> SUFFICES ASSUME DriverIs, Core1Type, RadioType, [RadioNext]_radioVars PROVE DriverIs'
    OBVIOUS
  <1>1. CASE Core0
    BY <1>1, Core0Leaves DEF DriverIs, core1, radio, device
  <1>2. CASE Restart
    BY <1>2 DEF Restart, Reboot, PowerCut, Boot, FreshDriver, DriverIs
  <1>3. CASE Initialize
    BY <1>3 DEF Initialize, DriverIs
  <1>4. CASE EnterListenMode
    BY <1>4 DEF EnterListenMode, DriverIs
  <1>5. CASE EnableIrq
    BY <1>5 DEF EnableIrq, DriverIs, device
  <1>6. CASE UseQueue
    <2>1. UNCHANGED <<hearing, armed, driver>>
      BY <1>6 DEF UseQueue, SkipReceive, Remove, WorkerStops, device, radio
    <2>2. CASE SkipReceive
      <3>1. at = "top" /\ at' = "wait"
        BY <2>2 DEF SkipReceive
      <3> QED BY <2>1, <3>1, Zenon DEF DriverIs
    <2>3. CASE Remove
      <3>1. at = "wait" /\ at' = "standby"
        BY <2>3 DEF Remove
      <3> QED BY <2>1, <3>1, Zenon DEF DriverIs
    <2>4. CASE WorkerStops
      <3>1. at = "run" /\ at' = "exited"
        BY <2>4 DEF WorkerStops, AfterStop
      <3> QED BY <2>1, <3>1, Zenon DEF DriverIs
    <2> QED BY <1>6, <2>2, <2>3, <2>4 DEF UseQueue
  <1>7. CASE DisableIrq
    BY <1>7 DEF DisableIrq, IrqInStandby, DriverIs, device
  <1>8. CASE LeaveListenMode
    BY <1>8 DEF LeaveListenMode, InStandby, DriverIs
  <1>9. CASE SendHorn \/ SendPayload
    <2>1. UNCHANGED <<at, hearing, armed, driver>>
      BY <1>9 DEF SendHorn, SendPayload, vars, core1, radio
    <2> QED BY <2>1 DEF DriverIs
  <1>10. CASE CommandSent \/ ReadPacket
    BY <1>10 DEF CommandSent, ReadPacket, ExecuteCommand, ReceiveCommand, DriverIs, device
  <1>11. CASE HearPacket
    BY <1>11 DEF HearPacket, PacketHeard, DriverIs, core1
  <1>12. CASE UNCHANGED radioVars
    BY <1>12 DEF radioVars, vars, core1, radio, device, DriverIs
  <1> QED BY <1>1, <1>2, <1>3, <1>4, <1>5, <1>6, <1>7, <1>8, <1>9, <1>10, <1>11, <1>12
          DEF RadioNext, RadioWorker

LEMMA RadioStepIs == TypeOK /\ DriverIs /\ [RadioNext]_radioVars => [Next]_vars
  <1> SUFFICES ASSUME TypeOK, DriverIs, [RadioNext]_radioVars PROVE [Next]_vars
    OBVIOUS
  <1>1. CASE Core0
    BY <1>1 DEF Core0, Next, Core0Proceeds
  <1>2. CASE Restart
    BY <1>2 DEF Restart, Next, Core0Proceeds
  <1>3. CASE Initialize
    <2>1. hearing = FALSE
      BY <1>3, Zenon DEF Initialize, DriverIs, TypeOK, RadioType
    <2>2. WorkerStarts
      BY <1>3, <2>1 DEF Initialize, DriverOnly, WorkerStarts, radio
    <2> QED BY <2>2 DEF Next, Worker
  <1>4. CASE EnterListenMode
    <2>1. EnableReceive
      BY <1>4 DEF EnterListenMode, DriverOnly, EnableReceive, DriverIs
    <2> QED BY <2>1 DEF Next, Worker
  <1>5. CASE EnableIrq
    <2>1. EnableInterrupt
      BY <1>5 DEF EnableIrq, DriverOnly, EnableInterrupt
    <2> QED BY <2>1 DEF Next, Worker
  <1>6. CASE UseQueue
    BY <1>6 DEF UseQueue, Next, Worker
  <1>7. CASE DisableIrq
    <2>1. DisableInterrupt
      BY <1>7 DEF DisableIrq, IrqInStandby, DriverOnly, DisableInterrupt, DriverIs
    <2> QED BY <2>1 DEF Next, Worker
  <1>8. CASE LeaveListenMode
    <2>1. Standby
      BY <1>8 DEF LeaveListenMode, InStandby, DriverOnly, Standby, DriverIs
    <2> QED BY <2>1 DEF Next, Worker
  <1>9. CASE SendHorn \/ SendPayload
    BY <1>9 DEF SendHorn, SendPayload
  <1>10. CASE CommandSent \/ ReadPacket
    BY <1>10 DEF CommandSent, ReadPacket, Next, Worker
  <1>11. CASE HearPacket
    BY <1>11 DEF HearPacket, Next
  <1>12. CASE UNCHANGED radioVars
    BY <1>12 DEF radioVars
  <1> QED BY <1>1, <1>2, <1>3, <1>4, <1>5, <1>6, <1>7, <1>8, <1>9, <1>10, <1>11, <1>12
          DEF RadioNext, RadioWorker

\* RFM69Radio::SetMode leaves out register writes by the mode it remembers, and
\* EnableReceive and Standby write mode and interrupt in two steps: even so every
\* step of the worker with its driver and chip is a step of CommandQueue, or none.
THEOREM RadioImplementsCommandQueue == RadioSpec => ImplementsCommandQueue
  <1>1. RadioInit => Init
    BY DEF RadioInit
  <1>2. TypeOK /\ DriverIs /\ [RadioNext]_radioVars => TypeOK' /\ DriverIs' /\ [Next]_vars
    BY DriverStep, RadioStepIs, TypeStep DEF TypeOK
  <1> QED BY <1>1, <1>2, TypeInit, DriverInit, PTL DEF RadioSpec, ImplementsCommandQueue, Spec

\* So the radio keeps what the queue promises: commands go out in the order they
\* were made, with codes that increase as long as the power is not cut, a code
\* that was saved as used does not come again, and Shutdown returns only when
\* everything has been sent.
THEOREM RadioKeepsPromises ==
  RadioSpec => /\ []CommandsInOrder /\ []RollingCodesIncrease
               /\ NoSpentCodeAgain /\ []ShutdownFlushes
  BY RadioImplementsCommandQueue, CommandsKeepOrder, CodesIncrease, SpentCodesStaySpent,
     ShutdownAlwaysFlushes, PTL DEF ImplementsCommandQueue

-----------------------------------------------------------------------------
(* Sequences of bytes *)

LEMMA TimesIs ==
  ASSUME NEW S, NEW b \in S, NEW n \in Nat
  PROVE  Times(b, n) \in Seq(S) /\ Len(Times(b, n)) = n
  BY DEF Times

LEMMA FrontIs ==
  ASSUME NEW S, NEW s \in Seq(S), NEW t \in Seq(S), NEW n \in 0 .. Len(s)
  PROVE  /\ SubSeq(s \o t, 1, n) = SubSeq(s, 1, n)
         /\ SubSeq(s \o t, 1, Len(s)) = s
         /\ SubSeq(s \o t, 1, n) \in Seq(S)
  <1>1. /\ s \o t \in Seq(S)
        /\ Len(s \o t) = Len(s) + Len(t)
        /\ \A i \in 1 .. Len(s) : (s \o t)[i] = s[i]
        /\ Len(s) \in Nat /\ Len(t) \in Nat
    BY ConcatProperties, LenProperties
  <1> DEFINE st == s \o t
  <1> HIDE DEF st
  <1>2. \A k \in 0 .. Len(s) : SubSeq(st, 1, k) = [i \in 1 .. k |-> s[i]]
    BY <1>1 DEF st
  <1>3. \A k \in 0 .. Len(s) : SubSeq(s, 1, k) = [i \in 1 .. k |-> s[i]]
    OBVIOUS
  <1>4. s = [i \in 1 .. Len(s) |-> s[i]]
    BY LenProperties
  <1>5. Len(s) \in 0 .. Len(s)
    BY <1>1
  <1>6. SubSeq(s, 1, n) \in Seq(S)
    BY SubSeqProperties, ElementOfSeq
  <1> QED BY <1>2, <1>3, <1>4, <1>5, <1>6, Zenon DEF st
-----------------------------------------------------------------------------
(* What is on the air *)

Hearing == [command : Others, announced : BOOLEAN]

LastHeard == heard[Len(heard)]

\* What lies in the FIFO is the packet heard last.
FifoIs == fifo = <<>> \/ (heard # <<>> /\ fifo = Encode(LastHeard.command))

Transmission ==
  [format : [sync : {"none", "short", "long"}, manchester : BOOLEAN, length : {2, 7}],
   bytes  : Seq(Bytes)]

\* What was sent in the place of the fog horn.
Wake(bytes) ==
  bytes = Horn \/ \E i \in 1 .. Len(heard) : bytes = SubSeq(Encode(heard[i].command), 1, 2)

Frame(k, e) ==
  [format |-> [sync |-> IF k = 2 THEN "short" ELSE "long", manchester |-> TRUE, length |-> 7],
   bytes  |-> Encode(Commanded(e))]

\* So far the command in hand was sent as it should be.
AirIs ==
  /\ air \in Seq(Transmission) /\ Len(air) <= Repeat + 2
  /\ air # <<>> => Sending /\ fifo = <<>> /\ Wake(air[1].bytes)
  /\ \A k \in 2 .. Len(air) : air[k] = Frame(k, entry)

AirInv == heard \in Seq(Hearing) /\ FifoIs /\ AirIs

LEMMA AirInit == RadioInit => AirInv
  BY RadioAssumption DEF RadioInit, AirInv, FifoIs, AirIs

\* A step in which nothing is sent or heard.
LEMMA AirStays ==
  ASSUME AirInv, UNCHANGED heard, fifo' = fifo \/ fifo' = <<>>, air' = <<>>
  PROVE  AirInv'
  BY RadioAssumption DEF AirInv, FifoIs, AirIs, LastHeard

LEMMA HornIs == Horn \in Seq(Bytes) /\ Len(Horn) = 2
  <1>1. 255 \in Bytes /\ 2 \in Nat
    BY DEF Bytes
  <1>2. Times(255, 2) \in Seq(Bytes) /\ Len(Times(255, 2)) = 2
    <2>1. \A b \in Bytes, n \in Nat : Times(b, n) \in Seq(Bytes) /\ Len(Times(b, n)) = n
      BY TimesIs
    <2> QED BY <1>1, <2>1
  <1> QED BY <1>2 DEF Horn

LEMMA CommandedIs ==
  ASSUME TypeOK, Sending
  PROVE  /\ Commanded(entry) \in Packet
         /\ Encode(Commanded(entry)) \in Seq(Bytes) /\ Len(Encode(Commanded(entry))) = 7
         /\ Decode(Encode(Commanded(entry))) = Commanded(entry)
  <1>1. entry \in Command
    BY DEF TypeOK, Core1Type, Entry, Stop, Receive, Sending
  <1>2. entry.remote \in 0 .. MaxId
    BY <1>1, RadioAssumption DEF Command
  <1>3. entry.code \in 0 .. MaxCode
    <2>1. entry.code \in 0 .. CodeMod - 1
      BY <1>1 DEF Command, Codes
    <2>2. MaxCode \in Nat
      BY SMT DEF MaxCode
    <2> QED BY <2>1, <2>2, CommandQueueAssumption, RadioAssumption
  <1>4. Button \in 0 .. 15 /\ Button \in {Up, Down, My}
    BY RadioAssumption DEF Up, Down, My
  <1>5. Commanded(entry) \in Packet
    BY <1>2, <1>3, <1>4 DEF Commanded, Packet
  <1>6. Commanded(entry).button = Button
    BY DEF Commanded
  <1> QED BY <1>4, <1>5, <1>6, EncodeIs, DecodeEncode, Zenon

LEMMA FifoType ==
  ASSUME AirInv
  PROVE  fifo \in Seq(Bytes) /\ (fifo = <<>> \/ Len(fifo) = 7)
  <1>1. CASE fifo = <<>>
    BY <1>1
  <1>2. CASE heard # <<>> /\ fifo = Encode(LastHeard.command)
    <2>1. LastHeard \in Hearing
      BY <1>2, ElementOfSeq, EmptySeq DEF LastHeard, AirInv
    <2>2. LastHeard.command \in Packet
      BY <2>1, RadioAssumption DEF Hearing
    <2> QED BY <1>2, <2>2, EncodeIs
  <1> QED BY <1>1, <1>2 DEF AirInv, FifoIs

LEMMA HornSent == TypeOK /\ AirInv /\ SendHorn => AirInv'
  <1> SUFFICES ASSUME TypeOK, AirInv, SendHorn PROVE AirInv'
    OBVIOUS
  <1> DEFINE rest == Times(Stack, 14)
             bytes == Horn \o rest
             tx == [format |-> format', bytes |-> SubSeq(fifo \o bytes, 1, 2)]
  <1>1. /\ Sending /\ air = <<>> /\ UNCHANGED <<heard, at, entry>>
        /\ format' = [sync |-> "none", manchester |-> FALSE, length |-> 2]
    BY DEF SendHorn, Formatted, vars, core1
  <1>2. fifo' = <<>> /\ air' = Append(air, tx)
    BY <1>1 DEF SendHorn, TransmitPacket, LeftAfterSending
  <1>3. rest \in Seq(Bytes)
    BY RadioAssumption, TimesIs
  <1>4. bytes \in Seq(Bytes) /\ SubSeq(bytes, 1, 2) = Horn
    BY <1>3, HornIs, ConcatProperties, FrontIs
  <1>5. SubSeq(fifo \o bytes, 1, 2) \in Seq(Bytes) /\ Wake(SubSeq(fifo \o bytes, 1, 2))
    <2>1. CASE fifo = <<>>
      <3>1. fifo \o bytes = bytes
        BY <2>1, <1>4, ConcatEmptySeq
      <3> QED BY <1>4, <3>1, HornIs DEF Wake
    <2>2. CASE fifo # <<>>
      <3>1. fifo \in Seq(Bytes) /\ Len(fifo) = 7
        BY <2>2, FifoType
      <3>2. /\ SubSeq(fifo \o bytes, 1, 2) = SubSeq(fifo, 1, 2)
            /\ SubSeq(fifo \o bytes, 1, 2) \in Seq(Bytes)
        <4>1. PICK s \in Seq(Bytes) : s = fifo /\ 2 \in 0 .. Len(s)
          BY <3>1
        <4>2. PICK t \in Seq(Bytes) : t = bytes
          BY <1>4
        <4>3. SubSeq(s \o t, 1, 2) = SubSeq(s, 1, 2) /\ SubSeq(s \o t, 1, 2) \in Seq(Bytes)
          BY <4>1, FrontIs
        <4> HIDE DEF bytes
        <4> QED BY <4>1, <4>2, <4>3
      <3>3. Len(heard) \in 1 .. Len(heard) /\ fifo = Encode(heard[Len(heard)].command)
        BY <2>2, EmptySeq DEF AirInv, FifoIs, LastHeard
      <3> QED BY <3>2, <3>3 DEF Wake
    <2> QED BY <2>1, <2>2
  <1>6. tx \in Transmission
    BY <1>1, <1>5 DEF Transmission
  <1>7. air' \in Seq(Transmission) /\ Len(air') = 1 /\ air'[1] = tx
    BY <1>1, <1>2, <1>6
  <1>8. Wake(air[1].bytes)'
    <2> DEFINE wake == SubSeq(fifo \o bytes, 1, 2)
    <2>1. tx.bytes = wake
      OBVIOUS
    <2> HIDE DEF tx, wake
    <2>4. air'[1].bytes = wake
      BY <1>7, <2>1, Zenon
    <2>2. UNCHANGED heard
      BY <1>1
    <2>3. Wake(wake)
      BY <1>5 DEF wake
    <2> QED BY <2>2, <2>3, <2>4, Zenon DEF Wake
  <1>9. AirIs'
    <2>1. Len(air') <= Repeat + 2 /\ \A k \in 2 .. Len(air') : air'[k] = Frame(k, entry')
      BY <1>7, RadioAssumption
    <2>2. Sending' /\ fifo' = <<>>
      BY <1>1, <1>2 DEF Sending
    <2> QED BY <1>7, <1>8, <2>1, <2>2 DEF AirIs
  <1> QED BY <1>1, <1>2, <1>9 DEF AirInv, FifoIs
LEMMA PayloadSent == TypeOK /\ AirInv /\ SendPayload => AirInv'
  <1> SUFFICES ASSUME TypeOK, AirInv, SendPayload PROVE AirInv'
    OBVIOUS
  <1> DEFINE length == Len(air)
             tx == [format |-> format', bytes |-> SubSeq(fifo \o Payload, 1, 7)]
  <1>1. /\ Sending /\ length \in 1 .. Repeat + 1 /\ UNCHANGED <<heard, at, entry>>
        /\ format' = [sync |-> IF length = 1 THEN "short" ELSE "long",
                      manchester |-> TRUE, length |-> 7]
    BY DEF SendPayload, Formatted, vars, core1
  <1>2. fifo' = <<>> /\ air' = Append(air, tx)
    <2>1. format'.length = 7
      BY <1>1
    <2> QED BY <2>1 DEF SendPayload, TransmitPacket, LeftAfterSending
  <1>3. air # <<>> /\ air \in Seq(Transmission)
    BY <1>1 DEF AirInv, AirIs
  <1>4. fifo = <<>>
    BY <1>3 DEF AirInv, AirIs
  <1>5. SubSeq(fifo \o Payload, 1, 7) = Encode(Commanded(entry))
    <2>1. Encode(Commanded(entry)) \in Seq(Bytes) /\ Len(Encode(Commanded(entry))) = 7
      BY <1>1, CommandedIs
    <2>2. Times(0, 9) \in Seq(Bytes)
      <3>1. 0 \in Bytes /\ 9 \in Nat
        BY DEF Bytes
      <3> QED BY <3>1, TimesIs, Zenon
    <2> HIDE DEF Payload
    <2>3. Payload \in Seq(Bytes) /\ Payload = Encode(Commanded(entry)) \o Times(0, 9)
      BY <2>1, <2>2, ConcatProperties, Zenon DEF Payload
    <2>4. fifo \o Payload = Payload
      BY <1>4, <2>3, ConcatEmptySeq, Zenon
    <2>5. SubSeq(Payload, 1, Len(Encode(Commanded(entry)))) = Encode(Commanded(entry))
      <3>1. 0 \in 0 .. Len(Encode(Commanded(entry)))
        BY <2>1
      <3> QED BY <2>1, <2>2, <2>3, <3>1, FrontIs, Zenon
    <2> QED BY <2>1, <2>4, <2>5
  <1>6. tx = Frame(length + 1, entry)
    <2>1. format' = [sync |-> IF length + 1 = 2 THEN "short" ELSE "long",
                     manchester |-> TRUE, length |-> 7]
      <3>0. length \in Nat
        BY <1>1, RadioAssumption
      <3>1. length = 1 <=> length + 1 = 2
        <4> HIDE DEF length
        <4> QED BY <3>0
      <3>2. (IF length = 1 THEN "short" ELSE "long") = (IF length + 1 = 2 THEN "short" ELSE "long")
        BY <3>1, Zenon
      <3> QED BY <1>1, <3>2, Zenon
    <2> QED BY <1>5, <2>1 DEF Frame
  <1>7. tx \in Transmission
    <2>1. tx.bytes \in Seq(Bytes) 
      BY <1>1, <1>5, CommandedIs
    <2>2. format' \in [sync : {"none", "short", "long"}, manchester : BOOLEAN, length : {2, 7}]
      BY <1>1
    <2> QED BY <2>1, <2>2 DEF Transmission
  <1> HIDE DEF tx
  <1>8. /\ air' \in Seq(Transmission) /\ Len(air') = length + 1
        /\ \A k \in 1 .. length : air'[k] = air[k]
        /\ air'[length + 1] = tx
    BY <1>2, <1>3, <1>7, AppendProperties
  <1>9. AirIs'
    <2>1. Len(air') <= Repeat + 2
      BY <1>1, <1>8, RadioAssumption
    <2>2. ASSUME NEW k \in 2 .. Len(air') PROVE air'[k] = Frame(k, entry')
      <3>1. CASE k = length + 1
        BY <1>1, <1>6, <1>8, <3>1
      <3>2. CASE k \in 2 .. length
        <4>1. air[k] = Frame(k, entry)
          BY <3>2 DEF AirInv, AirIs
        <4> QED BY <1>1, <1>8, <3>2, <4>1
      <3> QED BY <1>1, <1>8, <3>1, <3>2, RadioAssumption
    <2>3. Sending' /\ fifo' = <<>>
      BY <1>1, <1>2 DEF Sending
    <2>4. Wake(air[1].bytes)'
      <3>1. air'[1] = air[1]
        BY <1>1, <1>8, RadioAssumption
      <3>2. Wake(air[1].bytes)
        BY <1>3 DEF AirInv, AirIs
      <3> QED BY <1>1, <3>1, <3>2 DEF Wake
    <2> QED BY <1>8, <2>1, <2>2, <2>3, <2>4 DEF AirIs
  <1> QED BY <1>1, <1>2, <1>9 DEF AirInv, FifoIs

\* HearPacket happens while the worker listens, and so not while it sends.
LEMMA PacketOverAir == TypeOK /\ AirInv /\ DriverIs /\ HearPacket => AirInv'
  <1> SUFFICES ASSUME TypeOK, AirInv, DriverIs, HearPacket PROVE AirInv'
    OBVIOUS
  <1>1. PICK c \in Others : /\ fifo' = Encode(c)
                            /\ heard' = Append(heard, [command |-> c, announced |-> armed])
    BY DEF HearPacket
  <1>2. ~ Sending /\ UNCHANGED air
    BY DEF HearPacket, PacketHeard, DriverIs, Sending
  <1>3. air = <<>>
    BY <1>2 DEF AirInv, AirIs
  <1>4. [command |-> c, announced |-> armed] \in Hearing
    BY DEF TypeOK, RadioType, Hearing
  <1>5. heard' \in Seq(Hearing) /\ heard' # <<>> /\ LastHeard'.command = c
    BY <1>1, <1>4, AppendProperties DEF AirInv, LastHeard
  <1>6. AirIs'
    BY <1>2, <1>3, RadioAssumption DEF AirIs
  <1> QED BY <1>1, <1>5, <1>6 DEF AirInv, FifoIs
LEMMA AirStep ==
  TypeOK /\ DriverIs /\ AirInv /\ [RadioNext]_radioVars => AirInv'
  <1> SUFFICES ASSUME TypeOK, DriverIs, AirInv, [RadioNext]_radioVars PROVE AirInv'
    OBVIOUS
  <1>0. air # <<>> => Sending
    BY DEF AirInv, AirIs
  <1>1. CASE Core0 \/ UNCHANGED radioVars
    BY <1>1, Core0Leaves
       DEF AirInv, FifoIs, AirIs, LastHeard, Wake, Sending, core1, device, traffic, radioVars, vars
  <1>2. CASE Restart
    BY <1>2, RadioAssumption DEF Restart, AirInv, FifoIs, AirIs
  <1>3. CASE Initialize
    BY <1>3, <1>0, AirStays DEF Initialize, Sending, traffic
  <1>4. CASE EnterListenMode
    BY <1>4, <1>0, AirStays DEF EnterListenMode, Sending, traffic
  <1>5. CASE EnableIrq \/ DisableIrq
    BY <1>5, <1>0, AirStays DEF EnableIrq, DisableIrq, Sending, device, traffic
  <1>6. CASE UseQueue
    BY <1>6, <1>0, AirStays
       DEF UseQueue, SkipReceive, Remove, WorkerStops, Sending, device, traffic
  <1>7. CASE LeaveListenMode
    BY <1>7, <1>0, AirStays DEF LeaveListenMode, Sending, traffic
  <1>8. CASE CommandSent
    BY <1>8, AirStays DEF CommandSent, device
  <1>9. CASE ReadPacket
    <2>1. fifo' = <<>>
      <3>1. Len(fifo) \in Int /\ 8 \in Int /\ Len(fifo) < 8
        <4>1. CASE fifo = <<>>
          BY <4>1
        <4>2. CASE Len(fifo) = 7
          BY <4>2
        <4> QED BY <4>1, <4>2, FifoType, Zenon
      <3>2. SubSeq(fifo, 8, Len(fifo)) = <<>>
        BY <3>1, SubSeqEmpty, Zenon
      <3> QED BY <1>9, <3>2 DEF ReadPacket
    <2> QED BY <1>9, <2>1, <1>0, AirStays DEF ReadPacket, ReceiveCommand, Sending
  <1> QED BY <1>1, <1>2, <1>3, <1>4, <1>5, <1>6, <1>7, <1>8, <1>9, HornSent, PayloadSent, PacketOverAir
          DEF RadioNext, RadioWorker

\* What holds at every step of the radio, besides what CommandQueue says.
LEMMA AirInvCorrect == RadioSpec => [](TypeOK /\ DriverIs /\ AirInv)
  <1>1. RadioInit => TypeOK /\ DriverIs /\ AirInv
    BY TypeInit, DriverInit, AirInit DEF RadioInit
  <1>2. TypeOK /\ DriverIs /\ [RadioNext]_radioVars => TypeOK' /\ DriverIs'
    BY RadioStepIs, TypeStep, DriverStep DEF TypeOK
  <1> QED BY <1>1, <1>2, AirStep, PTL DEF RadioSpec

LEMMA AirSuffices == TypeOK /\ AirInv => OnAirAsCommanded
  <1> SUFFICES ASSUME TypeOK, AirInv, Sending, Len(air) = Repeat + 2 PROVE
        /\ \/ air[1].bytes = Horn
           \/ \E i \in 1 .. Len(heard) : air[1].bytes = SubSeq(Encode(heard[i].command), 1, 2)
        /\ \A k \in 1 .. Repeat + 1 :
             /\ Decode(air[k + 1].bytes) = Commanded(entry)
             /\ air[k + 1].format = [sync |-> IF k = 1 THEN "short" ELSE "long",
                                     manchester |-> TRUE, length |-> 7]
    BY DEF OnAirAsCommanded
  <1>1. air # <<>>
    BY RadioAssumption, EmptySeq
  <1>2. Wake(air[1].bytes)
    BY <1>1 DEF AirInv, AirIs
  <1>3. ASSUME NEW k \in 1 .. Repeat + 1
        PROVE  /\ Decode(air[k + 1].bytes) = Commanded(entry)
               /\ air[k + 1].format = [sync |-> IF k = 1 THEN "short" ELSE "long",
                                       manchester |-> TRUE, length |-> 7]
    <2>1. k + 1 \in 2 .. Len(air)
      BY RadioAssumption
    <2>2. air[k + 1] = Frame(k + 1, entry)
      BY <2>1 DEF AirInv, AirIs
    <2>3. air[k + 1].bytes = Encode(Commanded(entry))
      BY <2>2 DEF Frame
    <2>4. (IF k + 1 = 2 THEN "short" ELSE "long") = (IF k = 1 THEN "short" ELSE "long")
      OBVIOUS
    <2>5. air[k + 1].format = [sync |-> IF k + 1 = 2 THEN "short" ELSE "long",
                               manchester |-> TRUE, length |-> 7]
      BY <2>2 DEF Frame
    <2> QED BY <2>3, <2>4, <2>5, CommandedIs, Zenon
  <1> QED BY <1>2, <1>3 DEF Wake

\* ExecuteCommand sends each command as it was queued, whatever other packets
\* have been left in the FIFO it shares with reception.
THEOREM SentAsCommanded == RadioSpec => []OnAirAsCommanded
  BY AirInvCorrect, AirSuffices, PTL
-----------------------------------------------------------------------------
(* What is heard *)

\* A deaf radio while the worker waits has heard a packet too early.
Deafness ==
  at = "arm" \/ (at = "wait" /\ queue = <<>>) =>
    hearing \/ (heard # <<>> /\ ~ LastHeard.announced)

ReceiveInHand  == at \in {"standby", "abort", "run"} /\ entry = Receive
ReceiveInQueue == \E i \in 1 .. Len(queue) : queue[i] = Receive
Announced      == ReceiveInHand \/ ReceiveInQueue

OneReceive ==
  /\ ReceiveInHand => ~ ReceiveInQueue
  /\ \A i, j \in 1 .. Len(queue) : queue[i] = Receive /\ queue[j] = Receive => i = j

\* From the interrupt to ReceiveCommand the radio hears nothing else, and the
\* packet stays where it is unless a command goes before it.
PacketWaits ==
  Announced =>
    /\ at # "init" /\ ~ hearing
    /\ heard # <<>> /\ LastHeard.announced
    /\ fifo = <<>> => overtaken

PacketInv == Deafness /\ OneReceive /\ PacketWaits

LEMMA PacketInit == RadioInit => PacketInv
  BY EmptySeq DEF RadioInit, Init, PacketInv, Deafness, OneReceive, PacketWaits, Announced,
     ReceiveInHand, ReceiveInQueue, Stop, Receive

\* Core 0 puts commands and the stop entry into the queue.
LEMMA Core0Queues ==
  Core0 => \/ UNCHANGED queue
           \/ \E e : e # Receive /\ queue' = Append(queue, e)
  <1> SUFFICES ASSUME Core0, queue' # queue PROVE \E e : e # Receive /\ queue' = Append(queue, e)
    OBVIOUS
  <1>1. CASE \E r \in Remotes : Press(r)
    <2>1. PICK r \in Remotes : Press(r)
      BY <1>1
    <2> DEFINE c == [kind |-> "send", remote |-> r, code |-> roll[r]]
    <2>2. c # Receive
      BY DEF Receive
    <2>3. queue' = Append(queue, c)
      BY <2>1 DEF Press, TryAdd
    <2> QED BY <2>2, <2>3
  <1>2. CASE QueueStop
    BY <1>2 DEF QueueStop, Stop, Receive
  <1>3. CASE \/ \E r \in Remotes : SaveOne(r)
             \/ SaveTimer \/ SavingDone \/ LeaveLoop \/ ShutdownReturns
    BY <1>3 DEF SaveOne, SaveTimer, SavingDone, LeaveLoop, ShutdownReturns
  <1> QED BY <1>1, <1>2, <1>3 DEF Core0

LEMMA Queued ==
  ASSUME TypeOK, NEW e, queue' = Append(queue, e)
  PROVE  /\ queue' # <<>>
         /\ \A i \in 1 .. Len(queue') : \/ i \in 1 .. Len(queue) /\ queue'[i] = queue[i]
                                        \/ i = Len(queue) + 1 /\ queue'[i] = e
  <1>1. queue \in Seq(Entry \cup {e}) /\ e \in Entry \cup {e}
    BY SeqMonotonic DEF TypeOK, QueueType
  <1> QED BY <1>1, AppendProperties

\* The worker looks at no receive entry, and the queue has got none.
LEMMA PacketStays ==
  ASSUME TypeOK, PacketInv, NEW e, e # Receive, queue' = queue \/ queue' = Append(queue, e),
         ReceiveInHand' <=> ReceiveInHand
  PROVE  /\ ReceiveInQueue' => ReceiveInQueue
         /\ Announced' => Announced
         /\ OneReceive'
  <1>1. \A i \in 1 .. Len(queue') :
           queue'[i] = Receive => i \in 1 .. Len(queue) /\ queue[i] = Receive
    BY Queued
  <1>2. ReceiveInQueue' => ReceiveInQueue
    BY <1>1 DEF ReceiveInQueue
  <1>3. OneReceive'
    BY <1>1, <1>2 DEF PacketInv, OneReceive
  <1> QED BY <1>2, <1>3 DEF Announced

LEMMA PacketSteps ==
  ASSUME TypeOK, DriverIs, AirInv, PacketInv, [RadioNext]_radioVars, ~ HearPacket
  PROVE  PacketInv' /\ (Announced' => Announced)
  <1>1. CASE Core0 \/ UNCHANGED radioVars
    <2>1. UNCHANGED <<at, entry, hearing, fifo, heard, overtaken>>
      BY <1>1, Core0Leaves DEF core1, radio, device, traffic, radioVars, vars
    <2>2. PICK e : e # Receive /\ (queue' = queue \/ queue' = Append(queue, e))
      BY <1>1, Core0Queues DEF radioVars, vars, Stop, Receive
    <2>3. ReceiveInHand' <=> ReceiveInHand
      BY <2>1 DEF ReceiveInHand
    <2>4. OneReceive' /\ (Announced' => Announced)
      BY <2>2, <2>3, PacketStays
    <2>5. Deafness'
      BY <2>1, <2>2, Queued DEF PacketInv, Deafness, LastHeard
    <2>6. PacketWaits'
      BY <2>1, <2>4 DEF PacketInv, PacketWaits, LastHeard
    <2> QED BY <2>4, <2>5, <2>6 DEF PacketInv
  <1>2. CASE Restart
    <2>1. queue' = <<>> /\ at' = "init"
      BY <1>2 DEF Restart, Reboot, PowerCut, Boot
    <2>2. ~ ReceiveInQueue' /\ ~ ReceiveInHand'
      BY <2>1, EmptySeq DEF ReceiveInQueue, ReceiveInHand
    <2> QED BY <2>1, <2>2 DEF PacketInv, Deafness, OneReceive, PacketWaits, Announced, ReceiveInQueue
  <1>3. ASSUME UNCHANGED <<queue, entry, heard>>,
               ReceiveInHand' <=> ReceiveInHand,
               Announced => at' # "init" /\ ~ hearing' /\ (fifo' = <<>> => overtaken'),
               Deafness'
        PROVE  PacketInv' /\ (Announced' => Announced)
    <2>1. ReceiveInQueue' <=> ReceiveInQueue
      BY <1>3 DEF ReceiveInQueue
    <2> QED BY <1>3, <2>1 DEF PacketInv, OneReceive, PacketWaits, Announced, LastHeard, ReceiveInQueue
  <1>4. CASE Initialize
    <2>1. /\ UNCHANGED <<queue, entry, heard>> /\ at = "init" /\ at' = "top"
      BY <1>4 DEF Initialize, DriverOnly, traffic
    <2>2. ~ Announced
      BY <2>1 DEF PacketInv, PacketWaits
    <2> QED BY <2>1, <2>2, <1>3 DEF ReceiveInHand, Deafness
  <1>5. CASE EnterListenMode
    <2>1. /\ UNCHANGED <<queue, entry, heard>> /\ at = "top" /\ at' = "arm" /\ queue = <<>>
      BY <1>5 DEF EnterListenMode, MayListen, DriverOnly, traffic
    <2>2. ~ Announced
      BY <2>1, EmptySeq DEF Announced, ReceiveInHand, ReceiveInQueue
    <2>3. hearing'
      BY <1>5 DEF EnterListenMode, DriverIs
    <2> QED BY <2>1, <2>2, <2>3, <1>3 DEF ReceiveInHand, Deafness
  <1>6. CASE EnableIrq
    <2>1. /\ UNCHANGED <<queue, entry, heard, hearing, fifo, overtaken>> /\ at = "arm" /\ at' = "wait"
      BY <1>6 DEF EnableIrq, DriverOnly, device, traffic
    <2> QED BY <2>1, <1>3 DEF ReceiveInHand, PacketInv, PacketWaits, Deafness, LastHeard
  <1>7. CASE SkipReceive /\ UNCHANGED <<device, traffic>>
    <2>1. /\ UNCHANGED <<queue, entry, heard, hearing, fifo, overtaken>>
          /\ at = "top" /\ at' = "wait" /\ queue # <<>>
      BY <1>7 DEF SkipReceive, MayListen, radio, device, traffic
    <2> QED BY <2>1, <1>3 DEF ReceiveInHand, PacketInv, PacketWaits, Deafness
  <1>8. CASE Remove /\ UNCHANGED <<device, traffic>>
    <2>1. /\ UNCHANGED <<heard, hearing, fifo, overtaken>> /\ at = "wait" /\ at' = "standby"
      BY <1>8 DEF Remove, radio, device, traffic
    <2>2. /\ 1 \in 1 .. Len(queue) /\ entry' = queue[1]
          /\ \A i \in 1 .. Len(queue') : i + 1 \in 1 .. Len(queue) /\ queue'[i] = queue[i + 1]
      BY <1>8, Removed
    <2>3. ReceiveInHand' => queue[1] = Receive /\ ReceiveInQueue
      BY <2>2 DEF ReceiveInHand, ReceiveInQueue
    <2>4. ReceiveInQueue' => ReceiveInQueue
      BY <2>2 DEF ReceiveInQueue
    <2>5. OneReceive'
      <3>1. ReceiveInHand' => ~ ReceiveInQueue'
        BY <2>2, <2>3 DEF ReceiveInQueue, PacketInv, OneReceive
      <3>2. ASSUME NEW i \in 1 .. Len(queue'), NEW j \in 1 .. Len(queue'),
                   queue'[i] = Receive, queue'[j] = Receive
            PROVE  i = j
        <4>1. /\ i + 1 \in 1 .. Len(queue) /\ queue[i + 1] = Receive
              /\ j + 1 \in 1 .. Len(queue) /\ queue[j + 1] = Receive
          BY <2>2, <3>2
        <4>2. i + 1 = j + 1
          BY <4>1 DEF PacketInv, OneReceive
        <4> QED BY <4>2
      <3> QED BY <3>1, <3>2 DEF OneReceive
    <2>6. Announced' => Announced
      BY <2>3, <2>4 DEF Announced
    <2>7. Deafness' /\ PacketWaits'
      BY <2>1, <2>6 DEF Deafness, PacketInv, PacketWaits, LastHeard
    <2> QED BY <2>5, <2>6, <2>7 DEF PacketInv
  <1>9. CASE WorkerStops /\ UNCHANGED <<device, traffic>>
    <2>1. /\ UNCHANGED <<queue, entry, heard, hearing, fifo, overtaken>>
          /\ at' = "exited" /\ entry.kind = "stop"
      BY <1>9 DEF WorkerStops, AfterStop, radio, device, traffic
    <2> QED BY <2>1, <1>3 DEF ReceiveInHand, Receive, PacketInv, PacketWaits, Deafness
  <1>10. CASE DisableIrq
    <2>1. /\ UNCHANGED <<queue, entry, heard, hearing, fifo, overtaken>>
          /\ at = "standby" /\ at' = "abort"
      BY <1>10 DEF DisableIrq, DriverOnly, device, traffic
    <2> QED BY <2>1, <1>3 DEF ReceiveInHand, PacketInv, PacketWaits, Deafness
  <1>11. CASE LeaveListenMode
    <2>1. /\ UNCHANGED <<queue, entry, heard, fifo, overtaken>>
          /\ at = "abort" /\ at' = "run" /\ ~ hearing'
      BY <1>11 DEF LeaveListenMode, DriverOnly, DriverIs, traffic
    <2> QED BY <2>1, <1>3 DEF ReceiveInHand, PacketInv, PacketWaits, Deafness
  <1>12. CASE SendHorn \/ SendPayload
    <2>1. UNCHANGED <<queue, entry, heard, at, hearing>>
      BY <1>12 DEF SendHorn, SendPayload, vars, core1, radio
    <2>2. overtaken' \/ (fifo = <<>> /\ UNCHANGED overtaken)
      <3>1. CASE SendHorn
        BY <3>1 DEF SendHorn
      <3>2. CASE SendPayload
        <4>1. air # <<>>
          BY <3>2 DEF SendPayload
        <4> QED BY <3>2, <4>1 DEF SendPayload, AirInv, AirIs
      <3> QED BY <1>12, <3>1, <3>2
    <2> QED BY <2>1, <2>2, <1>3 DEF ReceiveInHand, PacketInv, PacketWaits, Deafness, LastHeard
  <1>13. CASE CommandSent
    <2>1. /\ UNCHANGED <<queue, entry, heard, hearing, fifo, overtaken>>
          /\ at' = "top" /\ entry.kind = "send"
      BY <1>13 DEF CommandSent, ExecuteCommand, device
    <2> QED BY <2>1, <1>3 DEF ReceiveInHand, Receive, PacketInv, PacketWaits, Deafness
  <1>14. CASE ReadPacket
    <2>1. /\ UNCHANGED <<queue, entry, heard>> /\ at = "run" /\ at' = "top" /\ entry.kind = "receive"
      BY <1>14 DEF ReadPacket, ReceiveCommand
    <2>2. ReceiveInHand
      <3>1. entry \in Entry
        BY DEF TypeOK, Core1Type
      <3>2. entry = Receive
        BY <2>1, <3>1 DEF Entry, Command, Stop, Receive
      <3> QED BY <2>1, <3>2 DEF ReceiveInHand
    <2>3. ~ Announced'
      BY <2>1, <2>2 DEF PacketInv, OneReceive, Announced, ReceiveInHand, ReceiveInQueue
    <2>4. OneReceive'
      BY <2>1, <2>3 DEF PacketInv, OneReceive, Announced
    <2> QED BY <2>1, <2>3, <2>4 DEF PacketInv, Deafness, PacketWaits
  <1> QED BY <1>1, <1>2, <1>4, <1>5, <1>6, <1>7, <1>8, <1>9, <1>10, <1>11, <1>12, <1>13, <1>14
          DEF RadioNext, RadioWorker, UseQueue
\* What was heard is where it was, and the new packet is behind it.
LEMMA Heard ==
  ASSUME TypeOK, AirInv, HearPacket
  PROVE  \E c \in Others :
           /\ fifo' = Encode(c) /\ fifo' # <<>>
           /\ heard' \in Seq(Hearing) /\ Len(heard) \in Nat /\ Len(heard') = Len(heard) + 1
           /\ \A i \in 1 .. Len(heard) : heard'[i] = heard[i]
           /\ heard'[Len(heard')] = [command |-> c, announced |-> armed]
  <1>1. PICK c \in Others : /\ fifo' = Encode(c)
                            /\ heard' = Append(heard, [command |-> c, announced |-> armed])
    BY DEF HearPacket
  <1>2. [command |-> c, announced |-> armed] \in Hearing
    BY DEF TypeOK, RadioType, Hearing
  <1>3. /\ heard' \in Seq(Hearing) /\ Len(heard) \in Nat /\ Len(heard') = Len(heard) + 1
        /\ \A i \in 1 .. Len(heard) : heard'[i] = heard[i]
        /\ heard'[Len(heard')] = [command |-> c, announced |-> armed]
    BY <1>1, <1>2, AppendProperties, LenProperties DEF AirInv
  <1>4. fifo' # <<>>
    <2>1. Len(Encode(c)) = 7
      BY RadioAssumption, EncodeIs
    <2>2. Len(<<>>) = 0 /\ 0 # 7
      BY EmptySeq
    <2> QED BY <1>1, <2>1, <2>2, Zenon
  <1> QED BY <1>1, <1>3, <1>4

LEMMA PacketArrives == TypeOK /\ DriverIs /\ AirInv /\ PacketInv /\ HearPacket => PacketInv'
  <1> SUFFICES ASSUME TypeOK, DriverIs, AirInv, PacketInv, HearPacket PROVE PacketInv'
    OBVIOUS
  <1>1. /\ hearing /\ ~ hearing' /\ UNCHANGED <<at, entry>> /\ UNCHANGED armed
        /\ (armed => TryAdd(Receive)) /\ (~ armed => UNCHANGED queue)
    BY DEF HearPacket, PacketHeard, core1
  <1>2. ~ Announced /\ at # "init"
    BY <1>1 DEF PacketInv, PacketWaits, DriverIs
  <1>3. ~ ReceiveInHand'
    BY <1>1, <1>2 DEF Announced, ReceiveInHand
  <1>4. fifo' # <<>> /\ heard' # <<>> /\ (LastHeard'.announced <=> armed)
    <2>1. PICK c \in Others :
            /\ fifo' # <<>> /\ Len(heard) \in Nat /\ Len(heard') = Len(heard) + 1
            /\ heard'[Len(heard')] = [command |-> c, announced |-> armed]
      BY Heard
    <2>2. heard' # <<>>
      BY <2>1
    <2>3. LastHeard' = [command |-> c, announced |-> armed]
      BY <2>1, Zenon DEF LastHeard
    <2>4. LastHeard'.announced = armed
      BY <2>3
    <2> QED BY <2>1, <2>2, <2>4, Zenon
  <1>5. \A i \in 1 .. Len(queue') : queue'[i] = Receive => armed /\ i = Len(queue) + 1
    BY <1>1, <1>2, Queued DEF TryAdd, Announced, ReceiveInQueue
  <1>6. OneReceive'
    BY <1>3, <1>5 DEF OneReceive
  <1>7. PacketWaits'
    <2>1. Announced' => armed
      BY <1>3, <1>5 DEF Announced, ReceiveInQueue
    <2> QED BY <1>1, <1>2, <1>4, <2>1 DEF PacketWaits
  <1>8. Deafness'
    <2>1. armed => queue' # <<>>
      <3> SUFFICES ASSUME armed PROVE queue' # <<>>
        OBVIOUS
      <3>1. CASE HasRoom
        BY <1>1, <3>1, Queued DEF TryAdd
      <3>2. CASE ~ HasRoom
        <4>1. queue' = queue /\ Len(queue) # 0
          BY <1>1, <3>2, CommandQueueAssumption DEF TryAdd, HasRoom, TypeOK, QueueType
        <4> QED BY <4>1
      <3> QED BY <3>1, <3>2
    <2>2. at = "arm" => ~ armed
      BY DEF DriverIs
    <2> QED BY <1>1, <1>4, <2>1, <2>2 DEF Deafness
  <1> QED BY <1>6, <1>7, <1>8 DEF PacketInv

LEMMA PacketStep ==
  TypeOK /\ DriverIs /\ AirInv /\ PacketInv /\ [RadioNext]_radioVars => PacketInv'
  BY PacketSteps, PacketArrives

LEMMA PacketSuffices ==
  TypeOK /\ PacketInv => ReceiveFindsPacket /\ DeafOnlyThroughWindow
  <1> SUFFICES ASSUME TypeOK, PacketInv PROVE ReceiveFindsPacket /\ DeafOnlyThroughWindow
    OBVIOUS
  <1>1. ReceiveFindsPacket
    <2> SUFFICES ASSUME at = "run", entry.kind = "receive", fifo = <<>> PROVE overtaken
      BY DEF ReceiveFindsPacket
    <2>1. entry \in Entry
      BY DEF TypeOK, Core1Type
    <2>2. entry = Receive
      BY <2>1 DEF Entry, Command, Stop, Receive
    <2> QED BY <2>2 DEF PacketInv, PacketWaits, Announced, ReceiveInHand
  <1>2. DeafOnlyThroughWindow
    BY DEF DeafOnlyThroughWindow, PacketInv, Deafness, LastHeard
  <1> QED BY <1>1, <1>2

\* A packet announced by the interrupt stays in the FIFO until ReceiveCommand
\* reads it, unless ExecuteCommand sends something first.
THEOREM ReceiveAlwaysFindsPacket == RadioSpec => []ReceiveFindsPacket
  BY AirInvCorrect, PacketInit, PacketStep, PacketSuffices, PTL DEF RadioSpec

\* The worker blocks in queue_remove_blocking with a radio that hears nothing only
\* if a packet came before EnableReceive had enabled the interrupt.
THEOREM DeafOnlyThroughTheWindow == RadioSpec => []DeafOnlyThroughWindow
  BY AirInvCorrect, PacketInit, PacketStep, PacketSuffices, PTL DEF RadioSpec
-----------------------------------------------------------------------------
(* What is received *)

\* which: where the commands received are among the packets heard.
Matches(which) ==
  /\ which \in [1 .. Len(decoded) -> 1 .. Len(heard)]
  /\ \A i, j \in 1 .. Len(decoded) : i < j => which[i] < which[j]
  /\ \A i \in 1 .. Len(decoded) :
       LET packet == heard[which[i]] IN
         /\ packet.announced /\ packet.command.button \in {My, Up, Down}
         /\ decoded[i] = packet.command

\* The packet that waits is not among them.
DecodedInv ==
  /\ decoded \in Seq(Others)
  /\ \E which : /\ Matches(which)
                /\ Announced => \A i \in 1 .. Len(decoded) : which[i] < Len(heard)

LEMMA DecodedInit == RadioInit => DecodedInv
  <1> SUFFICES ASSUME RadioInit PROVE DecodedInv
    OBVIOUS
  <1>1. decoded = <<>> /\ Len(decoded) = 0
    BY EmptySeq DEF RadioInit
  <1>2. Matches([i \in 1 .. 0 |-> 1])
    BY <1>1 DEF Matches
  <1> QED BY <1>1, <1>2 DEF DecodedInv

LEMMA DecodedStays ==
  ASSUME DecodedInv, UNCHANGED <<decoded, heard>>, Announced' => Announced
  PROVE  DecodedInv'
  <1>1. PICK which : /\ Matches(which)
                     /\ Announced => \A i \in 1 .. Len(decoded) : which[i] < Len(heard)
    BY DEF DecodedInv
  <1>2. Matches(which)'
    BY <1>1 DEF Matches
  <1> QED BY <1>1, <1>2 DEF DecodedInv

LEMMA DecodedBefore ==
  ASSUME TypeOK, AirInv, DecodedInv, HearPacket
  PROVE  DecodedInv'
  <1>1. PICK which : Matches(which)
    BY DEF DecodedInv
  <1>2. PICK c \in Others :
          /\ heard' \in Seq(Hearing) /\ Len(heard) \in Nat /\ Len(heard') = Len(heard) + 1
          /\ \A i \in 1 .. Len(heard) : heard'[i] = heard[i]
    BY Heard
  <1>3. UNCHANGED decoded
    BY DEF HearPacket
  <1>4. \A i \in 1 .. Len(decoded) : /\ which[i] \in 1 .. Len(heard)
                                     /\ heard'[which[i]] = heard[which[i]]
    BY <1>1, <1>2 DEF Matches
  <1>5. which \in [1 .. Len(decoded) -> 1 .. Len(heard')]
    BY <1>1, <1>2 DEF Matches
  <1>6. Matches(which)'
    BY <1>1, <1>3, <1>4, <1>5 DEF Matches
  <1>7. \A i \in 1 .. Len(decoded') : which[i] < Len(heard')
    BY <1>2, <1>3, <1>4
  <1> QED BY <1>3, <1>6, <1>7 DEF DecodedInv

\* What ReceiveCommand reads from the FIFO.
LEMMA FromFifoIs ==
  ASSUME AirInv
  PROVE  \/ Decode(FromFifo) = NotACommand
         \/ heard # <<>> /\ FromFifo = Encode(LastHeard.command)
  <1> DEFINE blanks == Times(NoByte, 7)
  <1>1. blanks \in Seq(Bytes) /\ Len(blanks) = 7
    BY RadioAssumption, TimesIs
  <1>2. CASE fifo = <<>>
    <2>1. fifo \o blanks = blanks
      BY <1>1, <1>2, ConcatEmptySeq
    <2>2. SubSeq(blanks, 1, 7) = blanks
      <3> HIDE DEF blanks
      <3> QED BY <1>1
    <2>3. FromFifo = [i \in 1 .. 7 |-> NoByte]
      BY <2>1, <2>2 DEF FromFifo, Times
    <2> QED BY <2>3, RadioAssumption, DecodeNothing
  <1>3. CASE heard # <<>> /\ fifo = Encode(LastHeard.command)
    <2>1. fifo \in Seq(Bytes) /\ Len(fifo) = 7
      <3>1. LastHeard \in Hearing
        BY <1>3, ElementOfSeq, EmptySeq DEF LastHeard, AirInv
      <3>2. LastHeard.command \in Packet
        BY <3>1, RadioAssumption DEF Hearing
      <3> QED BY <1>3, <3>2, EncodeIs
    <2>2. SubSeq(fifo \o blanks, 1, Len(fifo)) = fifo
      <3>1. 0 \in 0 .. Len(fifo)
        BY <2>1
      <3> QED BY <1>1, <2>1, <3>1, FrontIs, Zenon
    <2> QED BY <1>3, <2>1, <2>2 DEF FromFifo
  <1> QED BY <1>2, <1>3 DEF AirInv, FifoIs

LEMMA DecodedGrows ==
  ASSUME TypeOK, AirInv, PacketInv, DecodedInv, ReadPacket, decoded' # decoded
  PROVE  DecodedInv'
  <1> DEFINE c == Decode(FromFifo)
             n == Len(decoded)
             h == Len(heard)
  <1>1. c # NotACommand /\ decoded' = Append(decoded, c) /\ UNCHANGED heard
    BY DEF ReadPacket
  <1>2. heard # <<>> /\ FromFifo = Encode(LastHeard.command)
    BY <1>1, FromFifoIs
  <1>3. h \in 1 .. h /\ h \in Nat /\ LastHeard \in Hearing
    BY <1>2, ElementOfSeq, EmptySeq DEF LastHeard, AirInv
  <1>4. LastHeard.command \in Others /\ LastHeard.command \in Packet
    BY <1>3, RadioAssumption DEF Hearing
  <1>5. c = LastHeard.command /\ c.button \in {My, Up, Down}
    <2>1. c = (IF LastHeard.command.button \in {Up, Down, My} THEN LastHeard.command
               ELSE NotACommand)
      BY <1>2, <1>4, DecodeEncode, Zenon
    <2> HIDE DEF c
    <2> QED BY <1>1, <2>1
  <1>6. Announced
    <2>1. entry \in Entry
      BY DEF TypeOK, Core1Type
    <2>2. at = "run" /\ entry = Receive
      BY <2>1 DEF ReadPacket, ReceiveCommand, Entry, Command, Stop, Receive
    <2> QED BY <2>2 DEF Announced, ReceiveInHand
  <1>7. LastHeard.announced
    BY <1>6 DEF PacketInv, PacketWaits
  <1>8. ~ Announced'
    <2>1. at' = "top" /\ UNCHANGED queue
      BY DEF ReadPacket, ReceiveCommand
    <2>2. ~ ReceiveInQueue
      <3>1. ReceiveInHand
        <4>1. entry \in Entry
          BY DEF TypeOK, Core1Type
        <4> QED BY <4>1 DEF ReadPacket, ReceiveCommand, Entry, Command, Stop, Receive, ReceiveInHand
      <3> QED BY <3>1 DEF PacketInv, OneReceive
    <2> QED BY <2>1, <2>2 DEF Announced, ReceiveInHand, ReceiveInQueue
  <1>9. PICK which : Matches(which) /\ \A i \in 1 .. n : which[i] < h
    BY <1>6 DEF DecodedInv
  <1> HIDE DEF c
  <1>10. /\ decoded' \in Seq(Others) /\ n \in Nat /\ Len(decoded') = n + 1
         /\ \A i \in 1 .. n : decoded'[i] = decoded[i]
         /\ decoded'[n + 1] = c
    BY <1>1, <1>4, <1>5, AppendProperties, LenProperties DEF DecodedInv
  <1>11. PICK longer : longer = [i \in 1 .. n + 1 |-> IF i = n + 1 THEN h ELSE which[i]]
    OBVIOUS
  <1>12. \A i \in 1 .. n : which[i] \in 1 .. h /\ which[i] < h
    BY <1>9 DEF Matches
  <1> HIDE DEF n, h
  <1>13. \A i \in 1 .. n + 1 : i \in 1 .. n \/ i = n + 1
    BY <1>10
  <1>14. /\ \A i \in 1 .. n : longer[i] = which[i]
         /\ longer[n + 1] = h
         /\ longer \in [1 .. n + 1 -> 1 .. h]
    BY <1>3, <1>10, <1>11, <1>12, <1>13
  <1>15. Matches(longer)'
    <2>1. \A i, j \in 1 .. n + 1 : i < j => longer[i] < longer[j]
      <3> SUFFICES ASSUME NEW i \in 1 .. n + 1, NEW j \in 1 .. n + 1, i < j
                   PROVE  longer[i] < longer[j]
        OBVIOUS
      <3>1. i \in 1 .. n
        BY <1>10
      <3>2. CASE j = n + 1
        BY <1>12, <1>14, <3>1, <3>2
      <3>3. CASE j \in 1 .. n
        BY <1>9, <1>14, <3>1, <3>3 DEF Matches, n
      <3> QED BY <1>13, <3>2, <3>3
    <2>2. ASSUME NEW i \in 1 .. n + 1
          PROVE  /\ heard[longer[i]].announced
                 /\ heard[longer[i]].command.button \in {My, Up, Down}
                 /\ decoded'[i] = heard[longer[i]].command
      <3>1. CASE i = n + 1
        BY <1>5, <1>7, <1>10, <1>14, <3>1 DEF LastHeard, h
      <3>2. CASE i \in 1 .. n
        BY <1>9, <1>10, <1>14, <3>2 DEF Matches, n
      <3> QED BY <1>13, <3>1, <3>2
    <2> QED BY <1>1, <1>10, <1>14, <2>1, <2>2 DEF Matches, h
  <1> QED BY <1>8, <1>10, <1>15 DEF DecodedInv

LEMMA DecodedStep ==
  TypeOK /\ DriverIs /\ AirInv /\ PacketInv /\ DecodedInv /\ [RadioNext]_radioVars => DecodedInv'
  <1> SUFFICES ASSUME TypeOK, DriverIs, AirInv, PacketInv, DecodedInv, [RadioNext]_radioVars
               PROVE  DecodedInv'
    OBVIOUS
  <1>1. CASE HearPacket
    BY <1>1, DecodedBefore
  <1>2. CASE Restart
    <2>1. decoded' = <<>> /\ Len(decoded') = 0
      BY <1>2, EmptySeq DEF Restart
    <2>2. Matches([i \in 1 .. 0 |-> 1])'
      BY <2>1 DEF Matches
    <2> QED BY <2>1, <2>2 DEF DecodedInv
  <1>3. CASE ReadPacket
    <2>1. CASE decoded' = decoded
      <3>1. UNCHANGED <<decoded, heard>> /\ (Announced' => Announced)
        <4>1. Announced' => Announced
          <5>1. UNCHANGED queue /\ at = "run" /\ at' = "top"
            BY <1>3 DEF ReadPacket, ReceiveCommand
          <5> QED BY <5>1 DEF Announced, ReceiveInHand, ReceiveInQueue
        <4> QED BY <1>3, <2>1, <4>1 DEF ReadPacket
      <3> QED BY <3>1, DecodedStays
    <2> QED BY <1>3, <2>1, DecodedGrows
  <1>4. CASE ~ HearPacket /\ ~ Restart /\ ~ ReadPacket
    <2>1. UNCHANGED <<decoded, heard>>
      <3>1. CASE Core0 \/ UNCHANGED radioVars
        BY <3>1 DEF Core0, radioVars, traffic
      <3>2. CASE Initialize \/ EnterListenMode \/ EnableIrq \/ UseQueue \/ DisableIrq \/ LeaveListenMode
        BY <3>2 DEF Initialize, EnterListenMode, EnableIrq, UseQueue, DisableIrq, LeaveListenMode, traffic
      <3>3. CASE SendHorn \/ SendPayload \/ CommandSent
        BY <3>3 DEF SendHorn, SendPayload, CommandSent
      <3> QED BY <1>4, <3>1, <3>2, <3>3 DEF RadioNext, RadioWorker
    <2> QED BY <1>4, <2>1, PacketSteps, DecodedStays
  <1> QED BY <1>1, <1>2, <1>3, <1>4

\* ReceiveCommand takes for commands only packets that were heard and announced,
\* each once and in their order, and only My, Up and Down.
THEOREM ReceivedWereHeard == RadioSpec => []DecodedWereHeard
  <1>1. DecodedInv => DecodedWereHeard
    BY DEF DecodedInv, Matches, DecodedWereHeard
  <1> QED BY <1>1, AirInvCorrect, PacketInit, PacketStep, DecodedInit, DecodedStep, PTL DEF RadioSpec
=============================================================================
