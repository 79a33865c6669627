---------------------------- MODULE CommandQueue ----------------------------
(***************************************************************************)
(* RadioCommandQueue (commandQueue.cpp) between its two users, from boot   *)
(* to reboot.                                                              *)
(*                                                                         *)
(* Core 0 runs the main loop (picoSomfy.cpp, runServiceMode).  Everything  *)
(* else it does -- web requests, MQTT messages, timers -- are callbacks    *)
(* that run inside doPollingSleep, one at a time: a button press queues a  *)
(* command and moves the remote's rolling code on; a timer saves the       *)
(* remotes that changed; a stop request ends the loop, which shuts the     *)
(* queue down, saves the remotes and reboots.                              *)
(*                                                                         *)
(* Core 1 runs the worker, which transmits the commands and, while the     *)
(* queue is empty, listens.  A packet heard raises a GPIO interrupt on     *)
(* core 1 that queues a receive entry.  What the worker does with the      *)
(* packet is in RecvRing.                                                  *)
(*                                                                         *)
(* A power cut may happen between any two steps.  Flash is the function    *)
(* "saved"; a record is written in one step (BlockStorage looks inside).   *)
(***************************************************************************)
EXTENDS Integers, Sequences, FiniteSets

CONSTANTS
  Remotes,     \* the device's own remotes: no other transmitter has their ids
  QueueSize,   \* the capacity given to queue_init (16)
  CodeMod,     \* 2^16: the rolling code is a uint16_t
  MaxPresses,  \* bound: button presses in a behaviour
  MaxPackets,  \* bound: packets heard in a behaviour
  MaxRestarts, \* bound: reboots
  MaxCuts      \* bound: power cuts

\* No rolling code wraps around: a remote takes 65535 presses to do that.
ASSUME CommandQueueAssumption ==
  /\ QueueSize \in Nat \ {0}
  /\ CodeMod \in Nat
  /\ MaxPresses \in Nat /\ MaxPackets \in Nat
  /\ MaxRestarts \in Nat /\ MaxCuts \in Nat
  /\ MaxPresses + 1 < CodeMod

VARIABLES
  queue,     \* _queue, oldest entry first
  at,        \* core 1: where Worker is
  entry,     \* core 1: the entry it removed last
  hearing,   \* radio: it is in receive mode and has not heard a packet
  armed,     \* radio: the interrupt of the packet pin is enabled
  main,      \* core 0: where the main loop is
  todo,      \* core 0: the remotes SaveRemoteState has yet to visit
  after,     \* core 0: where it goes after SaveRemoteState
  roll,      \* _rollingCode of each remote
  dirty,     \* _isDirty of each remote
  saved,     \* flash: the rolling code of each remote
  accepted,  \* history: commands queued in the main loop since boot
  base,      \* history: commands sent before this boot
  sent,      \* history: commands sent since the last power cut
  spent,     \* history: codes that had been sent when a remote was saved
  used       \* history: how much of each bound is used up

core1   == <<at, entry>>
radio   == <<hearing, armed>>
core0   == <<main, todo, after>>
remotes == <<roll, dirty, saved>>
history == <<accepted, base, sent, spent, used>>
vars    == <<queue, core1, radio, core0, remotes, history>>

Codes   == 0 .. CodeMod - 1
Command == [kind : {"send"}, remote : Remotes, code : Codes]
Stop    == [kind |-> "stop"]
Receive == [kind |-> "receive"]
Entry   == Command \cup {Stop, Receive}

Use(what) == used' = [used EXCEPT ![what] = @ + 1]

FirstCode == 1

Init ==
  /\ queue = <<>>
  /\ at = "init" /\ entry = Stop
  /\ hearing = FALSE /\ armed = FALSE
  /\ main = "loop" /\ todo = {} /\ after = "loop"
  /\ saved = [r \in Remotes |-> FirstCode]
  /\ roll = saved
  /\ dirty = [r \in Remotes |-> FALSE]
  /\ accepted = <<>> /\ base = 0 /\ sent = <<>>
  /\ spent = [r \in Remotes |-> {}]
  /\ used = [presses |-> 0, packets |-> 0, restarts |-> 0, cuts |-> 0]

HasRoom == Len(queue) < QueueSize

\* queue_try_add: the entry is dropped when the queue is full.
TryAdd(e) == queue' = IF HasRoom THEN Append(queue, e) ELSE queue

-----------------------------------------------------------------------------
(* Core 0 *)

\* Callbacks run: in the main loop, and in the last second before the reboot.
Polling == main \in {"loop", "restart"}

NextCode(r) == (roll[r] + 1) % CodeMod

\* SomfyRemote::PressButtons.  The result of QueueCommand is ignored.
Press(r) ==
  /\ Polling
  /\ used.presses < MaxPresses
  /\ LET c == [kind |-> "send", remote |-> r, code |-> roll[r]] IN
       /\ TryAdd(c)
       /\ accepted' = IF HasRoom /\ main = "loop" THEN Append(accepted, c) ELSE accepted
  /\ roll' = [roll EXCEPT ![r] = NextCode(r)]
  /\ dirty' = [dirty EXCEPT ![r] = TRUE]
  /\ Use("presses")
  /\ UNCHANGED <<core1, radio, core0, saved, base, sent, spent>>

\* SomfyRemotes::SaveRemoteState, from its timer or at the end of the loop.
StartSaving(next) ==
  /\ main' = "saving"
  /\ todo' = Remotes
  /\ after' = next

SaveTimer ==
  /\ Polling
  /\ \E r \in Remotes : dirty[r]   \* otherwise it does nothing
  /\ StartSaving(main)
  /\ UNCHANGED <<queue, core1, radio, remotes, history>>

SentCodes(r) == {sent[i].code : i \in {j \in 1 .. Len(sent) : sent[j].remote = r}}

\* Mutation: the code last used is saved, not the next one.
CodeToSaveStale(r) == roll[r] - 1

CodeToSave(r) == roll[r]

\* SomfyRemote::SaveConfig: one remote, if it changed.
SaveOne(r) ==
  /\ main = "saving"
  /\ r \in todo
  /\ saved' = IF dirty[r] THEN [saved EXCEPT ![r] = CodeToSave(r)] ELSE saved
  /\ dirty' = [dirty EXCEPT ![r] = FALSE]
  /\ spent' = [spent EXCEPT ![r] = @ \cup SentCodes(r)]
  /\ todo' = todo \ {r}
  /\ UNCHANGED <<queue, core1, radio, main, after, roll, accepted, base, sent, used>>

SavingDone ==
  /\ main = "saving"
  /\ todo = {}
  /\ main' = after
  /\ UNCHANGED <<queue, core1, radio, todo, after, remotes, history>>

\* The main loop finds that a stop was requested.
LeaveLoop ==
  /\ main = "loop"
  /\ main' = "stop"
  /\ UNCHANGED <<queue, core1, radio, todo, after, remotes, history>>

\* Shutdown: queue_add_blocking waits for room.
QueueStop ==
  /\ main = "stop"
  /\ HasRoom
  /\ queue' = Append(queue, Stop)
  /\ main' = "drain"
  /\ UNCHANGED <<core1, radio, todo, after, remotes, history>>

\* Mutation: Shutdown does not wait.
DrainedAtOnce == TRUE

Drained == queue = <<>>

\* Shutdown returns once the queue is seen empty; the remotes are saved.
ShutdownReturns ==
  /\ main = "drain"
  /\ Drained
  /\ StartSaving("restart")
  /\ UNCHANGED <<queue, core1, radio, remotes, history>>

\* What a boot finds: memory is gone, the codes come from flash.
Boot ==
  /\ queue' = <<>>
  /\ at' = "init" /\ entry' = Stop
  /\ hearing' = FALSE /\ armed' = FALSE
  /\ main' = "loop" /\ todo' = {} /\ after' = "loop"
  /\ roll' = saved
  /\ dirty' = [r \in Remotes |-> FALSE]
  /\ accepted' = <<>>
  /\ UNCHANGED <<saved, spent>>

Reboot ==
  /\ main = "restart"
  /\ used.restarts < MaxRestarts
  /\ Boot
  /\ base' = Len(sent)
  /\ Use("restarts")
  /\ UNCHANGED sent

PowerCut ==
  /\ used.cuts < MaxCuts
  /\ Boot
  /\ base' = 0
  /\ sent' = <<>>
  /\ Use("cuts")

-----------------------------------------------------------------------------
(* Core 1 *)

WorkerStarts ==
  /\ at = "init"
  /\ at' = "top"
  /\ UNCHANGED <<queue, entry, radio, core0, remotes, history>>

\* Mutation: receive mode is entered whatever waits in the queue.
MayListenAlways == TRUE

MayListen == queue = <<>>

\* Receive mode is entered ...
EnableReceive ==
  /\ at = "top"
  /\ MayListen
  /\ hearing' = TRUE
  /\ at' = "arm"
  /\ UNCHANGED <<queue, entry, armed, core0, remotes, history>>

\* ... and then the interrupt is enabled, with any earlier edge acknowledged.
EnableInterrupt ==
  /\ at = "arm"
  /\ armed' = TRUE
  /\ at' = "wait"
  /\ UNCHANGED <<queue, entry, hearing, core0, remotes, history>>

SkipReceive ==
  /\ at = "top"
  /\ ~ MayListen
  /\ at' = "wait"
  /\ UNCHANGED <<queue, entry, radio, core0, remotes, history>>

\* Mutation: the entry is copied but stays in the queue.
RestAfterPeek == queue

\* Mutation: everything that waits is dropped.
RestCleared == <<>>

RestAfterRemove == Tail(queue)

\* queue_remove_blocking
Remove ==
  /\ at = "wait"
  /\ queue # <<>>
  /\ entry' = Head(queue)
  /\ queue' = RestAfterRemove
  /\ at' = "standby"
  /\ UNCHANGED <<radio, core0, remotes, history>>

\* RFM69Radio::Standby disables the interrupt ...
DisableInterrupt ==
  /\ at = "standby"
  /\ armed' = FALSE
  /\ at' = "abort"
  /\ UNCHANGED <<queue, entry, hearing, core0, remotes, history>>

\* ... and then leaves receive mode.
Standby ==
  /\ at = "abort"
  /\ hearing' = FALSE
  /\ at' = "run"
  /\ UNCHANGED <<queue, entry, armed, core0, remotes, history>>

\* ExecuteCommand
ExecuteCommand ==
  /\ at = "run"
  /\ entry.kind = "send"
  /\ sent' = Append(sent, entry)
  /\ at' = "top"
  /\ UNCHANGED <<queue, entry, hearing, armed, core0, remotes, accepted, base, spent, used>>

\* ReceiveCommand reads the radio's FIFO and stores what it decodes: see RecvRing.
ReceiveCommand ==
  /\ at = "run"
  /\ entry.kind = "receive"
  /\ at' = "top"
  /\ UNCHANGED <<queue, entry, hearing, armed, core0, remotes, history>>

\* Mutation: the stop entry does not end the worker.
AfterStopContinues == "top"

AfterStop == "exited"

WorkerStops ==
  /\ at = "run"
  /\ entry.kind = "stop"
  /\ at' = AfterStop
  /\ UNCHANGED <<queue, entry, radio, core0, remotes, history>>

\* A packet arrives.  The radio leaves receive mode by itself after one
\* packet; the interrupt, if it is enabled, runs QueueReceive on core 1.
PacketHeard ==
  /\ hearing
  /\ used.packets < MaxPackets
  /\ hearing' = FALSE
  /\ IF armed THEN TryAdd(Receive) ELSE UNCHANGED queue
  /\ Use("packets")
  /\ UNCHANGED <<core1, armed, core0, remotes, accepted, base, sent, spent>>

-----------------------------------------------------------------------------
Worker ==
  \/ WorkerStarts \/ EnableReceive \/ EnableInterrupt \/ SkipReceive
  \/ Remove \/ DisableInterrupt \/ Standby \/ ExecuteCommand \/ ReceiveCommand \/ WorkerStops

Core0Proceeds ==
  \/ \E r \in Remotes : SaveOne(r)
  \/ SavingDone \/ QueueStop \/ ShutdownReturns \/ Reboot

Next ==
  \/ \E r \in Remotes : Press(r)
  \/ SaveTimer
  \/ LeaveLoop
  \/ Core0Proceeds
  \/ Worker
  \/ PacketHeard
  \/ PowerCut

Spec == Init /\ [][Next]_vars

\* Both cores keep running.  Nothing says that a button is pressed, a packet
\* heard, the service stopped or the power cut.
FairSpec == Spec /\ WF_vars(Worker) /\ WF_vars(Core0Proceeds)

-----------------------------------------------------------------------------
QueueType == queue \in Seq(Entry) /\ Len(queue) <= QueueSize

Core1Type ==
  /\ at \in {"init", "top", "arm", "wait", "standby", "abort", "run", "exited"}
  /\ entry \in Entry

RadioType == hearing \in BOOLEAN /\ armed \in BOOLEAN

Core0Type ==
  /\ main \in {"loop", "saving", "stop", "drain", "restart"}
  /\ todo \subseteq Remotes
  /\ after \in {"loop", "restart"}

RemotesType ==
  /\ roll \in [Remotes -> Codes]
  /\ dirty \in [Remotes -> BOOLEAN]
  /\ saved \in [Remotes -> Codes]

SentType ==
  /\ accepted \in Seq(Command)
  /\ sent \in Seq(Command)
  /\ base \in 0 .. Len(sent)
  /\ spent \in [Remotes -> SUBSET Codes]

UsedType ==
  used \in [presses : 0 .. MaxPresses, packets : 0 .. MaxPackets,
            restarts : 0 .. MaxRestarts, cuts : 0 .. MaxCuts]

TypeOK ==
  /\ QueueType /\ Core1Type /\ RadioType /\ Core0Type
  /\ RemotesType /\ SentType /\ UsedType

SentSinceBoot == SubSeq(sent, base + 1, Len(sent))

InHand == IF at \in {"standby", "abort", "run"} /\ entry.kind = "send" THEN <<entry>> ELSE <<>>

\* The commands of the queue, in its order.
Waiting ==
  LET commands[n \in 0 .. Len(queue)] ==
        IF n = 0 THEN <<>>
        ELSE IF queue[n].kind = "send" THEN Append(commands[n - 1], queue[n])
        ELSE commands[n - 1]
  IN  commands[Len(queue)]

\* Shutdown has returned.
ShutDown == main = "restart" \/ (main = "saving" /\ after = "restart")

\* The worker transmits the commands the main loop queued, all of them, in
\* that order and each one once, whatever the interrupt puts between them.
CommandsInOrder ==
  ~ ShutDown => accepted = SentSinceBoot \o InHand \o Waiting

\* When Shutdown returns, every command queued before it is on the air and
\* the worker sends nothing more, whatever is queued later: only then are the
\* rolling codes saved, so none that is sent can be missing from flash.
ShutdownFlushes ==
  ShutDown => /\ accepted = SentSinceBoot
              /\ at \in {"standby", "abort", "run", "exited"}
              /\ entry = Stop

\* As long as the power is not cut, a remote's rolling codes go up from one
\* transmission to the next, across any number of restarts: a motor ignores a
\* command whose code does not.
RollingCodesIncrease ==
  \A i, j \in 1 .. Len(sent) :
    i < j /\ sent[i].remote = sent[j].remote => sent[i].code < sent[j].code

\* A power cut loses the codes used since the last save, and only those: a
\* code that had been sent when its remote was saved is never sent again.
NoSpentCodeAgain ==
  [][Len(sent') = Len(sent) + 1 =>
       LET c == sent'[Len(sent')] IN c.code \notin spent[c.remote]]_vars

\* A command queued in the main loop is transmitted, even when the service is
\* stopped in the meantime, unless the power is cut.
AcceptedIsSent ==
  \A n \in 1 .. MaxPresses, cuts \in 0 .. MaxCuts :
    main = "loop" /\ Len(accepted) >= n /\ used.cuts = cuts
      ~> Len(sent) - base >= n \/ used.cuts > cuts

\* commandQueue.cpp:99, "Wait until our Stop command is removed from the
\* queue": Shutdown returns when the worker has taken the stop entry, so that
\* the state is saved and the device restarts.
ShutdownCompletes == main = "drain" ~> main = "restart"

\* Shutdown waits for an empty queue.  It returns, and the device restarts (or
\* the power is cut and it boots), unless a packet heard too late has left a
\* receive entry with a worker that has stopped.
ShutdownReturnsUnlessHeard ==
  main = "drain" ~> \/ main \in {"restart", "loop"}
                    \/ at = "exited" /\ \E i \in 1 .. Len(queue) : queue[i] = Receive
=============================================================================
