------------------------------- MODULE Radio --------------------------------
(***************************************************************************)
(* The worker of core 1 (commandQueue.cpp) with its radio: the driver      *)
(* (radio.cpp), which remembers the mode it has set, and the chip, which   *)
(* leaves receive mode by itself and has one FIFO for what it is to send   *)
(* and what it has received.                                               *)
(*                                                                         *)
(* CommandQueue takes a transmission for one step and decides itself when  *)
(* the radio listens and its interrupt is enabled.  Here both follow from  *)
(* the registers that the driver writes (`hearing' and `armed' are those   *)
(* of CommandQueue), and every byte on the air comes out of the FIFO.      *)
(* Core 0 and the worker's use of the queue are CommandQueue's.            *)
(*                                                                         *)
(* Of the chip (an RFM69) the model has what the firmware relies on.  Its  *)
(* FIFO is emptied when it starts to receive and when it stops sending;    *)
(* otherwise its content stays.  In listen mode with ListenEnd = MODE it   *)
(* goes to standby after a packet.                                         *)
(***************************************************************************)
EXTENDS CommandQueue, SomfyPacket

CONSTANTS
  Others,      \* what other remotes send: commands, as Encode takes them
  Button,      \* the button every command presses
  Repeat,      \* how often it is repeated
  Stack,       \* the byte that lies behind "fog" in memory
  NoByte       \* the byte an empty FIFO reads as

ASSUME RadioAssumption ==
  /\ Remotes \subseteq 0 .. MaxId /\ CodeMod <= MaxCode + 1
  /\ Others \subseteq Packet
  /\ Button \in {My, Up, Down} /\ Repeat \in Nat
  /\ Stack \in Bytes /\ NoByte \in Bytes

VARIABLES
  fifo,      \* the chip's FIFO
  format,    \* the chip's format of packets
  driver,    \* _mode and _listen
  air,       \* history: what was sent for the command in progress
  heard,     \* history: packets heard, and whether they were announced
  overtaken, \* history: a command was sent since the last packet was heard
  decoded    \* history: commands received

device    == <<fifo, format, driver>>
traffic   == <<air, heard, overtaken, decoded>>
radioVars == <<vars, device, traffic>>

\* After Reset and Initialize
FreshFormat == [sync |-> "none", manchester |-> TRUE, length |-> 64]
FreshDriver == [mode |-> "sleep", listen |-> FALSE]

RadioInit ==
  /\ Init
  /\ fifo = <<>> /\ format = FreshFormat /\ driver = FreshDriver
  /\ air = <<>> /\ heard = <<>> /\ overtaken = FALSE /\ decoded = <<>>

-----------------------------------------------------------------------------
(* Core 0 *)

Core0 ==
  /\ UNCHANGED <<device, traffic>>
  /\ \/ \E r \in Remotes : Press(r) \/ SaveOne(r)
     \/ SaveTimer \/ SavingDone
     \/ LeaveLoop \/ QueueStop \/ ShutdownReturns

Restart ==
  /\ Reboot \/ PowerCut
  /\ fifo' = <<>> /\ format' = FreshFormat /\ driver' = FreshDriver
  /\ air' = <<>> /\ heard' = <<>> /\ overtaken' = FALSE /\ decoded' = <<>>

-----------------------------------------------------------------------------
(* The driver *)

\* SetSyncBytes, SetPacketFormat
Formatted(sync, manchester, length) ==
  format' = [sync |-> sync, manchester |-> manchester, length |-> length]

LeftAfterSending(bytes, length) == <<>>

\* TransmitPacket: the bytes go behind what is in the FIFO; as many as the
\* format says leave it in front, and leaving transmit mode empties it.
TransmitPacket(bytes) ==
  LET filled == fifo \o bytes
      length == format'.length
  IN  /\ fifo' = LeftAfterSending(filled, length)
      /\ air' = Append(air, [format |-> format', bytes |-> SubSeq(filled, 1, length)])

Times(b, n) == [i \in 1 .. n |-> b]

-----------------------------------------------------------------------------
(* Worker *)

\* What the driver does is not the queue's business.
DriverOnly == UNCHANGED <<queue, entry, core0, remotes, history>>

\* Reset, Initialize
Initialize ==
  /\ at = "init"
  /\ fifo' = <<>> /\ format' = FreshFormat
  /\ hearing' = FALSE
  /\ driver' = [mode |-> "stby", listen |-> FALSE]
  /\ at' = "top"
  /\ UNCHANGED <<armed, traffic>> /\ DriverOnly

\* EnableReceive begins; SetMode writes the register only if it is to change
\* something.
EnterListenMode ==
  /\ at = "top"
  /\ MayListen
  /\ Formatted("receive", TRUE, 7)
  /\ hearing' = (driver.listen => hearing)
  /\ fifo' = IF driver.listen THEN fifo ELSE <<>>
  /\ driver' = [mode |-> "stby", listen |-> TRUE]
  /\ at' = "arm"
  /\ UNCHANGED <<armed, traffic>> /\ DriverOnly

\* EnableReceive ends.
EnableIrq ==
  /\ at = "arm"
  /\ armed' = TRUE
  /\ at' = "wait"
  /\ UNCHANGED <<hearing, device, traffic>> /\ DriverOnly

\* queue_remove_blocking and what surrounds it
UseQueue ==
  /\ SkipReceive \/ Remove \/ WorkerStops
  /\ UNCHANGED <<device, traffic>>

\* Mutation: the interrupt stays enabled.
IrqInStandbyStays == armed

\* SetMode: coming from receive mode ...
IrqInStandby == IF driver.listen THEN FALSE ELSE armed

\* Standby begins
DisableIrq ==
  /\ at = "standby"
  /\ armed' = IrqInStandby
  /\ at' = "abort"
  /\ UNCHANGED <<hearing, device, traffic>> /\ DriverOnly

\* Mutation: SetMode forgets that it has left receive mode.
InStandbyStale == [driver EXCEPT !.mode = "stby"]

InStandby == [mode |-> "stby", listen |-> FALSE]

\* Standby ends
LeaveListenMode ==
  /\ at = "abort"
  /\ hearing' = (~ driver.listen /\ hearing)
  /\ driver' = InStandby
  /\ at' = "run"
  /\ UNCHANGED <<armed, fifo, format, traffic>> /\ DriverOnly

Sending == at = "run" /\ entry.kind = "send"

Commanded(e) == [remote |-> e.remote, code |-> e.code, button |-> Button]
Horn    == Times(255, 2)
Payload == Encode(Commanded(entry)) \o Times(0, 9)

\* ExecuteCommand: the "fog horn", two bytes of an array that is read to 16, ...
SendHorn ==
  /\ Sending /\ air = <<>>
  /\ Formatted("none", FALSE, 2)
  /\ TransmitPacket(Horn \o Times(Stack, 14))
  /\ overtaken' = TRUE
  /\ UNCHANGED <<vars, driver, heard, decoded>>

\* ... the payload and its repetitions, ...
SendPayload ==
  /\ Sending /\ Len(air) \in 1 .. Repeat + 1
  /\ Formatted(IF Len(air) = 1 THEN "short" ELSE "long", TRUE, 7)
  /\ TransmitPacket(Payload)
  /\ UNCHANGED <<vars, driver, heard, overtaken, decoded>>

\* ... and it returns.
CommandSent ==
  /\ ExecuteCommand
  /\ Len(air) = Repeat + 2
  /\ air' = <<>>
  /\ UNCHANGED <<device, heard, overtaken, decoded>>

FromFifo == SubSeq(fifo \o Times(NoByte, 7), 1, 7)

\* What becomes of the command is in RecvRing.
ReadPacket ==
  /\ ReceiveCommand
  /\ LET c == Decode(FromFifo) IN
       decoded' = IF c = NotACommand THEN decoded ELSE Append(decoded, c)
  /\ fifo' = SubSeq(fifo, 8, Len(fifo))
  /\ UNCHANGED <<format, driver, air, heard, overtaken>>

\* The chip receives a packet, and stops listening.
HearPacket ==
  /\ PacketHeard
  /\ \E c \in Others :
       /\ fifo' = Encode(c)
       /\ heard' = Append(heard, [command |-> c, announced |-> armed])
  /\ overtaken' = FALSE
  /\ UNCHANGED <<format, driver, air, decoded>>

RadioWorker ==
  \/ Initialize \/ EnterListenMode \/ EnableIrq \/ UseQueue \/ DisableIrq \/ LeaveListenMode
  \/ SendHorn \/ SendPayload \/ CommandSent \/ ReadPacket

RadioNext == Core0 \/ Restart \/ RadioWorker \/ HearPacket

RadioSpec == RadioInit /\ [][RadioNext]_radioVars

-----------------------------------------------------------------------------
\* The worker with its driver and chip does what CommandQueue says of it: the
\* mode that the driver remembers, and by which it leaves out writes, is the
\* radio's, so that it listens and raises interrupts exactly when the queue's
\* reasoning needs it to.
ImplementsCommandQueue == Spec

\* What is sent for a command: two bytes of wake-up and then packets that a
\* receiver takes for that command, whole, each with the sync it should have.
\* A packet that lies unread in the FIFO when the command is executed takes
\* the place of the wake-up bytes, and of nothing else.
OnAirAsCommanded ==
  Sending /\ Len(air) = Repeat + 2 =>
    /\ \/ air[1].bytes = Horn
       \/ \E i \in 1 .. Len(heard) : air[1].bytes = SubSeq(Encode(heard[i].command), 1, 2)
    /\ \A k \in 1 .. Repeat + 1 :
         /\ Decode(air[k + 1].bytes) = Commanded(entry)
         /\ air[k + 1].format = [sync |-> IF k = 1 THEN "short" ELSE "long",
                                 manchester |-> TRUE, length |-> 7]

\* Commands are received in the order they were heard, no one twice, none
\* that no remote sent, and only My, Up and Down, although packets share the
\* FIFO with what is sent and receive entries the queue.
DecodedWereHeard ==
  \E which \in [1 .. Len(decoded) -> 1 .. Len(heard)] :
    /\ \A i, j \in 1 .. Len(decoded) : i < j => which[i] < which[j]
    /\ \A i \in 1 .. Len(decoded) :
         LET packet == heard[which[i]] IN
           /\ packet.announced /\ packet.command.button \in {My, Up, Down}
           /\ decoded[i] = packet.command

\* When the worker comes to a receive entry the packet is still in the FIFO,
\* unless a command that was queued before it has been sent through it.
ReceiveFindsPacket ==
  at = "run" /\ entry.kind = "receive" /\ fifo = <<>> => overtaken

\* commandQueue.cpp:166, "Enter RX mode while we wait": the worker waits with
\* a deaf radio only after a packet that came between the two steps of
\* EnableReceive, before the interrupt was enabled.
DeafOnlyThroughWindow ==
  at = "wait" /\ queue = <<>> /\ ~ hearing =>
    heard # <<>> /\ ~ heard[Len(heard)].announced
=============================================================================
