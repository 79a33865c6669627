# pico_somfy: a TLA+ model

pico_somfy is firmware for a Raspberry Pi Pico W with an RFM69 radio. It
imitates Somfy RTS remote controls: commands come in over HTTP and MQTT, go out
over the air, and the presses of other remotes are heard so that the positions
of the blinds can be followed. Remotes, blinds and settings are kept in flash.

This directory models the parts of the firmware whose correctness depends on
the order of steps: two cores and an interrupt that share a queue and a buffer,
rolling codes that must survive restarts, records in flash and references
between them that must survive a power cut, settings that are saved while the
device is about to restart, pages written in parts while what they show changes,
and an estimate of where a blind is that only follows what it is told, and when.
TLC checks small instances; TLAPS proves every safety property that they find to
hold, and the three refinements between modules, for every value of the constants.

## 1. The system

### 1.1 Parts, their state and their operations

| Part | Source (`src/firmware/`) | State | Operations |
|---|---|---|---|
| RadioCommandQueue | `commandQueue.*` | a `queue_t` of 16 entries (send, receive, stop); a circular buffer of 8 received presses with read index, write index and count under a spin lock | `QueueCommand`, `ReadCommand`, `Shutdown` (core 0); `Worker`, `ExecuteCommand`, `ReceiveCommand` (core 1); `QueueReceive` (interrupt, core 1) |
| RFM69Radio | `radio.*` | cached mode and listen flag; in the chip: mode, one FIFO for both directions; the pin interrupt | `EnableReceive`, `Standby`, `TransmitPacket`, `ReceivePacket` |
| SomfyRemote(s) | `remote.*`, `remotes.*` | per remote: rolling code, name, associated blinds, dirty flag; the table of remotes, the next id, the ids heard lately | press, external press, save, create, import, delete, associate, discovery |
| Blind(s) | `blind.*`, `blinds.*` | per blind: target, estimated position, favourite, direction, timer; the table and the next id | go up, down, to a position, stop, button pressed, tick, save, add, delete |
| BlockStorage | `blockStorage.*` | 32 sectors of 16 blocks in flash, found by their first word | `GetBlock`, `SaveBlock`, `ClearBlock`, `Format`, and inside them `FormatEmptySectors` |
| DeviceConfig | `deviceConfig.*` | none of its own; records and id lists in BlockStorage | get, save, delete for each kind of record; `HardReset` |
| MqttClient | `mqttClient.*` | connection, topics, callbacks, the payload being assembled | connect, watchdog, subscribe, publish, inbound callbacks |
| Scheduler | `scheduler.*` | a timer or pending-work item each | reset, callback that re-arms itself |
| WebServer | `webServer.*` | tables of handlers; for each connection the result of its command | open, command, part of a page, close |
| ConfigService, ServiceControl | `configService.*`, `serviceControl.h` | two flags: stop, firmware update | save Wi-Fi or MQTT settings, ask for new firmware, list networks, stop |
| WifiConnection | `wifiConnection.*` | that of the Wi-Fi driver | connect, watchdog |
| WifiScanner | `wifiScanner.*` | two lists of networks | scan, result, collect |
| Main | `picoSomfy.cpp` | where the boot or a service loop is | check and reset settings, service loop, set-up loop, restart |

Left aside: `dhcpserver`, `dnsserver` (vendored), `fsdata.c` (generated),
`web-interface` (browser), `pico-sdk` (a submodule), `bufferOutput.h` and the
formatting of pages and MQTT payloads, `statusLed.*` and `serviceStatus.*`
(display only).

### 1.2 How they interact

* **Core 0** runs `runServiceMode`. Its loop sleeps in `doPollingSleep`, and
  only there do callbacks run: HTTP handlers, MQTT messages and timers, one at
  a time (the end of the service sleeps another second). Between sleeps the loop polls `ReadCommand`.
* **Core 1** runs `Worker`. It takes entries from the queue, transmits or
  reads the radio, and listens while the queue is empty.
* **The interrupt** of the packet pin runs on core 1 between any two of its
  steps and adds a receive entry to the queue.
* The queue goes from core 0 and the interrupt to core 1. The buffer of
  received presses goes from core 1 to core 0.
* A press takes the remote's rolling code, queues a command and tells the
  blinds associated with the remote. Two timers save what is dirty every two
  minutes; the end of the service saves again, after the queue was flushed.
* Saving goes through DeviceConfig to BlockStorage, which pauses the other
  core for each flash operation.
* A request that saves settings sets a flag of ServiceControl; the loop ends at
  its next turn, and the watchdog restarts the device. Requests are served
  until it does.
* httpd writes a page in parts, as a connection has room. Between two parts it
  serves other connections, and callbacks change what the page shows.

### 1.3 What is hard, and what correctness means

Each hazard is listed at its line in `PROJECT.json`.

* *Two cores.* Both read the clock before they take the lock; both maintain
  one triple of indexes. Correct: the buffer is a FIFO, its head is the press
  that has been quiet the longest, nothing is lost or counted twice.
* *Worker, interrupt and shutdown.* The stop entry competes with commands and
  receive entries. Correct: commands go out once and in order; after
  `Shutdown` nothing more is sent; `Shutdown` ends; the worker hears what it
  is told to hear.
* *Rolling codes.* Taken at queueing, used later, saved much later. Correct:
  codes on the air go up across restarts; a power cut never brings back a code
  older than the last save.
* *Flash.* A record is replaced in two operations; space comes back by whole
  sectors. Correct: a map from ids to records in which a cut endangers only
  the record being written, and deleted space is reused.
* *The registry* (blinds, remotes and their records): saved in several steps,
  with references both ways. Correct: after any boot every reference resolves.
* *Blind positions*: an estimate driven by a timer that its own callback may
  reset. Correct: a moving blind keeps ticking, and ends at its target.
* *MQTT*: inbound messages in pieces, devices that announce themselves, and a
  connection that comes and goes. Correct: a subscriber gets whole messages of
  its own topic; the broker learns of every device as it is now; two watchdogs
  bring the connection back.
* *The radio*: a mode the driver remembers and the chip changes, and one FIFO
  for both directions. Correct: what is sent decodes to the command, what is
  received was sent by somebody.
* *Boot and settings*: two records that may be missing after a cut, a reset of
  everything when one is. Correct: settings are there wherever they are read
  unchecked; nothing is erased without a cause; a saved setting takes effect.
* *Pages in parts*: lists numbered anew for each part. Correct: a list names
  what was there, and the answer to a command is that command's.

## 2. The modules

| Module | What it is |
|---|---|
| `RecvFifo` | abstract: a bounded queue of presses with repeat counts |
| `RecvRing` | the circular buffer of `commandQueue.cpp`, both critical sections and both clock reads; refines `RecvFifo` |
| `RecvRing_proofs` | its theorems |
| `Radio` | the worker with driver, chip, FIFO and packets on the air; refines `CommandQueue` |
| `SomfyPacket` | a packet: encoding and decoding |
| `CommandQueue` | the command queue from boot to reboot: worker, interrupt, radio state, presses, saving, shutdown, restart, power cut |
| `CommandQueue_proofs` | theorems about it, `Radio` and `SomfyPacket` |
| `RecordStore` | abstract: one record for each id, replaced in two steps, with what a power cut may do |
| `BlockStorage` | the flash blocks of `blockStorage.cpp`; refines `RecordStore` |
| `BlockStorage_proofs` | its theorems |
| `DeviceRegistry` | remotes, blinds, what binds them, their records and lists in flash, the boot that reads them, restart, crash, power cut |
| `DeviceRegistry_proofs` | its theorems |
| `BlindMotion` | one blind: the estimate of `blind.cpp` with its timer, next to the blind itself |
| `BlindMotion_proofs` | its theorems |
| `WifiConnection` | the Wi-Fi link and its watchdog |
| `MqttClient` | the connection over it, and messages in pieces |
| `Discovery` | how devices announce themselves; composes `MqttClient` and `WifiConnection` |
| `Discovery_proofs` | theorems about it and `MqttClient` |
| `Setup` | boot, settings, web requests that save them, restart; over `RecordStore` |
| `Setup_proofs` | its theorems |
| `WifiScanner` | scans for networks |
| `WebServer` | pages in parts and commands; composes `WifiScanner` |
| `WebServer_proofs` | theorems about it and `WifiScanner` |
| `MCRecvRing`, `MCCommandQueue`, `MCRadio`, `MCBlockStorage`, `MCDeviceRegistry`, `MCBlindMotion`, `MCDiscovery`, `MCSetup`, `MCWebServer` | instances for TLC |

### 2.1 RecvRing

`slots`, `recvRead`, `recvWrite`, `recvCount` are the members of the same
names (`_receivedCommands`, `_recvRead`, ...). `reader` and `writer` hold where
each core is and its local `now`: `ReadNow` and `Decode` read the clock,
`ReadNothing`/`ReadCommand` and `ReceiveCommand` are the critical sections,
atomic because of the spin lock. `ReceiveCommand` has the four outcomes of the
code: bump the repeat count, discard, store behind the newest, store in an
empty buffer. The decoding of the packet is abstracted: a command is a member
of `Commands`, and packets that are rejected never take the lock. The buffer
starts with arbitrary content, as the constructor leaves it. `heard` and
`reported` are history variables for the accounting property.

The critical section of `ReadCommand` reads the head only when the buffer is
not empty; the repeat counter wraps at `RepeatMod`, which no run reaches: its
wrap would need 65536 packets of one press (`MaxHeard` bounds the packets of
each command).

### 2.2 CommandQueue

`queue` is `_queue`. `at` and `entry` follow the worker; `hearing` and `armed`
are what the order of its radio calls decides: listening, interrupt enabled. `EnableReceive` of the code is two actions,
because a packet may be heard between its two effects; the check that the queue
is empty is one with the first, since an entry queued in between changes
nothing. `Remove`, `DisableInterrupt` and `Standby` are three actions for the
same reason: a packet may be heard after the worker has taken its entry, and
between the two things that `SetMode` does to end receive mode.

`main`, `todo`, `after` follow core 0. A press is one step: callbacks are not
interrupted by other callbacks, and the worker sees the queue change at
`queue_try_add`. Saving visits the remotes one at a time, since the worker runs
meanwhile; the code visits them in the order of their ids, the model in any
order. `roll`, `dirty`, `saved` are the rolling code, `_isDirty` and the code
in flash. A press is possible in the last second before the reboot
(`main = "restart"`), because `doPollingSleep(1000)` still runs callbacks; the
remotes and blinds hold shared pointers to each other and are still alive. Such
a press queues a command that the stopped worker never sends.

`accepted`, `base`, `sent`, `spent` are history variables: what was queued
since boot, how much had been sent before, what was sent since the last cut,
and which codes had been sent when a remote was saved.

Flash is one variable here, written in one step; `BlockStorage` looks inside.
Packets decoded by the worker go to `RecvRing`. An imported remote (a copy of a
real one, whose rolling code follows what is heard) is not in `Remotes`: the
README of the repository (line 83) says that its codes collide with those of
the real one.

### 2.3 BlockStorage

`flash` gives each block its first word and its data. `at` is where the call in
progress is; each flash operation is one action, since a cut may come between
any two. The find operations read the whole flash without a write in between
and belong to the action before it. `FormatEmptySectors` finds the runs of
sectors that hold only `BLOCK_EMPTY` blocks and erases each run; the model
visits the sectors in order and erases the ones that qualify, one action each,
because the flash erases one sector at a time. A run is erased when the first
block behind it is seen, and no block is written meanwhile, so the order is the
same.

A power cut leaves the block (or the blocks of the sector) in operation as it
was, as it was to be, torn, or with its id and damaged data. A torn first word
is taken to be no id in use and neither `BLOCK_FREE` nor `BLOCK_EMPTY`: 32 bits
that are part of two words are another id only by accident, and then the store
loses that record too. Programming a block that is not erased yields a torn
block. A block is one page, as in the configuration (`STORAGE_BLOCK_SIZE` 252
and a word for the id); no record is longer, except an id list that is too long
(listed as a hazard).

### 2.4 DeviceRegistry

`remotes` and `blinds` are the two tables, reduced to references: the blinds a
remote is bound to (`_associatedBlinds`), its dirty flag, whether it was
imported, and the primary remote of a blind. `nextRemote` and `nextBlind` are
the two `_nextId`. `flash` maps a key (kind and id) to the record there is;
`RecordStore` and `BlockStorage` say what is below.

A handler changes the tables in one step, as callbacks are not interrupted, and
leaves in `writes` what it saves and clears, in the order of the code. Each of
these is one or two flash operations (`DeleteOld`, `WriteNew`, `ClearOld`), and
a power cut may come before any of them. Records equal to the new ones are left
alone (`SkipEqual`); as names, rolling codes and positions are not modelled,
they may always differ. `Boot` is the two constructors: remotes and blinds from
the lists, new ids above the highest listed, and blinds whose primary remote is
unknown deleted (`Orphans`), which is itself a sequence of writes.

`Press` is any press: `GetBlind` throws when a blind is unknown, which nobody
catches, and the device is then `"crashed"` until it is restarted.
`DeleteRemote(RomWord)` is what `DoDeleteRemote` does for an id that is not in
the table: it reads the id through a null pointer, from boot ROM.

Assumed: no imported remote has the upper half of our own ids (0x27), and no two
remotes have the same lower half, by which records are keyed (`LowHalvesDiffer`;
the code does not see to it). A damaged record is
`BlockStorage`'s matter; here a cut leaves a record missing, old or new.

### 2.5 BlindMotion

`blind` holds the members of `Blind`: target, position, direction, favourite,
the time since `_lastTick` (`age`), and the timer. `motor` is the blind itself:
where it is, where it goes and its own favourite. Nothing the firmware does
depends on `motor`. `Init` lets the two differ, as they do when a blind was
moved while the firmware was down.

`Pressed` is `ButtonsPressed`. `Press` and `Stop` send a button to the blind
and to `ButtonsPressed` at once; `PressOther` sends it to the blind only, and
`Report` comes later. `UpdatePosition` is the callback of the timer with
everything it calls: the estimate, `Stop`, `ButtonsPressed` inside it, the two
publishes, and the timer armed twice, by `ResetTimer` and by the value
returned. `GoToMyPosition` and `SaveMyPosition` have no caller; the My button
of a bound remote does the same.

A unit of time is half a second, a callback may be late by `MaxLate`, and a
position is a whole number: rounding and the arithmetic of `float` are left
out, and so is the time between queueing a command and the motor's answer.

`GoToPositionArrives` says where a blind comes to rest that was sent to a
position once, with its estimate right, and then left alone: there, or less than
`Overrun` further on, because a tick that is late notices late. The exception
is a position within an overrun of the end it heads for (section 3.2).

### 2.6 WifiConnection, MqttClient and Discovery

`wifi` is what `cyw43_tcpip_link_status` returns; the watchdog joins again when
the link is down or failed, and leaves the states in between alone. `IsConnected`
of `WifiConnection` guards the broker's watchdog and everything that lwIP hands
over. As an access point the device is always connected and has no watchdog;
there is no MQTT client then.

`payload`, `length`, `received`, `topic` are the members of `MqttClient` that a
message is assembled in, `topics` the domain of `_topicCallbacks`, `link` what
lwIP says of the connection, `incoming` what it still has to hand over. A buffer
is a sequence of message numbers, so that bytes of two messages can be told
apart. Length and count start with what the memory held. A message may break off
with the connection; nothing in the code then resets the buffer.

A message without a subscriber, and one that is too long, should leave no
buffer, but the code goes on with a null pointer after it has reported an
"unexpected payload". Its length and topic are then those of an earlier message,
or were never set. If they happen to fit, the device writes through the null
pointer, or calls the earlier subscriber with it (`call.buffer = None`), or, if
that one is gone from the table, calls an empty function. `DeliveredBufferIsWhole`
is about the buffers that are there; `CrashesOnlyOnUnexpected` says that it takes
such a message, or a deletion between two pieces, to stop the device.

`Discovery` composes this with the devices: `flagged` is `_needsPublish`,
`scheduled` the pending work, `republish` the timer of `runServiceMode`,
`noticed` its `mqttConnected`. A device is made and deleted together with the
topic it subscribes to, and a blind with its primary remote. `TryRepublish` of
the remotes comes before that of the blinds, hence the order of `Devices`.
`PublishFails` is a broken connection or a publish that lwIP has no room for
(also the second or third button of a remote). `published` is a history
variable: what the client accepted, not what the broker received.

Not modelled: the subscriptions themselves (three wildcards, made at each
connection), the status topic, a client that is not configured.

### 2.7 Radio and SomfyPacket

`Radio` extends `CommandQueue` and adds what is behind the radio calls. `driver`
holds `_mode` and `_listen`, by which `SetMode` leaves out writes; `fifo` and
`format` are the chip's. `hearing` and `armed` are `CommandQueue`'s variables, but
here they follow from the registers that the driver writes, and leaves out, and
from what the chip does by itself. Of the chip the model has what the firmware
relies on, from the data sheet: listen mode with `ListenEnd = MODE` goes to
standby after a packet; the FIFO is emptied when reception starts and when
transmission stops.

The actions of the worker that touch the radio are given anew: `Initialize`,
`EnterListenMode` and `EnableIrq` (the two halves of `EnableReceive`),
`DisableIrq` and `LeaveListenMode` (those of `Standby`), `SendHorn`, `SendPayload`
and `CommandSent` for `ExecuteCommand`, `ReadPacket`, `HearPacket`. The others
(`Core0`, `UseQueue`, `Restart`) are `CommandQueue`'s with a radio that does not
change, or is reset. `ImplementsCommandQueue` says that all of this together is
`CommandQueue`.

A transmission of `CommandQueue` becomes one step for each packet: the "fog
horn" (two bytes on the air out of an array of two that is read to sixteen,
hence `Stack`), the first packet with the short sync, its repetitions with the
long one. The bytes are those of the code; `SomfyPacket` is the arithmetic of
`ExecuteCommand` and `ReceiveCommand`, with an exclusive or written out bit by
bit, so that it can be proved about. `air`, `heard`, `overtaken`, `decoded` are
history variables.

### 2.8 Setup

`store` is a `RecordStore` with three records: Wi-Fi, MQTT, and one that stands
for all the records of remotes and blinds. A call that saves is a sequence of
steps in `todo`, of which each replaces a record in two steps, with cuts before,
between and after. `main` follows `main` of `picoSomfy.cpp`: `"check"` (asks for
RESET, resets), `"confirm"` (reads back), `"serve"`, `"last"` (the last second),
`"armed"` (the watchdog counts down while `doPollingSleep(5000)` serves
requests), `"bootsel"`, `"dead"` (main has returned -1). `control` is
ServiceControl. `inForce`, `held`, `hits` are history variables: the settings
this boot found, whether RESET was held, the records whose replacement was cut
short since they were last written.

That `Shutdown` returns is assumed here (`CommandQueue` says when). What a
damaged record reads as is any choice. The settings have the fields that decide
anything: name or address, and password, which the page may send masked.

### 2.9 WebServer and WifiScanner

`conn` holds for each connection the page it asked for, the next part, the
result of its command and what has been written. A command and the opening of
its page are one step, as `httpd` does them. `remotes` is the key set of
`_remotes`: `GetRemotesResponse` steps from `begin()` as often as the part says,
and from `end()` anywhere, for that is undefined; in libstdc++'s tree one gets to
some entry, or never returns if there is none. The entry of a part is the one with
as many ids up to its own (`UpTo`) as the part says. The list of blinds is written
in the same way. `detected` is `_detectedRemotes`. The scanner's `active` is the
driver's, which may refuse a scan; `reported` has what the
last scan has reported so far, `complete` what each scan that ended reported.

## 3. What is checked

| Run | Bounds | Shows |
|---|---|---|
| `recv_ring` | 3 slots, 2 presses, 3 packets of each, clock to 5 | order of the buffer, accounting of packets, refinement of `RecvFifo`; the buffer drains |
| `command_queue` | 2 remotes, queue of 2, 2 presses, 2 packets, 1 restart, 1 cut | order, flush at shutdown, increasing codes, spent codes stay spent; accepted commands are sent; shutdown returns unless a packet was heard |
| `shutdown_hangs` | 1 remote, 1 press, 1 packet | it does not when a packet is heard at the wrong moment |
| `radio` | 1 remote, queue of 2, 2 presses, 2 packets of 2 kinds, 1 repetition, 1 restart, 1 cut | what is sent decodes to the command, what is decoded was heard, a receive entry finds its packet, the worker waits deaf only through one window; refinement of `CommandQueue` |
| `block_storage` | 3 sectors of 2 blocks, 2 ids, 2 values, 2 cuts | no block programmed twice, space reclaimed, refinement of `RecordStore` |
| `device_registry` | 2 remotes of our own, 1 imported, 2 blinds, 2 cuts | blinds have remotes, no two share one, a restart changes nothing but what waits for the save timer, a cut takes only blinds whose record is half written |
| `press_crashes` | 2 blinds, no cut | a press on a remote bound to a deleted blind |
| `blind_motion` | 9 positions, closing twice as fast as opening, ticks late by up to 1 unit, 3 commands or presses, 1 of them reported late | the timer is never lost, a full run puts the estimate right, a blind sent somewhere gets there, motion ends |
| `discovery` | 2 remotes, 1 blind, 2 broken connections, 2 losses of Wi-Fi, 3 changes | what is not flagged was announced as it is, what is flagged will be, the connection comes back |
| `inbound` | the same devices, 2 messages of up to 3 bytes, a buffer of 2, 1 broken connection, 1 loss, 1 change | types, delivered messages are whole, only the unexpected stops the device |
| `setup` | 1 network, 1 password, 2 requests, 2 cuts | resets and dead devices have a cause, settings are present and in force, a stop restarts |
| `web_server` | 2 connections, 3 remotes, 2 networks, 3 requests, 3 scans, a list of 2 detected | lists against changing tables, lists of networks against scans |

Why the bounds are enough. Three slots hold two presses, so that the buffer is
empty, half full and full, and both indexes wrap around with four presses among six
packets;
`Quiet` is two ticks with a clock of five, so that a press becomes quiet while
another is repeated; no packet is heard after `AirTime`, so that the clock
always outlasts the quiet time of the last one. A queue of two entries is full
with one command and a receive entry, so that a press is dropped, or with two
commands, so that the stop entry waits. Two cuts let the second one come
while the store still holds what the first one damaged. Six blocks and two ids
fill up after six saves, and the deleted blocks may or may not fill a sector.
Two blinds and two remotes of our own let a remote be bound to both blinds, one
of them deleted, and an id be given out again after a restart; the second cut
may interrupt the repair that the boot after the first one began. With three
presses a blind may be sent somewhere, redirected on its way and stopped, one of
the three reported after another was pressed; nine positions leave some further
from both ends than an overrun (three units of time, six positions when closing),
and the favourites 2 and 6 lie on either side. Two messages let the second one
start with whatever the first one left, cut short at any byte, too long or
without a subscriber; three devices put one before and one behind the one whose
publish fails, and one of the remotes is a primary one. In `setup` one network
and one password besides the empty ones make any record differ from the one
before; two requests are two saves, or a save and a firmware update, in either
order, and the second cut may hit the boot that repairs what the first one left.
In `web_server` two of three remotes may be deleted between two parts of a list,
which is what an endless loop takes. Packets in `radio` are seven real
bytes; one of the two kinds heard must be dropped.

Deadlock is checked for the ring, the storage and the registry. It is not where
the system may stop: the command queue and the radio wait for a press or a packet
for ever once the bounds are used up; a blind rests when its timer is off; in
`discovery` and `inbound` the device may fault; in `setup` it may be dead, and in
`web_server` hang.

### 3.1 Fairness

`RecvRing!FairSpec`: the clock goes on; a critical section once entered ends;
the loop of `runServiceMode` calls `ReadCommand` at every turn. Nothing is
assumed of packets. `CommandQueue!FairSpec`: each core goes on executing when
it can (`Worker`, `Core0Proceeds`). Pressing, hearing, stopping, the save timer
and cuts are not fair. `Discovery!FairSpec`: the republish timer, the main loop
and the pending work are served (weak), both watchdogs come round, joining,
DHCP and the broker answer some time (weak), and a publish that is tried again
and again succeeds some time (strong): lwIP frees its buffers while the
connection lasts. Losses, messages and changes are not fair. `Setup!FairSpec`:
core 0 goes on executing, flash operations end, the watchdog counts down;
requests, buttons and cuts are not fair. `BlindMotion!FairSpec`: time goes on
(it stops only at a callback that is due), and the loop of core 0 serves the
timer and the presses heard.

### 3.2 Where the code and its comments differ

1. **Shutdown may hang** (`shutdown_hangs`). `commandQueue.cpp:99`: "Wait until
   our Stop command is removed from the queue". The loop waits for the queue to
   be empty. A packet heard after the stop entry was queued, before the
   worker's `Standby`, adds a receive entry behind it that nobody removes.
   State is then not saved and the device does not restart.
   `ShutdownReturnsUnlessHeard` shows that it takes a packet to do that.
2. **A press may abort the device** (`press_crashes`). README.md:21 of the
   repository: "Operating a remote will update the position of the associated
   covers". Deleting a blind leaves other remotes bound to it, and the next
   press on one of them throws in `GetBlind`. The binding cannot be undone, as
   `DoAddOrRemoveBlindToRemote` wants the blind to exist; after a restart the
   blind's id may be given to a new one.

Limits that follow from the code as it is written, each stated exactly by a
property that holds:

* The worker may wait with a deaf radio (`DeafOnlyThroughWindow`): a packet that
  completes between `SetMode` and `gpio_set_irq_enabled` ends receive mode without
  an interrupt; until a command is queued, nothing more is heard.
* A packet may take the place of the wake-up bytes of a command that was queued
  before it (`OnAirAsCommanded`, `ReceiveFindsPacket`): it is still in the FIFO
  when the command is sent, and is lost.
* A blind sent close to an end may end up elsewhere (`GoToPositionArrives`): it
  has reached the end when My is pressed to stop it, stands still, takes My for
  its favourite and goes there, while the estimate says it is where it was sent.
* A cut, or the device's own watchdog, that hits the replacement of the Wi-Fi
  settings costs all remotes and blinds at the next boot (`ResetsWithCause`); one
  that hits the replacement of the MQTT settings leaves a device that does not
  come up (`DeadWithCause`).
* A list of remotes that shrinks by two while it is written may hang core 0, and
  a list with deletions may leave entries out (`ListSeesTable`).
* Two pages that list networks at once get parts of different scans
  (`WifiListWhole`).

And some that no property states: a scan that is refused or finds nothing is the
last one until a restart; when four unknown remotes have been detected, a fifth is
not shown; saving MQTT settings reports a failure
(`OnConfigure` returns false in that mode, `configService.cpp:114`); a position
whose first publish fails is not published again, although the comment at
`blind.cpp:213` says it would be; the status "online" is published once per
connection.

Further limits: a save is refused, silently, when no sector holds deleted blocks
only (`RefusedOnlyWhenCrowded`: it takes as many blocks in use as there are
sectors, 32, which an installation of some fifteen blinds has); and an imported
remote that shares the low half of its id with one of our own shares its record
too (excluded in `DeviceRegistry`, see 2.4).

## 4. What is proved

Every theorem holds for all values of the constants that satisfy the `ASSUME`
of the module (sizes are positive, the special values differ, and rolling codes
do not wrap within the bound on presses; of `Radio`, that ids and codes fit in a
packet; of `WebServer`, that there are finitely many ids, numbers all of them).
`MaxPresses`, `MaxCuts` and the like
are constants too: the theorems hold for each value of them. Each file begins
with `TypeCorrect`, the type invariant of its module; where no run lists it, the
theorem stands for it.

**RecvRing_proofs.** `WriteIndexCorrect` from the write-index
equation and the types, by modular arithmetic on the indexes; `OldestFirst`,
whose invariant adds that no time stamp is later than the clock and that the
writer's `now` is not earlier than any stored stamp (there is one writer, so
nothing is stored between its clock read and its lock; the reader needs no such
fact); `RingImplementsFifo`, the refinement mapping that reads the slots from
`recvRead` on as a sequence: each action is a `RecvFifo` step or a stutter.
`NothingLostInTheBuffer` (every packet of a press is in the buffer or has been
delivered) takes the sum over the buffer as a function of partial sums, `Among`: a
step of either core shifts it, or adds to its last value. It is the one theorem
with a hypothesis of its own, `MaxHeard <= RepeatMod`: no press is repeated 65536
times, for then the repeat count, a `uint16_t`, starts again.

**CommandQueue_proofs.** `CodesIncrease`, whose invariant
says that all the codes a remote has in `sent`, in the worker's hand and in the
queue, in this order, increase and lie below `roll`, that flash is up to date
with what was sent once shutdown has come to the restart, and that what is
behind the stop entry is never sent; `SpentCodesStaySpent`, from an invariant
that relates `spent`, `saved` and `roll`; `ShutdownAlwaysFlushes`: what was
accepted since the boot is what was sent, then what the worker has in hand, then
what waits, along a map from numbers of commands to places in the queue that
keeps their order. When the worker finds the stop entry the queue is empty, so
that all of it has been sent. `CommandsKeepOrder` makes the same map into the
statement about sequences that `CommandsInOrder` is.

The same module has what is proved of `SomfyPacket` and `Radio`. `DecodeEncode`: for
every remote, code and button of the three that are let through, what
`ExecuteCommand` writes into a packet is what `ReceiveCommand` reads out of it; by
bits, from `XorTwice`. `ChecksumSeesLastByte`: for any seven bytes, what
`ReceiveCommand` checks comes down to the last byte having two equal halves. It
takes the checksum of unscrambled bytes, each of which is a byte of the packet
combined with the one before, so that in the sum all bytes but the last cancel
(`Telescope`). `DamageSeen` and `DamageUnseen` are what follows for a packet of a
command: with one half of the last byte changed it is dropped, but damaged between
the second byte and the last it never is, and is taken for a press of the same
button on another remote or with another rolling code. The chip does not check
packets either (`crcOn` is 0), so such a press goes as far as any other: a remote
that is not known is listed as detected. `Radio` delivers packets undamaged.
`RadioImplementsCommandQueue`: the invariant `DriverIs` says
at each point of the worker what the driver remembers, that the interrupt is
enabled just where `CommandQueue` has it so, and that the chip listens only if the
driver has told it to; with it each step of the radio is a step of `CommandQueue`,
and so the theorems about `CommandQueue` hold of the radio too
(`RadioKeepsPromises`). `SentAsCommanded`:
the FIFO is empty, or holds exactly the packet heard last, whenever a transmission
begins (`AirInv`), so that only the wake-up bytes can be displaced.
`ReceiveAlwaysFindsPacket` and `DeafOnlyThroughTheWindow`: there is at most one
receive entry, in the queue or in hand, and while there is one, the radio is deaf
and the packet in the FIFO, unless a command has overtaken it (`PacketInv`).
`ReceivedWereHeard`: what was decoded matches an increasing choice of what was
heard, which leaves out the last packet as long as it is announced and not read
(`DecodedInv`).

**BlockStorage_proofs.** `OneRecordPerId` and
`ProgramsErasedBlocks`, from the invariant that a call's request fits its
stage, that the chosen block is free until it is programmed and that no block
holds the id by then; `SpaceComesBack`, which adds that every sector the erase
has visited either has a free block or holds a block in use, and counts the
latter with an injection from sectors to blocks; `BlocksImplementStore`, the
refinement of `RecordStore`.

**BlindMotion_proofs.** One inductive invariant, `IInv`, in four parts: the
types; `Steady`: the timer of a blind in motion and the clock of its estimate
add up to no more than a tick (the properties alone are not inductive: they
would let the clock run on), and a blind at rest is at its target; `Follows`:
after Up the firmware waits for a target above the lower end or has seen the
blind arrive at the upper end, and the other way round; `Obeys`: the blind's own
goal is the end it was last sent to. `TimerNeverLost` and
`RestIsTarget` follow from the first two, `FullRunSettles` from the last two:
nothing relates the estimate to the blind until both are at an end. They hold
for every length, both speeds and all three periods, as far as
`FirstTick <= TickEvery <= RetryAfter`.

`GoToArrives` is about a blind whose estimate was right when it was sent somewhere
once. Its invariant (`GoesThere`) says that on its way the
motor is where a tick would estimate it if it came now, and that the last tick found
the target still ahead. A tick is
at most `MaxLate` late, so the blind overruns by less than the way it makes from one
tick to the next (`Overrun`), or has reached the end by then.

**Setup_proofs.** The invariant says what the steps of a call have left to do at
each stage of `main` (`Stage`), that after `"check"` a missing Wi-Fi record is
one that a cut or a reset took and a missing MQTT record one whose replacement
was cut (`WifiGone`, `MqttGone`, in terms of `hits`), that the steps of a reset
come with a cause (`CauseOfReset`), and that settings saved since the boot come
with a stop that was asked for (`Changed`). From it: `ResetsHaveCause`,
`DeadHasCause`, `SettingsArePresent`, `SavedSettingsTakeEffect`. `SettingsUseStore`
joins the module to `BlockStorage`: what it does with the flash are steps of
`RecordStore`, which asks one request at a time of a store that is idle, and that
store is what `BlocksImplementStore` shows the flash blocks to be.

**DeviceRegistry_proofs.** `BlindsAlwaysHaveRemotes` and `PrimariesNeverShared`
speak of the tables, but a boot takes the tables from flash, at any moment of
any handler's writes. The invariant (`IInv`) therefore relates three things. What is still to be
written of blinds agrees with the table (`Agreeing`). Listed blinds have primary
remotes of their own, those that are gone and still listed included
(`StoredDistinct`, `OrphansDiffer`). A record that an earlier blind of the same
id has left is replaced before the blind is listed (`RecordsMatch`), which is
why `DoAddBlind` has to save the record before the list; and what is listed and
gone will be taken off (`ListUpToDate`). That ids are given out anew only above
all those listed (`NextIsNew`) keeps a new blind from sharing the remote of one
that is half deleted.

`RestartsAreInvisible` and `StoredBlindsSurvive` need to know what flash will hold
in the end. A second invariant, `Settled`, says of each record and list what its
value will be when the entries left in `writes` are done (`WillBe`, `WillMiss`):
what the tables say. It is kept because a handler writes no key twice and the list
of blinds last (`Orderly`), so that one entry done changes nothing of what will
be. In the meantime a blind that is listed has its record, its remote's record
and its remote's place in the list, but for what is half written (`Complete`).
A list of remotes may name one whose record is gone: a boot leaves it out and
does not save the list. Both theorems rest on `LowHalvesDiffer`.

**Discovery_proofs.** `BuffersAreWhole` and `OnlyUnexpectedCrashes`: the buffer
of a message that was expected has exactly the room for what is still to come; a
buffer that a broken connection left behind has too little for the next one's
pieces to be taken for one message. `FlagsTellTheTruth`: a flag goes only when
its device is published, needs no publishing, or goes itself, and a deleted
blind takes its primary remote's flag with it.

**WebServer_proofs.** `NetworksOfOneScan` and `NetworksListedWhole` compose the
web server with the scanner: while a scan runs its list is what it has reported;
between two scans each list is empty or that of a whole scan; and what a page of
networks has written is the beginning of the list that is kept for it, unless
another page has collected a new one since.

`RemotesListed`: the place of a remote in the map is the number of ids up to its
own. While a page of remotes is written (`Reading`), a remote that was there from
the start has been listed or lies behind the place that comes next, as long as none
is deleted; what has been listed and is still there lies before it, as long as none
is added; and the next place is at most one behind the last remote for each one
deleted, so that stepping over the end takes two. That an addition or deletion
moves the others by at most one place is a matter of cardinalities (`PlaceAdded`,
`PlaceDeleted`).

Induction over data is out of the prover's reach as a rule with a predicate for its
parameter. Where a recursive function had to be known at every argument (the
sequence of commands in the queue, the sums over the buffer), the proofs take the
least number at which it would be wrong (`LeastNatural`), which the well-foundedness
of the naturals provides.

Only model-checked:

* Liveness, as neither fairness nor `ENABLED` is in the prover's reach: `BufferDrains`, `AcceptedIsSent`,
  `ShutdownReturnsUnlessHeard`, `MotionEnds`, `WaitingIsPublished`, `Reconnects`,
  `StopRestarts`.

## 5. What is not modelled, and the plan

Not modelled on purpose: the formatting of pages and payloads, the parsing of
requests, the web server's tables of handlers, LEDs, SPI and register access,
the DHCP and DNS servers of set-up mode (taken from MicroPython, they share
nothing with the rest), and the file system image. That image, `fsdata.c`, is
generated and makes up two thirds of the lines of the implementation (11829 of
17969): the map covers about 2500 of the other 6100.

Taken for granted: `flash_safe_execute` succeeds; spin locks and `queue_t` are
atomic; callbacks on core 0 run one at a time.

What could be added, in this order:

* `flash_safe_execute` failing after its 1000 ms in `BlockStorage`: a deleted
  record that is still there, a new one that is not.
* `CommandQueue` with `BlindMotion`: a press that a full queue drops, while the
  blinds are told of it.
* Lists of ids that do not fit in a block.
* The DHCP server's leases.
