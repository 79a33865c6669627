------------------------------- MODULE Setup --------------------------------
(***************************************************************************)
(* Boot, settings and restart: main, checkConfig, runSetupMode and the     *)
(* loop of runServiceMode (picoSomfy.cpp), ConfigService, ServiceControl,  *)
(* and DeviceConfig as far as settings go.                                 *)
(*                                                                         *)
(* The settings are two records in flash, for Wi-Fi and for MQTT; all the  *)
(* records of remotes and blinds are taken together as a third.  The flash *)
(* is a RecordStore, which BlockStorage implements: a record is replaced   *)
(* in two steps, and a cut may come before, between and after them.        *)
(*                                                                         *)
(* A boot checks the settings, resets everything if there are none, and    *)
(* then serves web requests, as an access point or connected to a network. *)
(* A request that saves settings asks the service to stop; the loop ends   *)
(* and the device restarts.  Requests are still served in the last second  *)
(* before the restart, and while the watchdog that does it counts down.    *)
(*                                                                         *)
(* That the command queue's Shutdown returns is assumed here: CommandQueue *)
(* says when it does.                                                      *)
(***************************************************************************)
EXTENDS Integers, Sequences, FiniteSets

CONSTANTS
  Ssids,        \* names of networks
  Brokers,      \* addresses of MQTT brokers
  Passwords,
  Empty,        \* the empty string: no network, no broker, no password
  Mask,         \* "********", what the page sends for a password left alone
  DeviceData,   \* what the records of remotes and blinds may hold
  Missing,      \* no record
  Damaged,      \* a record that was being written at a cut
  MaxRequests,  \* bound: requests and saves of devices
  MaxCuts       \* bound: power cuts

WifiSettings == [ssid : Ssids \cup {Empty}, password : Passwords \cup {Empty}]
MqttSettings == [host : Brokers \cup {Empty}, password : Passwords \cup {Empty}]

Ids  == {"wifi", "mqtt", "devices"}
Data == WifiSettings \cup MqttSettings \cup DeviceData

ASSUME SetupAssumption ==
  /\ Missing # Damaged
  /\ Missing \notin Data /\ Damaged \notin Data
  /\ Empty \notin Ssids \cup Brokers \cup Passwords
  /\ Mask \notin Passwords \cup {Empty}
  /\ DeviceData # {}
  /\ MaxRequests \in Nat /\ MaxCuts \in Nat

VARIABLES
  store, doing, request,  \* flash: see RecordStore
  todo,      \* what the call in progress has yet to do
  main,      \* where main is
  apMode,    \* apMode
  control,   \* ServiceControl
  pushed,    \* resetPushed of runServiceMode
  inForce,   \* history: the settings this boot found
  held,      \* history: RESET was held at this boot
  hits,      \* history: records whose replacement was cut short
  used       \* history: how much of each bound is used up

Flash == INSTANCE RecordStore

flash   == <<store, doing, request>>
service == <<apMode, control, pushed>>
history == <<inForce, held, hits, used>>
vars    == <<flash, todo, main, service, history>>

Save(id, data) == [op |-> "save", id |-> id, data |-> data]
Format         == [op |-> "format"]
StopService    == [op |-> "stop"]

NoSettings  == [wifi |-> Missing, mqtt |-> Missing]
Running     == [stop |-> FALSE, firmware |-> FALSE]
DefaultWifi == [ssid |-> Empty, password |-> Empty]
DefaultMqtt == [host |-> Empty, password |-> Empty]

\* A new device: nothing in flash.
Init ==
  /\ store = [i \in Ids |-> Missing] /\ doing = "idle" /\ request = Format
  /\ todo = <<>>
  /\ main = "check"
  /\ apMode = FALSE /\ control = Running /\ pushed = FALSE
  /\ inForce = NoSettings
  /\ held = FALSE
  /\ hits = {}
  /\ used = [requests |-> 0, cuts |-> 0]

\* The call in progress, if there was one, has returned.
Idle == doing = "idle" /\ todo = <<>>

-----------------------------------------------------------------------------
(* Flash operations.  Core 0 does nothing else meanwhile. *)

\* The next thing the call in progress does.
Proceed ==
  /\ doing = "idle" /\ todo # <<>>
  /\ todo' = Tail(todo)
  /\ IF Head(todo) = StopService
       THEN control' = [stop |-> TRUE, firmware |-> FALSE] /\ UNCHANGED flash
       ELSE Flash!Ask(Head(todo)) /\ UNCHANGED control
  /\ UNCHANGED <<main, apMode, pushed, history>>

\* The store refuses a save only when it is crowded (BlockStorage,
\* RefusedOnlyWhenCrowded), with the records of devices.
Refuse ==
  /\ store["devices"] # Missing
  /\ Flash!Refuse
  /\ UNCHANGED <<todo, main, service, history>>

Replace ==
  /\ Flash!Commit \/ Flash!FormatSome \/ Flash!FormatDone
  /\ UNCHANGED <<todo, main, service, history>>

Write ==
  /\ Flash!Write
  /\ hits' = hits \ {request.id}
  /\ UNCHANGED <<todo, main, service, inForce, held, used>>

-----------------------------------------------------------------------------
(* Boot *)

\* Mutation: a device without MQTT settings is reset as well.
ResetWithoutMqtt(button) ==
  store["wifi"] = Missing \/ store["mqtt"] = Missing \/ button

\* checkConfig asks for the RESET button only if there are settings.
NeedReset(button) == store["wifi"] = Missing \/ button

\* Mutation: there are no default MQTT settings.
HardResetWifiOnly == <<Format, Save("wifi", DefaultWifi)>>

HardReset == <<Format, Save("wifi", DefaultWifi), Save("mqtt", DefaultMqtt)>>

CheckConfig ==
  /\ main = "check"
  /\ \E button \in BOOLEAN :
       /\ todo' = IF NeedReset(button) THEN HardReset ELSE <<>>
       /\ held' = (store["wifi"] # Missing /\ button)
  /\ main' = "confirm"
  /\ UNCHANGED <<flash, service, inForce, hits, used>>

\* Mutation: only the Wi-Fi settings are read back.
WifiReadBack == store["wifi"] # Missing

ReadBack == store["wifi"] # Missing /\ store["mqtt"] # Missing

\* What was damaged may look like a name or like none.
HasNoSsid(record) == IF record = Damaged THEN BOOLEAN ELSE {record.ssid = Empty}

WithoutSettings == "dead"

\* checkConfig reads the settings back.  Without them main returns; otherwise
\* the WIFI button, or a missing name, makes the device an access point.
Confirm ==
  /\ main = "confirm" /\ Idle
  /\ IF ReadBack
       THEN /\ main' = "serve"
            /\ \E button \in BOOLEAN, none \in HasNoSsid(store["wifi"]) :
                 apMode' = (button \/ none)
            /\ inForce' = [wifi |-> store["wifi"], mqtt |-> store["mqtt"]]
       ELSE main' = WithoutSettings /\ UNCHANGED <<apMode, inForce>>
  /\ UNCHANGED <<flash, todo, control, pushed, held, hits, used>>

-----------------------------------------------------------------------------
(* Requests: callbacks run while main sleeps, one at a time. *)

Polling == main \in {"serve", "last", "armed"} /\ Idle

Counted == used.requests < MaxRequests /\ used' = [used EXCEPT !.requests = @ + 1]

\* A masked password stands for the one saved before, whatever it reads now.
Unmasked(password, id) ==
  IF password # Mask THEN {password}
  ELSE IF store[id] = Damaged THEN Passwords \cup {Empty}
  ELSE {store[id].password}

\* Mutation: the service goes on.
SaveAndGoOn(id, settings) == <<Save(id, settings)>>

SaveAndStop(id, settings) == <<Save(id, settings), StopService>>

\* OnConfigure, mode "wifi"
ConfigureWifi(ssid, password) ==
  /\ Polling /\ Counted
  /\ \E p \in Unmasked(password, "wifi") :
       todo' = SaveAndStop("wifi", [ssid |-> ssid, password |-> p])
  /\ UNCHANGED <<flash, main, service, inForce, held, hits>>

\* OnConfigure, mode "mqtt".  It returns false, and the page reports a failure.
ConfigureMqtt(host, password) ==
  /\ Polling /\ Counted
  /\ \E p \in Unmasked(password, "mqtt") :
       todo' = SaveAndStop("mqtt", [host |-> host, password |-> p])
  /\ UNCHANGED <<flash, main, service, inForce, held, hits>>

\* OnConfigure, mode "firmware"
ConfigureFirmware ==
  /\ Polling /\ Counted
  /\ control' = [stop |-> TRUE, firmware |-> TRUE]
  /\ UNCHANGED <<flash, todo, main, apMode, pushed, inForce, held, hits>>

\* A handler or a timer saves a remote or a blind; there are none in set-up mode.
SaveDevices ==
  /\ Polling /\ ~ apMode /\ Counted
  /\ \E data \in DeviceData : todo' = <<Save("devices", data)>>
  /\ UNCHANGED <<flash, main, service, inForce, held, hits>>

-----------------------------------------------------------------------------
(* The two loops, and the restart *)

\* A turn of the loop looks at RESET: runServiceMode wants to see it pushed
\* twice, runSetupMode once.
PollReset ==
  /\ main = "serve" /\ Idle
  /\ \E button \in BOOLEAN :
       /\ pushed' = (button /\ ~ apMode)
       /\ control' = IF button /\ (pushed \/ apMode) THEN [stop |-> TRUE, firmware |-> FALSE]
                     ELSE control
  /\ UNCHANGED <<flash, todo, main, apMode, history>>

\* Mutation: the loop of runSetupMode is not left.
LoopEndsInService == control.stop /\ ~ apMode

LoopEnds == control.stop

\* The loop ends.  runServiceMode shuts the queue down and saves remotes and
\* blinds that changed.
LeaveLoop ==
  /\ main = "serve" /\ Idle
  /\ LoopEnds
  /\ main' = "last"
  /\ \/ todo' = <<>>
     \/ ~ apMode /\ \E data \in DeviceData : todo' = <<Save("devices", data)>>
  /\ UNCHANGED <<flash, service, history>>

\* The last second is over.
StartReset ==
  /\ main = "last" /\ Idle
  /\ main' = IF control.firmware THEN "bootsel" ELSE "armed"
  /\ UNCHANGED <<flash, todo, service, history>>

SavedBy(calls) == {calls[i].id : i \in {j \in 1 .. Len(calls) : calls[j].op = "save"}}

\* Memory is gone; the call in progress is cut short.
Restart ==
  /\ Flash!PowerCut
  /\ hits' = hits \cup Flash!AtRisk \cup SavedBy(todo)
  /\ todo' = <<>>
  /\ main' = "check"
  /\ apMode' = FALSE /\ control' = Running /\ pushed' = FALSE
  /\ inForce' = NoSettings
  /\ held' = FALSE

\* watchdog_reboot resets the chip after half a second, whatever core 0 does
\* then: it sleeps, that is, it serves requests.
WatchdogFires ==
  /\ main = "armed"
  /\ Restart
  /\ UNCHANGED used

\* The new firmware is started; the storage is not part of it.
FirmwareUpdated ==
  /\ main = "bootsel"
  /\ Restart
  /\ UNCHANGED used

PowerCut ==
  /\ used.cuts < MaxCuts
  /\ used' = [used EXCEPT !.cuts = @ + 1]
  /\ Restart

-----------------------------------------------------------------------------
Requests ==
  \/ \E ssid \in Ssids \cup {Empty}, p \in Passwords \cup {Empty, Mask} : ConfigureWifi(ssid, p)
  \/ \E host \in Brokers \cup {Empty}, p \in Passwords \cup {Empty, Mask} : ConfigureMqtt(host, p)
  \/ ConfigureFirmware
  \/ SaveDevices

Main == CheckConfig \/ Confirm \/ LeaveLoop \/ StartReset

InCall == Proceed \/ Refuse \/ Replace \/ Write

Next ==
  \/ InCall \/ Main \/ Requests \/ PollReset
  \/ WatchdogFires \/ FirmwareUpdated \/ PowerCut

Spec == Init /\ [][Next]_vars

\* Core 0 goes on executing, an erase ends, and the watchdog counts down.
\* Requests, buttons, cuts and firmware updates are not fair.
FairSpec == Spec /\ WF_vars(InCall) /\ WF_vars(Main) /\ WF_vars(WatchdogFires)

-----------------------------------------------------------------------------
Steps == [op : {"save"}, id : Ids, data : Data] \cup {Format, StopService}

FlashType ==
  /\ store \in [Ids -> Data \cup {Missing, Damaged}]
  /\ doing \in {"idle", "asked", "committed"}
  /\ request \in Flash!Requests

TypeOK ==
  /\ FlashType
  /\ todo \in Seq(Steps) /\ Len(todo) <= 3
  /\ main \in {"check", "confirm", "dead", "serve", "last", "armed", "bootsel"}
  /\ apMode \in BOOLEAN /\ pushed \in BOOLEAN
  /\ control \in [stop : BOOLEAN, firmware : BOOLEAN]
  /\ inForce \in [wifi : Data \cup {Missing, Damaged}, mqtt : Data \cup {Missing, Damaged}]
  /\ held \in BOOLEAN
  /\ hits \subseteq Ids
  /\ used \in [requests : 0 .. MaxRequests, cuts : 0 .. MaxCuts]

Formatting == doing = "asked" /\ request = Format

\* A boot resets everything (checkConfig) only if RESET was held, if there is
\* nothing to lose, or if replacing the Wi-Fi settings was cut short before:
\* nothing else that happens, at whatever moment the power goes or the watchdog
\* fires, costs the user remotes and blinds.
ResetsWithCause ==
  Formatting => \/ held \/ "wifi" \in hits
                \/ store["devices"] = Missing

\* The device does not come up (main returns -1) only if replacing the MQTT
\* settings, or a reset of everything, was cut short.
DeadWithCause == main = "dead" => "mqtt" \in hits

\* Wherever settings are read without a check (OnConfigure, the pages, the MQTT
\* client and the Wi-Fi watchdog) there are some, whatever was saved, refused or
\* cut short before, in this boot or an earlier one.
SettingsPresent == Polling => store["wifi"] # Missing /\ store["mqtt"] # Missing

\* The settings in flash are the ones the device runs with, or it is about to
\* restart: a request that saves settings does not leave it running with others.
InForceOrRestarting ==
  main = "serve" /\ Idle /\ ~ control.stop =>
    inForce = [wifi |-> store["wifi"], mqtt |-> store["mqtt"]]

\* A stop that was requested, by a page or by the button, ends in a restart, or
\* in the boot loader; requests that come in meanwhile do not keep it off.
StopRestarts == control.stop ~> main \in {"check", "bootsel"}
=============================================================================
