---------------------------- MODULE Setup_proofs ----------------------------
(***************************************************************************)
(* Proofs about Setup, for any settings, any number of requests and cuts.  *)
(*                                                                         *)
(* The invariant behind them follows the device through a boot: which call *)
(* is in progress, how much of it is left, and what it has already made of *)
(* the records (Stage).  A record that is gone then has a cause: a call in *)
(* progress, or one that was cut short (WifiGone, MqttGone).               *)
(***************************************************************************)
EXTENDS Setup, TLAPS, SequenceTheorems

SaveWifiDefault == Save("wifi", DefaultWifi)
SaveMqttDefault == Save("mqtt", DefaultMqtt)

Saving(id) == doing # "idle" /\ request.op = "save" /\ request.id = id

Replacing(id) == doing = "committed" /\ request.id = id

\* A call that saves settings, or devices, and how far it is.
ServingCall ==
  \/ Idle
  \/ /\ doing = "idle"
     /\ \/ \E data \in WifiSettings : todo = <<Save("wifi", data), StopService>>
        \/ \E data \in MqttSettings : todo = <<Save("mqtt", data), StopService>>
  \/ /\ todo = <<StopService>>
     /\ doing # "idle" => request.op = "save" /\ request.id \in {"wifi", "mqtt"}
  \/ /\ doing = "idle"
     /\ \E data \in DeviceData : todo = <<Save("devices", data)>>
  \/ /\ todo = <<>>
     /\ request.op = "save" /\ request.id = "devices"

Serving ==
  /\ ServingCall
  /\ store["wifi"] # Missing \/ Replacing("wifi")
  /\ store["mqtt"] # Missing \/ Replacing("mqtt")

\* A reset of everything: what is left of it, and what it has made of the flash.
Resetting ==
  \/ todo = HardReset /\ doing = "idle"
  \/ todo = <<SaveWifiDefault, SaveMqttDefault>> /\ Formatting
  \/ /\ todo = <<SaveWifiDefault, SaveMqttDefault>> /\ doing = "idle"
     /\ store["devices"] = Missing
  \/ /\ todo = <<SaveMqttDefault>> /\ doing # "idle" /\ request = SaveWifiDefault
     /\ store["devices"] = Missing
  \/ /\ todo = <<SaveMqttDefault>> /\ doing = "idle"
     /\ store["wifi"] # Missing /\ store["devices"] = Missing
  \/ /\ todo = <<>> /\ doing # "idle" /\ request = SaveMqttDefault
     /\ store["wifi"] # Missing /\ store["devices"] = Missing

Stage ==
  \/ main \in {"check", "dead"} /\ Idle
  \/ main = "confirm" /\ Idle /\ store["wifi"] # Missing
  \/ main = "confirm" /\ Resetting
  \/ main \in {"serve", "last", "armed", "bootsel"} /\ Serving

\* The records of settings hold settings, and so do the calls that save them.
Proper(step) ==
  /\ step.id = "wifi" => step.data \in WifiSettings
  /\ step.id = "mqtt" => step.data \in MqttSettings

ProperFlash ==
  /\ store["wifi"] \in WifiSettings \cup {Missing, Damaged}
  /\ store["mqtt"] \in MqttSettings \cup {Missing, Damaged}
  /\ doing # "idle" /\ request.op = "save" => Proper(request)
  /\ doing = "committed" => request.op = "save"

WifiGone ==
  store["wifi"] = Missing =>
    store["devices"] = Missing \/ "wifi" \in hits \/ Formatting \/ Replacing("wifi")

MqttGone ==
  store["mqtt"] = Missing =>
    \/ "mqtt" \in hits
    \/ store["wifi"] = Missing /\ ~ Saving("wifi")
    \/ main = "confirm" /\ Resetting
    \/ Replacing("mqtt")

\* A reset of everything that has yet to begin, or has just begun, has a cause.
CauseOfReset ==
  main = "confirm" /\ (todo = HardReset \/ Formatting) =>
    held \/ "wifi" \in hits \/ store["devices"] = Missing

\* Settings that differ from those the device runs with are followed by a stop.
Changed ==
  main = "serve" /\ ~ control.stop =>
    \/ todo # <<>> /\ todo[Len(todo)] = StopService
    \/ /\ inForce = [wifi |-> store["wifi"], mqtt |-> store["mqtt"]]
       /\ doing # "idle" => request.id = "devices"

IInv ==
  /\ TypeOK /\ ProperFlash /\ Stage
  /\ WifiGone /\ MqttGone /\ CauseOfReset /\ DeadWithCause /\ Changed

-----------------------------------------------------------------------------
(* Types *)

LEMMA Tuples ==
  ASSUME NEW a, NEW b, NEW c
  PROVE  /\ <<a>> # <<>> /\ Head(<<a>>) = a /\ Tail(<<a>>) = <<>>
         /\ <<a, b>> # <<>> /\ Head(<<a, b>>) = a /\ Tail(<<a, b>>) = <<b>>
         /\ <<a, b, c>> # <<>> /\ Head(<<a, b, c>>) = a /\ Tail(<<a, b, c>>) = <<b, c>>
  OBVIOUS

\* Which calls there are, and that they can be told apart.
LEMMA CallsAre ==
  /\ Format \in Steps /\ StopService \in Steps
  /\ Format.op = "format" /\ StopService.op = "stop"
  /\ \A id \in Ids, data \in Data :
       /\ Save(id, data) \in Steps /\ Save(id, data) \in Flash!Requests
       /\ Save(id, data).op = "save" /\ Save(id, data).id = id /\ Save(id, data).data = data
  /\ DefaultWifi \in WifiSettings /\ DefaultMqtt \in MqttSettings
  /\ WifiSettings \subseteq Data /\ MqttSettings \subseteq Data /\ DeviceData \subseteq Data
  /\ "wifi" \in Ids /\ "mqtt" \in Ids /\ "devices" \in Ids
  /\ Missing \notin Data /\ Missing # Damaged /\ Damaged \notin Data
  <1>1. /\ DefaultWifi \in WifiSettings /\ DefaultMqtt \in MqttSettings
    BY DEF DefaultWifi, DefaultMqtt, WifiSettings, MqttSettings
  <1>2. \A id \in Ids, data \in Data :
       /\ Save(id, data) \in Steps /\ Save(id, data) \in Flash!Requests
       /\ Save(id, data).op = "save" /\ Save(id, data).id = id /\ Save(id, data).data = data
    BY DEF Save, Steps, Flash!Requests, Flash!Saves
  <1> QED BY <1>1, <1>2, SetupAssumption DEF Format, StopService, Steps, Data, Ids

LEMMA HeadIs ==
  ASSUME todo \in Seq(Steps), todo # <<>>
  PROVE  /\ Head(todo) \in Steps /\ Tail(todo) \in Seq(Steps)
         /\ Len(Tail(todo)) = Len(todo) - 1
         /\ Head(todo) # StopService => Head(todo) \in Flash!Requests
  <1>1. /\ Head(todo) \in Steps /\ Tail(todo) \in Seq(Steps)
        /\ Len(Tail(todo)) = Len(todo) - 1
    BY HeadTailProperties
  <1>2. Format \in Flash!Requests
    BY DEF Format, Flash!Requests
  <1>3. \A s \in Steps : s # StopService => s \in Flash!Requests
    <2>1. [op : {"save"}, id : Ids, data : Data] \subseteq Flash!Requests
      BY DEF Flash!Requests, Flash!Saves
    <2> QED BY <1>2, <2>1 DEF Steps
  <1> QED BY <1>1, <1>3

\* Whatever the page sends, settings are saved.
LEMMA UnmaskedIs ==
  ASSUME ProperFlash, store["wifi"] # Missing, store["mqtt"] # Missing,
         NEW password \in Passwords \cup {Empty, Mask}
  PROVE  /\ Unmasked(password, "wifi") \subseteq Passwords \cup {Empty}
         /\ Unmasked(password, "mqtt") \subseteq Passwords \cup {Empty}
  BY DEF Unmasked, ProperFlash, WifiSettings, MqttSettings

LEMMA TypeInit == Init => TypeOK
  <1> SUFFICES ASSUME Init PROVE TypeOK
    OBVIOUS
  <1>1. FlashType
    BY DEF Init, FlashType, Flash!Requests, Format
  <1>2. todo \in Seq(Steps) /\ Len(todo) <= 3
    BY DEF Init
  <1>3. /\ inForce \in [wifi : Data \cup {Missing, Damaged}, mqtt : Data \cup {Missing, Damaged}]
        /\ control \in [stop : BOOLEAN, firmware : BOOLEAN]
    BY DEF Init, NoSettings, Running
  <1>4. used \in [requests : 0 .. MaxRequests, cuts : 0 .. MaxCuts]
    BY SetupAssumption DEF Init
  <1> QED BY <1>1, <1>2, <1>3, <1>4 DEF Init, TypeOK

\* While requests are served, there are settings.
LEMMA PolledSettings ==
  ASSUME Stage, Polling
  PROVE  store["wifi"] # Missing /\ store["mqtt"] # Missing
  BY DEF Stage, Polling, Serving, Replacing, Idle

LEMMA TypeCall ==
  ASSUME TypeOK, ProperFlash, InCall
  PROVE  TypeOK'
  <1> USE DEF TypeOK, FlashType
  <1>1. CASE Proceed
    <2>1. /\ todo' \in Seq(Steps) /\ Len(todo') <= 3
      BY <1>1, HeadIs DEF Proceed
    <2>2. CASE Head(todo) = StopService
      <3>1. /\ control' = [stop |-> TRUE, firmware |-> FALSE]
            /\ UNCHANGED <<store, doing, request, main, apMode, pushed, inForce, held, hits, used>>
        BY <1>1, <2>2 DEF Proceed, flash, history
      <3> QED BY <2>1, <3>1
    <2>3. CASE Head(todo) # StopService
      BY <1>1, <2>1, <2>3, HeadIs DEF Proceed, Flash!Ask, history
    <2> QED BY <2>2, <2>3
  <1>2. CASE Refuse
    BY <1>2 DEF Refuse, Flash!Refuse, service, history
  <1>3. CASE Replace
    BY <1>3 DEF Replace, Flash!Commit, Flash!FormatSome, Flash!FormatDone, Flash!Lose, service, history
  <1>4. CASE Write
    <2>1. request.id \in Ids /\ request.data \in Data
      BY <1>4 DEF Write, Flash!Write, ProperFlash, Flash!Requests, Flash!Saves, Flash!Clears
    <2> QED BY <1>4, <2>1 DEF Write, Flash!Write, service
  <1> QED BY <1>1, <1>2, <1>3, <1>4 DEF InCall

\* What a request makes of the steps still to do.
LEMMA SettingsSaved ==
  ASSUME NEW id \in {"wifi", "mqtt"}, NEW data \in Data
  PROVE  /\ SaveAndStop(id, data) = <<Save(id, data), StopService>>
         /\ SaveAndStop(id, data) \in Seq(Steps) /\ Len(SaveAndStop(id, data)) = 2
  BY CallsAre DEF SaveAndStop, Ids

LEMMA WifiRequested ==
  ASSUME TypeOK, ProperFlash, Stage,
         NEW ssid \in Ssids \cup {Empty}, NEW p \in Passwords \cup {Empty, Mask},
         ConfigureWifi(ssid, p)
  PROVE  \E data \in WifiSettings : todo' = <<Save("wifi", data), StopService>>
  <1>1. PICK q \in Unmasked(p, "wifi") :
          todo' = SaveAndStop("wifi", [ssid |-> ssid, password |-> q])
    BY DEF ConfigureWifi
  <1>2. q \in Passwords \cup {Empty}
    BY PolledSettings, UnmaskedIs DEF ConfigureWifi
  <1>3. [ssid |-> ssid, password |-> q] \in WifiSettings
    BY <1>2 DEF WifiSettings
  <1> QED BY <1>1, <1>3 DEF SaveAndStop

LEMMA MqttRequested ==
  ASSUME TypeOK, ProperFlash, Stage,
         NEW host \in Brokers \cup {Empty}, NEW p \in Passwords \cup {Empty, Mask},
         ConfigureMqtt(host, p)
  PROVE  \E data \in MqttSettings : todo' = <<Save("mqtt", data), StopService>>
  <1>1. PICK q \in Unmasked(p, "mqtt") :
          todo' = SaveAndStop("mqtt", [host |-> host, password |-> q])
    BY DEF ConfigureMqtt
  <1>2. q \in Passwords \cup {Empty}
    BY PolledSettings, UnmaskedIs DEF ConfigureMqtt
  <1>3. [host |-> host, password |-> q] \in MqttSettings
    BY <1>2 DEF MqttSettings
  <1> QED BY <1>1, <1>3 DEF SaveAndStop

LEMMA TypeRequests ==
  ASSUME TypeOK, ProperFlash, Stage, Requests
  PROVE  TypeOK'
  <1> USE DEF TypeOK, FlashType
  <1>1. ASSUME Counted PROVE used' \in [requests : 0 .. MaxRequests, cuts : 0 .. MaxCuts]
    BY <1>1, SetupAssumption DEF Counted
  <1>2. ASSUME NEW ssid \in Ssids \cup {Empty}, NEW p \in Passwords \cup {Empty, Mask},
               ConfigureWifi(ssid, p)
        PROVE  TypeOK'
    <2>1. PICK data \in WifiSettings : todo' = <<Save("wifi", data), StopService>>
      BY <1>2, WifiRequested
    <2>2. todo' \in Seq(Steps) /\ Len(todo') <= 3
      BY <2>1, CallsAre
    <2> QED BY <1>1, <1>2, <2>2 DEF ConfigureWifi, flash, service
  <1>3. ASSUME NEW host \in Brokers \cup {Empty}, NEW p \in Passwords \cup {Empty, Mask},
               ConfigureMqtt(host, p)
        PROVE  TypeOK'
    <2>1. PICK data \in MqttSettings : todo' = <<Save("mqtt", data), StopService>>
      BY <1>3, MqttRequested
    <2>2. todo' \in Seq(Steps) /\ Len(todo') <= 3
      BY <2>1, CallsAre
    <2> QED BY <1>1, <1>3, <2>2 DEF ConfigureMqtt, flash, service
  <1>4. CASE ConfigureFirmware
    BY <1>1, <1>4 DEF ConfigureFirmware, flash
  <1>5. CASE SaveDevices
    <2>1. todo' \in Seq(Steps) /\ Len(todo') <= 3
      BY <1>5, CallsAre DEF SaveDevices
    <2> QED BY <1>1, <1>5, <2>1 DEF SaveDevices, flash, service
  <1> QED BY <1>2, <1>3, <1>4, <1>5 DEF Requests

LEMMA TypeMain ==
  ASSUME TypeOK, Main
  PROVE  TypeOK'
  <1> USE DEF TypeOK, FlashType
  <1>1. CASE CheckConfig
    <2>1. HardReset \in Seq(Steps) /\ Len(HardReset) <= 3
      BY CallsAre DEF HardReset
    <2>2. todo' \in Seq(Steps) /\ Len(todo') <= 3
      <3>1. PICK button \in BOOLEAN : todo' = IF NeedReset(button) THEN HardReset ELSE <<>>
        BY <1>1, Zenon DEF CheckConfig
      <3>2. CASE NeedReset(button)
        <4>1. todo' = HardReset
          BY <3>1, <3>2
        <4> HIDE DEF TypeOK, FlashType
        <4> QED BY <2>1, <4>1, Zenon
      <3>3. CASE ~ NeedReset(button)
        BY <3>1, <3>3, EmptySeq
      <3> QED BY <3>2, <3>3
    <2>3. held' \in BOOLEAN
      BY <1>1, Zenon DEF CheckConfig
    <2>4. /\ main' = "confirm"
          /\ UNCHANGED <<store, doing, request, apMode, control, pushed, inForce, hits, used>>
      BY <1>1 DEF CheckConfig, flash, service
    <2> QED BY <2>2, <2>3, <2>4
  <1>2. CASE Confirm
    <2>1. [wifi |-> store["wifi"], mqtt |-> store["mqtt"]] \in
            [wifi : Data \cup {Missing, Damaged}, mqtt : Data \cup {Missing, Damaged}]
      BY CallsAre
    <2>2. /\ apMode' \in BOOLEAN /\ main' \in {"serve", "dead"}
          /\ inForce' \in [wifi : Data \cup {Missing, Damaged}, mqtt : Data \cup {Missing, Damaged}]
      <3>1. CASE ReadBack
        BY <1>2, <2>1, <3>1 DEF Confirm
      <3>2. CASE ~ ReadBack
        BY <1>2, <3>2 DEF Confirm, WithoutSettings
      <3> QED BY <3>1, <3>2
    <2>3. UNCHANGED <<store, doing, request, todo, control, pushed, held, hits, used>>
      BY <1>2 DEF Confirm, flash
    <2> QED BY <2>2, <2>3
  <1>3. CASE LeaveLoop
    <2>1. todo' \in Seq(Steps) /\ Len(todo') <= 3
      <3>1. \A data \in DeviceData : /\ <<Save("devices", data)>> \in Seq(Steps)
                                     /\ Len(<<Save("devices", data)>>) = 1
        BY CallsAre
      <3>2. todo' = <<>> \/ \E data \in DeviceData : todo' = <<Save("devices", data)>>
        BY <1>3, Zenon DEF LeaveLoop
      <3>3. CASE todo' = <<>>
        BY <3>3, EmptySeq
      <3>4. ASSUME NEW data \in DeviceData, todo' = <<Save("devices", data)>>
            PROVE  todo' \in Seq(Steps) /\ Len(todo') <= 3
        BY <3>1, <3>4
      <3> QED BY <3>2, <3>3, <3>4
    <2> QED BY <1>3, <2>1 DEF LeaveLoop, flash, service, history
  <1>4. CASE StartReset
    BY <1>4 DEF StartReset, flash, service, history
  <1> QED BY <1>1, <1>2, <1>3, <1>4 DEF Main

LEMMA TypeRestart ==
  ASSUME TypeOK, WatchdogFires \/ FirmwareUpdated \/ PowerCut
  PROVE  TypeOK'
  <1> USE DEF TypeOK, FlashType
  <1>1. Restart /\ used' \in [requests : 0 .. MaxRequests, cuts : 0 .. MaxCuts]
    BY SetupAssumption DEF WatchdogFires, FirmwareUpdated, PowerCut
  <1>2. hits' \subseteq Ids
    <2>1. Flash!AtRisk \subseteq Ids
      BY DEF Flash!AtRisk, Flash!Requests, Flash!Saves, Flash!Clears
    <2>2. SavedBy(todo) \subseteq Ids
      <3>1. \A i \in 1 .. Len(todo) : todo[i] \in Steps
        BY ElementOfSeq
      <3>2. \A s \in Steps : s.op = "save" => s.id \in Ids
        BY DEF Steps, Format, StopService
      <3> QED BY <3>1, <3>2 DEF SavedBy
    <2> QED BY <1>1, <2>1, <2>2 DEF Restart
  <1>3. /\ store' \in [Ids -> Data \cup {Missing, Damaged}] /\ doing' = "idle"
        /\ request' = request
    BY <1>1 DEF Restart, Flash!PowerCut
  <1>4. inForce' \in [wifi : Data \cup {Missing, Damaged}, mqtt : Data \cup {Missing, Damaged}]
    BY <1>1 DEF Restart, NoSettings
  <1>5. control' \in [stop : BOOLEAN, firmware : BOOLEAN]
    BY <1>1 DEF Restart, Running
  <1>6. todo' = <<>> /\ main' = "check" /\ apMode' = FALSE /\ pushed' = FALSE /\ held' = FALSE
    BY <1>1 DEF Restart
  <1>7. FlashType'
    BY <1>3
  <1>8. todo' \in Seq(Steps) /\ Len(todo') <= 3
    BY <1>6
  <1> HIDE DEF FlashType
  <1> QED BY <1>1, <1>2, <1>4, <1>5, <1>6, <1>7, <1>8

LEMMA TypePoll ==
  ASSUME TypeOK, PollReset
  PROVE  TypeOK'
  <1>1. control' \in [stop : BOOLEAN, firmware : BOOLEAN] /\ pushed' \in BOOLEAN
    BY DEF TypeOK, PollReset
  <1> QED BY <1>1 DEF TypeOK, FlashType, PollReset, flash, history

-----------------------------------------------------------------------------
(* The invariant *)

\* The steps of the calls, as lists.
LEMMA Lists ==
  /\ HardReset # <<>> /\ Head(HardReset) = Format
  /\ Tail(HardReset) = <<SaveWifiDefault, SaveMqttDefault>>
  /\ \A s, t : /\ <<s>> # <<>> /\ Head(<<s>>) = s /\ Tail(<<s>>) = <<>>
               /\ <<s, t>> # <<>> /\ Head(<<s, t>>) = s /\ Tail(<<s, t>>) = <<t>>
               /\ <<s>> # HardReset /\ <<s, t>> # HardReset
               /\ Len(<<s>>) = 1 /\ <<s>>[1] = s /\ Len(<<s, t>>) = 2 /\ <<s, t>>[2] = t
  <1>1. Len(HardReset) = 3
    BY DEF HardReset
  <1>2. /\ HardReset # <<>> /\ Head(HardReset) = Format
        /\ Tail(HardReset) = <<SaveWifiDefault, SaveMqttDefault>>
    BY Tuples DEF HardReset, SaveWifiDefault, SaveMqttDefault
  <1>3. \A s, t : Len(<<s>>) = 1 /\ <<s>>[1] = s /\ Len(<<s, t>>) = 2 /\ <<s, t>>[2] = t
    OBVIOUS
  <1>4. \A s, t : <<s>> # HardReset /\ <<s, t>> # HardReset
    BY <1>1, <1>3
  <1> QED BY <1>2, <1>3, <1>4, Tuples

\* The steps of the calls, one by one.
LEMMA SavesAre ==
  /\ SaveWifiDefault.op = "save" /\ SaveWifiDefault.id = "wifi" /\ Proper(SaveWifiDefault)
  /\ SaveMqttDefault.op = "save" /\ SaveMqttDefault.id = "mqtt" /\ Proper(SaveMqttDefault)
  /\ SaveWifiDefault # StopService /\ SaveMqttDefault # StopService /\ Format # StopService
  /\ \A data \in WifiSettings :
       LET s == Save("wifi", data)
       IN  s.op = "save" /\ s.id = "wifi" /\ Proper(s) /\ s # StopService /\ s # Format
  /\ \A data \in MqttSettings :
       LET s == Save("mqtt", data)
       IN  s.op = "save" /\ s.id = "mqtt" /\ Proper(s) /\ s # StopService /\ s # Format
  /\ \A data \in DeviceData :
       LET s == Save("devices", data)
       IN  s.op = "save" /\ s.id = "devices" /\ Proper(s) /\ s # StopService /\ s # Format
  <1>1. \A s : s.op = "save" => s # StopService /\ s # Format
    BY CallsAre
  <1>2. Format # StopService
    BY CallsAre
  <1>3. \A data \in WifiSettings : Proper(Save("wifi", data))
    BY CallsAre DEF Proper
  <1>4. \A data \in MqttSettings : Proper(Save("mqtt", data))
    BY CallsAre DEF Proper
  <1>5. \A data \in DeviceData : Proper(Save("devices", data))
    BY CallsAre DEF Proper
  <1> QED BY <1>1, <1>2, <1>3, <1>4, <1>5, CallsAre DEF SaveWifiDefault, SaveMqttDefault

LEMMA InitIInv == Init => IInv
  <1> SUFFICES ASSUME Init PROVE IInv
    OBVIOUS
  <1>1. /\ store["wifi"] = Missing /\ store["mqtt"] = Missing /\ store["devices"] = Missing
        /\ doing = "idle" /\ main = "check" /\ todo = <<>> /\ ~ Formatting
    BY DEF Init, Ids, Formatting
  <1>2. TypeOK
    BY TypeInit
  <1>3. ProperFlash /\ Stage /\ WifiGone /\ MqttGone
    BY <1>1 DEF ProperFlash, Stage, Idle, WifiGone, MqttGone, Saving
  <1>4. CauseOfReset /\ DeadWithCause /\ Changed
    BY <1>1 DEF CauseOfReset, DeadWithCause, Changed
  <1> QED BY <1>2, <1>3, <1>4 DEF IInv

\* The next save of a call starts.
LEMMA AskIInv ==
  ASSUME IInv, Proceed, Head(todo) # StopService
  PROVE  IInv'
  <1>0. /\ TypeOK /\ ProperFlash /\ Stage
        /\ WifiGone /\ MqttGone /\ CauseOfReset /\ DeadWithCause /\ Changed
    BY DEF IInv
  <1>1. TypeOK'
    BY <1>0, TypeCall DEF InCall
  <1>2. /\ doing = "idle" /\ doing' = "asked" /\ todo # <<>> /\ todo' = Tail(todo)
        /\ request' = Head(todo) /\ store' = store /\ control' = control
        /\ main' = main /\ inForce' = inForce /\ held' = held /\ hits' = hits
    BY DEF Proceed, Flash!Ask, history
  <1>3. ~ Formatting /\ ~ Replacing("wifi") /\ ~ Replacing("mqtt")
    BY <1>2 DEF Formatting, Replacing
  \* Where the call is, and where it will be.
  <1>4. \/ main = "confirm" /\ todo = HardReset
        \/ main = "confirm" /\ todo = <<SaveWifiDefault, SaveMqttDefault>> /\ store["devices"] = Missing
        \/ /\ main = "confirm" /\ todo = <<SaveMqttDefault>>
           /\ store["wifi"] # Missing /\ store["devices"] = Missing
        \/ main \in {"serve", "last", "armed", "bootsel"} /\ Serving
    BY <1>0, <1>2 DEF Stage, Resetting, Idle, Formatting
  <1>5. CASE main = "confirm" /\ todo = HardReset
    <2>1. request' = Format /\ todo' = <<SaveWifiDefault, SaveMqttDefault>> /\ Formatting'
      BY <1>2, <1>5, Lists DEF Formatting
    <2>2. Resetting' /\ Stage'
      BY <1>2, <1>5, <2>1 DEF Stage, Resetting
    <2>3. ProperFlash'
      BY <1>0, <1>2, <2>1, CallsAre DEF ProperFlash
    <2>4. WifiGone' /\ MqttGone' /\ DeadWithCause' /\ Changed'
      BY <1>0, <1>2, <1>5, <2>1, <2>2 DEF WifiGone, MqttGone, DeadWithCause, Changed
    <2>5. CauseOfReset'
      BY <1>0, <1>2, <1>5 DEF CauseOfReset
    <2> QED BY <1>1, <2>2, <2>3, <2>4, <2>5 DEF IInv
  <1>6. CASE /\ main = "confirm" /\ todo = <<SaveWifiDefault, SaveMqttDefault>>
             /\ store["devices"] = Missing
    <2>1. request' = SaveWifiDefault /\ todo' = <<SaveMqttDefault>>
      BY <1>2, <1>6, Lists
    <2>2. Resetting' /\ Stage'
      BY <1>2, <1>6, <2>1 DEF Stage, Resetting
    <2>3. ProperFlash' /\ ~ Formatting' /\ todo' # HardReset
      BY <1>0, <1>2, <2>1, SavesAre, CallsAre, Lists DEF ProperFlash, Formatting
    <2>4. WifiGone' /\ MqttGone' /\ DeadWithCause' /\ Changed' /\ CauseOfReset'
      BY <1>2, <1>6, <2>2, <2>3 DEF WifiGone, MqttGone, DeadWithCause, Changed, CauseOfReset
    <2> QED BY <1>1, <2>2, <2>3, <2>4 DEF IInv
  <1>7. CASE /\ main = "confirm" /\ todo = <<SaveMqttDefault>>
             /\ store["wifi"] # Missing /\ store["devices"] = Missing
    <2>1. request' = SaveMqttDefault /\ todo' = <<>>
      BY <1>2, <1>7, Lists
    <2>2. Resetting' /\ Stage'
      BY <1>2, <1>7, <2>1 DEF Stage, Resetting
    <2>3. ProperFlash' /\ ~ Formatting' /\ todo' # HardReset
      BY <1>0, <1>2, <2>1, SavesAre, CallsAre, Lists DEF ProperFlash, Formatting
    <2>4. WifiGone' /\ MqttGone' /\ DeadWithCause' /\ Changed' /\ CauseOfReset'
      BY <1>2, <1>7, <2>2, <2>3 DEF WifiGone, MqttGone, DeadWithCause, Changed, CauseOfReset
    <2> QED BY <1>1, <2>2, <2>3, <2>4 DEF IInv
  <1>8. CASE main \in {"serve", "last", "armed", "bootsel"} /\ Serving
    <2>0. store["wifi"] # Missing /\ store["mqtt"] # Missing
      BY <1>3, <1>8 DEF Serving
    <2>1. /\ request'.op = "save" /\ Proper(request') /\ request' # Format
          /\ \/ /\ request'.id \in {"wifi", "mqtt"} /\ todo' = <<StopService>>
             \/ /\ request'.id = "devices" /\ todo' = <<>>
                /\ todo[Len(todo)] # StopService
      <3>1. CASE \E data \in WifiSettings : todo = <<Save("wifi", data), StopService>>
        BY <1>2, <3>1, Lists, SavesAre
      <3>2. CASE \E data \in MqttSettings : todo = <<Save("mqtt", data), StopService>>
        BY <1>2, <3>2, Lists, SavesAre
      <3>3. CASE \E data \in DeviceData : todo = <<Save("devices", data)>>
        BY <1>2, <3>3, Lists, SavesAre
      <3>4. CASE todo = <<StopService>>
        BY <3>4, Lists
      <3> QED BY <1>2, <1>8, <3>1, <3>2, <3>3, <3>4 DEF Serving, ServingCall, Idle
    <2>2. Stage'
      BY <1>2, <1>8, <2>0, <2>1 DEF Stage, Serving, ServingCall
    <2>3. ProperFlash'
      BY <1>0, <1>2, <2>1 DEF ProperFlash
    <2>4. WifiGone' /\ MqttGone' /\ CauseOfReset' /\ DeadWithCause'
      BY <1>2, <1>8, <2>0 DEF WifiGone, MqttGone, CauseOfReset, DeadWithCause
    <2>5. Changed'
      <3>1. CASE request'.id \in {"wifi", "mqtt"} /\ todo' = <<StopService>>
        BY <3>1, Lists DEF Changed
      <3>2. CASE request'.id = "devices" /\ todo[Len(todo)] # StopService
        BY <1>0, <1>2, <3>2 DEF Changed
      <3> QED BY <2>1, <3>1, <3>2
    <2> QED BY <1>1, <2>2, <2>3, <2>4, <2>5 DEF IInv
  <1> QED BY <1>4, <1>5, <1>6, <1>7, <1>8

\* A call that saved settings asks for the restart.
LEMMA StopIInv ==
  ASSUME IInv, Proceed, Head(todo) = StopService
  PROVE  IInv'
  <1>0. /\ TypeOK /\ ProperFlash /\ Stage
        /\ WifiGone /\ MqttGone /\ CauseOfReset /\ DeadWithCause /\ Changed
    BY DEF IInv
  <1>1. TypeOK'
    BY <1>0, TypeCall DEF InCall
  <1>2. /\ doing = "idle" /\ doing' = "idle" /\ todo # <<>> /\ todo' = Tail(todo)
        /\ request' = request /\ store' = store /\ control'.stop = TRUE
        /\ main' = main /\ inForce' = inForce /\ held' = held /\ hits' = hits
    BY DEF Proceed, flash, history
  <1>3. main \in {"serve", "last", "armed", "bootsel"} /\ Serving /\ todo = <<StopService>>
    <2>1. todo # HardReset
      BY Lists, CallsAre
    <2>2. /\ todo # <<SaveWifiDefault, SaveMqttDefault>>
          /\ todo # <<SaveMqttDefault>>
      BY Lists, SavesAre
    <2>3. main \in {"serve", "last", "armed", "bootsel"} /\ Serving
      BY <1>0, <1>2, <2>1, <2>2 DEF Stage, Resetting, Idle
    <2>4. /\ \A data \in WifiSettings : todo # <<Save("wifi", data), StopService>>
          /\ \A data \in MqttSettings : todo # <<Save("mqtt", data), StopService>>
          /\ \A data \in DeviceData : todo # <<Save("devices", data)>>
      BY Lists, SavesAre
    <2> QED BY <1>2, <2>3, <2>4 DEF Serving, ServingCall, Idle
  <1>4. todo' = <<>>
    BY <1>2, <1>3, Lists
  <1>5. store["wifi"] # Missing /\ store["mqtt"] # Missing
    BY <1>2, <1>3 DEF Serving, Replacing
  <1>6. Stage'
    BY <1>2, <1>3, <1>4, <1>5 DEF Stage, Serving, ServingCall, Idle
  <1>7. ProperFlash'
    BY <1>0, <1>2 DEF ProperFlash
  <1>8. WifiGone' /\ MqttGone' /\ CauseOfReset' /\ DeadWithCause' /\ Changed'
    BY <1>2, <1>3, <1>5 DEF WifiGone, MqttGone, CauseOfReset, DeadWithCause, Changed
  <1> QED BY <1>1, <1>6, <1>7, <1>8 DEF IInv

\* A save is refused.  Those of a reset of everything are not.
LEMMA RefuseIInv ==
  ASSUME IInv, Refuse
  PROVE  IInv'
  <1>0. /\ TypeOK /\ ProperFlash /\ Stage
        /\ WifiGone /\ MqttGone /\ CauseOfReset /\ DeadWithCause /\ Changed
    BY DEF IInv
  <1>1. TypeOK'
    BY <1>0, TypeCall DEF InCall
  <1>2. /\ store["devices"] # Missing
        /\ doing = "asked" /\ request.op = "save" /\ doing' = "idle" /\ store' = store
        /\ request' = request /\ todo' = todo /\ control' = control
        /\ main' = main /\ inForce' = inForce /\ held' = held /\ hits' = hits
    BY DEF Refuse, Flash!Refuse, service, history
  <1>3. ~ Formatting /\ ~ Replacing("wifi") /\ ~ Replacing("mqtt")
    BY <1>2, CallsAre DEF Formatting, Replacing
  <1>4. main \in {"serve", "last", "armed", "bootsel"} /\ Serving
    BY <1>0, <1>2, <1>3 DEF Stage, Resetting, Idle
  <1>5. store["wifi"] # Missing /\ store["mqtt"] # Missing
    BY <1>3, <1>4 DEF Serving
  <1>6. Stage'
    BY <1>2, <1>4, <1>5 DEF Stage, Serving, ServingCall, Idle
  <1>7. ProperFlash'
    BY <1>0, <1>2 DEF ProperFlash
  <1>8. WifiGone' /\ MqttGone' /\ CauseOfReset' /\ DeadWithCause' /\ Changed'
    BY <1>0, <1>2, <1>4, <1>5 DEF WifiGone, MqttGone, CauseOfReset, DeadWithCause, Changed
  <1> QED BY <1>1, <1>6, <1>7, <1>8 DEF IInv

\* A save commits: the old record goes.
LEMMA CommitIInv ==
  ASSUME IInv, Replace, Flash!Commit
  PROVE  IInv'
  <1>0. /\ TypeOK /\ ProperFlash /\ Stage
        /\ WifiGone /\ MqttGone /\ CauseOfReset /\ DeadWithCause /\ Changed
    BY DEF IInv
  <1>1. TypeOK'
    BY <1>0, TypeCall DEF InCall
  <1>2. /\ doing = "asked" /\ request.op = "save" /\ doing' = "committed"
        /\ request' = request /\ todo' = todo /\ control' = control
        /\ main' = main /\ inForce' = inForce /\ held' = held /\ hits' = hits
    BY DEF Replace, Flash!Commit, service, history
  <1>3. /\ store'["wifi"] = IF request.id = "wifi" THEN Missing ELSE store["wifi"]
        /\ store'["mqtt"] = IF request.id = "mqtt" THEN Missing ELSE store["mqtt"]
        /\ store'["devices"] = IF request.id = "devices" THEN Missing ELSE store["devices"]
    BY <1>0, CallsAre DEF Flash!Commit, TypeOK, FlashType
  <1>4. ~ Formatting /\ ~ Formatting'
    BY <1>2, CallsAre DEF Formatting
  <1>5. /\ \/ main = "confirm" /\ Resetting /\ request.id # "devices" /\ todo # HardReset
           \/ main \in {"serve", "last", "armed", "bootsel"} /\ Serving
    BY <1>0, <1>2, <1>4, SavesAre, Lists DEF Stage, Resetting, Idle
  <1>6. ProperFlash'
    BY <1>0, <1>2, <1>3 DEF ProperFlash
  <1>7. CASE main = "confirm" /\ Resetting /\ request.id # "devices" /\ todo # HardReset
    <2>1. Resetting'
      BY <1>2, <1>3, <1>4, <1>7, SavesAre DEF Resetting
    <2>2. Stage' /\ MqttGone'
      BY <1>2, <1>7, <2>1 DEF Stage, MqttGone
    <2>3. WifiGone'
      BY <1>0, <1>2, <1>3, <1>4, <1>7 DEF WifiGone, Replacing
    <2>4. CauseOfReset' /\ DeadWithCause' /\ Changed'
      BY <1>2, <1>4, <1>7 DEF CauseOfReset, DeadWithCause, Changed
    <2> QED BY <1>1, <1>6, <2>2, <2>3, <2>4 DEF IInv
  <1>8. CASE main \in {"serve", "last", "armed", "bootsel"} /\ Serving
    <2>0. store["wifi"] # Missing /\ store["mqtt"] # Missing
      BY <1>2, <1>8 DEF Serving, Replacing
    <2>1. Serving'
      BY <1>2, <1>3, <1>8, <2>0 DEF Serving, ServingCall, Idle, Replacing
    <2>2. Stage' /\ WifiGone' /\ MqttGone'
      BY <1>2, <1>3, <1>8, <2>0, <2>1 DEF Stage, WifiGone, MqttGone, Replacing
    <2>3. CauseOfReset' /\ DeadWithCause'
      BY <1>2, <1>8 DEF CauseOfReset, DeadWithCause
    <2>4. Changed'
      BY <1>0, <1>2, <1>3 DEF Changed
    <2> QED BY <1>1, <1>6, <2>2, <2>3, <2>4 DEF IInv
  <1> QED BY <1>5, <1>7, <1>8

\* A reset of everything loses records, and ends.
LEMMA FormatIInv ==
  ASSUME IInv, Replace, Flash!FormatSome \/ Flash!FormatDone
  PROVE  IInv'
  <1>0. /\ TypeOK /\ ProperFlash /\ Stage
        /\ WifiGone /\ MqttGone /\ CauseOfReset /\ DeadWithCause /\ Changed
    BY DEF IInv
  <1>1. TypeOK'
    BY <1>0, TypeCall DEF InCall
  <1>2. /\ doing = "asked" /\ request.op = "format" /\ request' = request
        /\ todo' = todo /\ control' = control
        /\ main' = main /\ inForce' = inForce /\ held' = held /\ hits' = hits
    BY DEF Replace, Flash!FormatSome, Flash!FormatDone, service, history
  <1>3. main = "confirm" /\ Formatting /\ todo = <<SaveWifiDefault, SaveMqttDefault>>
    BY <1>0, <1>2, SavesAre, Lists DEF Stage, Resetting, Serving, ServingCall, Idle
  <1>4. /\ store'["wifi"] \in {store["wifi"], Missing}
        /\ store'["mqtt"] \in {store["mqtt"], Missing}
        /\ store'["devices"] \in {store["devices"], Missing}
    BY <1>0, CallsAre DEF TypeOK, FlashType, Flash!FormatSome, Flash!FormatDone, Flash!Lose
  <1>5. \/ doing' = doing
        \/ doing' = "idle" /\ store'["devices"] = Missing
    BY CallsAre DEF Flash!FormatSome, Flash!FormatDone
  <1>6. Resetting'
    BY <1>2, <1>3, <1>5 DEF Resetting, Formatting
  <1>7. Stage' /\ MqttGone'
    BY <1>2, <1>3, <1>6 DEF Stage, MqttGone
  <1>8. WifiGone'
    BY <1>2, <1>3, <1>5 DEF WifiGone, Formatting
  <1>9. CauseOfReset' /\ DeadWithCause' /\ Changed'
    BY <1>0, <1>2, <1>3, <1>4 DEF CauseOfReset, DeadWithCause, Changed
  <1>10. ProperFlash'
    BY <1>0, <1>2, <1>4, <1>5 DEF ProperFlash
  <1> QED BY <1>1, <1>7, <1>8, <1>9, <1>10 DEF IInv

\* The new record is written.
LEMMA WriteIInv ==
  ASSUME IInv, Write
  PROVE  IInv'
  <1>0. /\ TypeOK /\ ProperFlash /\ Stage
        /\ WifiGone /\ MqttGone /\ CauseOfReset /\ DeadWithCause /\ Changed
    BY DEF IInv
  <1>1. TypeOK'
    BY <1>0, TypeCall DEF InCall
  <1>2. /\ doing = "committed" /\ request.op = "save" /\ doing' = "idle"
        /\ request' = request /\ todo' = todo /\ control' = control
        /\ main' = main /\ inForce' = inForce /\ held' = held /\ hits' = hits \ {request.id}
    BY <1>0 DEF Write, Flash!Write, service, ProperFlash
  <1>3. request.data \in Data /\ Proper(request) /\ request.data # Missing
    BY <1>0, <1>2, CallsAre DEF ProperFlash, TypeOK, FlashType, Flash!Requests, Flash!Saves, Flash!Clears
  <1>4. /\ store'["wifi"] = IF request.id = "wifi" THEN request.data ELSE store["wifi"]
        /\ store'["mqtt"] = IF request.id = "mqtt" THEN request.data ELSE store["mqtt"]
        /\ store'["devices"] = IF request.id = "devices" THEN request.data ELSE store["devices"]
    BY <1>0, CallsAre DEF Write, Flash!Write, TypeOK, FlashType
  <1>5. ~ Formatting /\ ~ Formatting'
    BY <1>2, CallsAre DEF Formatting
  <1>6. \/ /\ main = "confirm" /\ todo = <<SaveMqttDefault>> /\ request.id = "wifi"
           /\ store["devices"] = Missing
        \/ /\ main = "confirm" /\ todo = <<>> /\ request.id = "mqtt"
           /\ store["wifi"] # Missing /\ store["devices"] = Missing
        \/ main \in {"serve", "last", "armed", "bootsel"} /\ Serving
    BY <1>0, <1>2, <1>5, SavesAre DEF Stage, Resetting, Idle
  <1>7. ProperFlash'
    BY <1>0, <1>2, <1>3, <1>4 DEF ProperFlash, Proper
  <1>8. DeadWithCause' /\ CauseOfReset'
    BY <1>2, <1>5, <1>6, Lists DEF DeadWithCause, CauseOfReset
  <1>9. CASE /\ main = "confirm" /\ todo = <<SaveMqttDefault>> /\ request.id = "wifi"
             /\ store["devices"] = Missing
    <2>1. Resetting' /\ store'["wifi"] # Missing
      BY <1>2, <1>3, <1>4, <1>9 DEF Resetting
    <2> QED BY <1>1, <1>2, <1>7, <1>8, <1>9, <2>1 DEF IInv, Stage, WifiGone, MqttGone, Changed
  <1>10. CASE /\ main = "confirm" /\ todo = <<>> /\ request.id = "mqtt"
              /\ store["wifi"] # Missing /\ store["devices"] = Missing
    <2>1. Stage' /\ WifiGone' /\ MqttGone' /\ Changed'
      BY <1>2, <1>3, <1>4, <1>10 DEF Stage, Idle, WifiGone, MqttGone, Changed
    <2> QED BY <1>1, <1>7, <1>8, <2>1 DEF IInv
  <1>11. CASE main \in {"serve", "last", "armed", "bootsel"} /\ Serving
    <2>1. store'["wifi"] # Missing /\ store'["mqtt"] # Missing
      BY <1>2, <1>3, <1>4, <1>11 DEF Serving, Replacing
    <2>2. ServingCall'
      BY <1>2, <1>11 DEF Serving, ServingCall, Idle
    <2>3. Stage' /\ WifiGone' /\ MqttGone'
      BY <1>2, <1>11, <2>1, <2>2 DEF Stage, Serving, WifiGone, MqttGone
    <2>4. Changed'
      BY <1>0, <1>2, <1>4 DEF Changed
    <2> QED BY <1>1, <1>7, <1>8, <2>3, <2>4 DEF IInv
  <1> QED BY <1>6, <1>9, <1>10, <1>11

\* The boot decides whether to reset everything.
LEMMA CheckIInv ==
  ASSUME IInv, CheckConfig
  PROVE  IInv'
  <1>0. /\ TypeOK /\ ProperFlash /\ Stage
        /\ WifiGone /\ MqttGone /\ CauseOfReset /\ DeadWithCause /\ Changed
    BY DEF IInv
  <1>1. TypeOK'
    BY <1>0, TypeMain DEF Main
  <1>2. PICK button \in BOOLEAN :
          /\ todo' = IF NeedReset(button) THEN HardReset ELSE <<>>
          /\ held' = (store["wifi"] # Missing /\ button)
    BY Zenon DEF CheckConfig
  <1>3. /\ main = "check" /\ main' = "confirm" /\ store' = store /\ doing' = doing
        /\ request' = request /\ hits' = hits
    BY DEF CheckConfig, flash
  <1>4. doing = "idle" /\ ~ Formatting /\ ~ Formatting' /\ ~ Replacing("wifi") /\ ~ Replacing("mqtt")
    BY <1>0, <1>3 DEF Stage, Idle, Formatting, Replacing
  <1>5. CASE NeedReset(button)
    <2>1. Resetting' /\ Stage'
      BY <1>2, <1>3, <1>4, <1>5 DEF Stage, Resetting
    <2>2. CauseOfReset'
      BY <1>0, <1>2, <1>3, <1>4, <1>5 DEF CauseOfReset, NeedReset, WifiGone
    <2>3. ProperFlash' /\ WifiGone' /\ MqttGone' /\ DeadWithCause' /\ Changed'
      BY <1>0, <1>3, <1>4, <2>1 DEF ProperFlash, WifiGone, MqttGone, DeadWithCause, Changed
    <2> QED BY <1>1, <2>1, <2>2, <2>3 DEF IInv
  <1>6. CASE ~ NeedReset(button)
    <2>1. store["wifi"] # Missing /\ todo' = <<>>
      BY <1>2, <1>6 DEF NeedReset
    <2>2. Stage' /\ CauseOfReset'
      BY <1>3, <1>4, <2>1, Lists DEF Stage, Idle, CauseOfReset
    <2>3. ProperFlash' /\ WifiGone' /\ DeadWithCause' /\ Changed'
      BY <1>0, <1>3, <1>4 DEF ProperFlash, WifiGone, DeadWithCause, Changed
    <2>4. MqttGone'
      BY <1>0, <1>3, <1>4, <2>1 DEF MqttGone
    <2> QED BY <1>1, <2>2, <2>3, <2>4 DEF IInv
  <1> QED BY <1>5, <1>6

\* The boot reads the settings back.
LEMMA ConfirmIInv ==
  ASSUME IInv, Confirm
  PROVE  IInv'
  <1>0. /\ TypeOK /\ ProperFlash /\ Stage
        /\ WifiGone /\ MqttGone /\ CauseOfReset /\ DeadWithCause /\ Changed
    BY DEF IInv
  <1>1. TypeOK'
    BY <1>0, TypeMain DEF Main
  <1>2. /\ main = "confirm" /\ doing = "idle" /\ todo = <<>>
        /\ store' = store /\ doing' = doing /\ request' = request /\ todo' = todo
        /\ control' = control /\ held' = held /\ hits' = hits
    BY DEF Confirm, Idle, flash
  <1>3. store["wifi"] # Missing /\ ~ Resetting
    BY <1>0, <1>2, Lists DEF Stage, Resetting
  <1>4. ProperFlash' /\ WifiGone'
    BY <1>0, <1>2, <1>3 DEF ProperFlash, WifiGone
  <1>5. CASE ReadBack
    <2>1. /\ main' = "serve" /\ store["mqtt"] # Missing
          /\ inForce' = [wifi |-> store["wifi"], mqtt |-> store["mqtt"]]
      BY <1>5 DEF Confirm, ReadBack
    <2>2. Stage' /\ MqttGone'
      BY <1>2, <1>3, <2>1 DEF Stage, Serving, ServingCall, Idle, MqttGone
    <2>3. CauseOfReset' /\ DeadWithCause' /\ Changed'
      BY <1>2, <2>1 DEF CauseOfReset, DeadWithCause, Changed
    <2> QED BY <1>1, <1>4, <2>2, <2>3 DEF IInv
  <1>6. CASE ~ ReadBack
    <2>1. main' = "dead" /\ store["mqtt"] = Missing
      BY <1>3, <1>6 DEF Confirm, ReadBack, WithoutSettings
    <2>2. "mqtt" \in hits
      BY <1>0, <1>2, <1>3, <2>1 DEF MqttGone, Replacing
    <2>3. Stage' /\ MqttGone' /\ CauseOfReset' /\ DeadWithCause' /\ Changed'
      BY <1>2, <2>1, <2>2 DEF Stage, Idle, MqttGone, CauseOfReset, DeadWithCause, Changed
    <2> QED BY <1>1, <1>4, <2>3 DEF IInv
  <1> QED BY <1>5, <1>6

\* A call starts while main sleeps, or nothing happens to the flash.
LEMMA ServedIInv ==
  ASSUME IInv, TypeOK', main \in {"serve", "last", "armed"}, Idle,
         main' \in {"serve", "last", "armed", "bootsel"},
         main' = "serve" => main = "serve",
         ServingCall', UNCHANGED <<store, doing, request, inForce, hits>>,
         main' = "serve" => \/ control'.stop
                            \/ control' = control /\ todo' = todo
                            \/ todo' # <<>> /\ todo'[Len(todo')] = StopService
                            \/ control' = control /\ todo = <<>>
  PROVE  IInv'
  <1>0. /\ TypeOK /\ ProperFlash /\ Stage
        /\ WifiGone /\ MqttGone /\ CauseOfReset /\ DeadWithCause /\ Changed
    BY DEF IInv
  <1>1. doing = "idle" /\ store["wifi"] # Missing /\ store["mqtt"] # Missing
    BY <1>0 DEF Stage, Serving, Replacing, Idle
  <1>2. Stage' /\ ProperFlash' /\ WifiGone' /\ MqttGone'
    BY <1>0, <1>1 DEF Stage, Serving, ProperFlash, WifiGone, MqttGone
  <1>3. CauseOfReset' /\ DeadWithCause'
    BY DEF CauseOfReset, DeadWithCause
  <1>4. Changed'
    BY <1>0, <1>1 DEF Changed, Idle
  <1> QED BY <1>2, <1>3, <1>4 DEF IInv

LEMMA RequestsIInv ==
  ASSUME IInv, Requests
  PROVE  IInv'
  <1>0. TypeOK /\ ProperFlash /\ Stage
    BY DEF IInv
  <1>1. TypeOK'
    BY <1>0, TypeRequests
  <1>2. ASSUME NEW ssid \in Ssids \cup {Empty}, NEW p \in Passwords \cup {Empty, Mask},
               ConfigureWifi(ssid, p)
        PROVE  IInv'
    <2>1. PICK data \in WifiSettings : todo' = <<Save("wifi", data), StopService>>
      BY <1>0, <1>2, WifiRequested
    <2>2. /\ main \in {"serve", "last", "armed"} /\ Idle /\ main' = main
          /\ UNCHANGED <<store, doing, request, inForce, hits>>
      BY <1>2 DEF ConfigureWifi, Polling, flash
    <2>3. ServingCall'
      BY <2>1, <2>2 DEF ServingCall, Idle
    <2>4. todo' # <<>> /\ todo'[Len(todo')] = StopService
      BY <2>1, Lists
    <2> QED BY <1>1, <2>2, <2>3, <2>4, ServedIInv
  <1>3. ASSUME NEW host \in Brokers \cup {Empty}, NEW p \in Passwords \cup {Empty, Mask},
               ConfigureMqtt(host, p)
        PROVE  IInv'
    <2>1. PICK data \in MqttSettings : todo' = <<Save("mqtt", data), StopService>>
      BY <1>0, <1>3, MqttRequested
    <2>2. /\ main \in {"serve", "last", "armed"} /\ Idle /\ main' = main
          /\ UNCHANGED <<store, doing, request, inForce, hits>>
      BY <1>3 DEF ConfigureMqtt, Polling, flash
    <2>3. ServingCall'
      BY <2>1, <2>2 DEF ServingCall, Idle
    <2>4. todo' # <<>> /\ todo'[Len(todo')] = StopService
      BY <2>1, Lists
    <2> QED BY <1>1, <2>2, <2>3, <2>4, ServedIInv
  <1>4. CASE ConfigureFirmware
    <2>1. /\ main \in {"serve", "last", "armed"} /\ Idle /\ main' = main /\ todo' = todo
          /\ control'.stop /\ UNCHANGED <<store, doing, request, inForce, hits>>
      BY <1>4 DEF ConfigureFirmware, Polling, flash
    <2>2. ServingCall'
      BY <2>1 DEF ServingCall, Idle
    <2> QED BY <1>1, <2>1, <2>2, ServedIInv
  <1>5. CASE SaveDevices
    <2>1. PICK data \in DeviceData : todo' = <<Save("devices", data)>>
      BY <1>5 DEF SaveDevices
    <2>2. /\ main \in {"serve", "last", "armed"} /\ Idle /\ main' = main /\ todo = <<>>
          /\ control' = control /\ UNCHANGED <<store, doing, request, inForce, hits>>
      BY <1>5 DEF SaveDevices, Polling, Idle, flash, service
    <2>3. ServingCall'
      BY <2>1, <2>2 DEF ServingCall, Idle
    <2> QED BY <1>1, <2>2, <2>3, ServedIInv
  <1> QED BY <1>2, <1>3, <1>4, <1>5 DEF Requests

\* The loops end, and the restart begins.
LEMMA LoopIInv ==
  ASSUME IInv, PollReset \/ LeaveLoop \/ StartReset
  PROVE  IInv'
  <1>0. TypeOK
    BY DEF IInv
  <1>1. CASE PollReset
    <2>1. TypeOK'
      BY <1>0, <1>1, TypePoll
    <2>2. /\ main = "serve" /\ Idle /\ main' = main /\ todo' = todo
          /\ control'.stop \/ control' = control
          /\ UNCHANGED <<store, doing, request, inForce, hits>>
      BY <1>1 DEF PollReset, flash, history
    <2>3. ServingCall'
      BY <2>2 DEF ServingCall, Idle
    <2> QED BY <2>1, <2>2, <2>3, ServedIInv
  <1>2. CASE LeaveLoop
    <2>1. TypeOK'
      BY <1>0, <1>2, TypeMain DEF Main
    <2>2. /\ main = "serve" /\ Idle /\ main' = "last"
          /\ UNCHANGED <<store, doing, request, inForce, hits>>
      BY <1>2 DEF LeaveLoop, flash, history
    <2>3. todo' = <<>> \/ \E data \in DeviceData : todo' = <<Save("devices", data)>>
      BY <1>2, Zenon DEF LeaveLoop
    <2>4. ServingCall'
      BY <2>2, <2>3 DEF ServingCall, Idle
    <2> QED BY <2>1, <2>2, <2>4, ServedIInv
  <1>3. CASE StartReset
    <2>1. TypeOK'
      BY <1>0, <1>3, TypeMain DEF Main
    <2>2. /\ main = "last" /\ Idle /\ main' \in {"armed", "bootsel"} /\ todo' = todo
          /\ UNCHANGED <<store, doing, request, inForce, hits>>
      BY <1>3 DEF StartReset, flash, history
    <2>3. ServingCall'
      BY <2>2 DEF ServingCall, Idle
    <2> QED BY <2>1, <2>2, <2>3, ServedIInv
  <1> QED BY <1>1, <1>2, <1>3

\* What is left of a reset of everything counts as cut short.
LEMMA ResetCut ==
  ASSUME main = "confirm", Resetting, TypeOK
  PROVE  "mqtt" \in SavedBy(todo) \cup Flash!AtRisk
  <1>1. ASSUME NEW i \in 1 .. Len(todo), todo[i].op = "save" PROVE todo[i].id \in SavedBy(todo)
    BY <1>1 DEF SavedBy
  <1>2. CASE todo = HardReset
    <2>1. Len(HardReset) = 3 /\ HardReset[3] = SaveMqttDefault
      BY DEF HardReset, SaveMqttDefault
    <2> QED BY <1>1, <1>2, <2>1, SavesAre
  <1>3. CASE todo = <<SaveWifiDefault, SaveMqttDefault>>
    BY <1>1, <1>3, Lists, SavesAre
  <1>4. CASE todo = <<SaveMqttDefault>>
    BY <1>1, <1>4, Lists, SavesAre
  <1>5. CASE doing # "idle" /\ request = SaveMqttDefault
    BY <1>5, SavesAre DEF Flash!AtRisk
  <1> QED BY <1>2, <1>3, <1>4, <1>5 DEF Resetting

\* The power goes, or the watchdog fires, whatever the device does.
LEMMA RestartIInv ==
  ASSUME IInv, WatchdogFires \/ FirmwareUpdated \/ PowerCut
  PROVE  IInv'
  <1>0. /\ TypeOK /\ ProperFlash /\ Stage /\ WifiGone /\ MqttGone
    BY DEF IInv
  <1>1. TypeOK'
    BY <1>0, TypeRestart
  <1>2. /\ Flash!PowerCut /\ hits' = hits \cup Flash!AtRisk \cup SavedBy(todo)
        /\ todo' = <<>> /\ main' = "check" /\ doing' = "idle"
    BY DEF WatchdogFires, FirmwareUpdated, PowerCut, Restart, Flash!PowerCut
  <1>3. \A i \in Ids : /\ i \notin Flash!AtRisk => store'[i] = store[i]
                       /\ i \in Flash!AtRisk => store'[i] \in Flash!AfterCut(i)
    BY <1>2 DEF Flash!PowerCut
  <1>4. /\ doing = "idle" => Flash!AtRisk = {}
        /\ Formatting => Flash!AtRisk = Ids
        /\ doing # "idle" /\ request.op = "save" => Flash!AtRisk = {request.id}
    BY CallsAre DEF Flash!AtRisk, Formatting
  <1>5. Stage' /\ CauseOfReset' /\ DeadWithCause' /\ Changed' /\ ~ Saving("wifi")'
    BY <1>2 DEF Stage, Idle, CauseOfReset, DeadWithCause, Changed, Saving
  <1>6. ProperFlash'
    <2>1. ASSUME NEW i \in Ids, i \in Flash!AtRisk
          PROVE  store'[i] \in {store[i], Missing, Damaged} \cup
                   (IF doing = "committed" THEN {request.data} ELSE {})
      BY <1>3, <2>1 DEF Flash!AfterCut
    <2>2. doing = "committed" => Flash!AtRisk = {request.id} /\ Proper(request)
      BY <1>0, <1>4 DEF ProperFlash
    <2>3. store'["wifi"] \in WifiSettings \cup {Missing, Damaged}
      BY <1>0, <1>3, <2>1, <2>2, CallsAre DEF ProperFlash, Proper
    <2>4. store'["mqtt"] \in MqttSettings \cup {Missing, Damaged}
      BY <1>0, <1>3, <2>1, <2>2, CallsAre DEF ProperFlash, Proper
    <2> QED BY <1>2, <2>3, <2>4 DEF ProperFlash
  <1>7. WifiGone'
    <2> SUFFICES ASSUME store'["wifi"] = Missing, "wifi" \notin hits'
                 PROVE  store'["devices"] = Missing
      BY DEF WifiGone
    <2>1. "wifi" \notin Flash!AtRisk /\ "wifi" \notin hits /\ store["wifi"] = Missing
      BY <1>2, <1>3, CallsAre
    <2>2. ~ Formatting /\ ~ Replacing("wifi")
      BY <1>0, <1>4, <2>1, CallsAre DEF Replacing, ProperFlash
    <2>3. store["devices"] = Missing
      BY <1>0, <2>1, <2>2 DEF WifiGone
    <2>4. ~ Replacing("devices")
      BY <1>0, <2>1, <2>2, SavesAre DEF Stage, Idle, Resetting, Serving, Replacing, Formatting
    <2>5. CASE "devices" \in Flash!AtRisk
      <3>1. doing # "idle" /\ (doing = "committed" => request.id = "devices")
        BY <1>0, <1>4, <2>5 DEF ProperFlash
      <3> QED BY <1>3, <2>3, <2>4, <2>5, <3>1, CallsAre DEF Flash!AfterCut, Replacing
    <2>6. CASE "devices" \notin Flash!AtRisk
      BY <1>3, <2>3, <2>6, CallsAre
    <2> QED BY <2>5, <2>6
  <1>8. MqttGone'
    <2> SUFFICES ASSUME store'["mqtt"] = Missing, "mqtt" \notin hits'
                 PROVE  store'["wifi"] = Missing
      BY <1>5 DEF MqttGone
    <2>1. "mqtt" \notin Flash!AtRisk /\ "mqtt" \notin hits /\ store["mqtt"] = Missing
      BY <1>2, <1>3, CallsAre
    <2>2. ~ Replacing("mqtt")
      BY <1>0, <1>4, <2>1, CallsAre DEF Replacing, ProperFlash
    <2>3. ~ (main = "confirm" /\ Resetting)
      BY <1>0, <1>2, <2>1, ResetCut
    <2>4. store["wifi"] = Missing /\ ~ Saving("wifi")
      BY <1>0, <2>1, <2>2, <2>3 DEF MqttGone
    <2>5. main \in {"check", "dead"} /\ Idle
      BY <1>0, <2>1, <2>2, <2>3, <2>4 DEF Stage, Serving
    <2>6. Flash!AtRisk = {}
      BY <1>4, <2>5 DEF Idle
    <2> QED BY <1>3, <2>4, <2>6, CallsAre
  <1> QED BY <1>1, <1>5, <1>6, <1>7, <1>8 DEF IInv

LEMMA StepIInv == IInv /\ [Next]_vars => IInv'
  <1> SUFFICES ASSUME IInv, [Next]_vars PROVE IInv'
    OBVIOUS
  <1>1. CASE InCall
    <2>1. CASE Proceed
      BY <2>1, AskIInv, StopIInv
    <2>2. CASE Replace
      BY <2>2, CommitIInv, FormatIInv DEF Replace
    <2> QED BY <1>1, <2>1, <2>2, RefuseIInv, WriteIInv DEF InCall
  <1>2. CASE Main
    BY <1>2, CheckIInv, ConfirmIInv, LoopIInv DEF Main
  <1>3. CASE UNCHANGED vars
    BY <1>3 DEF vars, flash, service, history, IInv, TypeOK, FlashType, ProperFlash, Stage, Idle,
                Serving, ServingCall, Resetting, Formatting, Replacing, Saving, WifiGone, MqttGone,
                CauseOfReset, DeadWithCause, Changed
  <1> QED BY <1>1, <1>2, <1>3, RequestsIInv, LoopIInv, RestartIInv DEF Next

\* Every state of the device satisfies the invariant.
LEMMA Invariance == Spec => []IInv
  BY InitIInv, StepIInv, PTL DEF Spec

-----------------------------------------------------------------------------
\* The variables keep their types: in particular the flash holds settings or
\* nothing, and a call never has more than three steps to go.
THEOREM TypeCorrect == Spec => []TypeOK
  <1>1. IInv => TypeOK
    BY DEF IInv
  <1> QED BY <1>1, Invariance, PTL

\* A boot resets everything only with a cause (ResetsWithCause), however often
\* the power is cut.
THEOREM ResetsHaveCause == Spec => []ResetsWithCause
  <1>1. IInv => ResetsWithCause
    <2> SUFFICES ASSUME IInv, Formatting
                 PROVE  held \/ "wifi" \in hits \/ store["devices"] = Missing
      BY DEF ResetsWithCause
    <2>1. main = "confirm"
      BY CallsAre, SavesAre DEF IInv, Stage, Idle, Formatting, Serving, ServingCall
    <2> QED BY <2>1 DEF IInv, CauseOfReset
  <1> QED BY <1>1, Invariance, PTL

\* A device that does not come up lost its MQTT settings to a cut
\* (DeadWithCause).
THEOREM DeadHasCause == Spec => []DeadWithCause
  <1>1. IInv => DeadWithCause
    BY DEF IInv
  <1> QED BY <1>1, Invariance, PTL

\* Whoever reads settings while requests are served finds some
\* (SettingsPresent).
THEOREM SettingsArePresent == Spec => []SettingsPresent
  <1>1. IInv => SettingsPresent
    BY PolledSettings DEF IInv, SettingsPresent
  <1> QED BY <1>1, Invariance, PTL

\* The device never stays up with settings other than the saved ones
\* (InForceOrRestarting).
THEOREM SavedSettingsTakeEffect == Spec => []InForceOrRestarting
  <1>1. IInv => InForceOrRestarting
    BY DEF IInv, Changed, InForceOrRestarting, Idle
  <1> QED BY <1>1, Invariance, PTL

-----------------------------------------------------------------------------
(* The settings and the store they are kept in *)

\* What a call does with the flash.
LEMMA CallsUseStore == IInv /\ InCall => [Flash!Next]_(Flash!rvars)
  <1> SUFFICES ASSUME IInv, InCall PROVE [Flash!Next]_(Flash!rvars)
    OBVIOUS
  <1>1. CASE Proceed
    <2>1. CASE Head(todo) = StopService
      BY <1>1, <2>1 DEF Proceed, flash, Flash!rvars
    <2>2. CASE Head(todo) # StopService
      <3>1. Flash!Ask(Head(todo))
        BY <1>1, <2>2 DEF Proceed
      <3>2. Head(todo) \in Flash!Requests
        BY <1>1, <2>2, HeadIs DEF Proceed, IInv, TypeOK
      <3> QED BY <3>1, <3>2 DEF Flash!Next
    <2> QED BY <2>1, <2>2
  <1>2. CASE Refuse
    BY <1>2 DEF Refuse, Flash!Next
  <1>3. CASE Replace
    BY <1>3 DEF Replace, Flash!Next
  <1>4. CASE Write
    BY <1>4 DEF Write, Flash!Next
  <1> QED BY <1>1, <1>2, <1>3, <1>4 DEF InCall

\* Requests and the loops only say what is to be saved: the next call is made
\* when the one before it has returned, and only the calls touch the flash.
LEMMA StoreUsed == IInv /\ [Next]_vars => [Flash!Next]_(Flash!rvars)
  <1> SUFFICES ASSUME IInv, [Next]_vars PROVE [Flash!Next]_(Flash!rvars)
    OBVIOUS
  <1>1. CASE InCall
    BY <1>1, CallsUseStore
  <1>2. CASE Main \/ Requests \/ PollReset \/ UNCHANGED vars
    BY <1>2 DEF Main, CheckConfig, Confirm, LeaveLoop, StartReset, Requests, ConfigureWifi, ConfigureMqtt,
                ConfigureFirmware, SaveDevices, PollReset, vars, flash, Flash!rvars
  <1>3. CASE WatchdogFires \/ FirmwareUpdated \/ PowerCut
    BY <1>3 DEF WatchdogFires, FirmwareUpdated, PowerCut, Restart, Flash!Next
  <1> QED BY <1>1, <1>2, <1>3 DEF Next

\* Boot, reset and settings ask of the flash only what RecordStore offers, one
\* request at a time, and rely on no more than it promises; BlockStorage
\* promises as much (BlocksImplementStore).
THEOREM SettingsUseStore == Spec => Flash!Spec
  <1>1. Init => Flash!Init
    BY DEF Init, Flash!Init, Flash!Requests, Format
  <1> QED BY <1>1, Invariance, StoreUsed, PTL DEF Spec, Flash!Spec
=============================================================================
