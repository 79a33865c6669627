---------------------------- MODULE BlindMotion -----------------------------
(***************************************************************************)
(* Blind (blind.cpp): where a blind is, as the firmware estimates it, next *)
(* to the blind itself.                                                    *)
(*                                                                         *)
(* The firmware knows which buttons were pressed and how long the blind    *)
(* takes to open and to close.  A timer (scheduler.cpp) moves the estimate *)
(* while the blind is in motion, and presses My where a commanded position *)
(* is reached.  Every button pressed on a remote of the firmware goes to   *)
(* the blind and to ButtonsPressed at once; one pressed on somebody else's *)
(* remote is reported only when it has been quiet for a while.             *)
(*                                                                         *)
(* Time passes in units of 500 ms.  Positions are whole percentages that   *)
(* the blind reaches at the end of a unit, so that nothing is lost when a  *)
(* position is rounded.  The blind's primary remote is bound to it.        *)
(***************************************************************************)
EXTENDS Integers, Sequences

CONSTANTS
  Full,         \* fully open; fully closed is 0
  UpStep,       \* how far the blind opens in a unit of time
  DownStep,     \* how far it closes
  FirstTick,    \* 500 ms
  TickEvery,    \* 1000 ms
  RetryAfter,   \* 30000 ms
  MqttEnabled,  \* MqttClient::IsEnabled
  Off,          \* the timer is not armed; no position was asked for
  BootFavourites, \* bound: the favourite positions a blind may start with
  MaxLate,      \* bound: by how much a timer's callback is late
  MaxPresses,   \* bound: commands and presses
  MaxHeard      \* bound: presses on other remotes yet to be reported

ASSUME BlindMotionAssumption ==
  /\ Full \in Nat \ {0} /\ UpStep \in Nat \ {0} /\ DownStep \in Nat \ {0}
  /\ FirstTick \in Nat \ {0} /\ TickEvery \in Nat \ {0} /\ RetryAfter \in Nat \ {0}
  /\ TickEvery <= RetryAfter /\ FirstTick <= TickEvery
  /\ MqttEnabled \in BOOLEAN /\ BootFavourites \subseteq 1 .. Full - 1 /\ Off \notin Int
  /\ MaxLate \in Nat /\ MaxPresses \in Nat /\ MaxHeard \in Nat

Positions == 0 .. Full
Inside    == 1 .. Full - 1   \* neither end
Buttons   == {"up", "down", "my", "other"}   \* other: Prog, and chords
Heard     == [button : Buttons, long : BOOLEAN]

VARIABLES
  blind,    \* the firmware's estimate: the members of Blind
  motor,    \* the blind itself
  heard,    \* presses on other remotes that are yet to be reported
  sent,     \* history: the last button the blind has received
  told,     \* history: the last button ButtonsPressed was called with
  asked,    \* history: the last call of GoToPosition, if the estimate was
            \* right at the time and nothing else was pressed since, or Off
  presses   \* bound: commands and presses so far

vars == <<blind, motor, heard, sent, told, asked, presses>>

\* A blind is loaded, or added, at rest, where its record or the web page says.
\* It may be elsewhere, and may have another favourite: it was moved while the
\* firmware was down, or when its record had been saved.
Init ==
  /\ \E p, q \in Positions, f, g \in BootFavourites :
       /\ blind = [target |-> p, position |-> p, direction |-> 0, favourite |-> f,
                   age |-> 0, timer |-> Off]
       /\ motor = [position |-> q, goal |-> q, favourite |-> g]
  /\ heard = <<>>
  /\ sent = "other" /\ told = "other"
  /\ asked = Off
  /\ presses = 0

-----------------------------------------------------------------------------
(* The blind itself.  It stops at its ends, and where its My position is   *)
(* when it goes there.                                                     *)

Moving(m) == m.position # m.goal

Receives(m, button, long) ==
  CASE button = "up"   -> [m EXCEPT !.goal = Full]
    [] button = "down" -> [m EXCEPT !.goal = 0]
    [] button = "my" /\ Moving(m) -> [m EXCEPT !.goal = m.position]
    [] button = "my" /\ ~ Moving(m) /\ ~ long -> [m EXCEPT !.goal = m.favourite]
    [] button = "my" /\ ~ Moving(m) /\ long ->
         [m EXCEPT !.favourite = IF m.position \in Inside THEN m.position ELSE @]
    [] OTHER -> m

Least(a, b)    == IF a < b THEN a ELSE b
Greatest(a, b) == IF a > b THEN a ELSE b

Travels(m) ==
  [m EXCEPT !.position = IF @ < m.goal THEN Least(@ + UpStep, m.goal)
                         ELSE Greatest(@ - DownStep, m.goal)]

-----------------------------------------------------------------------------
(* ButtonsPressed: what the firmware makes of a button. *)

\* The last three lines: the clock of the estimate restarts, the timer is
\* reset.
Rearmed(b) == [b EXCEPT !.age = 0, !.timer = FirstTick]

Heads(b, target, direction) == Rearmed([b EXCEPT !.target = target, !.direction = direction])

Pressed(b, button, long) ==
  CASE button = "up"   -> Heads(b, Full, 1)
    [] button = "down" -> Heads(b, 0, -1)
    [] button = "my" /\ b.direction # 0 -> Heads(b, b.position, 0)
    [] button = "my" /\ b.direction = 0 /\ ~ long ->
         Heads(b, b.favourite, IF b.favourite > b.position THEN 1 ELSE -1)
    [] button = "my" /\ b.direction = 0 /\ long ->
         IF b.target \in Inside THEN Rearmed([b EXCEPT !.favourite = b.target]) ELSE b
    [] OTHER -> Rearmed(b)

Remember(last, button) == IF button = "other" THEN last ELSE button

\* PressButtons on a remote of the firmware.
PressButtons(b, button, long) ==
  /\ blind' = Pressed(b, button, long)
  /\ motor' = Receives(motor, button, long)
  /\ sent' = Remember(sent, button)
  /\ told' = Remember(told, button)

Counted == presses < MaxPresses /\ presses' = presses + 1

-----------------------------------------------------------------------------
(* Commands: over MQTT, HTTP, and on remotes bound to the blind. *)

\* GoUp, GoDown, and any button of a remote of ours that is bound to the blind.
\* Nobody calls GoToMyPosition and SaveMyPosition.
Press(button, long) ==
  /\ Counted
  /\ PressButtons(blind, button, long)
  /\ asked' = Off
  /\ UNCHANGED heard

\* OnCommand "stop"
Stop ==
  /\ Counted
  /\ blind.direction # 0
  /\ PressButtons(blind, "my", FALSE)
  /\ asked' = Off
  /\ UNCHANGED heard

\* The button that brings the blind nearer to a position; at the ends one is
\* pressed even if it is there.
Towards(position) ==
  IF blind.position > position \/ position = 0 THEN "down"
  ELSE IF blind.position < position \/ position = Full THEN "up"
  ELSE "none"

PressedFirst(position) ==
  [Pressed(blind, Towards(position), FALSE) EXCEPT !.target = position]

AtRest == blind.direction = 0 /\ ~ Moving(motor) /\ heard = <<>>

RightAtRest ==
  /\ AtRest
  /\ blind.position = motor.position

\* GoToPosition
GoToPosition(position) ==
  /\ Counted
  /\ IF Towards(position) = "none"
       THEN /\ blind' = [blind EXCEPT !.target = position]
            /\ UNCHANGED <<motor, sent, told>>
       ELSE /\ blind' = PressedFirst(position)
            /\ motor' = Receives(motor, Towards(position), FALSE)
            /\ sent' = Towards(position) /\ told' = Towards(position)
  /\ asked' = IF RightAtRest THEN [from |-> blind.position, to |-> position] ELSE Off
  /\ UNCHANGED heard

\* A button of another remote: the blind obeys, the firmware hears ...
PressOther(button, long) ==
  /\ Counted
  /\ Len(heard) < MaxHeard
  /\ motor' = Receives(motor, button, long)
  /\ sent' = Remember(sent, button)
  /\ heard' = Append(heard, [button |-> button, long |-> long])
  /\ asked' = Off
  /\ UNCHANGED <<blind, told>>

\* ... and ReadCommand reports it later.
Report ==
  /\ heard # <<>>
  /\ blind' = Pressed(blind, Head(heard).button, Head(heard).long)
  /\ told' = Remember(told, Head(heard).button)
  /\ heard' = Tail(heard)
  /\ UNCHANGED <<motor, sent, asked, presses>>

-----------------------------------------------------------------------------
(* UpdatePosition, the callback of the timer. *)

Clamped(p) == Greatest(0, Least(p, Full))

Estimated(b) ==
  Clamped(b.position + b.age * (CASE b.direction = 1 -> UpStep
                                  [] b.direction = -1 -> - DownStep
                                  [] OTHER -> 0))

\* Mutation: a target at the end is never passed.
Passed(b) ==
  \/ b.direction = 1 /\ Estimated(b) > b.target
  \/ b.direction = -1 /\ Estimated(b) < b.target

Arrived(b) ==
  \/ b.direction = 1 /\ Estimated(b) >= b.target
  \/ b.direction = -1 /\ Estimated(b) <= b.target

\* Mutation: the blind is not told to stop.
NeverStops(b) == FALSE

StopsThere(b) == b.target \in Inside

\* PublishPosition: what it returns when its two publishes end like this.
\* Without a broker it asks to be called again; a failure of the first one it
\* does not report.
NeedsPublish(first, second) == ~ MqttEnabled \/ (first /\ ~ second)

\* Mutation: a retry slows a blind in motion down.
RetryFirst(direction, retry) ==
  IF retry THEN RetryAfter ELSE IF direction # 0 THEN TickEvery ELSE 0

NextTick(direction, retry) ==
  IF direction # 0 THEN TickEvery ELSE IF retry THEN RetryAfter ELSE 0

\* TimerCallback arms the timer again if the callback says so; otherwise it
\* stays as the callback left it, and that may be armed, by ButtonsPressed.
AfterCallback(b, next) == [b EXCEPT !.timer = IF next # 0 THEN next ELSE @]

UpdatePosition ==
  /\ blind.timer # Off /\ blind.timer <= 0
  /\ \E first, second \in BOOLEAN :
       LET fired   == [blind EXCEPT !.timer = Off, !.age = 0]
           stops   == Arrived(blind) /\ StopsThere(blind)
           there   == [fired EXCEPT !.position = blind.target]
           updated == IF stops THEN [Pressed(there, "my", FALSE) EXCEPT !.direction = 0]
                      ELSE IF Arrived(blind) THEN [there EXCEPT !.direction = 0]
                      ELSE [fired EXCEPT !.position = Estimated(blind)]
       IN  /\ blind' = AfterCallback(updated,
                         NextTick(updated.direction, NeedsPublish(first, second)))
           /\ motor' = IF stops THEN Receives(motor, "my", FALSE) ELSE motor
           /\ sent' = IF stops THEN "my" ELSE sent
           /\ told' = IF stops THEN "my" ELSE told
  /\ UNCHANGED <<heard, asked, presses>>

\* A unit of time.  A callback may be late while something else runs on core 0.
\* The clock of an estimate at rest is not read.
TimePasses ==
  /\ blind.timer # Off => blind.timer > - MaxLate
  /\ blind.timer # Off \/ Moving(motor)
  /\ blind' = [blind EXCEPT !.timer = IF @ = Off THEN Off ELSE @ - 1,
                            !.age = IF blind.direction = 0 THEN 0 ELSE @ + 1]
  /\ motor' = Travels(motor)
  /\ UNCHANGED <<heard, sent, told, asked, presses>>

Next ==
  \/ \E button \in Buttons, long \in BOOLEAN : Press(button, long) \/ PressOther(button, long)
  \/ Stop
  \/ \E position \in Positions : GoToPosition(position)
  \/ Report
  \/ UpdatePosition
  \/ TimePasses

Spec == Init /\ [][Next]_vars

\* Time goes on, and the main loop serves the timer and the presses heard.
FairSpec ==
  /\ Spec
  /\ WF_vars(TimePasses) /\ WF_vars(UpdatePosition) /\ WF_vars(Report)

-----------------------------------------------------------------------------
BlindType ==
  [target : Positions, position : Positions, direction : {-1, 0, 1}, favourite : Inside,
   age : 0 .. TickEvery + MaxLate, timer : {Off} \cup - MaxLate .. RetryAfter]

MotorType == [position : Positions, goal : Positions, favourite : Inside]

TypeOK ==
  /\ blind \in BlindType
  /\ motor \in MotorType
  /\ heard \in Seq(Heard) /\ Len(heard) <= MaxHeard
  /\ sent \in Buttons /\ told \in Buttons
  /\ asked \in {Off} \cup [from : Positions, to : Positions]
  /\ presses \in 0 .. MaxPresses

\* A blind that the firmware takes to be in motion has its timer running, at
\* the pace of motion, whoever armed it last: ButtonsPressed, called by anyone
\* and even from inside the callback, or the value the callback returns.
MovingBlindTicks ==
  blind.direction # 0 => blind.timer # Off /\ blind.timer <= TickEvery

\* A blind the firmware takes to be at rest is where it was meant to go.  The
\* target is what is saved and loaded again.
RestsAtTarget == blind.direction = 0 => blind.position = blind.target

\* A run to an end puts the estimate right: when Up or Down was the last button
\* the blind received, and the last the firmware was told of, both are at that
\* end as soon as they rest, however wrong the estimate was before.
FullRunAgrees ==
  AtRest /\ sent = told =>
    /\ sent = "up" => blind.position = Full /\ motor.position = Full
    /\ sent = "down" => blind.position = 0 /\ motor.position = 0

\* A blind does not stay in motion for ever.
MotionEnds == blind.direction # 0 ~> blind.direction = 0

\* What it travels at most until a late tick notices that it has arrived.
Overrun(direction) == (TickEvery + MaxLate) * IF direction = 1 THEN UpStep ELSE DownStep

\* Sent to a position once, while the estimate is right, and left alone, the
\* blind comes to rest there, or less than an overrun further on.  The exception
\* is a position less than an overrun from the end that it heads for: it may
\* have stopped at the end when My is pressed to stop it, and My then sends it
\* to its favourite position.
GoToPositionArrives ==
  AtRest /\ asked # Off =>
    \/ motor.position = asked.to
    \/ /\ asked.from < asked.to /\ asked.to # Full
       /\ \/ motor.position - asked.to \in 1 .. Overrun(1) - 1
          \/ Full - asked.to < Overrun(1)
    \/ /\ asked.from > asked.to /\ asked.to # 0
       /\ \/ asked.to - motor.position \in 1 .. Overrun(-1) - 1
          \/ asked.to < Overrun(-1)
=============================================================================
