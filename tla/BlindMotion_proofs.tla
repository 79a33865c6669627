------------------------- MODULE BlindMotion_proofs -------------------------
(***************************************************************************)
(* For every length of the blind, every speed and every period: the types, *)
(* the timer of a blind in motion, where a blind rests, what a full run    *)
(* puts right, and where a blind comes to rest that is sent somewhere.     *)
(***************************************************************************)
EXTENDS BlindMotion, SequenceTheorems, TLAPS

\* A blind in motion has its timer running, and the clock of its estimate and
\* its timer together do not exceed the pace of motion.  One at rest is at its
\* target.
Steady(b) ==
  /\ b.direction # 0 => b.timer # Off /\ b.timer + b.age <= TickEvery
  /\ b.direction = 0 => b.age = 0 /\ b.position = b.target

\* What the firmware makes of the last button it was told of: it waits for the
\* blind to pass a target that is not the end it comes from, or saw it arrive.
Follows(b, button) ==
  /\ button = "up" => \/ b.direction = 1 /\ b.target > 0
                      \/ b.direction = 0 /\ b.position = Full
  /\ button = "down" => \/ b.direction = -1 /\ b.target < Full
                        \/ b.direction = 0 /\ b.position = 0

\* What the blind makes of the last button it has received.
Obeys(m, button) ==
  /\ button = "up" => m.goal = Full
  /\ button = "down" => m.goal = 0

IInv == TypeOK /\ Steady(blind) /\ Follows(blind, told) /\ Obeys(motor, sent)

-----------------------------------------------------------------------------
(* The blind *)

LEMMA ReceivesType ==
  ASSUME NEW m \in MotorType, NEW button \in Buttons, NEW last \in Buttons,
         NEW long \in BOOLEAN, Obeys(m, last)
  PROVE  /\ Receives(m, button, long) \in MotorType
         /\ Obeys(Receives(m, button, long), Remember(last, button))
  BY BlindMotionAssumption
     DEF Receives, Moving, Obeys, Remember, MotorType, Positions, Inside, Buttons

LEMMA TravelsType ==
  ASSUME NEW m \in MotorType, NEW last \in Buttons, Obeys(m, last)
  PROVE  Travels(m) \in MotorType /\ Obeys(Travels(m), last)
  BY BlindMotionAssumption
     DEF Travels, Least, Greatest, Obeys, MotorType, Positions, Inside, Buttons

-----------------------------------------------------------------------------
(* The estimate *)

LEMMA RearmedIs ==
  ASSUME NEW b \in BlindType
  PROVE  /\ Rearmed(b) \in BlindType
         /\ Rearmed(b).target = b.target /\ Rearmed(b).position = b.position
         /\ Rearmed(b).direction = b.direction
         /\ Rearmed(b).age = 0 /\ Rearmed(b).timer = FirstTick
  <1>1. FirstTick \in - MaxLate .. RetryAfter
    BY BlindMotionAssumption
  <1>2. 0 \in 0 .. TickEvery + MaxLate
    BY BlindMotionAssumption
  <1> QED BY <1>1, <1>2, Zenon DEF Rearmed, BlindType

LEMMA HeadsIs ==
  ASSUME NEW b \in BlindType, NEW t \in Positions, NEW d \in {-1, 0, 1}
  PROVE  /\ Heads(b, t, d) \in BlindType
         /\ Heads(b, t, d).target = t /\ Heads(b, t, d).position = b.position
         /\ Heads(b, t, d).direction = d
         /\ Heads(b, t, d).age = 0 /\ Heads(b, t, d).timer = FirstTick
  <1> DEFINE c == [b EXCEPT !.target = t, !.direction = d]
  <1>1. c \in BlindType /\ c.target = t /\ c.position = b.position /\ c.direction = d
    BY DEF BlindType
  <1> QED BY <1>1, RearmedIs DEF Heads

\* A blind whose timer was just reset is steady, unless it rests elsewhere.
LEMMA ResetIsSteady ==
  ASSUME NEW b, b.age = 0, b.timer = FirstTick, b.direction = 0 => b.position = b.target
  PROVE  Steady(b)
  <1>1. FirstTick # Off /\ FirstTick + 0 <= TickEvery
    BY BlindMotionAssumption
  <1> QED BY <1>1 DEF Steady

LEMMA PressedKeeps ==
  ASSUME NEW b \in BlindType, NEW button \in Buttons, NEW last \in Buttons,
         NEW long \in BOOLEAN, Steady(b), Follows(b, last)
  PROVE  /\ Pressed(b, button, long) \in BlindType
         /\ Steady(Pressed(b, button, long))
         /\ Follows(Pressed(b, button, long), Remember(last, button))
  <1>0. /\ b.direction \in {-1, 0, 1}
        /\ b.position \in Positions /\ b.favourite \in Inside /\ b.target \in Positions
        /\ Full \in Positions /\ 0 \in Positions /\ Inside \subseteq Positions
        /\ Full > 0
    BY BlindMotionAssumption DEF BlindType, Positions, Inside
  <1> DEFINE c == Pressed(b, button, long)
  <1>1. CASE button = "up"
    <2> DEFINE h == Heads(b, Full, 1)
    <2>1. c = h
      BY <1>1 DEF Pressed
    <2>2. h \in BlindType /\ h.target = Full /\ h.direction = 1 /\ h.age = 0 /\ h.timer = FirstTick
      BY <1>0, HeadsIs, Zenon
    <2> HIDE DEF c, h
    <2>3. Steady(h)
      BY <2>2, ResetIsSteady
    <2>4. Follows(h, "up")
      BY <1>0, <2>2 DEF Follows
    <2> QED BY <1>1, <2>1, <2>2, <2>3, <2>4 DEF Remember, c
  <1>2. CASE button = "down"
    <2> DEFINE h == Heads(b, 0, -1)
    <2>1. c = h
      BY <1>2 DEF Pressed
    <2>2. h \in BlindType /\ h.target = 0 /\ h.direction = -1 /\ h.age = 0 /\ h.timer = FirstTick
      BY <1>0, HeadsIs, Zenon
    <2> HIDE DEF c, h
    <2>3. Steady(h)
      BY <2>2, ResetIsSteady
    <2>4. Follows(h, "down")
      BY <1>0, <2>2 DEF Follows
    <2> QED BY <1>2, <2>1, <2>2, <2>3, <2>4 DEF Remember, c
  <1>3. CASE button = "my"
    <2>0. Follows(c, Remember(last, button))
      BY <1>3 DEF Follows, Remember
    <2>1. CASE b.direction # 0
      <3> DEFINE h == Heads(b, b.position, 0)
      <3>1. c = h
        BY <1>3, <2>1 DEF Pressed
      <3>2. /\ h \in BlindType /\ h.target = b.position /\ h.position = b.position
            /\ h.age = 0 /\ h.timer = FirstTick
        BY <1>0, HeadsIs, Zenon
      <3> HIDE DEF h
      <3> QED BY <2>0, <3>1, <3>2, ResetIsSteady
    <2>2. CASE b.direction = 0 /\ ~ long
      <3> DEFINE d == IF b.favourite > b.position THEN 1 ELSE -1
      <3> DEFINE h == Heads(b, b.favourite, d)
      <3>1. c = h
        BY <1>3, <2>2 DEF Pressed
      <3>2. d \in {-1, 0, 1} /\ d # 0
        OBVIOUS
      <3> HIDE DEF d
      <3>3. h \in BlindType /\ h.direction = d /\ h.age = 0 /\ h.timer = FirstTick
        <4>1. b.favourite \in Positions
          BY <1>0
        <4> QED BY <3>2, <4>1, HeadsIs, Zenon
      <3> HIDE DEF h
      <3> QED BY <2>0, <3>1, <3>2, <3>3, ResetIsSteady
    <2>3. CASE b.direction = 0 /\ long /\ b.target \in Inside
      <3> DEFINE e == [b EXCEPT !.favourite = b.target]
      <3>1. c = Rearmed(e)
        BY <1>3, <2>3 DEF Pressed
      <3>2. e \in BlindType /\ e.target = b.target /\ e.position = b.position
        BY <2>3 DEF BlindType
      <3> HIDE DEF e
      <3>3. /\ c \in BlindType /\ c.target = b.target /\ c.position = b.position
            /\ c.age = 0 /\ c.timer = FirstTick
        BY <3>1, <3>2, RearmedIs, Zenon
      <3>4. b.position = b.target
        BY <2>3 DEF Steady
      <3> QED BY <2>0, <3>3, <3>4, ResetIsSteady
    <2>4. CASE b.direction = 0 /\ long /\ b.target \notin Inside
      <3>1. c = b
        BY <1>3, <2>4 DEF Pressed
      <3> QED BY <2>0, <3>1
    <2> QED BY <2>1, <2>2, <2>3, <2>4
  <1>4. CASE button = "other"
    <2>1. c = Rearmed(b)
      BY <1>4 DEF Pressed
    <2>2. /\ c \in BlindType /\ c.target = b.target /\ c.position = b.position
          /\ c.direction = b.direction /\ c.age = 0 /\ c.timer = FirstTick
      BY <2>1, RearmedIs, Zenon
    <2>3. Steady(c)
      BY <2>2, ResetIsSteady DEF Steady
    <2>4. Follows(c, last)
      BY <2>2 DEF Follows
    <2> QED BY <1>4, <2>2, <2>3, <2>4 DEF Remember
  <1> QED BY <1>1, <1>2, <1>3, <1>4 DEF Buttons

LEMMA PressedByButton ==
  ASSUME NEW b \in BlindType
  PROVE  /\ Pressed(b, "up", FALSE) = Heads(b, Full, 1)
         /\ Pressed(b, "down", FALSE) = Heads(b, 0, -1)
  BY DEF Pressed

LEMMA GoToKeeps ==
  ASSUME NEW p \in Positions, blind \in BlindType, told \in Buttons,
         Steady(blind), Follows(blind, told)
  PROVE  /\ Towards(p) = "none" =>
              LET b == [blind EXCEPT !.target = p]
              IN  b \in BlindType /\ Steady(b) /\ Follows(b, told)
         /\ Towards(p) # "none" =>
              /\ Towards(p) \in {"up", "down"}
              /\ PressedFirst(p) \in BlindType
              /\ Steady(PressedFirst(p))
              /\ Follows(PressedFirst(p), Towards(p))
  <1>0. /\ p \in Int /\ blind.position \in 0 .. Full /\ p \in 0 .. Full /\ Full \in Int /\ Full > 0
        /\ Full \in Positions /\ 0 \in Positions
    BY BlindMotionAssumption DEF BlindType, Positions
  <1>1. CASE Towards(p) = "none"
    <2> DEFINE b == [blind EXCEPT !.target = p]
    <2>1. p = blind.position /\ p # 0 /\ p # Full
      BY <1>0, <1>1 DEF Towards
    <2>2. /\ b \in BlindType /\ b.target = p /\ b.position = blind.position
          /\ b.direction = blind.direction /\ b.age = blind.age /\ b.timer = blind.timer
      BY DEF BlindType
    <2> HIDE DEF b
    <2>3. Steady(b)
      BY <2>1, <2>2 DEF Steady
    <2>4. Follows(b, told)
      BY <1>0, <2>1, <2>2 DEF Follows
    <2> QED BY <1>1, <2>2, <2>3, <2>4 DEF b
  <1>2. CASE Towards(p) = "up"
    <2>1. p > 0
      BY <1>0, <1>2 DEF Towards
    <2> DEFINE h == Heads(blind, Full, 1)
               b == PressedFirst(p)
    <2>2. h \in BlindType /\ h.direction = 1 /\ h.age = 0 /\ h.timer = FirstTick
      BY <1>0, HeadsIs, Zenon
    <2>3. b = [h EXCEPT !.target = p]
      BY <1>2, PressedByButton DEF PressedFirst
    <2> HIDE DEF h, b
    <2>4. b \in BlindType /\ b.target = p /\ b.direction = 1 /\ b.age = 0 /\ b.timer = FirstTick
      BY <2>2, <2>3 DEF BlindType
    <2>5. Steady(b)
      BY <2>4, ResetIsSteady
    <2>6. Follows(b, "up")
      BY <2>1, <2>4 DEF Follows
    <2> QED BY <1>2, <2>4, <2>5, <2>6 DEF b
  <1>3. CASE Towards(p) = "down"
    <2>1. p < Full
      BY <1>0, <1>3 DEF Towards
    <2> DEFINE h == Heads(blind, 0, -1)
               b == PressedFirst(p)
    <2>2. h \in BlindType /\ h.direction = -1 /\ h.age = 0 /\ h.timer = FirstTick
      BY <1>0, HeadsIs, Zenon
    <2>3. b = [h EXCEPT !.target = p]
      BY <1>3, PressedByButton DEF PressedFirst
    <2> HIDE DEF h, b
    <2>4. b \in BlindType /\ b.target = p /\ b.direction = -1 /\ b.age = 0 /\ b.timer = FirstTick
      BY <2>2, <2>3 DEF BlindType
    <2>5. Steady(b)
      BY <2>4, ResetIsSteady
    <2>6. Follows(b, "down")
      BY <2>1, <2>4 DEF Follows
    <2> QED BY <1>3, <2>4, <2>5, <2>6 DEF b
  <1>4. Towards(p) \in {"none", "up", "down"}
    BY DEF Towards
  <1> QED BY <1>1, <1>2, <1>3, <1>4

LEMMA EstimatedType ==
  ASSUME NEW b \in BlindType
  PROVE  /\ Estimated(b) \in Positions
         /\ b.direction = 0 => Estimated(b) = b.position
  <1> DEFINE step == CASE b.direction = 1 -> UpStep [] b.direction = -1 -> - DownStep [] OTHER -> 0
             p == b.position + b.age * step
  <1>1. b.position \in 0 .. Full /\ b.age \in Int /\ b.direction \in {-1, 0, 1} /\ Full \in Nat
    BY BlindMotionAssumption DEF BlindType, Positions
  <1>2. step \in Int /\ (b.direction = 0 => step = 0)
    BY <1>1, BlindMotionAssumption
  <1>3. Estimated(b) = Clamped(p)
    BY DEF Estimated
  <1> HIDE DEF step
  <1>4. p \in Int /\ (b.direction = 0 => p = b.position)
    BY <1>1, <1>2
  <1> HIDE DEF p
  <1> QED BY <1>1, <1>3, <1>4 DEF Clamped, Least, Greatest, Positions

\* What a callback of the timer makes of a blind.
LEMMA UpdateKeeps ==
  ASSUME TypeOK, Steady(blind), Follows(blind, told), Obeys(motor, sent), UpdatePosition
  PROVE  /\ blind' \in BlindType /\ Steady(blind') /\ Follows(blind', told')
         /\ motor' \in MotorType /\ Obeys(motor', sent')
         /\ told' \in Buttons /\ sent' \in Buttons
  <1> DEFINE fired == [blind EXCEPT !.timer = Off, !.age = 0]
             stops == Arrived(blind) /\ StopsThere(blind)
             there == [fired EXCEPT !.position = blind.target]
             updated == IF stops THEN [Pressed(there, "my", FALSE) EXCEPT !.direction = 0]
                        ELSE IF Arrived(blind) THEN [there EXCEPT !.direction = 0]
                        ELSE [fired EXCEPT !.position = Estimated(blind)]
  <1>0. blind \in BlindType /\ motor \in MotorType /\ told \in Buttons /\ sent \in Buttons
    BY DEF TypeOK
  <1>1. PICK first, second \in BOOLEAN :
          blind' = AfterCallback(updated, NextTick(updated.direction, NeedsPublish(first, second)))
    BY Zenon DEF UpdatePosition
  <1> DEFINE next == NextTick(updated.direction, NeedsPublish(first, second))
  <1>2. /\ motor' = IF stops THEN Receives(motor, "my", FALSE) ELSE motor
        /\ sent' = IF stops THEN "my" ELSE sent
        /\ told' = IF stops THEN "my" ELSE told
    BY DEF UpdatePosition
  <1>3. /\ fired \in BlindType /\ fired.age = 0 /\ fired.target = blind.target
        /\ fired.direction = blind.direction
        /\ there \in BlindType /\ there.age = 0 /\ there.target = blind.target
        /\ there.position = blind.target /\ there.direction = blind.direction
    <2>1. 0 \in 0 .. TickEvery + MaxLate
      BY BlindMotionAssumption
    <2>2. fired \in BlindType
      BY <1>0, <2>1, Zenon DEF BlindType
    <2>3. /\ fired.age = 0 /\ fired.target = blind.target
          /\ fired.direction = blind.direction
      BY <1>0 DEF BlindType
    <2> HIDE DEF fired
    <2>4. there \in BlindType
      BY <1>0, <2>2, Zenon DEF BlindType
    <2>5. /\ there.age = fired.age /\ there.target = fired.target
          /\ there.position = blind.target /\ there.direction = fired.direction
      BY <2>2 DEF BlindType
    <2> QED BY <2>2, <2>3, <2>4, <2>5
  <1>4. Arrived(blind) => blind.direction \in {-1, 1}
    BY DEF Arrived
  \* A blind that is at rest afterwards is where it should be.
  <1>5. /\ updated \in BlindType /\ updated.age = 0
        /\ updated.direction = 0 => updated.position = updated.target
        /\ Follows(updated, told')
    <2>1. CASE stops
      <3> DEFINE h == Heads(there, there.position, 0)
      <3>1. Pressed(there, "my", FALSE) = h
        BY <1>3, <1>4, <2>1 DEF Pressed
      <3>2. /\ h \in BlindType /\ h.age = 0 /\ h.target = there.position
            /\ h.position = there.position
        <4>1. there.position \in Positions /\ 0 \in {-1, 0, 1}
          BY <1>0, <1>3 DEF BlindType
        <4> HIDE DEF there
        <4> QED BY <1>3, <4>1, HeadsIs, Zenon
      <3>3. updated = [h EXCEPT !.direction = 0]
        BY <2>1, <3>1
      <3>4. told' = "my"
        BY <1>2, <2>1
      <3> HIDE DEF h, updated, there
      <3> QED BY <3>2, <3>3, <3>4 DEF BlindType, Follows
    <2>2. CASE ~ stops /\ Arrived(blind)
      <3>1. updated = [there EXCEPT !.direction = 0] /\ told' = told
        BY <1>2, <2>2
      <3>2. blind.target = Full \/ blind.target = 0
        BY <1>0, <2>2, BlindMotionAssumption DEF StopsThere, Inside, BlindType, Positions
      <3> HIDE DEF updated, there
      <3>3. /\ updated \in BlindType /\ updated.age = 0 /\ updated.direction = 0
            /\ updated.position = blind.target /\ updated.target = blind.target
        BY <1>3, <3>1 DEF BlindType
      <3>4. Follows(updated, told)
        BY <1>4, <2>2, <3>2, <3>3, BlindMotionAssumption DEF Follows
      <3> QED BY <3>1, <3>3, <3>4
    <2>3. CASE ~ Arrived(blind)
      <3>1. updated = [fired EXCEPT !.position = Estimated(blind)] /\ told' = told
        BY <1>2, <2>3
      <3>2. /\ Estimated(blind) \in Positions
            /\ blind.direction = 0 => Estimated(blind) = blind.position
        BY <1>0, EstimatedType
      <3> HIDE DEF updated, fired
      <3>3. /\ updated \in BlindType /\ updated.age = 0
            /\ updated.direction = blind.direction /\ updated.target = blind.target
            /\ updated.position = Estimated(blind)
        BY <1>3, <3>1, <3>2 DEF BlindType
      <3>4. Follows(updated, told)
        BY <3>2, <3>3 DEF Follows
      <3>5. updated.direction = 0 => updated.position = updated.target
        BY <3>2, <3>3 DEF Steady
      <3> QED BY <3>1, <3>3, <3>4, <3>5
    <2> QED BY <2>1, <2>2, <2>3
  \* One in motion is called again in time.
  <1>6. /\ next \in {0, TickEvery, RetryAfter}
        /\ updated.direction # 0 => next = TickEvery
    BY DEF NextTick
  <1>7. blind' = [updated EXCEPT !.timer = IF next # 0 THEN next ELSE @]
    BY <1>1 DEF AfterCallback
  <1>8. updated.position \in Positions
    BY <1>5 DEF BlindType
  <1>10. motor' \in MotorType /\ Obeys(motor', sent') /\ told' \in Buttons /\ sent' \in Buttons
    BY <1>0, <1>2, ReceivesType DEF Buttons, Obeys, Remember
  <1> HIDE DEF updated, next
  <1>11. next \in - MaxLate .. RetryAfter
    BY <1>6, BlindMotionAssumption
  <1>12. /\ blind' \in BlindType
         /\ blind'.age = 0 /\ blind'.position = updated.position /\ blind'.target = updated.target
         /\ blind'.direction = updated.direction
         /\ updated.direction # 0 => blind'.timer = TickEvery
    <2> DEFINE timer == IF next # 0 THEN next ELSE updated.timer
    <2>1. timer \in {Off} \cup - MaxLate .. RetryAfter
      BY <1>5, <1>11 DEF BlindType
    <2>2. updated.direction # 0 => timer = TickEvery
      BY <1>6, BlindMotionAssumption
    <2>3. blind' = [updated EXCEPT !.timer = timer]
      BY <1>7
    <2> HIDE DEF timer
    <2> QED BY <1>5, <2>1, <2>2, <2>3 DEF BlindType
  <1>13. Steady(blind')
    BY <1>5, <1>12, BlindMotionAssumption DEF Steady
  <1>14. Follows(blind', told')
    BY <1>5, <1>12 DEF Follows
  <1> QED BY <1>10, <1>12, <1>13, <1>14

LEMMA TimeKeeps ==
  ASSUME TypeOK, Steady(blind), Follows(blind, told), TimePasses
  PROVE  blind' \in BlindType /\ Steady(blind') /\ Follows(blind', told)
  <1> DEFINE timer == IF blind.timer = Off THEN Off ELSE blind.timer - 1
             age == IF blind.direction = 0 THEN 0 ELSE blind.age + 1
  <1>1. blind' = [blind EXCEPT !.timer = timer, !.age = age]
    BY DEF TimePasses, TypeOK, BlindType
  <1>2. /\ blind \in BlindType
        /\ blind.timer # Off => blind.timer \in - MaxLate .. RetryAfter /\ blind.timer > - MaxLate
        /\ blind.age \in 0 .. TickEvery + MaxLate
    BY DEF TypeOK, BlindType, TimePasses
  <1>3. timer \in {Off} \cup - MaxLate .. RetryAfter
    BY <1>2, BlindMotionAssumption
  <1>4. /\ age \in 0 .. TickEvery + MaxLate
        /\ blind.direction = 0 => age = 0
        /\ blind.direction # 0 => timer # Off /\ timer + age <= TickEvery
    BY <1>2, BlindMotionAssumption DEF Steady
  <1> HIDE DEF timer, age
  <1>5. /\ blind' \in BlindType /\ blind'.timer = timer /\ blind'.age = age
        /\ blind'.direction = blind.direction /\ blind'.position = blind.position
        /\ blind'.target = blind.target
    BY <1>1, <1>2, <1>3, <1>4 DEF BlindType
  <1>6. Steady(blind')
    BY <1>4, <1>5 DEF Steady
  <1>7. Follows(blind', told)
    BY <1>5 DEF Follows
  <1> QED BY <1>5, <1>6, <1>7

-----------------------------------------------------------------------------
(* The specification *)

LEMMA InitIInv == Init => IInv
  <1> SUFFICES ASSUME Init PROVE IInv
    OBVIOUS
  <1>1. PICK p, q \in Positions, f, g \in BootFavourites :
          /\ blind = [target |-> p, position |-> p, direction |-> 0, favourite |-> f,
                      age |-> 0, timer |-> Off]
          /\ motor = [position |-> q, goal |-> q, favourite |-> g]
    BY DEF Init
  <1>2. blind \in BlindType /\ motor \in MotorType
    BY <1>1, BlindMotionAssumption DEF BlindType, MotorType, Inside
  <1>3. TypeOK
    BY <1>2, BlindMotionAssumption DEF Init, TypeOK, Buttons
  <1>4. Steady(blind)
    BY <1>1 DEF Steady
  <1> QED BY <1>3, <1>4 DEF Init, IInv, Follows, Obeys

LEMMA StepIInv == IInv /\ [Next]_vars => IInv'
  <1> SUFFICES ASSUME IInv, [Next]_vars PROVE IInv'
    OBVIOUS
  <1>0. /\ TypeOK /\ Steady(blind) /\ Follows(blind, told) /\ Obeys(motor, sent)
        /\ blind \in BlindType /\ motor \in MotorType /\ told \in Buttons /\ sent \in Buttons
        /\ heard \in Seq(Heard) /\ Len(heard) <= MaxHeard
    BY DEF IInv, TypeOK
  <1> DEFINE Kept == /\ blind' \in BlindType /\ Steady(blind') /\ Follows(blind', told')
                     /\ motor' \in MotorType /\ Obeys(motor', sent')
                     /\ told' \in Buttons /\ sent' \in Buttons
             Rest == /\ asked' \in {Off} \cup [from : Positions, to : Positions]
                     /\ heard' \in Seq(Heard) /\ Len(heard') <= MaxHeard
                     /\ presses' \in 0 .. MaxPresses
  <1>1. ASSUME Kept, Rest PROVE IInv'
    BY <1>1 DEF IInv, TypeOK
  <1>2. ASSUME Counted PROVE presses' \in 0 .. MaxPresses
    BY <1>0, <1>2, BlindMotionAssumption DEF TypeOK, Counted
  <1>3. ASSUME NEW button \in Buttons, NEW long \in BOOLEAN, PressButtons(blind, button, long)
        PROVE  Kept
    BY <1>0, <1>3, PressedKeeps, ReceivesType DEF PressButtons, Remember
  <1>4. ASSUME NEW button \in Buttons, NEW long \in BOOLEAN, Press(button, long) PROVE IInv'
    BY <1>0, <1>1, <1>2, <1>3, <1>4 DEF Press, TypeOK
  <1>5. CASE Stop
    BY <1>0, <1>1, <1>2, <1>3, <1>5 DEF Stop, TypeOK, Buttons
  <1>6. ASSUME NEW p \in Positions, GoToPosition(p) PROVE IInv'
    <2>0. asked' \in {Off} \cup [from : Positions, to : Positions]
      BY <1>0, <1>6 DEF GoToPosition, BlindType
    <2>1. CASE Towards(p) = "none"
      <3>1. Kept
        BY <1>0, <1>6, <2>1, GoToKeeps DEF GoToPosition
      <3> QED BY <1>0, <1>1, <1>2, <1>6, <2>0, <3>1 DEF GoToPosition, TypeOK
    <2>2. CASE Towards(p) # "none"
      <3>1. blind' = PressedFirst(p) /\ told' = Towards(p) /\ sent' = Towards(p)
            /\ motor' = Receives(motor, Towards(p), FALSE)
        BY <1>6, <2>2 DEF GoToPosition
      <3>2. /\ Towards(p) \in Buttons /\ Towards(p) # "other"
            /\ PressedFirst(p) \in BlindType /\ Steady(PressedFirst(p))
            /\ Follows(PressedFirst(p), Towards(p))
        BY <1>0, <2>2, GoToKeeps DEF Buttons
      <3>3. Remember(sent, Towards(p)) = Towards(p)
        BY <3>2 DEF Remember
      <3>4. Kept
        BY <1>0, <3>1, <3>2, <3>3, ReceivesType
      <3> QED BY <1>0, <1>1, <1>2, <1>6, <2>0, <3>4 DEF GoToPosition, TypeOK
    <2> QED BY <2>1, <2>2
  <1>7. ASSUME NEW button \in Buttons, NEW long \in BOOLEAN, PressOther(button, long) PROVE IInv'
    <2>1. Kept
      BY <1>0, <1>7, ReceivesType DEF PressOther, Remember
    <2>2. heard' \in Seq(Heard) /\ Len(heard') <= MaxHeard
      BY <1>0, <1>7, AppendProperties, BlindMotionAssumption DEF PressOther, Heard
    <2> QED BY <1>0, <1>1, <1>2, <1>7, <2>1, <2>2 DEF PressOther, TypeOK
  <1>8. CASE Report
    <2>1. heard # <<>> /\ Head(heard) \in Heard /\ heard' = Tail(heard)
      BY <1>0, <1>8, HeadTailProperties DEF Report
    <2>2. Head(heard).button \in Buttons /\ Head(heard).long \in BOOLEAN
      BY <2>1 DEF Heard
    <2>3. Kept
      BY <1>0, <1>8, <2>2, PressedKeeps DEF Report, Remember
    <2>4. heard' \in Seq(Heard) /\ Len(heard') <= MaxHeard
      BY <1>0, <2>1, HeadTailProperties, BlindMotionAssumption
    <2> QED BY <1>0, <1>1, <1>8, <2>3, <2>4 DEF Report, TypeOK
  <1>9. CASE UpdatePosition
    <2>1. UNCHANGED <<heard, asked, presses>>
      BY <1>9 DEF UpdatePosition
    <2> QED BY <1>0, <1>1, <1>9, <2>1, UpdateKeeps DEF TypeOK
  <1>10. CASE TimePasses
    <2>1. Kept
      BY <1>0, <1>10, TimeKeeps, TravelsType DEF TimePasses
    <2> QED BY <1>0, <1>1, <1>10, <2>1 DEF TimePasses, TypeOK
  <1>11. CASE UNCHANGED vars
    BY <1>0, <1>1, <1>11 DEF vars, TypeOK
  <1> QED BY <1>4, <1>5, <1>6, <1>7, <1>8, <1>9, <1>10, <1>11 DEF Next

\* Every state the blind and its estimate reach satisfies the invariant.
LEMMA Invariance == Spec => []IInv
  BY InitIInv, StepIInv, PTL DEF Spec

\* The variables keep their types; in particular the time that the estimate
\* adds at a tick is never more than a tick and its delay.
THEOREM TypeCorrect == Spec => []TypeOK
  <1>1. IInv => TypeOK
    BY DEF IInv
  <1> QED BY <1>1, Invariance, PTL

\* UpdatePosition is called again, within a second, for every blind in motion:
\* the timer survives being reset from inside its own callback.
THEOREM TimerNeverLost == Spec => []MovingBlindTicks
  <1>1. IInv => MovingBlindTicks
    <2> SUFFICES ASSUME IInv, blind.direction # 0
                 PROVE  blind.timer # Off /\ blind.timer <= TickEvery
      BY DEF MovingBlindTicks
    <2>1. blind.timer # Off /\ blind.timer + blind.age <= TickEvery
      BY DEF IInv, Steady
    <2>2. blind.age \in Nat /\ blind.timer \in Int
      BY <2>1, BlindMotionAssumption DEF IInv, TypeOK, BlindType
    <2> QED BY <2>1, <2>2, BlindMotionAssumption
  <1> QED BY <1>1, Invariance, PTL

\* What SaveConfig saves of a blind at rest, the target, is where it is.
THEOREM RestIsTarget == Spec => []RestsAtTarget
  <1>1. IInv => RestsAtTarget
    BY DEF IInv, Steady, RestsAtTarget
  <1> QED BY <1>1, Invariance, PTL

\* A full run puts the estimate right, whatever it was before, whatever was
\* pressed before and however late it was reported.
THEOREM FullRunSettles == Spec => []FullRunAgrees
  <1>1. IInv => FullRunAgrees
    BY DEF IInv, Follows, Obeys, FullRunAgrees, AtRest, Moving
  <1> QED BY <1>1, Invariance, PTL

-----------------------------------------------------------------------------
(***************************************************************************)
(* Where GoToPosition ends.  While the blind is under way its motor is     *)
(* where the estimate would be if a tick came now, so that the tick that   *)
(* finds it past the target finds the blind itself at most an overrun      *)
(* further, and My stops it there, or sends it on if it has reached the    *)
(* end meanwhile.                                                          *)
(***************************************************************************)
Opens(b, m, a) ==
  /\ b.direction = 1 /\ b.target = a.to
  /\ m.goal = Full /\ m.position = Estimated(b)
  /\ a.to = Full \/ (b.position < a.to /\ a.from < a.to)

Closes(b, m, a) ==
  /\ b.direction = -1 /\ b.target = a.to
  /\ m.goal = 0 /\ m.position = Estimated(b)
  /\ a.to = 0 \/ (b.position > a.to /\ a.from > a.to)

\* What became of the blind when the estimate came to rest.
Stopped(m, a) ==
  \/ m.position = a.to /\ m.goal = a.to
  \/ /\ a.from < a.to /\ a.to # Full
     /\ \/ m.goal = m.position /\ m.position - a.to \in 1 .. Overrun(1) - 1
        \/ Full - a.to < Overrun(1)
  \/ /\ a.from > a.to /\ a.to # 0
     /\ \/ m.goal = m.position /\ a.to - m.position \in 1 .. Overrun(-1) - 1
        \/ a.to < Overrun(-1)

UnderWay(b, m, a) ==
  Opens(b, m, a) \/ Closes(b, m, a) \/ (b.direction = 0 /\ Stopped(m, a))

GoesThere == asked # Off => heard = <<>> /\ UnderWay(blind, motor, asked)

\* The distance travelled in a number of units.
LEMMA Distance ==
  ASSUME NEW u \in Nat
  PROVE  /\ \A k \in Nat : k * u \in Nat /\ (k + 1) * u = k * u + u /\ k * (- u) = - (k * u)
         /\ \A j, k \in Nat : j <= k => j * u <= k * u
  <1>1. \A k \in Nat : k * u \in Nat /\ (k + 1) * u = k * u + u /\ k * (- u) = - (k * u)
    BY SMT
  <1>2. ASSUME NEW j \in Nat, NEW k \in Nat, j <= k PROVE j * u <= k * u
    <2>1. (k - j) * u \in Nat /\ k * u = j * u + (k - j) * u
      BY <1>2, SMT
    <2>2. j * u \in Nat
      BY <1>1
    <2> QED BY <2>1, <2>2
  <1> QED BY <1>1, <1>2

LEMMA EstimateIs ==
  ASSUME NEW b \in BlindType
  PROVE  /\ b.position \in 0 .. Full /\ b.age \in Nat
         /\ b.age * UpStep \in Nat /\ b.age * DownStep \in Nat
         /\ b.direction = 1 => Estimated(b) = Least(b.position + b.age * UpStep, Full)
         /\ b.direction = -1 => Estimated(b) = Greatest(0, b.position - b.age * DownStep)
         /\ b.age = 0 => Estimated(b) = b.position
  <1>1. /\ b.position \in 0 .. Full /\ b.age \in Nat /\ Full \in Nat
        /\ UpStep \in Nat /\ DownStep \in Nat
    BY BlindMotionAssumption DEF BlindType, Positions
  <1>2. /\ b.age * UpStep \in Nat
        /\ b.age * DownStep \in Nat /\ b.age * (- DownStep) = - (b.age * DownStep)
    BY <1>1, Distance
  <1>3. ASSUME b.direction = 1
        PROVE  Estimated(b) = Least(b.position + b.age * UpStep, Full)
    <2>1. Estimated(b) = Clamped(b.position + b.age * UpStep)
      BY <1>3 DEF Estimated
    <2> QED BY <1>1, <1>2, <2>1 DEF Clamped, Least, Greatest
  <1>4. ASSUME b.direction = -1
        PROVE  Estimated(b) = Greatest(0, b.position - b.age * DownStep)
    <2>1. Estimated(b) = Clamped(b.position + b.age * (- DownStep))
      BY <1>4 DEF Estimated
    <2> QED BY <1>1, <1>2, <2>1 DEF Clamped, Least, Greatest
  <1>5. ASSUME b.age = 0 PROVE Estimated(b) = b.position
    <2> DEFINE step == CASE b.direction = 1 -> UpStep [] b.direction = -1 -> - DownStep [] OTHER -> 0
    <2>1. step \in Int
      BY BlindMotionAssumption
    <2>2. Estimated(b) = Clamped(b.position + b.age * step)
      BY DEF Estimated
    <2> HIDE DEF step
    <2>3. b.age * step = 0
      BY <1>5, <2>1
    <2>4. Estimated(b) = Clamped(b.position)
      BY <1>1, <2>2, <2>3
    <2> QED BY <1>1, <2>4 DEF Clamped, Least, Greatest
  <1> QED BY <1>1, <1>2, <1>3, <1>4, <1>5

\* A blind that is not past its target before a tick has not gone further than
\* an overrun at the tick.
LEMMA OverrunIs ==
  ASSUME NEW b \in BlindType
  PROVE  /\ Overrun(1) \in Nat /\ Overrun(-1) \in Nat
         /\ b.age * UpStep <= Overrun(1) /\ b.age * DownStep <= Overrun(-1)
  <1>1. /\ b.age \in Nat /\ TickEvery + MaxLate \in Nat /\ b.age <= TickEvery + MaxLate
        /\ UpStep \in Nat /\ DownStep \in Nat
    BY BlindMotionAssumption DEF BlindType
  <1>2. Overrun(1) = (TickEvery + MaxLate) * UpStep /\ Overrun(-1) = (TickEvery + MaxLate) * DownStep
    BY DEF Overrun
  <1> QED BY <1>1, <1>2, Distance

\* The command.
LEMMA GoToUnderWay ==
  ASSUME IInv, NEW p \in Positions, GoToPosition(p), asked' # Off
  PROVE  heard' = <<>> /\ UnderWay(blind', motor', asked')
  <1>0. /\ blind \in BlindType /\ motor \in MotorType
        /\ blind.position \in 0 .. Full /\ p \in 0 .. Full /\ Full \in Nat /\ Full > 0
        /\ Full \in Positions /\ 0 \in Positions
    BY BlindMotionAssumption DEF IInv, TypeOK, BlindType, Positions
  <1>1. /\ asked'.from = blind.position /\ asked'.to = p
        /\ blind.direction = 0 /\ motor.position = motor.goal /\ heard' = <<>>
        /\ blind.position = motor.position
    BY DEF GoToPosition, RightAtRest, AtRest, Moving
  <1>2. CASE Towards(p) = "none"
    <2>1. p = blind.position
      BY <1>0, <1>2 DEF Towards
    <2>2. motor' = motor /\ blind' = [blind EXCEPT !.target = p]
      BY <1>2 DEF GoToPosition
    <2>3. blind'.direction = 0
      BY <1>0, <1>1, <2>2 DEF BlindType
    <2>4. Stopped(motor', asked')
      BY <1>1, <2>1, <2>2 DEF Stopped
    <2> QED BY <1>1, <2>3, <2>4 DEF UnderWay
  <1>3. CASE Towards(p) = "up"
    <2>1. p = Full \/ blind.position < p
      BY <1>0, <1>3 DEF Towards
    <2> DEFINE h == Heads(blind, Full, 1)
    <2>2. /\ h \in BlindType /\ h.direction = 1 /\ h.age = 0 /\ h.position = blind.position
      BY <1>0, HeadsIs, Zenon
    <2>3. blind' = [h EXCEPT !.target = p]
      <3>1. blind' = PressedFirst(p)
        BY <1>3 DEF GoToPosition
      <3>2. PressedFirst(p) = [h EXCEPT !.target = p]
        BY <1>0, <1>3, PressedByButton DEF PressedFirst
      <3> QED BY <3>1, <3>2
    <2> HIDE DEF h
    <2>4. /\ blind' \in BlindType /\ blind'.target = p /\ blind'.direction = 1
          /\ blind'.age = 0 /\ blind'.position = blind.position
      BY <2>2, <2>3 DEF BlindType
    <2>5. motor' = [motor EXCEPT !.goal = Full]
      BY <1>3 DEF GoToPosition, Receives
    <2>6. motor'.goal = Full /\ motor'.position = motor.position
      BY <1>0, <2>5 DEF MotorType
    <2>7. Estimated(blind') = blind.position
      BY <2>4, EstimateIs
    <2>8. Opens(blind', motor', asked')
      BY <1>0, <1>1, <2>1, <2>4, <2>6, <2>7 DEF Opens
    <2> QED BY <1>1, <2>8 DEF UnderWay
  <1>4. CASE Towards(p) = "down"
    <2>1. p = 0 \/ blind.position > p
      BY <1>0, <1>4 DEF Towards
    <2> DEFINE h == Heads(blind, 0, -1)
    <2>2. /\ h \in BlindType /\ h.direction = -1 /\ h.age = 0 /\ h.position = blind.position
      BY <1>0, HeadsIs, Zenon
    <2>3. blind' = [h EXCEPT !.target = p]
      <3>1. blind' = PressedFirst(p)
        BY <1>4 DEF GoToPosition
      <3>2. PressedFirst(p) = [h EXCEPT !.target = p]
        BY <1>0, <1>4, PressedByButton DEF PressedFirst
      <3> QED BY <3>1, <3>2
    <2> HIDE DEF h
    <2>4. /\ blind' \in BlindType /\ blind'.target = p /\ blind'.direction = -1
          /\ blind'.age = 0 /\ blind'.position = blind.position
      BY <2>2, <2>3 DEF BlindType
    <2>5. motor' = [motor EXCEPT !.goal = 0]
      BY <1>4 DEF GoToPosition, Receives
    <2>6. motor'.goal = 0 /\ motor'.position = motor.position
      BY <1>0, <2>5 DEF MotorType
    <2>7. Estimated(blind') = blind.position
      BY <2>4, EstimateIs
    <2>8. Closes(blind', motor', asked')
      BY <1>0, <1>1, <2>1, <2>4, <2>6, <2>7 DEF Closes
    <2> QED BY <1>1, <2>8 DEF UnderWay
  <1>5. Towards(p) \in {"none", "up", "down"}
    BY DEF Towards
  <1> QED BY <1>2, <1>3, <1>4, <1>5

\* The blind and its estimate go on at the same speed.
LEMMA TimeUnderWay ==
  ASSUME IInv, TimePasses, UnderWay(blind, motor, asked), UNCHANGED asked
  PROVE  UnderWay(blind', motor', asked')
  <1>0. /\ blind \in BlindType /\ motor \in MotorType /\ Full \in Nat
        /\ UpStep \in Nat \ {0} /\ DownStep \in Nat \ {0}
        /\ motor.position \in 0 .. Full /\ motor.goal \in 0 .. Full
    BY BlindMotionAssumption DEF IInv, TypeOK, MotorType, Positions
  <1>1. motor' = Travels(motor)
    BY DEF TimePasses
  <1>2. /\ motor'.goal = motor.goal
        /\ motor'.position = IF motor.position < motor.goal
                             THEN Least(motor.position + UpStep, motor.goal)
                             ELSE Greatest(motor.position - DownStep, motor.goal)
    BY <1>0, <1>1 DEF Travels, MotorType
  <1>3. /\ blind'.target = blind.target /\ blind'.position = blind.position
        /\ blind'.direction = blind.direction
        /\ blind.direction # 0 => blind'.age = blind.age + 1
    BY <1>0 DEF TimePasses, BlindType
  <1>4. blind' \in BlindType
    BY TimeKeeps DEF IInv
  <1>5. /\ blind.position \in 0 .. Full /\ blind.age \in Nat
        /\ (blind.age + 1) * UpStep = blind.age * UpStep + UpStep
        /\ (blind.age + 1) * DownStep = blind.age * DownStep + DownStep
        /\ blind.age * UpStep \in Nat /\ blind.age * DownStep \in Nat
    BY <1>0, EstimateIs, Distance
  <1>6. CASE Opens(blind, motor, asked)
    <2>1. motor.position = Least(blind.position + blind.age * UpStep, Full) /\ motor.goal = Full
      BY <1>0, <1>6, EstimateIs DEF Opens
    <2>2. Estimated(blind') = Least(blind.position + (blind.age * UpStep + UpStep), Full)
      BY <1>3, <1>4, <1>5, <1>6, EstimateIs DEF Opens
    <2>3. motor'.position = Estimated(blind')
      BY <1>0, <1>2, <1>5, <2>1, <2>2 DEF Least, Greatest
    <2>4. Opens(blind', motor', asked')
      BY <1>2, <1>3, <1>6, <2>3 DEF Opens
    <2> QED BY <2>4 DEF UnderWay
  <1>7. CASE Closes(blind, motor, asked)
    <2>1. motor.position = Greatest(0, blind.position - blind.age * DownStep) /\ motor.goal = 0
      BY <1>0, <1>7, EstimateIs DEF Closes
    <2>2. Estimated(blind') = Greatest(0, blind.position - (blind.age * DownStep + DownStep))
      BY <1>3, <1>4, <1>5, <1>7, EstimateIs DEF Closes
    <2>3. motor'.position = Estimated(blind')
      BY <1>0, <1>2, <1>5, <2>1, <2>2 DEF Least, Greatest
    <2>4. Closes(blind', motor', asked')
      BY <1>2, <1>3, <1>7, <2>3 DEF Closes
    <2> QED BY <2>4 DEF UnderWay
  <1>8. CASE blind.direction = 0 /\ Stopped(motor, asked)
    <2>1. motor.goal = motor.position => motor'.position = motor.position
      BY <1>0, <1>2 DEF Greatest
    <2>2. Stopped(motor', asked')
      BY <1>2, <1>8, <2>1 DEF Stopped
    <2> QED BY <1>3, <1>8, <2>2 DEF UnderWay
  <1> QED BY <1>6, <1>7, <1>8 DEF UnderWay

\* A tick.
LEMMA TickIs ==
  ASSUME IInv, UpdatePosition
  PROVE  /\ blind' \in BlindType
         /\ Arrived(blind) => blind'.direction = 0
         /\ ~ Arrived(blind) =>
              /\ blind'.direction = blind.direction /\ blind'.target = blind.target
              /\ blind'.position = Estimated(blind) /\ blind'.age = 0
         /\ motor' = IF Arrived(blind) /\ StopsThere(blind)
                     THEN Receives(motor, "my", FALSE) ELSE motor
  <1> DEFINE fired == [blind EXCEPT !.timer = Off, !.age = 0]
             stops == Arrived(blind) /\ StopsThere(blind)
             there == [fired EXCEPT !.position = blind.target]
             updated == IF stops THEN [Pressed(there, "my", FALSE) EXCEPT !.direction = 0]
                        ELSE IF Arrived(blind) THEN [there EXCEPT !.direction = 0]
                        ELSE [fired EXCEPT !.position = Estimated(blind)]
  <1>0. blind \in BlindType /\ blind' \in BlindType
    BY UpdateKeeps DEF IInv, TypeOK
  <1>1. PICK first, second \in BOOLEAN :
          blind' = AfterCallback(updated, NextTick(updated.direction, NeedsPublish(first, second)))
    BY Zenon DEF UpdatePosition
  <1> DEFINE next == NextTick(updated.direction, NeedsPublish(first, second))
  <1>2. motor' = IF stops THEN Receives(motor, "my", FALSE) ELSE motor
    BY DEF UpdatePosition
  <1>3. blind' = [updated EXCEPT !.timer = IF next # 0 THEN next ELSE @]
    BY <1>1 DEF AfterCallback
  <1>4. ASSUME stops PROVE blind'.direction = 0
    <2>1. blind.direction # 0 /\ there.direction = blind.direction /\ there.position = blind.target
      BY <1>0, <1>4 DEF Arrived, BlindType
    <2>2. there \in BlindType
      <3>1. 0 \in 0 .. TickEvery + MaxLate
        BY BlindMotionAssumption
      <3>2. fired \in BlindType
        BY <1>0, <3>1, Zenon DEF BlindType
      <3> HIDE DEF fired
      <3> QED BY <1>0, <3>2, Zenon DEF BlindType
    <2> DEFINE h == Heads(there, there.position, 0)
    <2>3. Pressed(there, "my", FALSE) = h
      BY <2>1 DEF Pressed
    <2>4. h \in BlindType
      <3>1. there.position \in Positions /\ 0 \in {-1, 0, 1}
        BY <1>0, <2>1 DEF BlindType
      <3> HIDE DEF there
      <3> QED BY <2>2, <3>1, HeadsIs, Zenon
    <2>5. updated = [h EXCEPT !.direction = 0]
      BY <1>4, <2>3
    <2> HIDE DEF h, updated, there, next
    <2> QED BY <1>3, <2>4, <2>5 DEF BlindType
  <1>5. ASSUME Arrived(blind), ~ stops PROVE blind'.direction = 0
    <2>1. updated = [there EXCEPT !.direction = 0]
      BY <1>5
    <2> HIDE DEF next
    <2> QED BY <1>0, <1>3, <2>1 DEF BlindType
  <1>6. ASSUME ~ Arrived(blind)
        PROVE  /\ blind'.direction = blind.direction /\ blind'.target = blind.target
               /\ blind'.position = Estimated(blind) /\ blind'.age = 0
    <2>1. updated = [fired EXCEPT !.position = Estimated(blind)]
      BY <1>6
    <2> HIDE DEF next
    <2> QED BY <1>0, <1>3, <2>1 DEF BlindType
  <1> QED BY <1>0, <1>2, <1>4, <1>5, <1>6

LEMMA TickUnderWay ==
  ASSUME IInv, UpdatePosition, UnderWay(blind, motor, asked), asked # Off, UNCHANGED asked
  PROVE  UnderWay(blind', motor', asked')
  <1>0. /\ blind \in BlindType /\ motor \in MotorType /\ Full \in Nat /\ Full > 0
        /\ motor.position \in 0 .. Full /\ blind.target \in 0 .. Full
        /\ blind.position \in 0 .. Full
        /\ asked.from \in 0 .. Full /\ asked.to \in 0 .. Full
    BY BlindMotionAssumption DEF IInv, TypeOK, MotorType, BlindType, Positions
  <1>t. /\ blind' \in BlindType
        /\ Arrived(blind) => blind'.direction = 0
        /\ ~ Arrived(blind) =>
             /\ blind'.direction = blind.direction /\ blind'.target = blind.target
             /\ blind'.position = Estimated(blind) /\ blind'.age = 0
        /\ motor' = IF Arrived(blind) /\ StopsThere(blind)
                    THEN Receives(motor, "my", FALSE) ELSE motor
    BY TickIs
  <1>e. blind'.age = 0 => Estimated(blind') = blind'.position
    BY <1>t, EstimateIs
  <1>m. ASSUME Arrived(blind), StopsThere(blind)
        PROVE  /\ motor'.position = motor.position
               /\ motor.position # motor.goal => motor'.goal = motor.position
    <2>1. motor' = IF Moving(motor) THEN [motor EXCEPT !.goal = motor.position]
                   ELSE [motor EXCEPT !.goal = motor.favourite]
      BY <1>m, <1>t DEF Receives
    <2> QED BY <1>0, <2>1 DEF Moving, MotorType
  <1>o. /\ Overrun(1) \in Nat /\ Overrun(-1) \in Nat
        /\ blind.age * UpStep \in Nat /\ blind.age * DownStep \in Nat
        /\ blind.age * UpStep <= Overrun(1) /\ blind.age * DownStep <= Overrun(-1)
    BY <1>0, OverrunIs, EstimateIs
  <1>1. CASE Opens(blind, motor, asked)
    <2>1. /\ blind.direction = 1 /\ blind.target = asked.to /\ motor.goal = Full
          /\ motor.position = Estimated(blind)
          /\ asked.to = Full \/ (blind.position < asked.to /\ asked.from < asked.to)
      BY <1>1 DEF Opens
    <2>2. motor.position = Least(blind.position + blind.age * UpStep, Full)
      BY <1>0, <2>1, EstimateIs
    <2>3. Arrived(blind) <=> motor.position >= asked.to
      BY <2>1 DEF Arrived
    <2>4. CASE ~ Arrived(blind)
      <3>1. motor' = motor /\ Opens(blind', motor', asked')
        BY <1>0, <1>e, <1>t, <2>1, <2>3, <2>4 DEF Opens
      <3> QED BY <3>1 DEF UnderWay
    <2>5. CASE Arrived(blind) /\ StopsThere(blind)
      <3>1. asked.to \in 1 .. Full - 1 /\ blind.position < asked.to /\ asked.from < asked.to
        BY <1>0, <2>1, <2>5 DEF StopsThere, Inside
      <3>2. motor.position - asked.to \in 0 .. Overrun(1) - 1
        BY <1>0, <1>o, <2>2, <2>3, <2>5, <3>1 DEF Least
      <3>3. Stopped(motor', asked')
        <4>1. CASE motor.position = Full
          <5>1. Full - asked.to < Overrun(1)
            BY <1>0, <1>o, <3>2, <4>1
          <5> QED BY <3>1, <5>1 DEF Stopped
        <4>2. CASE motor.position # Full
          <5>1. motor'.position = motor.position /\ motor'.goal = motor.position
            BY <1>m, <2>1, <2>5, <4>2
          <5>2. motor.position = asked.to \/ motor.position - asked.to \in 1 .. Overrun(1) - 1
            BY <1>0, <1>o, <3>2
          <5> QED BY <3>1, <5>1, <5>2 DEF Stopped
        <4> QED BY <4>1, <4>2
      <3> QED BY <1>t, <2>5, <3>3 DEF UnderWay
    <2>6. CASE Arrived(blind) /\ ~ StopsThere(blind)
      <3>1. asked.to = Full /\ motor.position = Full /\ motor' = motor
        BY <1>0, <1>t, <2>1, <2>3, <2>6 DEF StopsThere, Inside
      <3>2. Stopped(motor', asked')
        BY <2>1, <3>1 DEF Stopped
      <3> QED BY <1>t, <2>6, <3>2 DEF UnderWay
    <2> QED BY <2>4, <2>5, <2>6
  <1>2. CASE Closes(blind, motor, asked)
    <2>1. /\ blind.direction = -1 /\ blind.target = asked.to /\ motor.goal = 0
          /\ motor.position = Estimated(blind)
          /\ asked.to = 0 \/ (blind.position > asked.to /\ asked.from > asked.to)
      BY <1>2 DEF Closes
    <2>2. motor.position = Greatest(0, blind.position - blind.age * DownStep)
      BY <1>0, <2>1, EstimateIs
    <2>3. Arrived(blind) <=> motor.position <= asked.to
      BY <2>1 DEF Arrived
    <2>4. CASE ~ Arrived(blind)
      <3>1. motor' = motor /\ Closes(blind', motor', asked')
        BY <1>0, <1>e, <1>t, <2>1, <2>3, <2>4 DEF Closes
      <3> QED BY <3>1 DEF UnderWay
    <2>5. CASE Arrived(blind) /\ StopsThere(blind)
      <3>1. asked.to \in 1 .. Full - 1 /\ blind.position > asked.to /\ asked.from > asked.to
        BY <1>0, <2>1, <2>5 DEF StopsThere, Inside
      <3>2. asked.to - motor.position \in 0 .. Overrun(-1) - 1
        BY <1>0, <1>o, <2>2, <2>3, <2>5, <3>1 DEF Greatest
      <3>3. Stopped(motor', asked')
        <4>1. CASE motor.position = 0
          <5>1. asked.to < Overrun(-1)
            BY <1>0, <1>o, <3>2, <4>1
          <5> QED BY <3>1, <5>1 DEF Stopped
        <4>2. CASE motor.position # 0
          <5>1. motor'.position = motor.position /\ motor'.goal = motor.position
            BY <1>m, <2>1, <2>5, <4>2
          <5>2. motor.position = asked.to \/ asked.to - motor.position \in 1 .. Overrun(-1) - 1
            BY <1>0, <1>o, <3>2
          <5> QED BY <3>1, <5>1, <5>2 DEF Stopped
        <4> QED BY <4>1, <4>2
      <3> QED BY <1>t, <2>5, <3>3 DEF UnderWay
    <2>6. CASE Arrived(blind) /\ ~ StopsThere(blind)
      <3>1. asked.to = 0 /\ motor.position = 0 /\ motor' = motor
        BY <1>0, <1>t, <2>1, <2>3, <2>6 DEF StopsThere, Inside
      <3>2. Stopped(motor', asked')
        BY <2>1, <3>1 DEF Stopped
      <3> QED BY <1>t, <2>6, <3>2 DEF UnderWay
    <2> QED BY <2>4, <2>5, <2>6
  <1>3. CASE blind.direction = 0 /\ Stopped(motor, asked)
    <2>1. ~ Arrived(blind)
      BY <1>3 DEF Arrived
    <2>2. blind'.direction = 0 /\ motor' = motor
      BY <1>3, <1>t, <2>1
    <2> QED BY <1>3, <2>2 DEF UnderWay
  <1> QED BY <1>1, <1>2, <1>3 DEF UnderWay

LEMMA GoesThereStep == IInv /\ GoesThere /\ [Next]_vars => GoesThere'
  <1> SUFFICES ASSUME IInv, GoesThere, [Next]_vars, asked' # Off
               PROVE  heard' = <<>> /\ UnderWay(blind', motor', asked')
    BY DEF GoesThere
  <1>1. ASSUME NEW button \in Buttons, NEW long \in BOOLEAN,
               Press(button, long) \/ PressOther(button, long) \/ Stop
        PROVE  FALSE
    BY <1>1 DEF Press, PressOther, Stop
  <1>2. ASSUME NEW p \in Positions, GoToPosition(p)
        PROVE  heard' = <<>> /\ UnderWay(blind', motor', asked')
    BY <1>2, GoToUnderWay
  <1>3. ~ Report
    BY DEF Report, GoesThere
  <1>4. CASE UpdatePosition
    <2>1. UNCHANGED <<asked, heard>>
      BY <1>4 DEF UpdatePosition
    <2> QED BY <1>4, <2>1, TickUnderWay DEF GoesThere
  <1>5. CASE TimePasses
    <2>1. UNCHANGED <<asked, heard>>
      BY <1>5 DEF TimePasses
    <2> QED BY <1>5, <2>1, TimeUnderWay DEF GoesThere
  <1>6. CASE UNCHANGED vars
    BY <1>6 DEF vars, GoesThere, UnderWay, Opens, Closes, Estimated
  <1>7. ~ Stop
    BY DEF Stop
  <1> QED BY <1>1, <1>2, <1>3, <1>4, <1>5, <1>6, <1>7 DEF Next

\* Sent to a position once while the estimate is right, a blind comes to rest
\* there or less than an overrun further on, however late the ticks are; the
\* exception is the end behind the position, from which My sends it elsewhere.
THEOREM GoToArrives == Spec => []GoToPositionArrives
  <1>1. Init => GoesThere
    BY DEF Init, GoesThere
  <1>2. IInv /\ GoesThere => GoToPositionArrives
    <2> SUFFICES ASSUME IInv, GoesThere, AtRest, asked # Off PROVE GoToPositionArrives
      BY DEF GoToPositionArrives
    <2>1. blind.direction = 0 /\ Stopped(motor, asked)
      BY DEF GoesThere, UnderWay, Opens, Closes, AtRest
    <2> QED BY <2>1 DEF Stopped, GoToPositionArrives
  <1> QED BY <1>1, <1>2, Invariance, GoesThereStep, PTL DEF Spec
=============================================================================
