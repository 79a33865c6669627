-------------------------- MODULE Discovery_proofs --------------------------
(***************************************************************************)
(* Proofs about MqttClient and Discovery, for any devices, any messages    *)
(* and any number of broken connections.                                   *)
(*                                                                         *)
(* Messages: as long as a message is expected the buffer is its own and    *)
(* has just the room for what is still to come; a buffer that an earlier   *)
(* message has left has too little room for the one that comes             *)
(* (InProgress).  So only a buffer of the first kind is ever delivered.    *)
(***************************************************************************)
EXTENDS Discovery, TLAPS, WellFoundedInduction

\* The bounds, and what follows from them.
LEMMA Sizes ==
  /\ MaxPayload \in Nat /\ MaxLength \in Nat /\ Word \in Nat /\ MaxPayload < Word
  /\ MaxMessages \in Nat /\ MaxDrops \in Nat /\ MaxLosses \in Nat /\ MaxChanges \in Nat
  /\ Leftover \subseteq 0 .. Word - 1
  /\ None \notin Topics /\ None \notin Buffers
  BY MqttClientAssumption, WifiConnectionAssumption, DiscoveryAssumption

LEMMA SmallMod ==
  ASSUME NEW N \in Nat, NEW x \in Nat, x < N
  PROVE  x % N = x
  BY SMT

\* The bytes that so many messages may have.
Bytes(m) == m * MaxLength

LEMMA BytesGrow ==
  ASSUME NEW m \in Nat
  PROVE  Bytes(m) \in Nat /\ Bytes(m + 1) = Bytes(m) + MaxLength
  <1>1. MaxLength \in Nat
    BY Sizes
  <1>2. m * MaxLength \in Nat
    BY <1>1
  <1>3. (m + 1) * MaxLength = m * MaxLength + MaxLength
    BY <1>1
  <1> QED BY <1>2, <1>3 DEF Bytes

LEMMA BytesOrdered ==
  ASSUME NEW m \in Nat, NEW n \in Nat, m <= n
  PROVE  Bytes(m) <= Bytes(n)
  <1>1. MaxLength \in Nat
    BY Sizes
  <1>2. PICK d \in Nat : n = m + d
    <2>1. n - m \in Nat /\ n = m + (n - m)
      OBVIOUS
    <2> QED BY <2>1
  <1>3. d * MaxLength \in Nat /\ m * MaxLength \in Nat
    BY <1>1
  <1>4. n * MaxLength = m * MaxLength + d * MaxLength
    BY <1>1, <1>2
  <1> QED BY <1>3, <1>4 DEF Bytes

-----------------------------------------------------------------------------
(* Messages in pieces *)

InProgress ==
  /\ incoming # None => /\ incoming.left <= incoming.length
                        /\ incoming.left = 0 => incoming.length = 0
  /\ payload # None => /\ length <= MaxPayload /\ received <= length
                       /\ payload \in [1 .. length -> 0 .. MaxMessages]
  /\ incoming # None /\ incoming.expected =>
       /\ payload # None /\ topic = incoming.topic
       /\ length = incoming.length /\ received + incoming.left = length
       /\ \A i \in 1 .. received : payload[i] = incoming.number
  /\ incoming # None /\ ~ incoming.expected /\ payload # None =>
       incoming.left > length - received

Counting ==
  received + (IF incoming = None THEN 0 ELSE incoming.left) <= Word - 1 + Bytes(used.messages)

MessageInv == MqttTypeOK /\ InProgress /\ Counting

LEMMA MessageTypes ==
  ASSUME MqttTypeOK
  PROVE  /\ length \in Nat /\ length < Word /\ received \in Nat
         /\ used.messages \in Nat /\ used.messages <= MaxMessages
         /\ incoming # None => /\ incoming \in Message
                               /\ incoming.left \in Nat /\ incoming.length \in Nat
                               /\ incoming.left <= MaxLength
                               /\ incoming.number \in 1 .. MaxMessages
  <1>1. length \in Nat /\ length < Word
    BY Sizes DEF MqttTypeOK
  <1>2. MaxMessages * MaxLength \in Nat
    BY Sizes
  <1>3. received \in Nat
    BY Sizes, <1>2 DEF MqttTypeOK
  <1>4. used.messages \in Nat /\ used.messages <= MaxMessages
    BY Sizes DEF MqttTypeOK
  <1>5. incoming # None => incoming \in Message
    BY DEF MqttTypeOK
  <1> QED BY <1>1, <1>3, <1>4, <1>5, Sizes DEF Message

\* The bound on the count of bytes, from the number of messages so far.
LEMMA CountBounded ==
  ASSUME NEW n \in Nat, NEW m \in Nat, m <= MaxMessages, n <= Word - 1 + Bytes(m)
  PROVE  n \in 0 .. Word - 1 + MaxMessages * MaxLength
  <1>1. Bytes(m) \in Nat /\ Bytes(m) <= Bytes(MaxMessages) /\ Bytes(MaxMessages) \in Nat
    BY Sizes, BytesGrow, BytesOrdered
  <1>2. n <= Word - 1 + Bytes(MaxMessages)
    BY <1>1, Sizes
  <1> QED BY <1>1, <1>2, Sizes DEF Bytes

LEMMA BufferIsNoNull ==
  ASSUME NEW n \in 0 .. MaxPayload, NEW b \in [1 .. n -> 0 .. MaxMessages]
  PROVE  b \in Buffers /\ b # None
  BY Sizes DEF Buffers

\* A message is announced.
LEMMA AnnounceStep ==
  ASSUME MessageInv, NEW t \in Topics, NEW len \in 0 .. MaxLength, IncomingPublish(t, len)
  PROVE  MessageInv'
  <1>0. MqttTypeOK /\ InProgress /\ Counting
    BY DEF MessageInv
  <1>t. /\ length \in Nat /\ length < Word /\ received \in Nat
        /\ used.messages \in Nat /\ used.messages <= MaxMessages
    BY <1>0, MessageTypes
  <1>1. /\ used.messages < MaxMessages /\ incoming = None
        /\ used' = [used EXCEPT !.messages = @ + 1]
        /\ call' = None /\ UNCHANGED <<link, topics, crashed, wifi, losses>>
    BY DEF IncomingPublish, wifiVars
  <1>2. /\ used' \in [messages : 0 .. MaxMessages, drops : 0 .. MaxDrops]
        /\ used'.messages = used.messages + 1
    BY <1>0, <1>1, <1>t, Sizes DEF MqttTypeOK
  <1>3. incoming' = [topic |-> t, length |-> len, left |-> len, number |-> used.messages + 1,
                     expected |-> Expected(t, len)]
    BY DEF IncomingPublish
  <1>4. /\ incoming' \in Message
        /\ incoming'.left = len /\ incoming'.length = len /\ incoming'.topic = t
        /\ incoming'.expected = Expected(t, len)
        /\ len \in Nat /\ len <= MaxLength
    BY <1>1, <1>3, <1>t, Sizes DEF Message, Expected
  <1>5. Counting' /\ InProgress' /\ payload' \in Buffers \cup {None} /\ topic' \in Topics \cup {None}
        /\ length' \in 0 .. Word - 1 /\ received' \in Nat
        /\ received' <= Word - 1 + Bytes(used'.messages)
    <2>b. /\ Bytes(used.messages) \in Nat
          /\ Bytes(used'.messages) = Bytes(used.messages) + MaxLength
      BY <1>2, <1>t, BytesGrow
    <2>c. received <= Word - 1 + Bytes(used.messages)
      BY <1>0, <1>1, <1>t, <2>b, Sizes DEF Counting
    <2>1. CASE t \notin topics /\ payload' = BufferDropped /\ UNCHANGED <<length, received, topic>>
      <3>1. payload' = None /\ ~ incoming'.expected
        BY <1>4, <2>1 DEF BufferDropped, Expected
      <3>2. InProgress'
        BY <1>4, <3>1 DEF InProgress
      <3>3. Counting'
        BY <1>4, <1>t, <2>1, <2>b, <2>c, Sizes DEF Counting
      <3> QED BY <1>0, <1>t, <2>1, <2>b, <2>c, <3>1, <3>2, <3>3, Sizes DEF MqttTypeOK
    <2>2. CASE t \in topics /\ len > MaxPayload /\ UNCHANGED <<payload, length, received, topic>>
      <3>0. ~ Expected(t, len)
        BY <1>4, <2>2, Sizes DEF Expected
      <3>1. ~ incoming'.expected
        BY <1>4, <3>0, Zenon
      <3>2. payload # None => len > length - received
        BY <1>0, <1>4, <1>t, <2>2, Sizes DEF InProgress
      <3>3. InProgress'
        BY <1>0, <1>4, <2>2, <3>1, <3>2 DEF InProgress
      <3>4. Counting'
        BY <1>4, <1>t, <2>2, <2>b, <2>c, Sizes DEF Counting
      <3> QED BY <1>0, <1>t, <2>2, <2>b, <2>c, <3>3, <3>4, Sizes DEF MqttTypeOK
    <2>3. CASE /\ Expected(t, len) /\ payload' = [i \in 1 .. len |-> 0]
               /\ length' = len /\ received' = 0 /\ topic' = CurrentTopic(t)
      <3>1. len <= MaxPayload /\ len \in 0 .. MaxPayload /\ len \in 0 .. Word - 1
        BY <1>4, <2>3, Sizes DEF Expected
      <3>2. payload' \in [1 .. len -> 0 .. MaxMessages]
        BY <2>3, Sizes
      <3>3. payload' \in Buffers /\ payload' # None
        BY <3>1, <3>2, BufferIsNoNull
      <3>4. InProgress'
        BY <1>4, <2>3, <3>1, <3>2, <3>3 DEF InProgress, CurrentTopic
      <3>5. Counting'
        BY <1>4, <1>t, <2>3, <2>b, Sizes DEF Counting
      <3> QED BY <1>t, <2>3, <2>b, <3>1, <3>3, <3>4, <3>5, Sizes DEF CurrentTopic
    <2> QED BY <2>1, <2>2, <2>3 DEF IncomingPublish
  <1>6. received' \in 0 .. Word - 1 + MaxMessages * MaxLength
    <2>1. used'.messages \in Nat /\ used'.messages <= MaxMessages
      BY <1>1, <1>2, <1>t
    <2> QED BY <1>5, <2>1, CountBounded
  <1>7. MqttTypeOK'
    BY <1>0, <1>1, <1>2, <1>4, <1>5, <1>6 DEF MqttTypeOK, WifiTypeOK
  <1> QED BY <1>5, <1>7 DEF MessageInv

\* Room in a buffer is counted modulo a word, but it is never negative.
LEMMA Room ==
  ASSUME MqttTypeOK, InProgress
  PROVE  /\ Remaining \in Nat
         /\ payload # None => Remaining = length - received
  <1>1. length \in Nat /\ received \in Nat /\ length < Word
    BY MessageTypes
  <1>2. (length - received) % Word \in Nat
    BY <1>1, Sizes
  <1>3. ASSUME payload # None PROVE (length - received) % Word = length - received
    <2>1. received <= length
      BY <1>3 DEF InProgress
    <2>2. length - received \in Nat /\ length - received < Word
      BY <1>1, <2>1, Sizes
    <2> QED BY <2>2, Sizes, SmallMod
  <1> QED BY <1>2, <1>3 DEF Remaining

\* A piece that fits a buffer goes behind what is there.
LEMMA CopiedIs ==
  ASSUME MqttTypeOK, InProgress, payload # None, incoming # None,
         NEW k \in Nat, k <= incoming.left, k <= length - received
  PROVE  /\ Copied(k) \in [1 .. length -> 0 .. MaxMessages]
         /\ \A i \in 1 .. received : Copied(k)[i] = payload[i]
         /\ \A i \in received + 1 .. received + k : Copied(k)[i] = incoming.number
  <1>1. /\ length \in Nat /\ received \in Nat
        /\ payload \in [1 .. length -> 0 .. MaxMessages] /\ received <= length
        /\ incoming.number \in 0 .. MaxMessages
    <2>1. length \in Nat /\ received \in Nat /\ incoming.number \in 0 .. MaxMessages
      BY MessageTypes
    <2>2. payload \in [1 .. length -> 0 .. MaxMessages] /\ received <= length
      BY MessageTypes DEF InProgress
    <2> QED BY <2>1, <2>2
  <1>2. Len(payload) = length
    BY <1>1
  <1>3. received + k <= length
    BY <1>1
  <1>4. Copied(k) = [i \in 1 .. length |->
                       IF i \in received + 1 .. received + k THEN incoming.number ELSE payload[i]]
    BY <1>1, <1>2, <1>3 DEF Copied
  <1>5. \A i \in 1 .. received : i \in 1 .. length /\ i \notin received + 1 .. received + k
    BY <1>1
  <1>6. \A i \in received + 1 .. received + k : i \in 1 .. length
    BY <1>1, <1>3
  <1>7. \A i \in 1 .. length : payload[i] \in 0 .. MaxMessages
    BY <1>1
  <1> QED BY <1>1, <1>4, <1>5, <1>6, <1>7

\* What the three outcomes of a piece have in common.
LEMMA PieceTaken ==
  ASSUME MessageInv, NEW k \in 0 .. MaxLength, IncomingPayload(k)
  PROVE  /\ MqttTypeOK /\ InProgress /\ Counting
         /\ incoming # None /\ incoming \in Message /\ incoming.left \in Nat
         /\ k \in Nat /\ k <= incoming.left
         /\ k = incoming.left => incoming' = None
         /\ k # incoming.left =>
              /\ incoming' \in Message /\ incoming'.left = incoming.left - k /\ incoming'.left > 0
              /\ incoming'.length = incoming.length /\ incoming'.number = incoming.number
              /\ incoming'.topic = incoming.topic /\ incoming'.expected = incoming.expected
         /\ UNCHANGED <<link, topics, length, topic, used, wifi, losses>>
  <1>1. MqttTypeOK /\ InProgress /\ Counting
    BY DEF MessageInv
  <1>2. incoming # None /\ UNCHANGED <<link, topics, length, topic, used, wifi, losses>>
    BY DEF IncomingPayload, wifiVars
  <1>3. incoming \in Message /\ incoming.left \in Nat /\ incoming.left <= MaxLength
    BY <1>1, <1>2, MessageTypes
  <1>4. k \in Nat /\ k <= incoming.left
    BY Sizes DEF IncomingPayload
  <1>5. k = incoming.left => incoming' = None
    BY DEF IncomingPayload
  <1>6. ASSUME k # incoming.left
        PROVE  /\ incoming' \in Message /\ incoming'.left = incoming.left - k /\ incoming'.left > 0
               /\ incoming'.length = incoming.length /\ incoming'.number = incoming.number
               /\ incoming'.topic = incoming.topic /\ incoming'.expected = incoming.expected
    <2>1. incoming' = [incoming EXCEPT !.left = incoming.left - k]
      BY <1>6 DEF IncomingPayload
    <2>2. PICK l \in 0 .. MaxLength : l = incoming.left - k /\ l > 0
      BY <1>3, <1>4, <1>6, Sizes
    <2>3. incoming' = [incoming EXCEPT !.left = l]
      BY <2>1, <2>2
    <2> QED BY <1>3, <2>2, <2>3 DEF Message
  <1> QED BY <1>1, <1>2, <1>3, <1>4, <1>5, <1>6

\* The bytes counted do not exceed the bytes announced.
LEMMA PieceCounted ==
  ASSUME MessageInv, NEW k \in 0 .. MaxLength, IncomingPayload(k),
         received' = received \/ received' = received + k
  PROVE  Counting' /\ received' \in 0 .. Word - 1 + MaxMessages * MaxLength
  <1>1. /\ MqttTypeOK /\ Counting /\ incoming # None /\ incoming.left \in Nat
        /\ k \in Nat /\ k <= incoming.left
        /\ k = incoming.left => incoming' = None
        /\ k # incoming.left => incoming'.left = incoming.left - k
        /\ used' = used
    BY PieceTaken
  <1>2. received \in Nat /\ used.messages \in Nat /\ used.messages <= MaxMessages
    BY <1>1, MessageTypes
  <1>3. Bytes(used.messages) \in Nat
    BY <1>2, BytesGrow
  <1>4. received + incoming.left <= Word - 1 + Bytes(used.messages)
    BY <1>1 DEF Counting
  <1>5. received' \in Nat /\ received' <= Word - 1 + Bytes(used.messages)
    BY <1>1, <1>2, <1>3, <1>4, Sizes
  <1>6. Counting'
    BY <1>1, <1>2, <1>3, <1>4, <1>5, Sizes DEF Counting
  <1>7. received' \in 0 .. Word - 1 + MaxMessages * MaxLength
    BY <1>2, <1>5, CountBounded
  <1> QED BY <1>6, <1>7

\* The subscriber is called, or there is none.
LEMMA CallTypes ==
  ASSUME MqttTypeOK, incoming \in Message, NEW buffer \in Buffers \cup {None}, Deliver(buffer)
  PROVE  /\ call' \in [topic : Topics, buffer : Buffers \cup {None}, message : Message] \cup {None}
         /\ crashed' \in BOOLEAN
         /\ call' = call \/ call' = [topic |-> topic, buffer |-> buffer, message |-> incoming]
         /\ crashed' => topic \notin topics
  <1>1. CASE topic \in topics
    <2>1. call' = [topic |-> topic, buffer |-> buffer, message |-> incoming] /\ crashed' = FALSE
      BY <1>1 DEF Deliver
    <2>2. topic \in Topics
      BY <1>1 DEF MqttTypeOK
    <2>3. call' \in [topic : Topics, buffer : Buffers \cup {None}, message : Message]
      BY <2>1, <2>2
    <2> QED BY <2>1, <2>3
  <1>2. CASE topic \notin topics
    <2>1. crashed' = TRUE /\ call' = call
      BY <1>2 DEF Deliver
    <2>2. call \in [topic : Topics, buffer : Buffers \cup {None}, message : Message] \cup {None}
      BY DEF MqttTypeOK
    <2> QED BY <1>2, <2>1, <2>2
  <1> QED BY <1>1, <1>2

\* What is handed to a subscriber is whole if the buffer is, or if there is none.
LEMMA CallIsWhole ==
  ASSUME NEW buffer, buffer # None => /\ topic = incoming.topic
                                      /\ buffer = [i \in 1 .. incoming.length |-> incoming.number],
         call' = call \/ call' = [topic |-> topic, buffer |-> buffer, message |-> incoming]
  PROVE  DeliveredBufferIsWhole => DeliveredBufferIsWhole'
  <1>1. CASE call' = call
    BY <1>1 DEF DeliveredBufferIsWhole
  <1>2. CASE call' = [topic |-> topic, buffer |-> buffer, message |-> incoming]
    <2>1. call'.topic = topic /\ call'.buffer = buffer /\ call'.message = incoming
      BY <1>2
    <2> QED BY <2>1 DEF DeliveredBufferIsWhole
  <1> QED BY <1>1, <1>2

PieceGood ==
  /\ MessageInv'
  /\ DeliveredBufferIsWhole => DeliveredBufferIsWhole'
  /\ ~ crashed /\ crashed' => ~ incoming.expected \/ incoming.topic \notin topics

\* A piece comes in.
LEMMA PieceStep ==
  ASSUME MessageInv, NEW k \in 0 .. MaxLength, IncomingPayload(k)
  PROVE  PieceGood
  <1>1. /\ MqttTypeOK /\ InProgress /\ Counting
        /\ incoming # None /\ incoming \in Message /\ incoming.left \in Nat
        /\ k \in Nat /\ k <= incoming.left
        /\ k = incoming.left => incoming' = None
        /\ k # incoming.left =>
             /\ incoming' \in Message /\ incoming'.left = incoming.left - k /\ incoming'.left > 0
             /\ incoming'.length = incoming.length /\ incoming'.number = incoming.number
             /\ incoming'.topic = incoming.topic /\ incoming'.expected = incoming.expected
        /\ UNCHANGED <<link, topics, length, topic, used, wifi, losses>>
    BY PieceTaken
  <1>2. /\ length \in Nat /\ received \in Nat /\ Remaining \in Nat
        /\ payload # None => Remaining = length - received
        /\ incoming.length \in Nat /\ incoming.left <= incoming.length
    BY <1>1, MessageTypes, Room DEF InProgress
  <1>t. ASSUME payload' \in Buffers \cup {None}, crashed' \in BOOLEAN,
               call' \in [topic : Topics, buffer : Buffers \cup {None}, message : Message] \cup {None},
               received' = received \/ received' = received + k
        PROVE  MqttTypeOK' /\ Counting'
    <2>1. Counting' /\ received' \in 0 .. Word - 1 + MaxMessages * MaxLength
      BY <1>t, PieceCounted
    <2>2. incoming' \in Message \cup {None}
      BY <1>1
    <2> QED BY <1>1, <1>t, <2>1, <2>2 DEF MqttTypeOK, WifiTypeOK
  \* Without a buffer, or with one that is too small: the message was not expected.
  <1>e. payload = None \/ ~ Fits(k) => ~ incoming.expected
    BY <1>1, <1>2 DEF InProgress, Fits
  <1>n. ASSUME payload' = None, ~ incoming.expected PROVE InProgress'
    <2>1. incoming' # None => ~ incoming'.expected
      BY <1>1, <1>n
    <2>2. incoming' # None => incoming'.left <= incoming'.length /\ incoming'.left # 0
      BY <1>1, <1>2
    <2> QED BY <1>n, <2>1, <2>2 DEF InProgress
  <1>3. CASE ~ Fits(k) /\ payload' = None /\ UNCHANGED <<received, call, crashed>>
    <2>1. MqttTypeOK' /\ Counting'
      BY <1>1, <1>3, <1>t DEF MqttTypeOK
    <2>2. InProgress'
      BY <1>3, <1>e, <1>n
    <2> QED BY <1>3, <2>1, <2>2 DEF PieceGood, MessageInv, DeliveredBufferIsWhole
  <1>4. CASE payload = None /\ crashed' = TRUE /\ UNCHANGED <<payload, received, call>>
    <2>1. MqttTypeOK' /\ Counting'
      BY <1>1, <1>4, <1>t DEF MqttTypeOK
    <2>2. InProgress' /\ ~ incoming.expected
      BY <1>4, <1>e, <1>n
    <2> QED BY <1>4, <2>1, <2>2 DEF PieceGood, MessageInv, DeliveredBufferIsWhole
  <1>5. CASE /\ payload = None /\ received' = received + k
             /\ IF k = incoming.left THEN Deliver(None) /\ payload' = None
                                     ELSE payload' = None /\ UNCHANGED <<call, crashed>>
    <2>1. /\ payload' = None /\ crashed' \in BOOLEAN
          /\ call' \in [topic : Topics, buffer : Buffers \cup {None}, message : Message] \cup {None}
          /\ call' = call \/ call' = [topic |-> topic, buffer |-> None, message |-> incoming]
      BY <1>1, <1>5, CallTypes DEF MqttTypeOK
    <2>2. MqttTypeOK' /\ Counting'
      BY <1>5, <1>t, <2>1
    <2>3. InProgress' /\ ~ incoming.expected
      BY <1>5, <1>e, <1>n, <2>1
    <2>4. DeliveredBufferIsWhole => DeliveredBufferIsWhole'
      BY <2>1, CallIsWhole
    <2> QED BY <2>2, <2>3, <2>4 DEF PieceGood, MessageInv
  <1>6. CASE /\ payload # None /\ Fits(k) /\ received' = received + k
             /\ IF k = incoming.left THEN Deliver(Copied(k)) /\ payload' = None
                                     ELSE payload' = Copied(k) /\ UNCHANGED <<call, crashed>>
    <2>1. /\ k <= length - received /\ received <= length /\ length <= MaxPayload
          /\ length \in 0 .. MaxPayload
      BY <1>1, <1>2, <1>6, Sizes DEF Fits, InProgress
    <2>2. /\ Copied(k) \in [1 .. length -> 0 .. MaxMessages]
          /\ \A i \in 1 .. received : Copied(k)[i] = payload[i]
          /\ \A i \in received + 1 .. received + k : Copied(k)[i] = incoming.number
      BY <1>1, <1>6, <2>1, CopiedIs
    <2>3. Copied(k) \in Buffers /\ Copied(k) # None
      BY <2>1, <2>2, BufferIsNoNull
    <2>4. ASSUME incoming.expected
          PROVE  /\ topic = incoming.topic /\ length = incoming.length
                 /\ received + incoming.left = length
                 /\ \A i \in 1 .. received + k : Copied(k)[i] = incoming.number
      <3>1. /\ topic = incoming.topic /\ length = incoming.length
            /\ received + incoming.left = length
            /\ \A i \in 1 .. received : payload[i] = incoming.number
        BY <1>1, <2>4 DEF InProgress
      <3>2. \A i \in 1 .. received + k : i \in 1 .. received \/ i \in received + 1 .. received + k
        BY <1>1, <1>2
      <3> QED BY <2>2, <3>1, <3>2
    <2>5. CASE k = incoming.left
      <3>1. incoming.expected
        BY <1>1, <1>2, <1>6, <2>1, <2>5 DEF InProgress
      <3>2. /\ payload' = None /\ crashed' \in BOOLEAN
            /\ call' \in [topic : Topics, buffer : Buffers \cup {None}, message : Message] \cup {None}
            /\ call' = call \/ call' = [topic |-> topic, buffer |-> Copied(k), message |-> incoming]
            /\ crashed' => topic \notin topics
        BY <1>1, <1>6, <2>3, <2>5, CallTypes
      <3>3. MqttTypeOK' /\ Counting'
        BY <1>6, <1>t, <3>2
      <3>4. InProgress'
        BY <1>1, <2>5, <3>2 DEF InProgress
      <3>5. Copied(k) = [i \in 1 .. incoming.length |-> incoming.number]
        <4>1. received + k = length /\ length = incoming.length
          BY <2>4, <2>5, <3>1
        <4>2. \A i \in 1 .. length : Copied(k)[i] = incoming.number
          BY <2>4, <3>1, <4>1
        <4> QED BY <2>2, <4>1, <4>2
      <3>6. DeliveredBufferIsWhole => DeliveredBufferIsWhole'
        <4>1. PICK buffer : buffer = Copied(k)
          OBVIOUS
        <4>2. call' = call \/ call' = [topic |-> topic, buffer |-> buffer, message |-> incoming]
          BY <3>2, <4>1
        <4>3. topic = incoming.topic /\ buffer = [i \in 1 .. incoming.length |-> incoming.number]
          BY <2>4, <3>1, <3>5, <4>1
        <4> QED BY <4>2, <4>3, CallIsWhole
      <3>7. crashed' => incoming.topic \notin topics
        BY <2>4, <3>1, <3>2
      <3> QED BY <3>3, <3>4, <3>6, <3>7 DEF PieceGood, MessageInv
    <2>6. CASE k # incoming.left
      <3>1. payload' = Copied(k) /\ UNCHANGED <<call, crashed>>
        BY <1>6, <2>6
      <3>2. MqttTypeOK' /\ Counting'
        BY <1>1, <1>6, <1>t, <2>3, <3>1 DEF MqttTypeOK
      <3>3. /\ length' = length /\ received' <= length /\ payload' \in [1 .. length -> 0 .. MaxMessages]
        BY <1>1, <1>2, <1>6, <2>1, <2>2, <3>1
      <3>4. incoming'.left <= incoming'.length /\ incoming'.left # 0
        BY <1>1, <1>2, <2>6
      <3>5. ASSUME incoming'.expected
            PROVE  /\ payload' # None /\ topic' = incoming'.topic
                   /\ length' = incoming'.length /\ received' + incoming'.left = length'
                   /\ \A i \in 1 .. received' : payload'[i] = incoming'.number
        <4>1. incoming.expected
          BY <1>1, <2>6, <3>5
        <4>2. received' + incoming'.left = length
          <5>1. incoming.left \in Nat /\ k \in Nat /\ incoming'.left = incoming.left - k
            BY <1>1, <2>6
          <5>2. received + incoming.left = length /\ received' = received + k /\ received \in Nat
            BY <1>2, <1>6, <2>4, <4>1
          <5> QED BY <5>1, <5>2
        <4> QED BY <1>1, <1>6, <2>3, <2>4, <2>6, <3>1, <4>1, <4>2
      <3>6. ASSUME ~ incoming'.expected PROVE incoming'.left > length' - received'
        <4>1. ~ incoming.expected
          BY <1>1, <2>6, <3>6
        <4>2. incoming.left > length - received
          BY <1>1, <1>6, <4>1 DEF InProgress
        <4> QED BY <1>1, <1>2, <1>6, <2>6, <4>2
      <3>7. InProgress'
        BY <2>1, <3>3, <3>4, <3>5, <3>6 DEF InProgress
      <3> QED BY <3>1, <3>2, <3>7 DEF PieceGood, MessageInv, DeliveredBufferIsWhole
    <2> QED BY <2>5, <2>6
  <1>7. \/ ~ Fits(k) /\ payload' = None /\ UNCHANGED <<received, call, crashed>>
        \/ payload = None /\ crashed' = TRUE /\ UNCHANGED <<payload, received, call>>
        \/ /\ Fits(k) /\ received' = received + k
           /\ LET buffer == IF payload = None THEN None ELSE Copied(k)
              IN  IF k = incoming.left THEN Deliver(buffer) /\ payload' = None
                                       ELSE payload' = buffer /\ UNCHANGED <<call, crashed>>
    BY DEF IncomingPayload
  <1> QED BY <1>3, <1>4, <1>5, <1>6, <1>7

\* Steps that leave the buffer alone: lwIP says nothing, or that the rest of the
\* message will not come.
LEMMA NoPieceStep ==
  ASSUME MessageInv, UNCHANGED <<payload, length, received, topic, call, crashed>>,
         incoming' = incoming \/ incoming' = None,
         topics' \subseteq Topics, link' \in {"down", "connecting", "up"}, WifiTypeOK',
         used' = used \/ (used.drops < MaxDrops /\ used' = [used EXCEPT !.drops = @ + 1])
  PROVE  MessageInv' /\ (DeliveredBufferIsWhole => DeliveredBufferIsWhole')
  <1>0. MqttTypeOK /\ InProgress /\ Counting
    BY DEF MessageInv
  <1>1. /\ received \in Nat /\ used.messages \in Nat
        /\ incoming # None => incoming.left \in Nat
    BY <1>0, MessageTypes
  <1>2. /\ used' \in [messages : 0 .. MaxMessages, drops : 0 .. MaxDrops]
        /\ used'.messages = used.messages
    BY <1>0, Sizes DEF MqttTypeOK
  <1>3. MqttTypeOK'
    BY <1>0, <1>2 DEF MqttTypeOK
  <1>4. InProgress'
    BY <1>0 DEF InProgress
  <1>5. Counting'
    BY <1>0, <1>1, <1>2, BytesGrow, Sizes DEF Counting
  <1>6. DeliveredBufferIsWhole => DeliveredBufferIsWhole'
    BY DEF DeliveredBufferIsWhole
  <1> QED BY <1>3, <1>4, <1>5, <1>6 DEF MessageInv

MqttGood ==
  /\ MessageInv'
  /\ DeliveredBufferIsWhole => DeliveredBufferIsWhole'
  /\ ~ crashed /\ crashed' => ~ incoming.expected \/ incoming.topic \notin topics

LEMMA WifiTypes ==
  ASSUME WifiTypeOK, WifiNext
  PROVE  WifiTypeOK'
  BY Sizes DEF WifiTypeOK, WifiStatus, WifiNext, WifiWatchdog, WifiJoined, GotAddress, WifiLoses, Lost

LEMMA MqttStep ==
  ASSUME MessageInv, MqttNext
  PROVE  MqttGood
  <1>0. /\ MqttTypeOK /\ WifiTypeOK /\ topics \subseteq Topics
        /\ link \in {"down", "connecting", "up"}
    BY DEF MessageInv, MqttTypeOK
  <1>1. CASE Wifi(WifiNext)
    <2>1. WifiTypeOK' /\ UNCHANGED <<link, topics, inbound, used>>
      BY <1>0, <1>1, WifiTypes DEF Wifi
    <2> QED BY <1>0, <2>1, NoPieceStep DEF inbound, MqttGood
  <1>2. CASE MqttWatchdog \/ ConnectAccepted
    <2>1. link' \in {"down", "connecting", "up"} /\ UNCHANGED <<topics, inbound, used, wifiVars>>
      BY <1>2 DEF MqttWatchdog, ConnectAccepted
    <2>2. WifiTypeOK'
      BY <1>0, <2>1 DEF WifiTypeOK, wifiVars
    <2> QED BY <1>0, <2>1, <2>2, NoPieceStep DEF inbound, MqttGood
  <1>3. CASE ConnectFails \/ Disconnect
    <2>1. /\ link' = "down" /\ UNCHANGED <<topics, payload, length, received, topic, call, crashed, wifiVars>>
          /\ incoming' = incoming \/ incoming' = None
          /\ used' = used \/ (used.drops < MaxDrops /\ used' = [used EXCEPT !.drops = @ + 1])
      BY <1>3 DEF ConnectFails, Disconnect, Breaks, inbound
    <2>2. WifiTypeOK'
      BY <1>0, <2>1 DEF WifiTypeOK, wifiVars
    <2> QED BY <1>0, <2>1, <2>2, NoPieceStep DEF MqttGood
  <1>4. ASSUME NEW t \in Topics, NEW len \in 0 .. MaxLength, IncomingPublish(t, len)
        PROVE  MqttGood
    <2>1. call' = None /\ crashed' = crashed
      BY <1>4 DEF IncomingPublish
    <2> QED BY <1>4, <2>1, AnnounceStep DEF MqttGood, DeliveredBufferIsWhole
  <1>5. ASSUME NEW k \in 0 .. MaxLength, IncomingPayload(k)
        PROVE  MqttGood
    BY <1>5, PieceStep DEF PieceGood, MqttGood
  <1> QED BY <1>1, <1>2, <1>3, <1>4, <1>5 DEF MqttNext

-----------------------------------------------------------------------------
(***************************************************************************)
(* Devices.  A flag is only taken away by a publish that succeeded, by one *)
(* there was no need for, or with the device; and there stays no need for  *)
(* it, since a primary remote goes with its blind and with no other.       *)
(***************************************************************************)
DeviceTypes ==
  /\ topics \subseteq Devices
  /\ flagged \subseteq topics /\ scheduled \subseteq topics /\ published \subseteq topics
  /\ republish \in BOOLEAN /\ noticed \in BOOLEAN
  /\ gone \subseteq Devices \ topics
  /\ changes \in 0 .. MaxChanges

Complete(D) == \A d \in D : Together(d) \subseteq D

DeviceInv == DeviceTypes /\ Complete(topics) /\ UnflaggedIsPublished

LEMMA DevicesAre ==
  /\ Devices = Remotes \cup Blinds /\ Devices \subseteq Nat /\ Topics = Devices
  /\ \A b \in Blinds : PrimaryOf[b] \in Remotes
  /\ \A a, b \in Blinds : PrimaryOf[a] = PrimaryOf[b] => a = b
  /\ \A r \in Remotes : r \notin Blinds
  /\ \A d \in Devices : d \in Together(d) /\ Together(d) \subseteq Devices
  <1>1. /\ Devices = Remotes \cup Blinds /\ Devices \subseteq Nat /\ Topics = Devices
        /\ \A b \in Blinds : PrimaryOf[b] \in Remotes
        /\ \A a, b \in Blinds : PrimaryOf[a] = PrimaryOf[b] => a = b
        /\ \A r \in Remotes, b \in Blinds : r < b
    BY DiscoveryAssumption DEF Devices
  <1>2. \A r \in Remotes : r \notin Blinds
    BY <1>1
  <1> QED BY <1>1, <1>2 DEF Together

\* The least of the devices that wait is one of them.
LEMMA MinWaits ==
  ASSUME NEW D \in SUBSET Nat, D # {}
  PROVE  Min(D) \in D
  <1> DEFINE Less == OpToRel(<, Nat)
  <1>1. IsWellFoundedOn(Less, Nat)
    BY NatLessThanWellFounded
  <1>2. \E x \in D : \A y \in D : ~ (<<y, x>> \in Less)
    BY <1>1, WFMin, Zenon
  <1>3. PICK x \in D : \A y \in D : ~ (<<y, x>> \in Less)
    BY <1>2, Zenon
  <1>n. \A m, n \in Nat : m < n => <<m, n>> \in Less
    BY DEF OpToRel
  <1>m. x \in Nat /\ \A y \in D : y \in Nat
    BY <1>3
  <1> HIDE DEF Less
  <1>5. \A y \in D : ~ (y < x)
    BY <1>3, <1>n, <1>m
  <1>4. \A y \in D : x <= y
    BY <1>5, <1>m
  <1> QED BY <1>4 DEF Min

LEMMA RenameStep ==
  ASSUME DeviceInv, NEW d \in Devices, Rename(d)
  PROVE  DeviceInv'
  <1>1. /\ DeviceTypes /\ Complete(topics) /\ UnflaggedIsPublished
        /\ Together(d) \subseteq topics
    BY DEF DeviceInv, Complete, Rename
  <1>2. /\ topics' = topics /\ changes < MaxChanges /\ changes' = changes + 1
        /\ flagged' = flagged \cup Together(d) /\ scheduled' = scheduled \cup Together(d)
        /\ published' = published \ Together(d)
        /\ UNCHANGED <<republish, noticed, gone>>
    BY DEF Rename, Counted, TriggerPublishDiscovery, FlaggedToo, mqttVars
  <1>3. DeviceTypes'
    BY <1>1, <1>2, Sizes DEF DeviceTypes
  <1>4. UnflaggedIsPublished'
    BY <1>1, <1>2 DEF UnflaggedIsPublished, Announced, IsAPrimaryRemote
  <1> QED BY <1>1, <1>2, <1>3, <1>4 DEF DeviceInv, Complete

LEMMA AddStep ==
  ASSUME DeviceInv, NEW d \in Devices, Add(d)
  PROVE  DeviceInv'
  <1>1. /\ DeviceTypes /\ Complete(topics) /\ UnflaggedIsPublished
        /\ Together(d) \subseteq Devices
    BY DevicesAre DEF DeviceInv
  <1>2. /\ topics' = topics \cup Together(d) /\ changes < MaxChanges /\ changes' = changes + 1
        /\ flagged' = flagged \cup Together(d) /\ scheduled' = scheduled \cup Together(d)
        /\ Together(d) \cap (topics \cup gone) = {}
        /\ UNCHANGED <<republish, noticed, gone, published>>
    BY DEF Add, Counted, TriggerPublishDiscovery, FlaggedToo
  <1>3. DeviceTypes'
    BY <1>1, <1>2, Sizes DEF DeviceTypes
  <1>4. Complete(topics)'
    <2>1. \A e \in Together(d) : Together(e) \subseteq Together(d)
      BY DevicesAre DEF Together
    <2> QED BY <1>1, <1>2, <2>1 DEF Complete
  <1>5. UnflaggedIsPublished'
    <2> SUFFICES ASSUME NEW e \in topics' \ flagged', Announced(e)'
                 PROVE  e \in published'
      BY DEF UnflaggedIsPublished
    <2>1. e \in topics \ flagged
      BY <1>2
    <2>2. Announced(e)
      BY <1>2 DEF Announced, IsAPrimaryRemote
    <2> QED BY <1>1, <1>2, <2>1, <2>2 DEF UnflaggedIsPublished
  <1> QED BY <1>3, <1>4, <1>5 DEF DeviceInv

LEMMA DeleteStep ==
  ASSUME DeviceInv, NEW d \in Devices, Delete(d)
  PROVE  DeviceInv'
  <1>1. /\ DeviceTypes /\ Complete(topics) /\ UnflaggedIsPublished
        /\ Together(d) \subseteq topics
    BY DEF DeviceInv, Complete, Delete
  <1>2. /\ topics' = topics \ Together(d) /\ changes < MaxChanges /\ changes' = changes + 1
        /\ flagged' = flagged \ Together(d) /\ scheduled' = scheduled \ Together(d)
        /\ published' = published \ Together(d) /\ gone' = gone \cup Together(d)
        /\ d \in topics /\ ~ IsAPrimaryRemote(d)
        /\ UNCHANGED <<republish, noticed>>
    BY DEF Delete, Counted, WorkGoes
  <1>3. DeviceTypes'
    BY <1>1, <1>2, Sizes DEF DeviceTypes
  <1>4. Complete(topics)'
    <2> SUFFICES ASSUME NEW e \in topics' PROVE Together(e) \subseteq topics'
      BY DEF Complete
    <2>1. Together(e) \subseteq topics /\ e \in topics /\ e \notin Together(d)
      BY <1>1, <1>2 DEF Complete
    <2>2. ASSUME e \in Blinds PROVE PrimaryOf[e] \notin Together(d)
      <3>1. PrimaryOf[e] # d
        BY <1>2, <2>1, <2>2 DEF IsAPrimaryRemote
      <3>2. d \in Blinds => PrimaryOf[e] # PrimaryOf[d]
        BY <2>1, <2>2, DevicesAre
      <3> QED BY <3>1, <3>2 DEF Together
    <2> QED BY <1>2, <2>1, <2>2 DEF Together
  <1>5. UnflaggedIsPublished'
    <2> SUFFICES ASSUME NEW e \in topics' \ flagged', Announced(e)'
                 PROVE  e \in published'
      BY DEF UnflaggedIsPublished
    <2>1. e \in topics \ flagged /\ e \notin Together(d)
      BY <1>2
    <2>2. \A b \in Blinds \cap topics : PrimaryOf[b] = e => b \in topics'
      <3> SUFFICES ASSUME NEW b \in Blinds \cap topics, PrimaryOf[b] = e, b \in Together(d)
                   PROVE  FALSE
        BY <1>2
      <3>1. b = d
        BY DevicesAre DEF Together
      <3> QED BY <2>1, <3>1 DEF Together
    <2>3. Announced(e)
      BY <2>2 DEF Announced, IsAPrimaryRemote
    <2> QED BY <1>1, <1>2, <2>1, <2>3 DEF UnflaggedIsPublished
  <1> QED BY <1>3, <1>4, <1>5 DEF DeviceInv

LEMMA WorkStep ==
  ASSUME DeviceInv, NEW d \in Devices, PublishFails(d) \/ NothingToPublish(d) \/ PublishSucceeds(d)
  PROVE  DeviceInv'
  <1>1. /\ DeviceTypes /\ Complete(topics) /\ UnflaggedIsPublished
    BY DEF DeviceInv
  <1>2. /\ topics' = topics /\ scheduled' = scheduled \ {d} /\ d \in scheduled
        /\ UNCHANGED <<republish, noticed, gone, changes>>
        /\ \/ flagged' = flagged /\ published' = published
           \/ flagged' = flagged \ {d} /\ published' = published /\ ~ Announced(d)
           \/ flagged' = flagged \ {d} /\ published' = published \cup {d}
    BY DEF PublishFails, NothingToPublish, PublishSucceeds, Works, mqttVars
  <1>3. DeviceTypes'
    BY <1>1, <1>2 DEF DeviceTypes
  <1>4. UnflaggedIsPublished'
    BY <1>1, <1>2 DEF UnflaggedIsPublished, Announced, IsAPrimaryRemote
  <1> QED BY <1>1, <1>2, <1>3, <1>4 DEF DeviceInv, Complete

LEMMA TimerStep ==
  ASSUME DeviceInv, RepublishTimer \/ Poll
  PROVE  DeviceInv'
  <1>1. /\ DeviceTypes /\ Complete(topics) /\ UnflaggedIsPublished
    BY DEF DeviceInv
  <1>2. /\ UNCHANGED <<topics, gone, changes, published>>
        /\ republish' \in BOOLEAN /\ noticed' \in BOOLEAN
    BY <1>1 DEF RepublishTimer, Poll, RepublishAgain, mqttVars, DeviceTypes
  <1>3. flagged \subseteq flagged' /\ flagged' \subseteq topics /\ scheduled' \subseteq topics
    <2>1. CASE Poll \/ flagged = {}
      BY <1>1, <2>1 DEF Poll, RepublishTimer, DeviceTypes
    <2>2. CASE RepublishTimer /\ flagged # {}
      <3>1. flagged \in SUBSET Nat
        BY <1>1, DevicesAre DEF DeviceTypes
      <3>2. Min(flagged) \in flagged
        BY <2>2, <3>1, MinWaits
      <3>3. flagged' = flagged \cup {Min(flagged)} /\ scheduled' = scheduled \cup {Min(flagged)}
        BY <2>2 DEF RepublishTimer, TriggerPublishDiscovery, FlaggedToo
      <3> QED BY <1>1, <3>2, <3>3 DEF DeviceTypes
    <2> QED BY <2>1, <2>2
  <1>4. DeviceTypes'
    BY <1>1, <1>2, <1>3 DEF DeviceTypes
  <1>5. UnflaggedIsPublished'
    BY <1>1, <1>2, <1>3 DEF UnflaggedIsPublished, Announced, IsAPrimaryRemote
  <1> QED BY <1>1, <1>2, <1>4, <1>5 DEF DeviceInv, Complete

-----------------------------------------------------------------------------
(* Both together *)

IInv == MessageInv /\ DeliveredBufferIsWhole /\ DeviceInv

CrashIsUnexpected ==
  ~ crashed /\ crashed' => ~ incoming.expected \/ incoming.topic \notin topics

LEMMA InitIInv == Init => IInv
  <1> SUFFICES ASSUME Init PROVE IInv
    OBVIOUS
  <1>1. /\ topics \subseteq Devices /\ Complete(topics)
        /\ flagged = topics /\ scheduled = topics /\ published = {} /\ gone = {}
        /\ republish = FALSE /\ noticed = FALSE /\ changes = 0
    BY DEF Init, Complete
  <1>2. DeviceInv
    <2>1. DeviceTypes
      <3>1. changes \in 0 .. MaxChanges
        BY <1>1, Sizes
      <3>2. /\ flagged \subseteq topics /\ scheduled \subseteq topics
            /\ published \subseteq topics /\ gone \subseteq Devices \ topics
        BY <1>1
      <3>3. republish \in BOOLEAN /\ noticed \in BOOLEAN
        BY <1>1
      <3> QED BY <1>1, <3>1, <3>2, <3>3 DEF DeviceTypes
    <2>2. UnflaggedIsPublished
      BY <1>1 DEF UnflaggedIsPublished
    <2> QED BY <1>1, <2>1, <2>2 DEF DeviceInv
  <1>3. /\ wifi \in {"failed", "up"} /\ losses = 0 /\ link = "down"
        /\ payload = None /\ length \in 0 .. Word - 1 /\ received \in 0 .. Word - 1
        /\ topic = None /\ incoming = None /\ call = None /\ crashed = FALSE
        /\ used = [messages |-> 0, drops |-> 0]
    BY Sizes DEF Init, MqttInit, WifiInit
  <1>4. Bytes(0) \in Nat /\ MaxMessages * MaxLength \in Nat
    BY BytesGrow, Sizes
  <1>5. MqttTypeOK
    <2>1. received \in 0 .. Word - 1 + MaxMessages * MaxLength
      BY <1>3, <1>4, Sizes
    <2>2. used \in [messages : 0 .. MaxMessages, drops : 0 .. MaxDrops]
      BY <1>3, Sizes
    <2>3. topics \subseteq Topics
      BY <1>1, DevicesAre
    <2>4. WifiTypeOK
      BY <1>3, Sizes DEF WifiTypeOK, WifiStatus
    <2> QED BY <1>3, <2>1, <2>2, <2>3, <2>4 DEF MqttTypeOK
  <1>6. InProgress /\ DeliveredBufferIsWhole
    BY <1>3 DEF InProgress, DeliveredBufferIsWhole
  <1>7. Counting
    <2>1. used.messages = 0 /\ received \in Nat /\ received <= Word - 1
      BY <1>3, Sizes
    <2> QED BY <1>3, <1>4, <2>1, Sizes DEF Counting
  <1> QED BY <1>2, <1>5, <1>6, <1>7 DEF IInv, MessageInv

LEMMA StepIInv == IInv /\ [Next]_vars => IInv' /\ CrashIsUnexpected
  <1> SUFFICES ASSUME IInv, [Next]_vars PROVE IInv' /\ CrashIsUnexpected
    OBVIOUS
  <1>0. /\ MessageInv /\ DeliveredBufferIsWhole /\ DeviceInv
        /\ WifiTypeOK /\ link \in {"down", "connecting", "up"}
        /\ topics \subseteq Topics
    BY DEF IInv, MessageInv, MqttTypeOK
  \* A step of the devices, as the connection sees it.
  <1>d. ASSUME DeviceInv', UNCHANGED <<link, inbound, used, wifiVars>>
        PROVE  IInv' /\ CrashIsUnexpected
    <2>1. /\ UNCHANGED <<link, payload, length, received, topic, call, crashed, incoming, used>>
          /\ UNCHANGED <<wifi, losses>>
      BY <1>d DEF inbound, wifiVars
    <2>2. topics' \subseteq Topics
      BY <1>d, DevicesAre DEF DeviceInv, DeviceTypes
    <2>3. WifiTypeOK' /\ link' \in {"down", "connecting", "up"}
      BY <1>0, <2>1 DEF WifiTypeOK
    <2>4. MessageInv' /\ DeliveredBufferIsWhole'
      BY <1>0, <2>1, <2>2, <2>3, NoPieceStep
    <2> QED BY <1>d, <2>1, <2>4 DEF IInv, CrashIsUnexpected
  <1>1. CASE Alone(MqttNext)
    <2>1. MqttGood /\ UNCHANGED discoveryVars
      BY <1>0, <1>1, MqttStep DEF Alone
    <2>2. topics' = topics
      BY <1>1 DEF Alone, MqttNext, Wifi, MqttWatchdog, ConnectAccepted, ConnectFails, Disconnect,
                  IncomingPublish, IncomingPayload
    <2>3. DeviceInv'
      BY <1>0, <2>1, <2>2 DEF discoveryVars, DeviceInv, DeviceTypes, Complete, UnflaggedIsPublished,
                              Announced, IsAPrimaryRemote
    <2> QED BY <1>0, <2>1, <2>3 DEF MqttGood, IInv, CrashIsUnexpected
  <1>2. ASSUME NEW d \in Devices, Rename(d) \/ Add(d) \/ Delete(d)
        PROVE  IInv' /\ CrashIsUnexpected
    <2>1. DeviceInv'
      BY <1>0, <1>2, RenameStep, AddStep, DeleteStep
    <2>2. UNCHANGED <<link, inbound, used, wifiVars>>
      BY <1>2 DEF Rename, Add, Delete, mqttVars
    <2> QED BY <1>d, <2>1, <2>2
  <1>3. ASSUME NEW d \in Devices, PublishFails(d) \/ NothingToPublish(d) \/ PublishSucceeds(d)
        PROVE  IInv' /\ CrashIsUnexpected
    <2>1. DeviceInv'
      BY <1>0, <1>3, WorkStep
    <2>2. UNCHANGED <<link, inbound, used, wifiVars>>
      BY <1>3 DEF PublishFails, NothingToPublish, PublishSucceeds, Works, mqttVars
    <2> QED BY <1>d, <2>1, <2>2
  <1>4. CASE RepublishTimer \/ Poll
    <2>1. DeviceInv'
      BY <1>0, <1>4, TimerStep
    <2>2. UNCHANGED <<link, inbound, used, wifiVars>>
      BY <1>4 DEF RepublishTimer, Poll, mqttVars
    <2> QED BY <1>d, <2>1, <2>2
  <1>5. CASE UNCHANGED vars
    <2>1. UNCHANGED <<link, inbound, used, wifiVars, topics, discoveryVars>>
      BY <1>5 DEF vars, mqttVars
    <2>2. DeviceInv'
      BY <1>0, <2>1 DEF discoveryVars, DeviceInv, DeviceTypes, Complete, UnflaggedIsPublished,
                        Announced, IsAPrimaryRemote
    <2> QED BY <1>d, <2>1, <2>2
  <1> QED BY <1>1, <1>2, <1>3, <1>4, <1>5 DEF Next

LEMMA Invariance == Spec => []IInv
  BY InitIInv, StepIInv, PTL DEF Spec

\* Every variable keeps its type: nothing waits, is flagged or counts as
\* published but the devices that there are, and deleted ones do not come back.
THEOREM TypeCorrect == Spec => []TypeOK
  <1>1. IInv => TypeOK
    BY DEF IInv, MessageInv, DeviceInv, DeviceTypes, TypeOK
  <1> QED BY <1>1, Invariance, PTL

\* A subscriber gets whole messages of its own topic (IncomingPublishCallback,
\* IncomingPayloadCallback), whatever the sizes of messages, pieces and buffer.
THEOREM BuffersAreWhole == Spec => []DeliveredBufferIsWhole
  <1>1. IInv => DeliveredBufferIsWhole
    BY DEF IInv
  <1> QED BY <1>1, Invariance, PTL

\* Nothing but a message that was not expected, or whose subscriber has gone in
\* the meantime, stops the device.
THEOREM OnlyUnexpectedCrashes == Spec => CrashesOnlyOnUnexpected
  <1>1. IInv /\ [Next]_vars =>
          [~ crashed /\ crashed' => ~ incoming.expected \/ incoming.topic \notin topics]_mqttVars
    BY StepIInv DEF CrashIsUnexpected
  <1> QED BY <1>1, Invariance, PTL DEF Spec, CrashesOnlyOnUnexpected

\* A device without its flag was announced as it is (PublishDiscovery,
\* TriggerPublishDiscovery), for any number of devices and any losses.
THEOREM FlagsTellTheTruth == Spec => []UnflaggedIsPublished
  <1>1. IInv => UnflaggedIsPublished
    BY DEF IInv, DeviceInv
  <1> QED BY <1>1, Invariance, PTL
=============================================================================
