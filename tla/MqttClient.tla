----------------------------- MODULE MqttClient -----------------------------
(***************************************************************************)
(* MqttClient: the connection to the broker, and how a message that lwIP   *)
(* hands over in pieces reaches the subscriber of its topic.               *)
(*                                                                         *)
(* lwIP announces a message by its topic and length (IncomingPublish) and  *)
(* then passes pieces of it on (IncomingPayload); in between anything else *)
(* may run on core 0, and the connection may break.  What a buffer holds   *)
(* is told by the number of the message each byte came with.               *)
(***************************************************************************)
EXTENDS WifiConnection, Sequences

CONSTANTS
  Topics,       \* topics somebody may subscribe to; all match a wildcard
  None,
  MaxPayload,   \* 2048
  Word,         \* 2^32
  Leftover,     \* what uninitialised words may hold
  MaxLength,    \* bound: the longest message
  MaxMessages,  \* bound: messages
  MaxDrops      \* bound: broken connections

Buffers == UNION {[1 .. n -> 0 .. MaxMessages] : n \in 0 .. MaxPayload}

ASSUME MqttClientAssumption ==
  /\ MaxPayload \in Nat /\ MaxLength \in Nat /\ Word \in Nat
  /\ MaxPayload < Word /\ Leftover \subseteq 0 .. Word - 1
  /\ MaxMessages \in Nat /\ MaxDrops \in Nat
  /\ None \notin Topics \cup Buffers

VARIABLES
  link,      \* "down", "connecting", "up"
  topics,    \* the domain of _topicCallbacks
  payload,   \* _payload, None for a null pointer
  length,    \* _payloadLength
  received,  \* _payloadReceived
  topic,     \* _currentTopic
  incoming,  \* what lwIP is handing over
  call,      \* history: the call of a subscriber for the last message
  crashed,
  used       \* bounds: messages and broken connections so far

inbound  == <<payload, length, received, topic, incoming, call, crashed>>
mqttVars == <<link, topics, inbound, used, wifiVars>>

MqttInit ==
  /\ WifiInit
  /\ link = "down"
  /\ payload = None
  /\ length \in Leftover /\ received \in Leftover   \* the constructor leaves them
  /\ topic = None
  /\ incoming = None
  /\ call = None
  /\ crashed = FALSE
  /\ used = [messages |-> 0, drops |-> 0]

-----------------------------------------------------------------------------
(* The connection *)

\* MqttWatchdog with DoConnect.  lwIP refuses to connect a client that is
\* connecting already; then, and without Wi-Fi, nothing changes.
MqttWatchdog ==
  /\ ~ crashed
  /\ IsConnected
  /\ link = "down"
  /\ link' = "connecting"
  /\ UNCHANGED <<topics, inbound, used, wifiVars>>

\* ConnectionCallback
ConnectAccepted ==
  /\ ~ crashed
  /\ link = "connecting" /\ IsConnected
  /\ link' = "up"
  /\ UNCHANGED <<topics, inbound, used, wifiVars>>

\* A connection breaks, or none is made: without Wi-Fi that is only a question
\* of time, and the broker may do it too.
Breaks ==
  \/ ~ IsConnected /\ UNCHANGED used
  \/ IsConnected /\ used.drops < MaxDrops /\ used' = [used EXCEPT !.drops = @ + 1]

ConnectFails ==
  /\ ~ crashed
  /\ link = "connecting" /\ Breaks
  /\ link' = "down"
  /\ UNCHANGED <<topics, inbound, wifiVars>>

\* The rest of a message is never handed over, and its buffer stays.
Disconnect ==
  /\ ~ crashed
  /\ link = "up" /\ Breaks
  /\ link' = "down"
  /\ incoming' = None
  /\ UNCHANGED <<topics, payload, length, received, topic, call, crashed, wifiVars>>

-----------------------------------------------------------------------------
(* Messages *)

\* Mutation: the buffer of a message that was cut short is kept.
BufferKept == payload

BufferDropped == None

\* Mutation: the topic of the message before is kept.
TopicKept(t) == topic

CurrentTopic(t) == t

Expected(t, len) == t \in topics /\ len <= MaxPayload

\* IncomingPublishCallback.  A message that is too long leaves everything as it
\* is.
IncomingPublish(t, len) ==
  /\ ~ crashed
  /\ link = "up" /\ IsConnected
  /\ incoming = None /\ used.messages < MaxMessages
  /\ used' = [used EXCEPT !.messages = @ + 1]
  /\ incoming' = [topic |-> t, length |-> len, left |-> len, number |-> used.messages + 1,
                expected |-> Expected(t, len)]
  /\ \/ /\ t \notin topics
        /\ payload' = BufferDropped
        /\ UNCHANGED <<length, received, topic>>
     \/ /\ t \in topics /\ len > MaxPayload
        /\ UNCHANGED <<payload, length, received, topic>>
     \/ /\ Expected(t, len)
        /\ payload' = [i \in 1 .. len |-> 0]
        /\ length' = len /\ received' = 0 /\ topic' = CurrentTopic(t)
  /\ call' = None
  /\ UNCHANGED <<link, topics, crashed, wifiVars>>

Remaining == (length - received) % Word

\* Mutation: one byte more than there is room for.
FitsAndOneMore(k) == k <= Remaining + 1

Fits(k) == k <= Remaining

Copied(k) ==
  [i \in 1 .. IF received + k > Len(payload) THEN received + k ELSE Len(payload) |->
     IF i \in received + 1 .. received + k THEN incoming.number ELSE payload[i]]

\* The subscriber gets the buffer.  An unknown topic is entered into the table
\* with an empty function, and calling that throws.
Deliver(buffer) ==
  IF topic \in topics
    THEN /\ call' = [topic |-> topic, buffer |-> buffer, message |-> incoming]
         /\ crashed' = FALSE
    ELSE /\ crashed' = TRUE
         /\ UNCHANGED call

\* IncomingPayloadCallback with k bytes of what is left; only an empty message
\* has an empty piece.  After "Ignoring ... unexpected payload" the code goes on
\* with its null pointer: what it writes there is lost, or the device faults.
IncomingPayload(k) ==
  /\ ~ crashed
  /\ IsConnected
  /\ incoming # None
  /\ k <= incoming.left /\ (k = 0 => incoming.left = 0)
  /\ incoming' = IF k = incoming.left THEN None ELSE [incoming EXCEPT !.left = @ - k]
  /\ \/ /\ ~ Fits(k)
        /\ payload' = None
        /\ UNCHANGED <<received, call, crashed>>
     \/ /\ Fits(k) /\ payload = None /\ k > 0
        /\ crashed' = TRUE
        /\ UNCHANGED <<payload, received, call>>
     \/ /\ Fits(k)
        /\ received' = received + k
        /\ LET buffer == IF payload = None THEN None ELSE Copied(k)
           IN  IF k = incoming.left
                 THEN Deliver(buffer) /\ payload' = None
                 ELSE payload' = buffer /\ UNCHANGED <<call, crashed>>
  /\ UNCHANGED <<link, topics, length, topic, used, wifiVars>>

Wifi(A) == A /\ ~ crashed /\ UNCHANGED <<link, topics, inbound, used>>

MqttNext ==
  \/ Wifi(WifiNext)
  \/ MqttWatchdog \/ ConnectAccepted \/ ConnectFails \/ Disconnect
  \/ \E t \in Topics, len \in 0 .. MaxLength : IncomingPublish(t, len)
  \/ \E k \in 0 .. MaxLength : IncomingPayload(k)

-----------------------------------------------------------------------------
Message == [topic : Topics, length : 0 .. MaxLength, left : 0 .. MaxLength,
            number : 1 .. MaxMessages, expected : BOOLEAN]

MqttTypeOK ==
  /\ WifiTypeOK
  /\ link \in {"down", "connecting", "up"}
  /\ topics \subseteq Topics
  /\ payload \in Buffers \cup {None}
  /\ length \in 0 .. Word - 1
  /\ received \in 0 .. Word - 1 + MaxMessages * MaxLength
  /\ topic \in Topics \cup {None}
  /\ incoming \in Message \cup {None}
  /\ call \in [topic : Topics, buffer : Buffers \cup {None}, message : Message] \cup {None}
  /\ crashed \in BOOLEAN
  /\ used \in [messages : 0 .. MaxMessages, drops : 0 .. MaxDrops]

\* Wi-Fi, and then the broker, are there again and again, however the one or the
\* other was lost: the two timers have no state to be stuck in.
Reconnects == []<>(link = "up" \/ crashed)

\* A buffer that a subscriber gets is the whole message that lwIP has just
\* completed, and it was sent to the subscriber's topic, whatever was cut short,
\* too long or meant for nobody before.  (It may get none: see the README.)
DeliveredBufferIsWhole ==
  call # None /\ call.buffer # None =>
    /\ call.topic = call.message.topic
    /\ call.buffer = [i \in 1 .. call.message.length |-> call.message.number]

\* What the code prints as "unexpected" and goes on with may stop the device;
\* nothing else that is received does: a message to a subscriber that is still
\* there, short enough, is delivered or lost, whatever was cut short or too
\* long before it, and whatever the constructor left in its members.
CrashesOnlyOnUnexpected ==
  [][~ crashed /\ crashed' => ~ incoming.expected \/ incoming.topic \notin topics]_mqttVars
=============================================================================
