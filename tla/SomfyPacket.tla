---------------------------- MODULE SomfyPacket -----------------------------
(***************************************************************************)
(* A Somfy RTS packet: how ExecuteCommand (commandQueue.cpp) makes one out *)
(* of a command, and how ReceiveCommand gets a command out of one.  The    *)
(* seven bytes are a key, button and checksum, the rolling code and the    *)
(* remote's address; each is scrambled with the one before it.             *)
(*                                                                         *)
(* Bitwise has no operator that a proof can use, so the exclusive or of    *)
(* two bytes is defined here.                                              *)
(***************************************************************************)
EXTENDS Integers, Sequences

Bytes == 0 .. 255

My == 1
Up == 2
Down == 4
Prog == 8

\* What a packet has room for.
MaxId   == 16777215
MaxCode == 65535
Packet  == [remote : 0 .. MaxId, code : 0 .. MaxCode, button : 0 .. 15]

NotACommand == [remote |-> 0, code |-> 0, button |-> 0]

Key == 80   \* 0x50

Clear(c) ==
  << Key, c.button * 16, c.code \div 256, c.code % 256,
     (c.remote \div 65536) % 256, (c.remote \div 256) % 256, c.remote % 256 >>

\* Bit by bit: w is the weight of a bit.
Xor(a, b) ==
  LET Bit(w) == w * ((a \div w + b \div w) % 2)
  IN  Bit(1) + Bit(2) + Bit(4) + Bit(8) + Bit(16) + Bit(32) + Bit(64) + Bit(128)

\* The exclusive or of all nibbles.
Checksum(bytes) ==
  LET sum[i \in 0 .. Len(bytes)] ==
        IF i = 0 THEN 0 ELSE Xor(sum[i - 1], Xor(bytes[i], bytes[i] \div 16))
  IN  sum[Len(bytes)] % 16

\* "Encrypt", in place from the second byte on: each byte is combined with the
\* one before it as that has just become.
Encrypted(bytes) ==
  LET e[i \in 1 .. Len(bytes)] == IF i = 1 THEN bytes[1] ELSE Xor(bytes[i], e[i - 1])
  IN  [i \in 1 .. Len(bytes) |-> e[i]]

\* "Decrypt", in place from the last byte on: with the one before it as it was.
Decrypted(bytes) ==
  [i \in 1 .. Len(bytes) |-> IF i = 1 THEN bytes[1] ELSE Xor(bytes[i], bytes[i - 1])]

\* Mutation: the checksum is added to what has been encrypted.
EncodeLateChecksum(c) ==
  [Encrypted(Clear(c)) EXCEPT ![2] = (@ \div 16) * 16 + Checksum(Clear(c))]

\* ExecuteCommand, lines 207 to 226
Encode(c) == Encrypted([Clear(c) EXCEPT ![2] = @ + Checksum(Clear(c))])

\* Mutation: the rolling code is taken for little-endian.
CodeSwapped(bytes) == bytes[3] + bytes[4] * 256

Code(bytes) == bytes[3] * 256 + bytes[4]

\* ReceiveCommand, lines 260 to 283: a packet whose checksum is wrong is
\* dropped, and so are Prog and chords.
Decode(packet) ==
  LET d     == Decrypted(packet)
      clear == [d EXCEPT ![2] = (@ \div 16) * 16]
      c     == [remote |-> d[5] * 65536 + d[6] * 256 + d[7],
                code   |-> Code(d),
                button |-> d[2] \div 16]
  IN  IF Checksum(clear) = d[2] % 16 /\ c.button \in {Up, Down, My} THEN c
      ELSE NotACommand
=============================================================================
