------------------------------ MODULE RecvFifo ------------------------------
(***************************************************************************)
(* What the receive side of RadioCommandQueue promises the main loop: the  *)
(* button presses heard on the air come out in the order in which they     *)
(* were heard, each with the number of repeats heard for it, and only once *)
(* it has been quiet for a while.  A packet equal to the newest undelivered *)
(* press is one of its repeats; a press that finds no room is discarded.   *)
(*                                                                         *)
(* The circular buffer of commandQueue.cpp implements this: see RecvRing.  *)
(***************************************************************************)
EXTENDS Integers, Sequences

CONSTANTS
  Commands,   \* decoded presses: (remote id, rolling code, button)
  Capacity,   \* presses that can wait for the main loop
  Times,      \* readings of the clock
  Quiet,      \* silence that ends a press
  RepeatMod,  \* the repeat count wraps at this value
  None        \* nothing has been handed over yet

VARIABLES
  fifo,       \* undelivered presses, oldest first
  handed      \* the press the last successful ReadCommand returned

fvars == <<fifo, handed>>

Init ==
  /\ fifo = <<>>
  /\ handed = None

IsRepeatOfNewest(c) == fifo # <<>> /\ fifo[Len(fifo)].cmd = c

\* A repeat of the newest press.
Repeat(c, t) ==
  /\ IsRepeatOfNewest(c)
  /\ fifo' = [fifo EXCEPT ![Len(fifo)].repeat = (@ + 1) % RepeatMod,
                          ![Len(fifo)].last = t]
  /\ UNCHANGED handed

\* A new press.
Press(c, t) ==
  /\ ~ IsRepeatOfNewest(c)
  /\ Len(fifo) < Capacity
  /\ fifo' = Append(fifo, [cmd |-> c, repeat |-> 0, last |-> t])
  /\ UNCHANGED handed

\* The oldest press is handed over at time t.
Deliver(t) ==
  /\ fifo # <<>>
  /\ t - Head(fifo).last >= Quiet
  /\ handed' = [cmd |-> Head(fifo).cmd, repeat |-> Head(fifo).repeat]
  /\ fifo' = Tail(fifo)

Next ==
  \E t \in Times :
    \/ \E c \in Commands : Repeat(c, t) \/ Press(c, t)
    \/ Deliver(t)

Spec == Init /\ [][Next]_fvars
=============================================================================
