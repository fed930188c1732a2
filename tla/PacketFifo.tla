----------------------------- MODULE PacketFifo -----------------------------
(***************************************************************************)
(* What each direction of the network driver promises: a first-in          *)
(* first-out channel.  Packets are numbered from 1 as they are accepted;   *)
(* when the channel is full a packet is not accepted.  Every accepted      *)
(* packet comes out, in order and once.                                    *)
(***************************************************************************)
EXTENDS Integers, Sequences

CONSTANT Capacity

VARIABLES accepted,   \* number of packets accepted so far
          fifo,       \* those that are still inside
          out         \* those that came out

Init == accepted = 0 /\ fifo = <<>> /\ out = <<>>

Accept ==
  /\ Len(fifo) < Capacity
  /\ accepted' = accepted + 1
  /\ fifo' = Append(fifo, accepted + 1)
  /\ out' = out

Deliver ==
  /\ fifo # <<>>
  /\ out' = Append(out, Head(fifo))
  /\ fifo' = Tail(fifo)
  /\ accepted' = accepted

Next == Accept \/ Deliver

Spec == Init /\ [][Next]_<<accepted, fifo, out>>

FairSpec == Spec /\ WF_<<accepted, fifo, out>>(Deliver)
=============================================================================
