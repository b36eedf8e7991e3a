---------------------------- MODULE ChannelSpec ----------------------------
(***************************************************************************)
(* What a channel promises about the data that goes through it: nothing is *)
(* lost, invented, duplicated or reordered, and at most Capacity items are *)
(* stored.  Who waits, and for how long, is not said here.                 *)
(***************************************************************************)
EXTENDS Sequences, Naturals

CONSTANTS Capacity, Value

VARIABLES queue,      \* the items stored, the oldest one first
          delivered   \* the items handed to a consumer, in this order

fifoVars == << queue, delivered >>

Seen == { queue[i] : i \in DOMAIN queue } \cup { delivered[i] : i \in DOMAIN delivered }

FifoInit == queue = << >> /\ delivered = << >>

Put(v) == /\ Len(queue) < Capacity
          /\ v \notin Seen
          /\ queue' = Append(queue, v)
          /\ UNCHANGED delivered

Get == /\ queue # << >>
       /\ delivered' = Append(delivered, Head(queue))
       /\ queue' = Tail(queue)

\* Without a buffer an item goes from hand to hand.
HandOver(v) == /\ Capacity = 0
               /\ v \notin Seen
               /\ delivered' = Append(delivered, v)
               /\ UNCHANGED queue

\* The channel is cleaned up, what is stored is destroyed.
Drop == queue' = << >> /\ UNCHANGED delivered

FifoNext == \/ \E v \in Value : Put(v) \/ HandOver(v)
            \/ Get
            \/ Drop

FifoSpec == FifoInit /\ [][FifoNext]_fifoVars
=============================================================================
