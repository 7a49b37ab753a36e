---------------------------- MODULE BoundedFifo ----------------------------
(***************************************************************************)
(* What the sbuf package promises its callers (proxylab-handout/sbuf.h):   *)
(* a queue of at most Capacity descriptors, put in and taken out one at a  *)
(* time and in the order they were put in.  Sbuf.tla is shown to implement *)
(* it, and Proxy.tla uses the queue at this level.                         *)
(***************************************************************************)
EXTENDS Naturals, Sequences

CONSTANTS
  Producers,  \* the threads that put
  Consumers,  \* the threads that take
  Items,      \* the values that can be put
  NoItem,     \* what a consumer holds before its first take
  Capacity    \* the most items the queue holds

VARIABLES
  queue,      \* the items put and not yet taken, oldest first
  held,       \* the item a producer offers, or a consumer took last
  pending     \* the producers whose offered item is not in the queue yet

fifoVars == <<queue, held, pending>>

FifoInit ==
  /\ queue = <<>>
  /\ held = [t \in Producers \cup Consumers |-> NoItem]
  /\ pending = {}

\* A producer has an item to put, once it is done with the one before.
Offer(p, v) ==
  /\ p \notin pending
  /\ pending' = pending \cup {p}
  /\ held' = [held EXCEPT ![p] = v]
  /\ UNCHANGED queue

\* The offered item joins the queue, once, when there is room for it.
Put(p) ==
  /\ p \in pending
  /\ pending' = pending \ {p}
  /\ Len(queue) < Capacity
  /\ queue' = Append(queue, held[p])
  /\ UNCHANGED held

\* The oldest item leaves the queue and is the consumer's.
Take(c) ==
  /\ queue # <<>>
  /\ held' = [held EXCEPT ![c] = Head(queue)]
  /\ queue' = Tail(queue)
  /\ UNCHANGED pending

FifoNext ==
  \/ \E p \in Producers : Put(p) \/ \E v \in Items : Offer(p, v)
  \/ \E c \in Consumers : Take(c)

FifoSpec == FifoInit /\ [][FifoNext]_fifoVars
=============================================================================
