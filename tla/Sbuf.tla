------------------------------- MODULE Sbuf -------------------------------
(***************************************************************************)
(* The bounded buffer of connected descriptors between the proxy's main    *)
(* thread and its workers: proxylab-handout/sbuf.c, with the semaphore     *)
(* wrappers P and V of csapp.c.  Each access to a shared word is a step of *)
(* its own, so that what the three semaphores protect is a consequence and *)
(* not an assumption.  The C expression  buf[(rear++) % n] = item  is three*)
(* accesses: load rear, store rear + 1, store the slot; and so is          *)
(* item = buf[(front++) % n].                                              *)
(***************************************************************************)
EXTENDS Integers, FiniteSets, Sequences

CONSTANTS
  Producers,  \* threads calling sbuf_enque (the proxy has one, main)
  Consumers,  \* threads calling sbuf_deque (the NUM_THREADS workers)
  Items,      \* descriptors
  NoItem,     \* content of a slot never written (Calloc zeroes them)
  N,          \* sbuf_t.n, the number of slots
  IntMax,     \* the largest C int; front and rear are ints and wrap past it
  MaxCalls    \* bound on the calls of sbuf_enque in a behaviour

ASSUME SbufAssumption ==
  /\ IsFiniteSet(Producers) /\ IsFiniteSet(Consumers)
  /\ Producers \cap Consumers = {}
  /\ NoItem \notin Items
  /\ N \in Nat \ {0}
  /\ IntMax \in Nat /\ MaxCalls \in Nat

VARIABLES
  buf,        \* sbuf_t.buf
  front,      \* sbuf_t.front
  rear,       \* sbuf_t.rear
  mutex,      \* sbuf_t.mutex
  slots,      \* sbuf_t.slots
  items,      \* sbuf_t.items
  pc,         \* where each thread is
  idx,        \* the value of front or rear a thread has loaded
  item,       \* the argument of sbuf_enque, the local of sbuf_deque
  calls       \* calls of sbuf_enque so far (bounded by MaxCalls)

vars == <<buf, front, rear, mutex, slots, items, pc, idx, item, calls>>

Threads == Producers \cup Consumers

EnqueueLabels ==
  {"idle", "enq_slots", "enq_mutex", "enq_load", "enq_inc", "enq_store",
   "enq_unlock", "enq_post"}
DequeueLabels ==
  {"deq_items", "deq_mutex", "deq_load", "deq_inc", "deq_read",
   "deq_unlock", "deq_post"}

----------------------------------------------------------------------------
(* C int arithmetic *)

\* i + 1 on an int: past IntMax it wraps to the smallest int.
Inc(i) == IF i = IntMax THEN -IntMax - 1 ELSE i + 1

\* i % N on ints: the sign of the result is the sign of i.
Slot(i) == IF i >= 0 THEN i % N ELSE -((-i) % N)

\* The number of threads of S that are at one of the labels in L.
At(S, L) == Cardinality({t \in S : pc[t] \in L})

----------------------------------------------------------------------------
Init ==
  /\ buf = [i \in 0 .. N-1 |-> NoItem]
  /\ front = 0
  /\ rear = 0
  /\ mutex = 1
  /\ slots = N
  /\ items = 0
  /\ pc = [t \in Threads |-> IF t \in Producers THEN "idle" ELSE "deq_items"]
  /\ idx = [t \in Threads |-> 0]
  /\ item = [t \in Threads |-> NoItem]
  /\ calls = 0

Goto(t, from, to) ==
  /\ pc[t] = from
  /\ pc' = [pc EXCEPT ![t] = to]

\* main calls sbuf_enque with the descriptor accept returned.
EnqCall(p, v) ==
  /\ calls < MaxCalls
  /\ Goto(p, "idle", "enq_slots")
  /\ item' = [item EXCEPT ![p] = v]
  /\ calls' = calls + 1
  /\ UNCHANGED <<buf, front, rear, mutex, slots, items, idx>>

EnqWaitSlot(p) ==
  /\ Goto(p, "enq_slots", "enq_mutex")
  /\ slots > 0
  /\ slots' = slots - 1
  /\ UNCHANGED <<buf, front, rear, mutex, items, idx, item, calls>>

\* Mutant: sbuf_enque without P(&sp->mutex).
EnqLockDropped(p) ==
  /\ Goto(p, "enq_mutex", "enq_load")
  /\ UNCHANGED <<buf, front, rear, mutex, slots, items, idx, item, calls>>

EnqLock(p) ==
  /\ Goto(p, "enq_mutex", "enq_load")
  /\ mutex > 0
  /\ mutex' = mutex - 1
  /\ UNCHANGED <<buf, front, rear, slots, items, idx, item, calls>>

\* Mutant: rear was loaded before the mutex was taken.
EnqLoadStale(p) ==
  /\ Goto(p, "enq_load", "enq_inc")
  /\ UNCHANGED <<buf, front, rear, mutex, slots, items, idx, item, calls>>

EnqLoad(p) ==
  /\ Goto(p, "enq_load", "enq_inc")
  /\ idx' = [idx EXCEPT ![p] = rear]
  /\ UNCHANGED <<buf, front, rear, mutex, slots, items, item, calls>>

EnqInc(p) ==
  /\ Goto(p, "enq_inc", "enq_store")
  /\ rear' = Inc(idx[p])
  /\ UNCHANGED <<buf, front, mutex, slots, items, idx, item, calls>>

\* Mutant: the index is (++rear) % n.
EnqStorePreincrement(p) ==
  /\ Goto(p, "enq_store", "enq_unlock")
  /\ buf' = [buf EXCEPT ![Slot(Inc(idx[p]))] = item[p]]
  /\ UNCHANGED <<front, rear, mutex, slots, items, idx, item, calls>>

EnqStore(p) ==
  /\ Goto(p, "enq_store", "enq_unlock")
  /\ buf' = [buf EXCEPT ![Slot(idx[p])] = item[p]]
  /\ UNCHANGED <<front, rear, mutex, slots, items, idx, item, calls>>

EnqUnlock(p) ==
  /\ Goto(p, "enq_unlock", "enq_post")
  /\ mutex' = mutex + 1
  /\ UNCHANGED <<buf, front, rear, slots, items, idx, item, calls>>

\* Mutant: sbuf_enque without V(&sp->items).
EnqPostDropped(p) ==
  /\ Goto(p, "enq_post", "idle")
  /\ UNCHANGED <<buf, front, rear, mutex, slots, items, idx, item, calls>>

EnqPost(p) ==
  /\ Goto(p, "enq_post", "idle")
  /\ items' = items + 1
  /\ UNCHANGED <<buf, front, rear, mutex, slots, idx, item, calls>>

\* A worker, back in its loop, is already waiting in sbuf_deque.
DeqWaitItem(c) ==
  /\ Goto(c, "deq_items", "deq_mutex")
  /\ items > 0
  /\ items' = items - 1
  /\ UNCHANGED <<buf, front, rear, mutex, slots, idx, item, calls>>

DeqLock(c) ==
  /\ Goto(c, "deq_mutex", "deq_load")
  /\ mutex > 0
  /\ mutex' = mutex - 1
  /\ UNCHANGED <<buf, front, rear, slots, items, idx, item, calls>>

DeqLoad(c) ==
  /\ Goto(c, "deq_load", "deq_inc")
  /\ idx' = [idx EXCEPT ![c] = front]
  /\ UNCHANGED <<buf, front, rear, mutex, slots, items, item, calls>>

\* Mutant: front is not incremented.
DeqIncDropped(c) ==
  /\ Goto(c, "deq_inc", "deq_read")
  /\ UNCHANGED <<buf, front, rear, mutex, slots, items, idx, item, calls>>

DeqInc(c) ==
  /\ Goto(c, "deq_inc", "deq_read")
  /\ front' = Inc(idx[c])
  /\ UNCHANGED <<buf, rear, mutex, slots, items, idx, item, calls>>

DeqRead(c) ==
  /\ Goto(c, "deq_read", "deq_unlock")
  /\ item' = [item EXCEPT ![c] = buf[Slot(idx[c])]]
  /\ UNCHANGED <<buf, front, rear, mutex, slots, items, idx, calls>>

DeqUnlock(c) ==
  /\ Goto(c, "deq_unlock", "deq_post")
  /\ mutex' = mutex + 1
  /\ UNCHANGED <<buf, front, rear, slots, items, idx, item, calls>>

\* Mutant: sbuf_deque without V(&sp->slots).
DeqPostDropped(c) ==
  /\ Goto(c, "deq_post", "deq_items")
  /\ UNCHANGED <<buf, front, rear, mutex, slots, items, idx, item, calls>>

\* The call returns; the worker runs doit, closes, and loops.
DeqPost(c) ==
  /\ Goto(c, "deq_post", "deq_items")
  /\ slots' = slots + 1
  /\ UNCHANGED <<buf, front, rear, mutex, items, idx, item, calls>>

\* No further client connects: main blocks in accept and the workers on an
\* empty buffer.  Every other state without a successor is a deadlock.
Quiescent ==
  /\ calls = MaxCalls
  /\ \A p \in Producers : pc[p] = "idle"
  /\ \A c \in Consumers : pc[c] = "deq_items"
  /\ rear = front
  /\ UNCHANGED vars

Enqueue(p) ==
  \/ EnqWaitSlot(p) \/ EnqLock(p) \/ EnqLoad(p) \/ EnqInc(p) \/ EnqStore(p)
  \/ EnqUnlock(p) \/ EnqPost(p)

Dequeue(c) ==
  \/ DeqWaitItem(c) \/ DeqLock(c) \/ DeqLoad(c) \/ DeqInc(c) \/ DeqRead(c)
  \/ DeqUnlock(c) \/ DeqPost(c)

Next ==
  \/ \E p \in Producers : Enqueue(p) \/ \E v \in Items : EnqCall(p, v)
  \/ \E c \in Consumers : Dequeue(c)
  \/ Quiescent

Spec == Init /\ [][Next]_vars

\* Every thread inside the package is scheduled; nothing forces a client to
\* connect, so EnqCall is not fair.
FairSpec ==
  /\ Spec
  /\ \A p \in Producers : WF_vars(Enqueue(p))
  /\ \A c \in Consumers : WF_vars(Dequeue(c))

----------------------------------------------------------------------------
TypeOK ==
  /\ buf \in [0 .. N-1 -> Items \cup {NoItem}]
  /\ front \in Int /\ rear \in Int
  /\ mutex \in {0, 1}
  /\ slots \in 0 .. N /\ items \in 0 .. N
  /\ pc \in [Threads -> EnqueueLabels \cup DequeueLabels]
  /\ \A p \in Producers : pc[p] \in EnqueueLabels
  /\ \A c \in Consumers : pc[c] \in DequeueLabels
  /\ idx \in [Threads -> Int]
  /\ item \in [Threads -> Items \cup {NoItem}]
  /\ calls \in 0 .. MaxCalls

----------------------------------------------------------------------------
(* What the semaphores protect *)

\* Labels between P(&mutex) and V(&mutex).
Critical ==
  {"enq_load", "enq_inc", "enq_store", "enq_unlock",
   "deq_load", "deq_inc", "deq_read", "deq_unlock"}

\* The only threads between P(&mutex) and V(&mutex) at a time are one.
MutualExclusion ==
  \A t, u \in Threads :
    pc[t] \in Critical /\ pc[u] \in Critical => t = u

\* A producer owns a slot from P(&slots) until V(&items); a consumer owns an
\* item, and then the slot it was in, from P(&items) until V(&slots).
OwnsSlot == EnqueueLabels \ {"idle", "enq_slots"}
OwnsItem == DequeueLabels \ {"deq_items"}

\* Every one of the N slots is free (counted by slots), filled (counted by
\* items), or owned by exactly one thread: none leaks, none is counted twice,
\* so sbuf_enque never waits for ever with an empty buffer.
SlotsConserved ==
  slots + items + At(Producers, OwnsSlot) + At(Consumers, OwnsItem) = N

\* The positions holding an item to deliver: a position counts from the store
\* of its slot until the read of it.
HeadPos ==
  IF \E c \in Consumers : pc[c] = "deq_read" THEN front - 1 ELSE front
TailPos ==
  IF \E p \in Producers : pc[p] = "enq_store" THEN rear - 1 ELSE rear

\* A slot is neither read before it is stored, nor stored over an item that
\* is still to be read: the N slots hold exactly the undelivered items.
NoSlotClash ==
  /\ TailPos - HeadPos \in 0 .. N
  /\ \A p \in Producers : pc[p] = "enq_store" => TailPos - HeadPos < N
  /\ \A c \in Consumers : pc[c] = "deq_read" => TailPos - HeadPos > 0

----------------------------------------------------------------------------
(* An inductive invariant (proved in SbufProofs): why the above holds *)

\* Producers whose item is counted by rear and not yet by items; consumers
\* whose item is no longer counted by items and still is by front; producers
\* whose call is counted by calls and not yet by rear.
AheadOfItems == {"enq_store", "enq_unlock", "enq_post"}
BehindItems == {"deq_mutex", "deq_load", "deq_inc"}
NotInRear == {"enq_slots", "enq_mutex", "enq_load", "enq_inc"}

\* mutex is 1 exactly when no thread is in its critical section.
MutexCounts == mutex + At(Threads, Critical) = 1

\* front and rear, which only the mutex protects, agree with the semaphore
\* items, which it does not.
IndicesCount ==
  rear - front = items + At(Producers, AheadOfItems) + At(Consumers, BehindItems)

\* The value of rear or front a thread has loaded is still current when it
\* writes it back.
LoadedCurrent ==
  /\ \A t \in Threads : idx[t] >= 0
  /\ \A p \in Producers :
       /\ pc[p] = "enq_inc" => idx[p] = rear
       /\ pc[p] = "enq_store" => idx[p] = rear - 1
  /\ \A c \in Consumers :
       /\ pc[c] = "deq_inc" => idx[c] = front
       /\ pc[c] = "deq_read" => idx[c] = front - 1

\* rear counts the calls that have reached it; so it cannot pass MaxCalls.
RearCountsCalls == front >= 0 /\ rear + At(Producers, NotInRear) <= calls

\* The inductive invariant, as long as front and rear cannot wrap.
IInv ==
  /\ TypeOK /\ MutexCounts /\ SlotsConserved
  /\ IndicesCount /\ LoadedCurrent /\ RearCountsCalls

----------------------------------------------------------------------------
\* Refinement: the items between head and tail are the abstract queue, and a
\* producer's item is pending until it is stored.
Queue == [i \in 1 .. TailPos - HeadPos |-> buf[(HeadPos + i - 1) % N]]
Pending ==
  {p \in Producers :
     pc[p] \in {"enq_slots", "enq_mutex", "enq_load", "enq_inc", "enq_store"}}

Fifo == INSTANCE BoundedFifo WITH
  queue <- Queue, held <- item, pending <- Pending, Capacity <- N

\* sbuf is a first-in first-out queue of capacity N: every descriptor main
\* enqueues is handed to exactly one worker, in the order of arrival.
IsFifo == Fifo!FifoSpec

\* A call of sbuf_enque returns: main is never stuck while workers dequeue.
EnqueueReturns ==
  \A p \in Producers : pc[p] = "enq_slots" ~> pc[p] = "idle"

\* No wakeup is lost: an item in the buffer is taken out of it.
ItemsDelivered == \A k \in 0 .. MaxCalls - 1 : rear > k ~> front > k
=============================================================================
