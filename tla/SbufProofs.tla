----------------------------- MODULE SbufProofs -----------------------------
(***************************************************************************)
(* Proofs about Sbuf, for any number of producers, consumers and slots.    *)
(* The theorems hold as long as front and rear do not wrap, that is for    *)
(* behaviours of at most IntMax calls of sbuf_enque.                       *)
(***************************************************************************)
EXTENDS Sbuf, FiniteSetTheorems, TLAPS

----------------------------------------------------------------------------
(* Remainders *)

\* A slot index is one of the n slots.
LEMMA ModRange ==
  ASSUME NEW n \in Nat \ {0}, NEW a \in Nat
  PROVE  a % n \in 0 .. n-1
OBVIOUS

\* Two positions less than n apart are in different slots.
LEMMA ModDistinct ==
  ASSUME NEW n \in Nat \ {0}, NEW a \in Nat, NEW b \in Nat, a < b, b - a < n
  PROVE  a % n # b % n
<1> DEFINE qa == a \div n
           qb == b \div n
<1>1. a = n * qa + (a % n) /\ a % n \in 0 .. n-1 /\ qa \in Nat
  OBVIOUS
<1>2. b = n * qb + (b % n) /\ b % n \in 0 .. n-1 /\ qb \in Nat
  OBVIOUS
<1> HIDE DEF qa, qb
<1>3. SUFFICES ASSUME a % n = b % n PROVE FALSE
  OBVIOUS
<1>4. b - a = n * (qb - qa)
  BY <1>1, <1>2, <1>3
<1>5. CASE qb - qa <= 0
  BY <1>1, <1>2, <1>4, <1>5
<1>6. CASE qb - qa >= 1
  BY <1>1, <1>2, <1>4, <1>6
<1> QED BY <1>1, <1>2, <1>5, <1>6

\* The remainder C computes of an index that has not wrapped is a slot.
LEMMA SlotRange ==
  ASSUME NEW i \in Int, i >= 0
  PROVE  Slot(i) = i % N /\ Slot(i) \in 0 .. N-1
BY SbufAssumption, ModRange DEF Slot

----------------------------------------------------------------------------
(* Sequences given as functions *)

\* A function on 1 .. n is a sequence of length n.
LEMMA FunctionIsSeq ==
  ASSUME NEW S, NEW n \in Nat, NEW q \in [1 .. n -> S]
  PROVE  q \in Seq(S) /\ Len(q) = n
OBVIOUS

\* Append adds position n + 1 and keeps the others.
LEMMA AppendExtends ==
  ASSUME NEW S, NEW n \in Nat, NEW q \in [1 .. n -> S], NEW x \in S,
         NEW r \in [1 .. n + 1 -> S], r[n + 1] = x,
         \A i \in 1 .. n : r[i] = q[i]
  PROVE  r = Append(q, x)
<1>1. q \in Seq(S) /\ Len(q) = n /\ r \in Seq(S) /\ Len(r) = n + 1
  BY FunctionIsSeq
<1>2. Append(q, x) \in Seq(S) /\ Len(Append(q, x)) = n + 1
  BY <1>1
<1>3. \A i \in 1 .. n + 1 : r[i] = Append(q, x)[i]
  BY <1>1
<1> QED BY <1>1, <1>2, <1>3

\* Tail drops the first position and shifts the others.
LEMMA TailShifts ==
  ASSUME NEW S, NEW n \in Nat, NEW q \in [1 .. n + 1 -> S],
         NEW r \in [1 .. n -> S], \A i \in 1 .. n : r[i] = q[i + 1]
  PROVE  r = Tail(q)
<1>1. q \in Seq(S) /\ Len(q) = n + 1 /\ r \in Seq(S) /\ Len(r) = n
  BY FunctionIsSeq
<1>2. Tail(q) \in Seq(S) /\ Len(Tail(q)) = n
  BY <1>1
<1>3. \A i \in 1 .. n : r[i] = Tail(q)[i]
  BY <1>1
<1> QED BY <1>1, <1>2, <1>3

----------------------------------------------------------------------------
(* Counting threads *)

LEMMA FiniteThreads ==
  IsFiniteSet(Producers) /\ IsFiniteSet(Consumers) /\ IsFiniteSet(Threads)
BY SbufAssumption, FS_Union DEF Threads

\* A thread that moves from one label to another changes the counts of the
\* label sets it leaves or enters, and no others.
LEMMA CountMove ==
  ASSUME pc \in [Threads -> EnqueueLabels \cup DequeueLabels],
         NEW t \in Threads, NEW from, NEW to, Goto(t, from, to),
         NEW S \in {Producers, Consumers, Threads}, NEW L
  PROVE  /\ At(S, L) \in Nat /\ At(S, L)' \in Nat
         /\ At(S, L)' = At(S, L) + (IF t \in S /\ to \in L THEN 1 ELSE 0)
                                 - (IF t \in S /\ from \in L THEN 1 ELSE 0)
<1> DEFINE A == {s \in S : pc[s] \in L}
           B == {s \in S : pc'[s] \in L}
<1>1. IsFiniteSet(A) /\ IsFiniteSet(B)
      /\ Cardinality(A) \in Nat /\ Cardinality(B) \in Nat
  BY FiniteThreads, FS_Subset, FS_CardinalityType
<1>2. At(S, L) = Cardinality(A) /\ At(S, L)' = Cardinality(B)
  BY DEF At
<1>3. S \subseteq Threads
  BY DEF Threads
<1>4. \A s \in S : pc'[s] = IF s = t THEN to ELSE pc[s]
  BY <1>3 DEF Goto
<1>5. pc[t] = from
  BY DEF Goto
<1>6. CASE t \notin S \/ (from \in L <=> to \in L)
  <2>1. A = B
    BY <1>4, <1>5, <1>6
  <2>2. Cardinality(B) = Cardinality(A)
    BY <2>1
  <2> HIDE DEF A, B
  <2> QED BY <1>1, <1>2, <1>6, <2>2
<1>7. CASE t \in S /\ from \notin L /\ to \in L
  <2>1. B = A \cup {t} /\ t \notin A
    BY <1>4, <1>5, <1>7
  <2>2. Cardinality(B) = Cardinality(A) + 1
    BY <1>1, <2>1, FS_AddElement
  <2> QED BY <1>1, <1>2, <1>7, <2>2
<1>8. CASE t \in S /\ from \in L /\ to \notin L
  <2>1. B = A \ {t} /\ t \in A
    BY <1>4, <1>5, <1>8
  <2>2. Cardinality(B) = Cardinality(A) - 1
    BY <1>1, <2>1, FS_RemoveElement
  <2> QED BY <1>1, <1>2, <1>8, <2>2
<1> QED BY <1>6, <1>7, <1>8

\* Fewer labels are held by fewer threads.
LEMMA CountMono ==
  ASSUME NEW S \in {Producers, Consumers, Threads}, NEW L, NEW K, L \subseteq K
  PROVE  At(S, L) \in Nat /\ At(S, K) \in Nat /\ At(S, L) <= At(S, K)
<1>1. IsFiniteSet({t \in S : pc[t] \in K})
  BY FiniteThreads, FS_Subset
<1>2. {t \in S : pc[t] \in L} \subseteq {t \in S : pc[t] \in K}
  OBVIOUS
<1> QED BY <1>1, <1>2, FS_Subset, FS_CardinalityType DEF At

\* A thread at a label of K but not of L makes the inequality strict.
LEMMA CountStrict ==
  ASSUME NEW S \in {Producers, Consumers, Threads}, NEW L, NEW K, L \subseteq K,
         NEW t \in S, pc[t] \in K \ L
  PROVE  At(S, L) \in Nat /\ At(S, K) \in Nat /\ At(S, L) < At(S, K)
<1> DEFINE A == {u \in S : pc[u] \in L}
           B == {u \in S : pc[u] \in K}
<1>1. IsFiniteSet(B) /\ IsFiniteSet(A)
  BY FiniteThreads, FS_Subset
<1>2. A \subseteq B \ {t} /\ t \in B
  OBVIOUS
<1>3. IsFiniteSet(B \ {t}) /\ Cardinality(B \ {t}) = Cardinality(B) - 1
  BY <1>1, <1>2, FS_RemoveElement
<1>4. Cardinality(A) <= Cardinality(B \ {t})
  BY <1>2, <1>3, FS_Subset
<1> QED BY <1>1, <1>3, <1>4, FS_CardinalityType DEF At

\* A count of at most one is held by at most one thread.
LEMMA CountOne ==
  ASSUME NEW S \in {Producers, Consumers, Threads}, NEW L, At(S, L) <= 1,
         NEW t \in S, NEW u \in S, pc[t] \in L, pc[u] \in L
  PROVE  t = u
<1> SUFFICES ASSUME t # u PROVE FALSE
  OBVIOUS
<1>1. IsFiniteSet({s \in S : pc[s] \in L})
  BY FiniteThreads, FS_Subset
<1>2. {t, u} \subseteq {s \in S : pc[s] \in L}
  OBVIOUS
<1>3. IsFiniteSet({t}) /\ Cardinality({t}) = 1
  BY FS_Singleton
<1>4. Cardinality({t} \cup {u}) = 2
  BY <1>3, FS_AddElement
<1>5. {t, u} = {t} \cup {u}
  OBVIOUS
<1>6. Cardinality({t, u}) <= Cardinality({s \in S : pc[s] \in L})
  BY <1>1, <1>2, FS_Subset
<1>7. Cardinality({s \in S : pc[s] \in L}) <= 1
  BY DEF At
<1> QED BY <1>1, <1>4, <1>5, <1>6, <1>7, FS_CardinalityType

----------------------------------------------------------------------------
(* The inductive invariant *)

\* How the five counts of the invariant change when one thread moves.
LEMMA Counts ==
  ASSUME TypeOK, NEW t \in Threads, NEW from, NEW to, Goto(t, from, to)
  PROVE  /\ At(Threads, Critical)' = At(Threads, Critical)
              + (IF to \in Critical THEN 1 ELSE 0)
              - (IF from \in Critical THEN 1 ELSE 0)
         /\ At(Producers, OwnsSlot)' = At(Producers, OwnsSlot)
              + (IF t \in Producers /\ to \in OwnsSlot THEN 1 ELSE 0)
              - (IF t \in Producers /\ from \in OwnsSlot THEN 1 ELSE 0)
         /\ At(Consumers, OwnsItem)' = At(Consumers, OwnsItem)
              + (IF t \in Consumers /\ to \in OwnsItem THEN 1 ELSE 0)
              - (IF t \in Consumers /\ from \in OwnsItem THEN 1 ELSE 0)
         /\ At(Producers, AheadOfItems)' = At(Producers, AheadOfItems)
              + (IF t \in Producers /\ to \in AheadOfItems THEN 1 ELSE 0)
              - (IF t \in Producers /\ from \in AheadOfItems THEN 1 ELSE 0)
         /\ At(Consumers, BehindItems)' = At(Consumers, BehindItems)
              + (IF t \in Consumers /\ to \in BehindItems THEN 1 ELSE 0)
              - (IF t \in Consumers /\ from \in BehindItems THEN 1 ELSE 0)
         /\ At(Producers, NotInRear)' = At(Producers, NotInRear)
              + (IF t \in Producers /\ to \in NotInRear THEN 1 ELSE 0)
              - (IF t \in Producers /\ from \in NotInRear THEN 1 ELSE 0)
         /\ At(Threads, Critical)' \in Nat
         /\ At(Producers, OwnsSlot)' \in Nat /\ At(Consumers, OwnsItem)' \in Nat
         /\ At(Producers, AheadOfItems)' \in Nat
         /\ At(Consumers, BehindItems)' \in Nat
         /\ At(Producers, NotInRear)' \in Nat
<1>1. pc \in [Threads -> EnqueueLabels \cup DequeueLabels]
  BY DEF TypeOK
<1> QED BY <1>1, CountMove

LEMMA CountTypes ==
  /\ At(Threads, Critical) \in Nat
  /\ At(Producers, OwnsSlot) \in Nat /\ At(Consumers, OwnsItem) \in Nat
  /\ At(Producers, AheadOfItems) \in Nat /\ At(Consumers, BehindItems) \in Nat
  /\ At(Producers, NotInRear) \in Nat
BY CountMono

\* No two threads are in their critical sections.
LEMMA Alone == ASSUME IInv PROVE MutualExclusion
<1>1. At(Threads, Critical) <= 1
  BY CountTypes DEF IInv, TypeOK, MutexCounts
<1> QED BY <1>1, CountOne DEF MutualExclusion

\* front and rear stay below IntMax, so that their increments do not wrap.
LEMMA EnqIncAdds ==
  ASSUME IInv, MaxCalls <= IntMax, NEW p \in Producers, EnqInc(p)
  PROVE  rear' = rear + 1
<1> USE SbufAssumption
<1>1. pc[p] = "enq_inc" /\ rear' = Inc(idx[p])
  BY DEF EnqInc, Goto
<1>2. At(Producers, {}) < At(Producers, NotInRear)
  BY <1>1, CountStrict DEF NotInRear
<1>3. rear < IntMax
  BY <1>2, CountMono DEF IInv, TypeOK, RearCountsCalls
<1> QED BY <1>1, <1>3 DEF IInv, LoadedCurrent, TypeOK, Inc

LEMMA DeqIncAdds ==
  ASSUME IInv, MaxCalls <= IntMax, NEW c \in Consumers, DeqInc(c)
  PROVE  front' = front + 1
<1> USE SbufAssumption
<1>1. pc[c] = "deq_inc" /\ front' = Inc(idx[c])
  BY DEF DeqInc, Goto
<1>2. At(Consumers, {}) < At(Consumers, BehindItems)
  BY <1>1, CountStrict DEF BehindItems
<1>3. front < IntMax
  BY <1>2, CountMono, CountTypes
  DEF IInv, TypeOK, RearCountsCalls, IndicesCount
<1> QED BY <1>1, <1>3 DEF IInv, LoadedCurrent, TypeOK, Inc

\* Every step preserves the inductive invariant, as long as rear is below the
\* largest int when it is incremented.
LEMMA Inductive ==
  ASSUME IInv, [Next]_vars, MaxCalls <= IntMax
  PROVE  IInv'
<1> USE SbufAssumption
<1>a. TypeOK /\ MutexCounts /\ SlotsConserved /\ IndicesCount
      /\ LoadedCurrent /\ RearCountsCalls
  BY DEF IInv
<1>b. /\ mutex \in {0, 1} /\ slots \in Nat /\ items \in Nat
      /\ front \in Nat /\ rear \in Int /\ calls \in 0 .. MaxCalls
      /\ N \in Nat /\ MaxCalls \in Nat /\ IntMax \in Nat
  BY <1>a DEF TypeOK, RearCountsCalls
<1>c. MutualExclusion
  BY Alone
<1>1. ASSUME NEW p \in Producers, EnqWaitSlot(p)
      PROVE  IInv'
  <2>1. p \in Threads /\ p \notin Consumers /\ Goto(p, "enq_slots", "enq_mutex")
    BY <1>1 DEF Threads, EnqWaitSlot
  <2>2. /\ At(Threads, Critical)' = At(Threads, Critical) /\ At(Threads, Critical) \in Nat /\ At(Threads, Critical)' \in Nat
        /\ At(Producers, OwnsSlot)' = At(Producers, OwnsSlot) + 1 /\ At(Producers, OwnsSlot) \in Nat /\ At(Producers, OwnsSlot)' \in Nat
        /\ At(Consumers, OwnsItem)' = At(Consumers, OwnsItem) /\ At(Consumers, OwnsItem) \in Nat /\ At(Consumers, OwnsItem)' \in Nat
        /\ At(Producers, AheadOfItems)' = At(Producers, AheadOfItems) /\ At(Producers, AheadOfItems) \in Nat /\ At(Producers, AheadOfItems)' \in Nat
        /\ At(Consumers, BehindItems)' = At(Consumers, BehindItems) /\ At(Consumers, BehindItems) \in Nat /\ At(Consumers, BehindItems)' \in Nat
        /\ At(Producers, NotInRear)' = At(Producers, NotInRear) /\ At(Producers, NotInRear) \in Nat /\ At(Producers, NotInRear)' \in Nat
    BY <1>a, <2>1, Counts, CountTypes
    DEF Critical, OwnsSlot, OwnsItem, AheadOfItems, BehindItems, NotInRear,
        EnqueueLabels, DequeueLabels
  <2>3. /\ mutex' = mutex /\ slots' = slots - 1 /\ items' = items
        /\ front' = front /\ rear' = rear /\ calls' = calls /\ slots > 0
    BY <1>1 DEF EnqWaitSlot
  <2>4. MutexCounts' /\ SlotsConserved' /\ IndicesCount' /\ RearCountsCalls'
    BY <1>a, <1>b, <2>2, <2>3
    DEF MutexCounts, SlotsConserved, IndicesCount, RearCountsCalls
  <2>5. /\ mutex' \in {0, 1} /\ slots' \in 0 .. N /\ items' \in 0 .. N
        /\ front' \in Int /\ rear' \in Int /\ calls' \in 0 .. MaxCalls
    BY <1>b, <2>2, <2>3, <2>4 DEF MutexCounts, SlotsConserved
  <2>6. TypeOK'
    BY <1>1, <1>a, <1>b, <2>1, <2>5
    DEF EnqWaitSlot, TypeOK, Goto, EnqueueLabels, DequeueLabels
  <2>7. LoadedCurrent'
    BY <1>1, <1>a, <1>b, <1>c, <2>1, <2>3
    DEF EnqWaitSlot, TypeOK, Goto, LoadedCurrent, Threads, MutualExclusion, Critical
  <2> QED BY <2>4, <2>6, <2>7 DEF IInv
<1>2. ASSUME NEW p \in Producers, EnqLock(p)
      PROVE  IInv'
  <2>1. p \in Threads /\ p \notin Consumers /\ Goto(p, "enq_mutex", "enq_load")
    BY <1>2 DEF Threads, EnqLock
  <2>2. /\ At(Threads, Critical)' = At(Threads, Critical) + 1 /\ At(Threads, Critical) \in Nat /\ At(Threads, Critical)' \in Nat
        /\ At(Producers, OwnsSlot)' = At(Producers, OwnsSlot) /\ At(Producers, OwnsSlot) \in Nat /\ At(Producers, OwnsSlot)' \in Nat
        /\ At(Consumers, OwnsItem)' = At(Consumers, OwnsItem) /\ At(Consumers, OwnsItem) \in Nat /\ At(Consumers, OwnsItem)' \in Nat
        /\ At(Producers, AheadOfItems)' = At(Producers, AheadOfItems) /\ At(Producers, AheadOfItems) \in Nat /\ At(Producers, AheadOfItems)' \in Nat
        /\ At(Consumers, BehindItems)' = At(Consumers, BehindItems) /\ At(Consumers, BehindItems) \in Nat /\ At(Consumers, BehindItems)' \in Nat
        /\ At(Producers, NotInRear)' = At(Producers, NotInRear) /\ At(Producers, NotInRear) \in Nat /\ At(Producers, NotInRear)' \in Nat
    BY <1>a, <2>1, Counts, CountTypes
    DEF Critical, OwnsSlot, OwnsItem, AheadOfItems, BehindItems, NotInRear,
        EnqueueLabels, DequeueLabels
  <2>3. /\ mutex' = mutex - 1 /\ slots' = slots /\ items' = items
        /\ front' = front /\ rear' = rear /\ calls' = calls /\ mutex > 0
    BY <1>2 DEF EnqLock
  <2>4. MutexCounts' /\ SlotsConserved' /\ IndicesCount' /\ RearCountsCalls'
    BY <1>a, <1>b, <2>2, <2>3
    DEF MutexCounts, SlotsConserved, IndicesCount, RearCountsCalls
  <2>5. /\ mutex' \in {0, 1} /\ slots' \in 0 .. N /\ items' \in 0 .. N
        /\ front' \in Int /\ rear' \in Int /\ calls' \in 0 .. MaxCalls
    BY <1>b, <2>2, <2>3, <2>4 DEF MutexCounts, SlotsConserved
  <2>6. TypeOK'
    BY <1>2, <1>a, <1>b, <2>1, <2>5
    DEF EnqLock, TypeOK, Goto, EnqueueLabels, DequeueLabels
  <2>7. LoadedCurrent'
    BY <1>2, <1>a, <1>b, <1>c, <2>1, <2>3
    DEF EnqLock, TypeOK, Goto, LoadedCurrent, Threads, MutualExclusion, Critical
  <2> QED BY <2>4, <2>6, <2>7 DEF IInv
<1>3. ASSUME NEW p \in Producers, EnqLoad(p)
      PROVE  IInv'
  <2>1. p \in Threads /\ p \notin Consumers /\ Goto(p, "enq_load", "enq_inc")
    BY <1>3 DEF Threads, EnqLoad
  <2>2. /\ At(Threads, Critical)' = At(Threads, Critical) /\ At(Threads, Critical) \in Nat /\ At(Threads, Critical)' \in Nat
        /\ At(Producers, OwnsSlot)' = At(Producers, OwnsSlot) /\ At(Producers, OwnsSlot) \in Nat /\ At(Producers, OwnsSlot)' \in Nat
        /\ At(Consumers, OwnsItem)' = At(Consumers, OwnsItem) /\ At(Consumers, OwnsItem) \in Nat /\ At(Consumers, OwnsItem)' \in Nat
        /\ At(Producers, AheadOfItems)' = At(Producers, AheadOfItems) /\ At(Producers, AheadOfItems) \in Nat /\ At(Producers, AheadOfItems)' \in Nat
        /\ At(Consumers, BehindItems)' = At(Consumers, BehindItems) /\ At(Consumers, BehindItems) \in Nat /\ At(Consumers, BehindItems)' \in Nat
        /\ At(Producers, NotInRear)' = At(Producers, NotInRear) /\ At(Producers, NotInRear) \in Nat /\ At(Producers, NotInRear)' \in Nat
    BY <1>a, <2>1, Counts, CountTypes
    DEF Critical, OwnsSlot, OwnsItem, AheadOfItems, BehindItems, NotInRear,
        EnqueueLabels, DequeueLabels
  <2>3. /\ mutex' = mutex /\ slots' = slots /\ items' = items
        /\ front' = front /\ rear' = rear /\ calls' = calls
    BY <1>3 DEF EnqLoad
  <2>4. MutexCounts' /\ SlotsConserved' /\ IndicesCount' /\ RearCountsCalls'
    BY <1>a, <1>b, <2>2, <2>3
    DEF MutexCounts, SlotsConserved, IndicesCount, RearCountsCalls
  <2>5. /\ mutex' \in {0, 1} /\ slots' \in 0 .. N /\ items' \in 0 .. N
        /\ front' \in Int /\ rear' \in Int /\ calls' \in 0 .. MaxCalls
    BY <1>b, <2>2, <2>3, <2>4 DEF MutexCounts, SlotsConserved
  <2>6. TypeOK'
    BY <1>3, <1>a, <1>b, <2>1, <2>5
    DEF EnqLoad, TypeOK, Goto, EnqueueLabels, DequeueLabels
  <2>k. rear >= 0
    BY <1>b, <2>2, <1>a DEF IndicesCount
  <2>7. LoadedCurrent'
    BY <1>3, <1>a, <1>b, <1>c, <2>1, <2>3, <2>k
    DEF EnqLoad, TypeOK, Goto, LoadedCurrent, Threads, MutualExclusion, Critical
  <2> QED BY <2>4, <2>6, <2>7 DEF IInv
<1>4. ASSUME NEW p \in Producers, EnqInc(p)
      PROVE  IInv'
  <2>1. p \in Threads /\ p \notin Consumers /\ Goto(p, "enq_inc", "enq_store")
    BY <1>4 DEF Threads, EnqInc
  <2>2. /\ At(Threads, Critical)' = At(Threads, Critical) /\ At(Threads, Critical) \in Nat /\ At(Threads, Critical)' \in Nat
        /\ At(Producers, OwnsSlot)' = At(Producers, OwnsSlot) /\ At(Producers, OwnsSlot) \in Nat /\ At(Producers, OwnsSlot)' \in Nat
        /\ At(Consumers, OwnsItem)' = At(Consumers, OwnsItem) /\ At(Consumers, OwnsItem) \in Nat /\ At(Consumers, OwnsItem)' \in Nat
        /\ At(Producers, AheadOfItems)' = At(Producers, AheadOfItems) + 1 /\ At(Producers, AheadOfItems) \in Nat /\ At(Producers, AheadOfItems)' \in Nat
        /\ At(Consumers, BehindItems)' = At(Consumers, BehindItems) /\ At(Consumers, BehindItems) \in Nat /\ At(Consumers, BehindItems)' \in Nat
        /\ At(Producers, NotInRear)' = At(Producers, NotInRear) - 1 /\ At(Producers, NotInRear) \in Nat /\ At(Producers, NotInRear)' \in Nat
    BY <1>a, <2>1, Counts, CountTypes
    DEF Critical, OwnsSlot, OwnsItem, AheadOfItems, BehindItems, NotInRear,
        EnqueueLabels, DequeueLabels
  <2>3. /\ mutex' = mutex /\ slots' = slots /\ items' = items
        /\ front' = front /\ rear' = rear + 1 /\ calls' = calls
    BY <1>4, EnqIncAdds DEF EnqInc
  <2>4. MutexCounts' /\ SlotsConserved' /\ IndicesCount' /\ RearCountsCalls'
    BY <1>a, <1>b, <2>2, <2>3
    DEF MutexCounts, SlotsConserved, IndicesCount, RearCountsCalls
  <2>5. /\ mutex' \in {0, 1} /\ slots' \in 0 .. N /\ items' \in 0 .. N
        /\ front' \in Int /\ rear' \in Int /\ calls' \in 0 .. MaxCalls
    BY <1>b, <2>2, <2>3, <2>4 DEF MutexCounts, SlotsConserved
  <2>6. TypeOK'
    BY <1>4, <1>a, <1>b, <2>1, <2>5
    DEF EnqInc, TypeOK, Goto, EnqueueLabels, DequeueLabels
  <2>7. LoadedCurrent'
    BY <1>4, <1>a, <1>b, <1>c, <2>1, <2>3
    DEF EnqInc, TypeOK, Goto, LoadedCurrent, Threads, MutualExclusion, Critical
  <2> QED BY <2>4, <2>6, <2>7 DEF IInv
<1>5. ASSUME NEW p \in Producers, EnqStore(p)
      PROVE  IInv'
  <2>1. p \in Threads /\ p \notin Consumers /\ Goto(p, "enq_store", "enq_unlock")
    BY <1>5 DEF Threads, EnqStore
  <2>2. /\ At(Threads, Critical)' = At(Threads, Critical) /\ At(Threads, Critical) \in Nat /\ At(Threads, Critical)' \in Nat
        /\ At(Producers, OwnsSlot)' = At(Producers, OwnsSlot) /\ At(Producers, OwnsSlot) \in Nat /\ At(Producers, OwnsSlot)' \in Nat
        /\ At(Consumers, OwnsItem)' = At(Consumers, OwnsItem) /\ At(Consumers, OwnsItem) \in Nat /\ At(Consumers, OwnsItem)' \in Nat
        /\ At(Producers, AheadOfItems)' = At(Producers, AheadOfItems) /\ At(Producers, AheadOfItems) \in Nat /\ At(Producers, AheadOfItems)' \in Nat
        /\ At(Consumers, BehindItems)' = At(Consumers, BehindItems) /\ At(Consumers, BehindItems) \in Nat /\ At(Consumers, BehindItems)' \in Nat
        /\ At(Producers, NotInRear)' = At(Producers, NotInRear) /\ At(Producers, NotInRear) \in Nat /\ At(Producers, NotInRear)' \in Nat
    BY <1>a, <2>1, Counts, CountTypes
    DEF Critical, OwnsSlot, OwnsItem, AheadOfItems, BehindItems, NotInRear,
        EnqueueLabels, DequeueLabels
  <2>3. /\ mutex' = mutex /\ slots' = slots /\ items' = items
        /\ front' = front /\ rear' = rear /\ calls' = calls
    BY <1>5 DEF EnqStore
  <2>4. MutexCounts' /\ SlotsConserved' /\ IndicesCount' /\ RearCountsCalls'
    BY <1>a, <1>b, <2>2, <2>3
    DEF MutexCounts, SlotsConserved, IndicesCount, RearCountsCalls
  <2>5. /\ mutex' \in {0, 1} /\ slots' \in 0 .. N /\ items' \in 0 .. N
        /\ front' \in Int /\ rear' \in Int /\ calls' \in 0 .. MaxCalls
    BY <1>b, <2>2, <2>3, <2>4 DEF MutexCounts, SlotsConserved
  <2>j. Slot(idx[p]) \in 0 .. N-1
    BY <1>a, <2>1, SlotRange DEF LoadedCurrent, TypeOK
  <2>6. TypeOK'
    BY <1>5, <1>a, <1>b, <2>1, <2>5, <2>j
    DEF EnqStore, TypeOK, Goto, EnqueueLabels, DequeueLabels
  <2>7. LoadedCurrent'
    BY <1>5, <1>a, <1>b, <1>c, <2>1, <2>3
    DEF EnqStore, TypeOK, Goto, LoadedCurrent, Threads, MutualExclusion, Critical
  <2> QED BY <2>4, <2>6, <2>7 DEF IInv
<1>6. ASSUME NEW p \in Producers, EnqUnlock(p)
      PROVE  IInv'
  <2>1. p \in Threads /\ p \notin Consumers /\ Goto(p, "enq_unlock", "enq_post")
    BY <1>6 DEF Threads, EnqUnlock
  <2>2. /\ At(Threads, Critical)' = At(Threads, Critical) - 1 /\ At(Threads, Critical) \in Nat /\ At(Threads, Critical)' \in Nat
        /\ At(Producers, OwnsSlot)' = At(Producers, OwnsSlot) /\ At(Producers, OwnsSlot) \in Nat /\ At(Producers, OwnsSlot)' \in Nat
        /\ At(Consumers, OwnsItem)' = At(Consumers, OwnsItem) /\ At(Consumers, OwnsItem) \in Nat /\ At(Consumers, OwnsItem)' \in Nat
        /\ At(Producers, AheadOfItems)' = At(Producers, AheadOfItems) /\ At(Producers, AheadOfItems) \in Nat /\ At(Producers, AheadOfItems)' \in Nat
        /\ At(Consumers, BehindItems)' = At(Consumers, BehindItems) /\ At(Consumers, BehindItems) \in Nat /\ At(Consumers, BehindItems)' \in Nat
        /\ At(Producers, NotInRear)' = At(Producers, NotInRear) /\ At(Producers, NotInRear) \in Nat /\ At(Producers, NotInRear)' \in Nat
    BY <1>a, <2>1, Counts, CountTypes
    DEF Critical, OwnsSlot, OwnsItem, AheadOfItems, BehindItems, NotInRear,
        EnqueueLabels, DequeueLabels
  <2>3. /\ mutex' = mutex + 1 /\ slots' = slots /\ items' = items
        /\ front' = front /\ rear' = rear /\ calls' = calls
    BY <1>6 DEF EnqUnlock
  <2>4. MutexCounts' /\ SlotsConserved' /\ IndicesCount' /\ RearCountsCalls'
    BY <1>a, <1>b, <2>2, <2>3
    DEF MutexCounts, SlotsConserved, IndicesCount, RearCountsCalls
  <2>5. /\ mutex' \in {0, 1} /\ slots' \in 0 .. N /\ items' \in 0 .. N
        /\ front' \in Int /\ rear' \in Int /\ calls' \in 0 .. MaxCalls
    BY <1>b, <2>2, <2>3, <2>4 DEF MutexCounts, SlotsConserved
  <2>6. TypeOK'
    BY <1>6, <1>a, <1>b, <2>1, <2>5
    DEF EnqUnlock, TypeOK, Goto, EnqueueLabels, DequeueLabels
  <2>7. LoadedCurrent'
    BY <1>6, <1>a, <1>b, <1>c, <2>1, <2>3
    DEF EnqUnlock, TypeOK, Goto, LoadedCurrent, Threads, MutualExclusion, Critical
  <2> QED BY <2>4, <2>6, <2>7 DEF IInv
<1>7. ASSUME NEW p \in Producers, EnqPost(p)
      PROVE  IInv'
  <2>1. p \in Threads /\ p \notin Consumers /\ Goto(p, "enq_post", "idle")
    BY <1>7 DEF Threads, EnqPost
  <2>2. /\ At(Threads, Critical)' = At(Threads, Critical) /\ At(Threads, Critical) \in Nat /\ At(Threads, Critical)' \in Nat
        /\ At(Producers, OwnsSlot)' = At(Producers, OwnsSlot) - 1 /\ At(Producers, OwnsSlot) \in Nat /\ At(Producers, OwnsSlot)' \in Nat
        /\ At(Consumers, OwnsItem)' = At(Consumers, OwnsItem) /\ At(Consumers, OwnsItem) \in Nat /\ At(Consumers, OwnsItem)' \in Nat
        /\ At(Producers, AheadOfItems)' = At(Producers, AheadOfItems) - 1 /\ At(Producers, AheadOfItems) \in Nat /\ At(Producers, AheadOfItems)' \in Nat
        /\ At(Consumers, BehindItems)' = At(Consumers, BehindItems) /\ At(Consumers, BehindItems) \in Nat /\ At(Consumers, BehindItems)' \in Nat
        /\ At(Producers, NotInRear)' = At(Producers, NotInRear) /\ At(Producers, NotInRear) \in Nat /\ At(Producers, NotInRear)' \in Nat
    BY <1>a, <2>1, Counts, CountTypes
    DEF Critical, OwnsSlot, OwnsItem, AheadOfItems, BehindItems, NotInRear,
        EnqueueLabels, DequeueLabels
  <2>3. /\ mutex' = mutex /\ slots' = slots /\ items' = items + 1
        /\ front' = front /\ rear' = rear /\ calls' = calls
    BY <1>7 DEF EnqPost
  <2>4. MutexCounts' /\ SlotsConserved' /\ IndicesCount' /\ RearCountsCalls'
    BY <1>a, <1>b, <2>2, <2>3
    DEF MutexCounts, SlotsConserved, IndicesCount, RearCountsCalls
  <2>5. /\ mutex' \in {0, 1} /\ slots' \in 0 .. N /\ items' \in 0 .. N
        /\ front' \in Int /\ rear' \in Int /\ calls' \in 0 .. MaxCalls
    BY <1>b, <2>2, <2>3, <2>4 DEF MutexCounts, SlotsConserved
  <2>6. TypeOK'
    BY <1>7, <1>a, <1>b, <2>1, <2>5
    DEF EnqPost, TypeOK, Goto, EnqueueLabels, DequeueLabels
  <2>7. LoadedCurrent'
    BY <1>7, <1>a, <1>b, <1>c, <2>1, <2>3
    DEF EnqPost, TypeOK, Goto, LoadedCurrent, Threads, MutualExclusion, Critical
  <2> QED BY <2>4, <2>6, <2>7 DEF IInv
<1>8. ASSUME NEW p \in Producers, NEW v \in Items, EnqCall(p, v)
      PROVE  IInv'
  <2>1. p \in Threads /\ p \notin Consumers /\ Goto(p, "idle", "enq_slots")
    BY <1>8 DEF Threads, EnqCall
  <2>2. /\ At(Threads, Critical)' = At(Threads, Critical) /\ At(Threads, Critical) \in Nat /\ At(Threads, Critical)' \in Nat
        /\ At(Producers, OwnsSlot)' = At(Producers, OwnsSlot) /\ At(Producers, OwnsSlot) \in Nat /\ At(Producers, OwnsSlot)' \in Nat
        /\ At(Consumers, OwnsItem)' = At(Consumers, OwnsItem) /\ At(Consumers, OwnsItem) \in Nat /\ At(Consumers, OwnsItem)' \in Nat
        /\ At(Producers, AheadOfItems)' = At(Producers, AheadOfItems) /\ At(Producers, AheadOfItems) \in Nat /\ At(Producers, AheadOfItems)' \in Nat
        /\ At(Consumers, BehindItems)' = At(Consumers, BehindItems) /\ At(Consumers, BehindItems) \in Nat /\ At(Consumers, BehindItems)' \in Nat
        /\ At(Producers, NotInRear)' = At(Producers, NotInRear) + 1 /\ At(Producers, NotInRear) \in Nat /\ At(Producers, NotInRear)' \in Nat
    BY <1>a, <2>1, Counts, CountTypes
    DEF Critical, OwnsSlot, OwnsItem, AheadOfItems, BehindItems, NotInRear,
        EnqueueLabels, DequeueLabels
  <2>3. /\ mutex' = mutex /\ slots' = slots /\ items' = items
        /\ front' = front /\ rear' = rear /\ calls' = calls + 1 /\ calls < MaxCalls
    BY <1>8 DEF EnqCall
  <2>4. MutexCounts' /\ SlotsConserved' /\ IndicesCount' /\ RearCountsCalls'
    BY <1>a, <1>b, <2>2, <2>3
    DEF MutexCounts, SlotsConserved, IndicesCount, RearCountsCalls
  <2>5. /\ mutex' \in {0, 1} /\ slots' \in 0 .. N /\ items' \in 0 .. N
        /\ front' \in Int /\ rear' \in Int /\ calls' \in 0 .. MaxCalls
    BY <1>b, <2>2, <2>3, <2>4 DEF MutexCounts, SlotsConserved
  <2>6. TypeOK'
    BY <1>8, <1>a, <1>b, <2>1, <2>5
    DEF EnqCall, TypeOK, Goto, EnqueueLabels, DequeueLabels
  <2>7. LoadedCurrent'
    BY <1>8, <1>a, <1>b, <1>c, <2>1, <2>3
    DEF EnqCall, TypeOK, Goto, LoadedCurrent, Threads, MutualExclusion, Critical
  <2> QED BY <2>4, <2>6, <2>7 DEF IInv
<1>9. ASSUME NEW c \in Consumers, DeqWaitItem(c)
      PROVE  IInv'
  <2>1. c \in Threads /\ c \notin Producers /\ Goto(c, "deq_items", "deq_mutex")
    BY <1>9 DEF Threads, DeqWaitItem
  <2>2. /\ At(Threads, Critical)' = At(Threads, Critical) /\ At(Threads, Critical) \in Nat /\ At(Threads, Critical)' \in Nat
        /\ At(Producers, OwnsSlot)' = At(Producers, OwnsSlot) /\ At(Producers, OwnsSlot) \in Nat /\ At(Producers, OwnsSlot)' \in Nat
        /\ At(Consumers, OwnsItem)' = At(Consumers, OwnsItem) + 1 /\ At(Consumers, OwnsItem) \in Nat /\ At(Consumers, OwnsItem)' \in Nat
        /\ At(Producers, AheadOfItems)' = At(Producers, AheadOfItems) /\ At(Producers, AheadOfItems) \in Nat /\ At(Producers, AheadOfItems)' \in Nat
        /\ At(Consumers, BehindItems)' = At(Consumers, BehindItems) + 1 /\ At(Consumers, BehindItems) \in Nat /\ At(Consumers, BehindItems)' \in Nat
        /\ At(Producers, NotInRear)' = At(Producers, NotInRear) /\ At(Producers, NotInRear) \in Nat /\ At(Producers, NotInRear)' \in Nat
    BY <1>a, <2>1, Counts, CountTypes
    DEF Critical, OwnsSlot, OwnsItem, AheadOfItems, BehindItems, NotInRear,
        EnqueueLabels, DequeueLabels
  <2>3. /\ mutex' = mutex /\ slots' = slots /\ items' = items - 1
        /\ front' = front /\ rear' = rear /\ calls' = calls /\ items > 0
    BY <1>9 DEF DeqWaitItem
  <2>4. MutexCounts' /\ SlotsConserved' /\ IndicesCount' /\ RearCountsCalls'
    BY <1>a, <1>b, <2>2, <2>3
    DEF MutexCounts, SlotsConserved, IndicesCount, RearCountsCalls
  <2>5. /\ mutex' \in {0, 1} /\ slots' \in 0 .. N /\ items' \in 0 .. N
        /\ front' \in Int /\ rear' \in Int /\ calls' \in 0 .. MaxCalls
    BY <1>b, <2>2, <2>3, <2>4 DEF MutexCounts, SlotsConserved
  <2>6. TypeOK'
    BY <1>9, <1>a, <1>b, <2>1, <2>5
    DEF DeqWaitItem, TypeOK, Goto, EnqueueLabels, DequeueLabels
  <2>7. LoadedCurrent'
    BY <1>9, <1>a, <1>b, <1>c, <2>1, <2>3
    DEF DeqWaitItem, TypeOK, Goto, LoadedCurrent, Threads, MutualExclusion, Critical
  <2> QED BY <2>4, <2>6, <2>7 DEF IInv
<1>10. ASSUME NEW c \in Consumers, DeqLock(c)
      PROVE  IInv'
  <2>1. c \in Threads /\ c \notin Producers /\ Goto(c, "deq_mutex", "deq_load")
    BY <1>10 DEF Threads, DeqLock
  <2>2. /\ At(Threads, Critical)' = At(Threads, Critical) + 1 /\ At(Threads, Critical) \in Nat /\ At(Threads, Critical)' \in Nat
        /\ At(Producers, OwnsSlot)' = At(Producers, OwnsSlot) /\ At(Producers, OwnsSlot) \in Nat /\ At(Producers, OwnsSlot)' \in Nat
        /\ At(Consumers, OwnsItem)' = At(Consumers, OwnsItem) /\ At(Consumers, OwnsItem) \in Nat /\ At(Consumers, OwnsItem)' \in Nat
        /\ At(Producers, AheadOfItems)' = At(Producers, AheadOfItems) /\ At(Producers, AheadOfItems) \in Nat /\ At(Producers, AheadOfItems)' \in Nat
        /\ At(Consumers, BehindItems)' = At(Consumers, BehindItems) /\ At(Consumers, BehindItems) \in Nat /\ At(Consumers, BehindItems)' \in Nat
        /\ At(Producers, NotInRear)' = At(Producers, NotInRear) /\ At(Producers, NotInRear) \in Nat /\ At(Producers, NotInRear)' \in Nat
    BY <1>a, <2>1, Counts, CountTypes
    DEF Critical, OwnsSlot, OwnsItem, AheadOfItems, BehindItems, NotInRear,
        EnqueueLabels, DequeueLabels
  <2>3. /\ mutex' = mutex - 1 /\ slots' = slots /\ items' = items
        /\ front' = front /\ rear' = rear /\ calls' = calls /\ mutex > 0
    BY <1>10 DEF DeqLock
  <2>4. MutexCounts' /\ SlotsConserved' /\ IndicesCount' /\ RearCountsCalls'
    BY <1>a, <1>b, <2>2, <2>3
    DEF MutexCounts, SlotsConserved, IndicesCount, RearCountsCalls
  <2>5. /\ mutex' \in {0, 1} /\ slots' \in 0 .. N /\ items' \in 0 .. N
        /\ front' \in Int /\ rear' \in Int /\ calls' \in 0 .. MaxCalls
    BY <1>b, <2>2, <2>3, <2>4 DEF MutexCounts, SlotsConserved
  <2>6. TypeOK'
    BY <1>10, <1>a, <1>b, <2>1, <2>5
    DEF DeqLock, TypeOK, Goto, EnqueueLabels, DequeueLabels
  <2>7. LoadedCurrent'
    BY <1>10, <1>a, <1>b, <1>c, <2>1, <2>3
    DEF DeqLock, TypeOK, Goto, LoadedCurrent, Threads, MutualExclusion, Critical
  <2> QED BY <2>4, <2>6, <2>7 DEF IInv
<1>11. ASSUME NEW c \in Consumers, DeqLoad(c)
      PROVE  IInv'
  <2>1. c \in Threads /\ c \notin Producers /\ Goto(c, "deq_load", "deq_inc")
    BY <1>11 DEF Threads, DeqLoad
  <2>2. /\ At(Threads, Critical)' = At(Threads, Critical) /\ At(Threads, Critical) \in Nat /\ At(Threads, Critical)' \in Nat
        /\ At(Producers, OwnsSlot)' = At(Producers, OwnsSlot) /\ At(Producers, OwnsSlot) \in Nat /\ At(Producers, OwnsSlot)' \in Nat
        /\ At(Consumers, OwnsItem)' = At(Consumers, OwnsItem) /\ At(Consumers, OwnsItem) \in Nat /\ At(Consumers, OwnsItem)' \in Nat
        /\ At(Producers, AheadOfItems)' = At(Producers, AheadOfItems) /\ At(Producers, AheadOfItems) \in Nat /\ At(Producers, AheadOfItems)' \in Nat
        /\ At(Consumers, BehindItems)' = At(Consumers, BehindItems) /\ At(Consumers, BehindItems) \in Nat /\ At(Consumers, BehindItems)' \in Nat
        /\ At(Producers, NotInRear)' = At(Producers, NotInRear) /\ At(Producers, NotInRear) \in Nat /\ At(Producers, NotInRear)' \in Nat
    BY <1>a, <2>1, Counts, CountTypes
    DEF Critical, OwnsSlot, OwnsItem, AheadOfItems, BehindItems, NotInRear,
        EnqueueLabels, DequeueLabels
  <2>3. /\ mutex' = mutex /\ slots' = slots /\ items' = items
        /\ front' = front /\ rear' = rear /\ calls' = calls
    BY <1>11 DEF DeqLoad
  <2>4. MutexCounts' /\ SlotsConserved' /\ IndicesCount' /\ RearCountsCalls'
    BY <1>a, <1>b, <2>2, <2>3
    DEF MutexCounts, SlotsConserved, IndicesCount, RearCountsCalls
  <2>5. /\ mutex' \in {0, 1} /\ slots' \in 0 .. N /\ items' \in 0 .. N
        /\ front' \in Int /\ rear' \in Int /\ calls' \in 0 .. MaxCalls
    BY <1>b, <2>2, <2>3, <2>4 DEF MutexCounts, SlotsConserved
  <2>6. TypeOK'
    BY <1>11, <1>a, <1>b, <2>1, <2>5
    DEF DeqLoad, TypeOK, Goto, EnqueueLabels, DequeueLabels
  <2>k. rear >= 0
    BY <1>b, <2>2, <1>a DEF IndicesCount
  <2>7. LoadedCurrent'
    BY <1>11, <1>a, <1>b, <1>c, <2>1, <2>3, <2>k
    DEF DeqLoad, TypeOK, Goto, LoadedCurrent, Threads, MutualExclusion, Critical
  <2> QED BY <2>4, <2>6, <2>7 DEF IInv
<1>12. ASSUME NEW c \in Consumers, DeqInc(c)
      PROVE  IInv'
  <2>1. c \in Threads /\ c \notin Producers /\ Goto(c, "deq_inc", "deq_read")
    BY <1>12 DEF Threads, DeqInc
  <2>2. /\ At(Threads, Critical)' = At(Threads, Critical) /\ At(Threads, Critical) \in Nat /\ At(Threads, Critical)' \in Nat
        /\ At(Producers, OwnsSlot)' = At(Producers, OwnsSlot) /\ At(Producers, OwnsSlot) \in Nat /\ At(Producers, OwnsSlot)' \in Nat
        /\ At(Consumers, OwnsItem)' = At(Consumers, OwnsItem) /\ At(Consumers, OwnsItem) \in Nat /\ At(Consumers, OwnsItem)' \in Nat
        /\ At(Producers, AheadOfItems)' = At(Producers, AheadOfItems) /\ At(Producers, AheadOfItems) \in Nat /\ At(Producers, AheadOfItems)' \in Nat
        /\ At(Consumers, BehindItems)' = At(Consumers, BehindItems) - 1 /\ At(Consumers, BehindItems) \in Nat /\ At(Consumers, BehindItems)' \in Nat
        /\ At(Producers, NotInRear)' = At(Producers, NotInRear) /\ At(Producers, NotInRear) \in Nat /\ At(Producers, NotInRear)' \in Nat
    BY <1>a, <2>1, Counts, CountTypes
    DEF Critical, OwnsSlot, OwnsItem, AheadOfItems, BehindItems, NotInRear,
        EnqueueLabels, DequeueLabels
  <2>3. /\ mutex' = mutex /\ slots' = slots /\ items' = items
        /\ front' = front + 1 /\ rear' = rear /\ calls' = calls
    BY <1>12, DeqIncAdds DEF DeqInc
  <2>4. MutexCounts' /\ SlotsConserved' /\ IndicesCount' /\ RearCountsCalls'
    BY <1>a, <1>b, <2>2, <2>3
    DEF MutexCounts, SlotsConserved, IndicesCount, RearCountsCalls
  <2>5. /\ mutex' \in {0, 1} /\ slots' \in 0 .. N /\ items' \in 0 .. N
        /\ front' \in Int /\ rear' \in Int /\ calls' \in 0 .. MaxCalls
    BY <1>b, <2>2, <2>3, <2>4 DEF MutexCounts, SlotsConserved
  <2>6. TypeOK'
    BY <1>12, <1>a, <1>b, <2>1, <2>5
    DEF DeqInc, TypeOK, Goto, EnqueueLabels, DequeueLabels
  <2>7. LoadedCurrent'
    BY <1>12, <1>a, <1>b, <1>c, <2>1, <2>3
    DEF DeqInc, TypeOK, Goto, LoadedCurrent, Threads, MutualExclusion, Critical
  <2> QED BY <2>4, <2>6, <2>7 DEF IInv
<1>13. ASSUME NEW c \in Consumers, DeqRead(c)
      PROVE  IInv'
  <2>1. c \in Threads /\ c \notin Producers /\ Goto(c, "deq_read", "deq_unlock")
    BY <1>13 DEF Threads, DeqRead
  <2>2. /\ At(Threads, Critical)' = At(Threads, Critical) /\ At(Threads, Critical) \in Nat /\ At(Threads, Critical)' \in Nat
        /\ At(Producers, OwnsSlot)' = At(Producers, OwnsSlot) /\ At(Producers, OwnsSlot) \in Nat /\ At(Producers, OwnsSlot)' \in Nat
        /\ At(Consumers, OwnsItem)' = At(Consumers, OwnsItem) /\ At(Consumers, OwnsItem) \in Nat /\ At(Consumers, OwnsItem)' \in Nat
        /\ At(Producers, AheadOfItems)' = At(Producers, AheadOfItems) /\ At(Producers, AheadOfItems) \in Nat /\ At(Producers, AheadOfItems)' \in Nat
        /\ At(Consumers, BehindItems)' = At(Consumers, BehindItems) /\ At(Consumers, BehindItems) \in Nat /\ At(Consumers, BehindItems)' \in Nat
        /\ At(Producers, NotInRear)' = At(Producers, NotInRear) /\ At(Producers, NotInRear) \in Nat /\ At(Producers, NotInRear)' \in Nat
    BY <1>a, <2>1, Counts, CountTypes
    DEF Critical, OwnsSlot, OwnsItem, AheadOfItems, BehindItems, NotInRear,
        EnqueueLabels, DequeueLabels
  <2>3. /\ mutex' = mutex /\ slots' = slots /\ items' = items
        /\ front' = front /\ rear' = rear /\ calls' = calls
    BY <1>13 DEF DeqRead
  <2>4. MutexCounts' /\ SlotsConserved' /\ IndicesCount' /\ RearCountsCalls'
    BY <1>a, <1>b, <2>2, <2>3
    DEF MutexCounts, SlotsConserved, IndicesCount, RearCountsCalls
  <2>5. /\ mutex' \in {0, 1} /\ slots' \in 0 .. N /\ items' \in 0 .. N
        /\ front' \in Int /\ rear' \in Int /\ calls' \in 0 .. MaxCalls
    BY <1>b, <2>2, <2>3, <2>4 DEF MutexCounts, SlotsConserved
  <2>j. Slot(idx[c]) \in 0 .. N-1
    BY <1>a, <2>1, SlotRange DEF LoadedCurrent, TypeOK
  <2>6. TypeOK'
    BY <1>13, <1>a, <1>b, <2>1, <2>5, <2>j
    DEF DeqRead, TypeOK, Goto, EnqueueLabels, DequeueLabels
  <2>7. LoadedCurrent'
    BY <1>13, <1>a, <1>b, <1>c, <2>1, <2>3
    DEF DeqRead, TypeOK, Goto, LoadedCurrent, Threads, MutualExclusion, Critical
  <2> QED BY <2>4, <2>6, <2>7 DEF IInv
<1>14. ASSUME NEW c \in Consumers, DeqUnlock(c)
      PROVE  IInv'
  <2>1. c \in Threads /\ c \notin Producers /\ Goto(c, "deq_unlock", "deq_post")
    BY <1>14 DEF Threads, DeqUnlock
  <2>2. /\ At(Threads, Critical)' = At(Threads, Critical) - 1 /\ At(Threads, Critical) \in Nat /\ At(Threads, Critical)' \in Nat
        /\ At(Producers, OwnsSlot)' = At(Producers, OwnsSlot) /\ At(Producers, OwnsSlot) \in Nat /\ At(Producers, OwnsSlot)' \in Nat
        /\ At(Consumers, OwnsItem)' = At(Consumers, OwnsItem) /\ At(Consumers, OwnsItem) \in Nat /\ At(Consumers, OwnsItem)' \in Nat
        /\ At(Producers, AheadOfItems)' = At(Producers, AheadOfItems) /\ At(Producers, AheadOfItems) \in Nat /\ At(Producers, AheadOfItems)' \in Nat
        /\ At(Consumers, BehindItems)' = At(Consumers, BehindItems) /\ At(Consumers, BehindItems) \in Nat /\ At(Consumers, BehindItems)' \in Nat
        /\ At(Producers, NotInRear)' = At(Producers, NotInRear) /\ At(Producers, NotInRear) \in Nat /\ At(Producers, NotInRear)' \in Nat
    BY <1>a, <2>1, Counts, CountTypes
    DEF Critical, OwnsSlot, OwnsItem, AheadOfItems, BehindItems, NotInRear,
        EnqueueLabels, DequeueLabels
  <2>3. /\ mutex' = mutex + 1 /\ slots' = slots /\ items' = items
        /\ front' = front /\ rear' = rear /\ calls' = calls
    BY <1>14 DEF DeqUnlock
  <2>4. MutexCounts' /\ SlotsConserved' /\ IndicesCount' /\ RearCountsCalls'
    BY <1>a, <1>b, <2>2, <2>3
    DEF MutexCounts, SlotsConserved, IndicesCount, RearCountsCalls
  <2>5. /\ mutex' \in {0, 1} /\ slots' \in 0 .. N /\ items' \in 0 .. N
        /\ front' \in Int /\ rear' \in Int /\ calls' \in 0 .. MaxCalls
    BY <1>b, <2>2, <2>3, <2>4 DEF MutexCounts, SlotsConserved
  <2>6. TypeOK'
    BY <1>14, <1>a, <1>b, <2>1, <2>5
    DEF DeqUnlock, TypeOK, Goto, EnqueueLabels, DequeueLabels
  <2>7. LoadedCurrent'
    BY <1>14, <1>a, <1>b, <1>c, <2>1, <2>3
    DEF DeqUnlock, TypeOK, Goto, LoadedCurrent, Threads, MutualExclusion, Critical
  <2> QED BY <2>4, <2>6, <2>7 DEF IInv
<1>15. ASSUME NEW c \in Consumers, DeqPost(c)
      PROVE  IInv'
  <2>1. c \in Threads /\ c \notin Producers /\ Goto(c, "deq_post", "deq_items")
    BY <1>15 DEF Threads, DeqPost
  <2>2. /\ At(Threads, Critical)' = At(Threads, Critical) /\ At(Threads, Critical) \in Nat /\ At(Threads, Critical)' \in Nat
        /\ At(Producers, OwnsSlot)' = At(Producers, OwnsSlot) /\ At(Producers, OwnsSlot) \in Nat /\ At(Producers, OwnsSlot)' \in Nat
        /\ At(Consumers, OwnsItem)' = At(Consumers, OwnsItem) - 1 /\ At(Consumers, OwnsItem) \in Nat /\ At(Consumers, OwnsItem)' \in Nat
        /\ At(Producers, AheadOfItems)' = At(Producers, AheadOfItems) /\ At(Producers, AheadOfItems) \in Nat /\ At(Producers, AheadOfItems)' \in Nat
        /\ At(Consumers, BehindItems)' = At(Consumers, BehindItems) /\ At(Consumers, BehindItems) \in Nat /\ At(Consumers, BehindItems)' \in Nat
        /\ At(Producers, NotInRear)' = At(Producers, NotInRear) /\ At(Producers, NotInRear) \in Nat /\ At(Producers, NotInRear)' \in Nat
    BY <1>a, <2>1, Counts, CountTypes
    DEF Critical, OwnsSlot, OwnsItem, AheadOfItems, BehindItems, NotInRear,
        EnqueueLabels, DequeueLabels
  <2>3. /\ mutex' = mutex /\ slots' = slots + 1 /\ items' = items
        /\ front' = front /\ rear' = rear /\ calls' = calls
    BY <1>15 DEF DeqPost
  <2>4. MutexCounts' /\ SlotsConserved' /\ IndicesCount' /\ RearCountsCalls'
    BY <1>a, <1>b, <2>2, <2>3
    DEF MutexCounts, SlotsConserved, IndicesCount, RearCountsCalls
  <2>5. /\ mutex' \in {0, 1} /\ slots' \in 0 .. N /\ items' \in 0 .. N
        /\ front' \in Int /\ rear' \in Int /\ calls' \in 0 .. MaxCalls
    BY <1>b, <2>2, <2>3, <2>4 DEF MutexCounts, SlotsConserved
  <2>6. TypeOK'
    BY <1>15, <1>a, <1>b, <2>1, <2>5
    DEF DeqPost, TypeOK, Goto, EnqueueLabels, DequeueLabels
  <2>7. LoadedCurrent'
    BY <1>15, <1>a, <1>b, <1>c, <2>1, <2>3
    DEF DeqPost, TypeOK, Goto, LoadedCurrent, Threads, MutualExclusion, Critical
  <2> QED BY <2>4, <2>6, <2>7 DEF IInv
<1>16. CASE UNCHANGED vars
  <2>1. /\ At(Threads, Critical)' = At(Threads, Critical)
        /\ At(Producers, OwnsSlot)' = At(Producers, OwnsSlot)
        /\ At(Consumers, OwnsItem)' = At(Consumers, OwnsItem)
        /\ At(Producers, AheadOfItems)' = At(Producers, AheadOfItems)
        /\ At(Consumers, BehindItems)' = At(Consumers, BehindItems)
        /\ At(Producers, NotInRear)' = At(Producers, NotInRear)
    BY <1>16 DEF vars, At
  <2> QED
    BY <1>16, <1>a, <2>1
    DEF vars, IInv, TypeOK, MutexCounts, SlotsConserved, IndicesCount,
        LoadedCurrent, RearCountsCalls
<1> QED
  BY <1>1, <1>2, <1>3, <1>4, <1>5, <1>6, <1>7, <1>8, <1>9, <1>10, <1>11, <1>12,
     <1>13, <1>14, <1>15, <1>16
  DEF Next, Enqueue, Dequeue, Quiescent

\* The inductive invariant holds initially.
LEMMA InitIInv == Init => IInv
<1> SUFFICES ASSUME Init PROVE IInv
  OBVIOUS
<1> USE SbufAssumption
<1>1. TypeOK
  BY DEF Init, TypeOK, Threads, EnqueueLabels, DequeueLabels
<1>2. /\ At(Threads, Critical) = 0
      /\ At(Producers, OwnsSlot) = 0 /\ At(Consumers, OwnsItem) = 0
      /\ At(Producers, AheadOfItems) = 0 /\ At(Consumers, BehindItems) = 0
      /\ At(Producers, NotInRear) = 0
  <2>1. /\ {t \in Threads : pc[t] \in Critical} = {}
        /\ {t \in Producers : pc[t] \in OwnsSlot} = {}
        /\ {t \in Consumers : pc[t] \in OwnsItem} = {}
        /\ {t \in Producers : pc[t] \in AheadOfItems} = {}
        /\ {t \in Consumers : pc[t] \in BehindItems} = {}
        /\ {t \in Producers : pc[t] \in NotInRear} = {}
    BY DEF Init, Threads, Critical, OwnsSlot, OwnsItem, AheadOfItems,
           BehindItems, NotInRear, EnqueueLabels, DequeueLabels
  <2> QED BY <2>1, FS_EmptySet DEF At
<1>3. LoadedCurrent
  BY DEF Init, LoadedCurrent, Threads
<1> QED
  BY <1>1, <1>2, <1>3
  DEF Init, IInv, MutexCounts, SlotsConserved, IndicesCount, RearCountsCalls

THEOREM IInvHolds == ASSUME MaxCalls <= IntMax PROVE Spec => []IInv
<1>1. IInv /\ [Next]_vars => IInv'
  BY Inductive
<1> QED BY <1>1, InitIInv, PTL DEF Spec

----------------------------------------------------------------------------
(* What follows from it *)

\* Every variable keeps its type: in particular the two counting semaphores
\* never exceed N, and mutex is never posted twice.
THEOREM TypeCorrect == ASSUME MaxCalls <= IntMax PROVE Spec => []TypeOK
BY IInvHolds, PTL DEF IInv

\* At most one thread, producer or consumer, is between P(&mutex) and
\* V(&mutex).
THEOREM MutexTheorem == ASSUME MaxCalls <= IntMax PROVE Spec => []MutualExclusion
<1>1. IInv => MutualExclusion
  BY Alone
<1> QED BY <1>1, IInvHolds, PTL

\* No slot of the buffer is ever lost or counted twice.
THEOREM SlotsTheorem == ASSUME MaxCalls <= IntMax PROVE Spec => []SlotsConserved
BY IInvHolds, PTL DEF IInv

\* The positions between head and tail, and what the thread in the critical
\* section knows about them.
LEMMA Window ==
  ASSUME IInv
  PROVE  /\ HeadPos \in Nat /\ TailPos \in Nat
         /\ TailPos - HeadPos \in 0 .. N
         /\ \A p \in Producers : pc[p] = "enq_store" =>
              /\ TailPos - HeadPos < N
              /\ HeadPos = front /\ TailPos = rear - 1
         /\ \A c \in Consumers : pc[c] = "deq_read" =>
              /\ TailPos - HeadPos > 0
              /\ HeadPos = front - 1 /\ TailPos = rear
<1> USE SbufAssumption
<1>1. /\ rear \in Int /\ front \in Nat /\ items \in Nat /\ slots \in Nat
      /\ rear - front = items + At(Producers, AheadOfItems)
                              + At(Consumers, BehindItems)
      /\ slots + items + At(Producers, OwnsSlot) + At(Consumers, OwnsItem) = N
  BY DEF IInv, TypeOK, IndicesCount, SlotsConserved, RearCountsCalls
<1>2. AheadOfItems \subseteq OwnsSlot /\ BehindItems \subseteq OwnsItem
  BY DEF AheadOfItems, OwnsSlot, BehindItems, OwnsItem, EnqueueLabels, DequeueLabels
<1>3. /\ At(Producers, AheadOfItems) <= At(Producers, OwnsSlot)
      /\ At(Consumers, BehindItems) <= At(Consumers, OwnsItem)
  BY <1>2, CountMono
<1>4. MutualExclusion
  BY Alone
<1>5. ASSUME NEW p \in Producers, pc[p] = "enq_store"
      PROVE  /\ \A c \in Consumers : pc[c] # "deq_read"
             /\ At(Producers, AheadOfItems) >= 1
  <2>1. \A c \in Consumers : pc[c] # "deq_read"
    BY <1>4, <1>5 DEF MutualExclusion, Critical, Threads
  <2>2. At(Producers, {}) < At(Producers, AheadOfItems)
    BY <1>5, CountStrict DEF AheadOfItems
  <2> QED BY <2>1, <2>2, CountMono
<1>6. ASSUME NEW c \in Consumers, pc[c] = "deq_read"
      PROVE  /\ \A p \in Producers : pc[p] # "enq_store"
             /\ front >= 1
             /\ At(Consumers, BehindItems) < At(Consumers, OwnsItem)
  <2>1. \A p \in Producers : pc[p] # "enq_store"
    BY <1>4, <1>6 DEF MutualExclusion, Critical, Threads
  <2>2. front >= 1
    BY <1>1, <1>6 DEF IInv, TypeOK, LoadedCurrent, Threads
  <2>3. At(Consumers, BehindItems) < At(Consumers, OwnsItem)
    BY <1>2, <1>6, CountStrict DEF BehindItems, OwnsItem, DequeueLabels
  <2> QED BY <2>1, <2>2, <2>3
<1>7. CASE \E p \in Producers : pc[p] = "enq_store"
  BY <1>1, <1>3, <1>5, <1>7, CountTypes DEF HeadPos, TailPos
<1>8. CASE \E c \in Consumers : pc[c] = "deq_read"
  BY <1>1, <1>3, <1>6, <1>8, CountTypes DEF HeadPos, TailPos
<1>9. CASE /\ ~\E p \in Producers : pc[p] = "enq_store"
           /\ ~\E c \in Consumers : pc[c] = "deq_read"
  BY <1>1, <1>3, <1>9, CountTypes DEF HeadPos, TailPos
<1> QED BY <1>7, <1>8, <1>9

\* A slot is neither read before it is stored nor stored over an item still
\* to be read.
THEOREM NoClashTheorem == ASSUME MaxCalls <= IntMax PROVE Spec => []NoSlotClash
<1>1. IInv => NoSlotClash
  BY Window DEF NoSlotClash
<1> QED BY <1>1, IInvHolds, PTL

----------------------------------------------------------------------------
(* The refinement of BoundedFifo *)

LEMMA FifoInitial == Init => Fifo!FifoInit
<1> SUFFICES ASSUME Init PROVE Fifo!FifoInit
  OBVIOUS
<1>1. TailPos - HeadPos = 0
  BY DEF Init, TailPos, HeadPos, Threads
<1>2. Queue = <<>>
  BY <1>1 DEF Queue
<1>3. Pending = {} /\ item = [t \in Producers \cup Consumers |-> NoItem]
  BY DEF Init, Pending, Threads
<1> QED BY <1>2, <1>3 DEF Fifo!FifoInit

\* A thread that does not touch a slot leaves the abstract queue as it is.
\* EnqInc and DeqInc move rear and front, and the position they move past is
\* accounted for by the label they reach.
LEMMA WindowStays ==
  ASSUME IInv, MaxCalls <= IntMax, NEW t \in Threads,
         \/ t \in Producers /\ \/ EnqWaitSlot(t) \/ EnqLock(t) \/ EnqLoad(t)
                               \/ EnqInc(t) \/ EnqUnlock(t) \/ EnqPost(t)
                               \/ \E v \in Items : EnqCall(t, v)
         \/ t \in Consumers /\ \/ DeqWaitItem(t) \/ DeqLock(t) \/ DeqLoad(t)
                               \/ DeqInc(t) \/ DeqUnlock(t) \/ DeqPost(t)
  PROVE  HeadPos' = HeadPos /\ TailPos' = TailPos /\ Queue' = Queue
<1> USE SbufAssumption
<1>1. MutualExclusion /\ TypeOK /\ LoadedCurrent
  BY Alone DEF IInv
<1>2. /\ rear \in Int /\ front \in Int
      /\ pc \in [Threads -> EnqueueLabels \cup DequeueLabels]
  BY <1>1 DEF TypeOK
<1>3. CASE t \in Producers /\ EnqInc(t)
  <2>1. rear' = rear + 1 /\ front' = front /\ buf' = buf
    BY <1>3, EnqIncAdds DEF EnqInc
  <2>2. ~(\E p \in Producers : pc[p] = "enq_store")
    BY <1>1, <1>3 DEF MutualExclusion, Critical, Threads, EnqInc, Goto
  <2>3. \E p \in Producers : pc'[p] = "enq_store"
    BY <1>2, <1>3 DEF EnqInc, Goto
  <2>4. \A c \in Consumers : pc'[c] = pc[c]
    BY <1>2, <1>3 DEF EnqInc, Goto, Threads
  <2>5. HeadPos' = HeadPos /\ TailPos' = TailPos
    BY <1>2, <2>1, <2>2, <2>3, <2>4 DEF HeadPos, TailPos
  <2> QED BY <2>1, <2>5 DEF Queue
<1>4. CASE t \in Consumers /\ DeqInc(t)
  <2>1. front' = front + 1 /\ rear' = rear /\ buf' = buf
    BY <1>4, DeqIncAdds DEF DeqInc
  <2>2. ~(\E c \in Consumers : pc[c] = "deq_read")
    BY <1>1, <1>4 DEF MutualExclusion, Critical, Threads, DeqInc, Goto
  <2>3. \E c \in Consumers : pc'[c] = "deq_read"
    BY <1>2, <1>4 DEF DeqInc, Goto
  <2>4. \A p \in Producers : pc'[p] = pc[p]
    BY <1>2, <1>4 DEF DeqInc, Goto, Threads
  <2>5. HeadPos' = HeadPos /\ TailPos' = TailPos
    BY <1>2, <2>1, <2>2, <2>3, <2>4 DEF HeadPos, TailPos
  <2> QED BY <2>1, <2>5 DEF Queue
<1>5. CASE ~(t \in Producers /\ EnqInc(t)) /\ ~(t \in Consumers /\ DeqInc(t))
  <2>1. rear' = rear /\ front' = front /\ buf' = buf
    BY <1>5
    DEF EnqWaitSlot, EnqLock, EnqLoad, EnqUnlock, EnqPost, EnqCall,
        DeqWaitItem, DeqLock, DeqLoad, DeqUnlock, DeqPost
  <2>2. \E from, to : /\ Goto(t, from, to)
                      /\ from \notin {"enq_store", "deq_read"}
                      /\ to \notin {"enq_store", "deq_read"}
    BY <1>5
    DEF EnqWaitSlot, EnqLock, EnqLoad, EnqUnlock, EnqPost, EnqCall,
        DeqWaitItem, DeqLock, DeqLoad, DeqUnlock, DeqPost
  <2>3. \A u \in Threads :
          /\ pc'[u] = "enq_store" <=> pc[u] = "enq_store"
          /\ pc'[u] = "deq_read" <=> pc[u] = "deq_read"
    BY <1>2, <2>2 DEF Goto
  <2>4. HeadPos' = HeadPos /\ TailPos' = TailPos
    BY <2>1, <2>3 DEF HeadPos, TailPos, Threads
  <2> QED BY <2>1, <2>4 DEF Queue
<1> QED BY <1>3, <1>4, <1>5

\* EnqStore appends the item: the new position is in a slot of its own.
LEMMA StorePuts ==
  ASSUME IInv, NEW p \in Producers, EnqStore(p)
  PROVE  Fifo!Put(p)
<1> USE SbufAssumption
<1>1. MutualExclusion /\ TypeOK /\ LoadedCurrent
  BY Alone DEF IInv
<1>2. /\ rear \in Int /\ front \in Int /\ p \in Threads /\ p \notin Consumers
      /\ pc \in [Threads -> EnqueueLabels \cup DequeueLabels]
      /\ pc[p] = "enq_store" /\ pc' = [pc EXCEPT ![p] = "enq_unlock"]
      /\ rear' = rear /\ front' = front /\ item' = item
      /\ buf' = [buf EXCEPT ![Slot(idx[p])] = item[p]]
  BY <1>1 DEF TypeOK, EnqStore, Goto, Threads
<1>3. /\ HeadPos \in Nat /\ TailPos \in Nat
      /\ TailPos - HeadPos \in 0 .. N-1 /\ TailPos = rear - 1
  BY <1>2, Window
<1>4. idx[p] = TailPos /\ Slot(idx[p]) = TailPos % N /\ TailPos % N \in 0 .. N-1
  BY <1>1, <1>2, <1>3, SlotRange DEF LoadedCurrent
<1>5. HeadPos' = HeadPos
  BY <1>2 DEF HeadPos
<1>6. TailPos' = TailPos + 1
  <2>1. \A q \in Producers : q # p => pc[q] # "enq_store"
    BY <1>1, <1>2 DEF MutualExclusion, Critical, Threads
  <2>2. ~\E q \in Producers : pc'[q] = "enq_store"
    BY <1>2, <2>1 DEF Threads
  <2> QED BY <1>2, <1>3, <2>2 DEF TailPos
<1> DEFINE V == Items \cup {NoItem}
<1>7. PICK n \in Nat : n < N /\ TailPos = HeadPos + n
  BY <1>3
<1>8. /\ buf \in [0 .. N-1 -> V] /\ buf' \in [0 .. N-1 -> V] /\ item[p] \in V
      /\ \A i \in 1 .. n + 1 : (HeadPos + i - 1) % N \in 0 .. N-1
  <2>1. buf \in [0 .. N-1 -> V] /\ item[p] \in V
    BY <1>1, <1>2 DEF TypeOK
  <2>2. buf' \in [0 .. N-1 -> V]
    BY <1>2, <2>1
  <2>3. \A i \in 1 .. n + 1 : HeadPos + i - 1 \in Nat
    BY <1>3, <1>7
  <2> QED BY <2>1, <2>2, <2>3, ModRange
<1>9. Queue = [i \in 1 .. n |-> buf[(HeadPos + i - 1) % N]]
  BY <1>3, <1>7 DEF Queue
<1>10. Queue' = [i \in 1 .. n + 1 |-> buf'[(HeadPos + i - 1) % N]]
  <2>1. TailPos' - HeadPos' = n + 1
    <3>1. TailPos' \in Nat /\ HeadPos' \in Nat
      BY <1>3, <1>5, <1>6
    <3>2. TailPos' = HeadPos' + n + 1
      BY <1>3, <1>5, <1>6, <1>7
    <3>3. \A a, b \in Nat : a = b + n + 1 => a - b = n + 1
      OBVIOUS
    <3> QED BY <3>1, <3>2, <3>3
  <2>2. Queue' = [i \in 1 .. TailPos' - HeadPos' |-> buf'[(HeadPos' + i - 1) % N]]
    BY DEF Queue
  <2> QED BY <1>5, <2>1, <2>2
<1>11. Queue \in [1 .. n -> V] /\ Queue' \in [1 .. n + 1 -> V]
  BY <1>7, <1>8, <1>9, <1>10
<1>12. \A i \in 1 .. n : Queue'[i] = Queue[i]
  <2> SUFFICES ASSUME NEW i \in 1 .. n PROVE Queue'[i] = Queue[i]
    OBVIOUS
  <2>1. HeadPos + i - 1 \in Nat /\ HeadPos + i - 1 < TailPos
        /\ TailPos - (HeadPos + i - 1) < N
    BY <1>3, <1>7
  <2>2. (HeadPos + i - 1) % N # TailPos % N
    BY <1>3, <2>1, ModDistinct
  <2>3. buf'[(HeadPos + i - 1) % N] = buf[(HeadPos + i - 1) % N]
    BY <1>2, <1>4, <1>7, <1>8, <2>2
  <2>4. i \in 1 .. n + 1
    BY <1>7
  <2> QED BY <1>9, <1>10, <2>3, <2>4
<1>a. Queue'[n + 1] = item[p]
  <2>1. n + 1 \in 1 .. n + 1 /\ HeadPos + (n + 1) - 1 = TailPos
    BY <1>3, <1>7
  <2>2. buf'[TailPos % N] = item[p]
    BY <1>2, <1>4, <1>8
  <2> QED BY <1>10, <2>1, <2>2
<1>b. Queue' = Append(Queue, item[p]) /\ Len(Queue) < N
  BY <1>7, <1>8, <1>11, <1>12, <1>a, AppendExtends, FunctionIsSeq
<1>c. p \in Pending /\ Pending' = Pending \ {p}
  BY <1>2 DEF Pending, Threads
<1> QED BY <1>2, <1>b, <1>c DEF Fifo!Put

\* DeqRead takes the first item of the abstract queue.
LEMMA ReadTakes ==
  ASSUME IInv, NEW c \in Consumers, DeqRead(c)
  PROVE  Fifo!Take(c)
<1> USE SbufAssumption
<1>1. MutualExclusion /\ TypeOK /\ LoadedCurrent
  BY Alone DEF IInv
<1>2. /\ rear \in Int /\ front \in Int /\ c \in Threads /\ c \notin Producers
      /\ pc \in [Threads -> EnqueueLabels \cup DequeueLabels]
      /\ pc[c] = "deq_read" /\ pc' = [pc EXCEPT ![c] = "deq_unlock"]
      /\ rear' = rear /\ front' = front /\ buf' = buf
      /\ item' = [item EXCEPT ![c] = buf[Slot(idx[c])]]
  BY <1>1 DEF TypeOK, DeqRead, Goto, Threads
<1>3. /\ HeadPos \in Nat /\ TailPos \in Nat
      /\ TailPos - HeadPos \in 1 .. N /\ HeadPos = front - 1
  BY <1>2, Window
<1>4. idx[c] = HeadPos /\ Slot(idx[c]) = HeadPos % N
  BY <1>1, <1>2, <1>3, SlotRange DEF LoadedCurrent
<1>5. TailPos' = TailPos
  BY <1>2 DEF TailPos
<1>6. HeadPos' = HeadPos + 1
  <2>1. \A d \in Consumers : d # c => pc[d] # "deq_read"
    BY <1>1, <1>2 DEF MutualExclusion, Critical, Threads
  <2>2. ~\E d \in Consumers : pc'[d] = "deq_read"
    BY <1>2, <2>1 DEF Threads
  <2> QED BY <1>2, <1>3, <2>2 DEF HeadPos
<1> DEFINE V == Items \cup {NoItem}
<1>7. PICK n \in Nat : TailPos = HeadPos + n + 1
  <2>1. TailPos - HeadPos - 1 \in Nat
    BY <1>3
  <2>2. TailPos = HeadPos + (TailPos - HeadPos - 1) + 1
    BY <1>3
  <2> QED BY <2>1, <2>2
<1>8. /\ buf \in [0 .. N-1 -> V]
      /\ \A i \in 1 .. n + 1 : (HeadPos + i - 1) % N \in 0 .. N-1
  <2>1. \A i \in 1 .. n + 1 : HeadPos + i - 1 \in Nat
    BY <1>3, <1>7
  <2> QED BY <1>1, <2>1, ModRange DEF TypeOK
<1>9. Queue = [i \in 1 .. n + 1 |-> buf[(HeadPos + i - 1) % N]]
  <2>1. TailPos - HeadPos = n + 1
    BY <1>3, <1>7
  <2> QED BY <2>1 DEF Queue
<1>10. Queue' = [i \in 1 .. n |-> buf[(HeadPos + 1 + i - 1) % N]]
  <2>1. TailPos' - HeadPos' = n
    BY <1>3, <1>5, <1>6, <1>7
  <2> QED BY <1>2, <1>6, <2>1 DEF Queue
<1>11. \A i \in 1 .. n : i + 1 \in 1 .. n + 1 /\ HeadPos + 1 + i - 1 = HeadPos + (i + 1) - 1
  BY <1>3, <1>7
<1>12. Queue \in [1 .. n + 1 -> V] /\ Queue' \in [1 .. n -> V]
  BY <1>7, <1>8, <1>9, <1>10, <1>11
<1>a. \A i \in 1 .. n : Queue'[i] = Queue[i + 1]
  BY <1>9, <1>10, <1>11
<1>b. Queue' = Tail(Queue)
  BY <1>7, <1>12, <1>a, TailShifts
<1>c. Queue # <<>> /\ Head(Queue) = buf[Slot(idx[c])]
  <2>1. Queue \in Seq(V) /\ Len(Queue) = n + 1
    BY <1>7, <1>12, FunctionIsSeq
  <2>2. Queue[1] = buf[HeadPos % N]
    <3>1. 1 \in 1 .. n + 1 /\ HeadPos + 1 - 1 = HeadPos
      BY <1>3, <1>7
    <3> QED BY <1>9, <3>1
  <2>3. Queue # <<>> /\ Head(Queue) = Queue[1]
    BY <1>7, <2>1
  <2> QED BY <1>4, <2>2, <2>3
<1>d. Pending' = Pending
  BY <1>2 DEF Pending, Threads
<1> QED BY <1>2, <1>b, <1>c, <1>d DEF Fifo!Take

\* Every step of Sbuf is a step of the abstract queue or leaves it unchanged.
LEMMA FifoStep ==
  ASSUME IInv, [Next]_vars, MaxCalls <= IntMax
  PROVE  [Fifo!FifoNext]_(Fifo!fifoVars)
<1> USE SbufAssumption
<1>1. /\ pc \in [Threads -> EnqueueLabels \cup DequeueLabels]
      /\ \A p \in Producers : p \in Threads /\ p \notin Consumers
      /\ \A c \in Consumers : c \in Threads /\ c \notin Producers
  BY DEF IInv, TypeOK, Threads
<1>2. ASSUME NEW p \in Producers, NEW v \in Items, EnqCall(p, v)
      PROVE  Fifo!Offer(p, v)
  <2>1. p \notin Pending /\ Pending' = Pending \cup {p}
    BY <1>1, <1>2 DEF EnqCall, Goto, Pending
  <2>2. Queue' = Queue
    BY <1>1, <1>2, WindowStays
  <2> QED BY <1>2, <2>1, <2>2 DEF EnqCall, Fifo!Offer
<1>3. ASSUME NEW p \in Producers, Enqueue(p), ~EnqStore(p)
      PROVE  UNCHANGED Fifo!fifoVars
  <2>1. Pending' = Pending /\ item' = item
    BY <1>1, <1>3
    DEF Enqueue, EnqWaitSlot, EnqLock, EnqLoad, EnqInc, EnqUnlock, EnqPost,
        Goto, Pending
  <2>2. Queue' = Queue
    BY <1>1, <1>3, WindowStays DEF Enqueue
  <2> QED BY <2>1, <2>2 DEF Fifo!fifoVars
<1>4. ASSUME NEW c \in Consumers, Dequeue(c), ~DeqRead(c)
      PROVE  UNCHANGED Fifo!fifoVars
  <2>1. Pending' = Pending /\ item' = item
    BY <1>1, <1>4
    DEF Dequeue, DeqWaitItem, DeqLock, DeqLoad, DeqInc, DeqUnlock, DeqPost,
        Goto, Pending
  <2>2. Queue' = Queue
    BY <1>1, <1>4, WindowStays DEF Dequeue
  <2> QED BY <2>1, <2>2 DEF Fifo!fifoVars
<1>5. CASE UNCHANGED vars
  BY <1>5 DEF vars, Queue, HeadPos, TailPos, Pending, Fifo!fifoVars
<1> QED
  BY <1>2, <1>3, <1>4, <1>5, StorePuts, ReadTakes
  DEF Next, Enqueue, Dequeue, Quiescent, Fifo!FifoNext

\* sbuf implements the bounded first-in first-out queue: each descriptor main
\* puts in is taken out by exactly one worker, in the order of arrival.
THEOREM FifoTheorem == ASSUME MaxCalls <= IntMax PROVE Spec => IsFifo
<1>1. IInv /\ [Next]_vars => [Fifo!FifoNext]_(Fifo!fifoVars)
  BY FifoStep
<1> QED
  BY <1>1, FifoInitial, IInvHolds, PTL DEF Spec, IsFifo, Fifo!FifoSpec
=============================================================================
