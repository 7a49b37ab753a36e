------------------------------ MODULE MmProofs ------------------------------
(***************************************************************************)
(* Proofs about the allocator, for any blocks, sizes, lists, pages and any *)
(* limit of the heap: after any sequence of calls the blocks tile the heap,*)
(* the lists hold the free ones, and no payload is touched.                *)
(***************************************************************************)
EXTENDS Mm, WellFoundedInduction, TLAPS

Words == [size : 0 .. MaxHeap, alloc : {0, 1}, data : Ids \cup {NoId}]
Heaps == [mem : [0 .. MaxHeap - 1 -> Words], brk : 0 .. MaxHeap,
          last : 0 .. MaxHeap - 1, lists : [Lists -> Seq(0 .. MaxHeap - 1)]]

----------------------------------------------------------------------------
(* The inductive invariant.  A layout L says which blocks the heap is meant *)
(* to have, by their addresses, and the tag of each.                        *)

End(L, b) == b + L[b].size

\* The blocks lie end to end from the prologue to the epilogue.
Tiles(L, brk) ==
  /\ DOMAIN L \in SUBSET (1 .. brk - 1)
  /\ \A b \in DOMAIN L :
       /\ L[b].size \in 2 .. brk /\ L[b].alloc \in {0, 1}
       /\ L[b] = Tag(L[b].size, L[b].alloc)
       /\ b # Prologue => L[b].size > 2
  /\ Prologue \in DOMAIN L /\ L[Prologue] = Tag(2, 1)
  /\ \A b \in DOMAIN L : End(L, b) \in DOMAIN L \cup {brk}
  /\ \A b \in DOMAIN L \cup {brk} : b # Prologue => \E c \in DOMAIN L : End(L, c) = b
  /\ \A b, c \in DOMAIN L : b < c => End(L, b) <= c

\* A sequence of all the elements of a set, each once.
ListIs(s, S) == IsInjective(s) /\ Range(s) = S

\* The blocks F, which are free, and no others are in the lists.
Listed(h, L, F) ==
  /\ F \in SUBSET DOMAIN L /\ \A b \in F : L[b].alloc = 0
  /\ h.last \in F \cup {Null}
  /\ \A b \in F : b = h.last <=> End(L, b) = h.brk
  /\ \A b \in F : b # h.last => L[b].size >= Pow2[MinPower]
  /\ \A n \in Lists : ListIs(h.lists[n], {b \in F : b # h.last /\ ListOf(L[b].size) = n})

\* The header and the footer of a block are in memory.
Tagged(h, L, b) == h.mem[Hdr(b)] = L[b] /\ h.mem[End(L, b) - 2] = L[b]

\* A heap within an operation, in which the blocks T have their tags and the
\* blocks F are in the lists.
Good(h, L, T, F) ==
  /\ h \in Heaps
  /\ Tiles(L, h.brk)
  /\ T \in SUBSET DOMAIN L /\ \A b \in T : Tagged(h, L, b)
  /\ h.mem[Hdr(h.brk)] = Tag(0, 1)
  /\ Listed(h, L, F)

\* A heap between operations.
FreeOf(L) == {b \in DOMAIN L : L[b].alloc = 0}
UsedOf(L) == {b \in DOMAIN L : L[b].alloc = 1 /\ b # Prologue}
Sound(h, L) == Good(h, L, DOMAIN L, FreeOf(L))

\* The client holds the blocks O, each under one id, and has filled them.
Ranges == [Ids -> [bp : 0 .. MaxHeap - 1, size : 0 .. MaxHeap]]
HeldIn(ranges) == {id \in Ids : ranges[id] # NoBlock}
Owns(h, ranges, L, O) ==
  /\ \A id \in HeldIn(ranges) :
       /\ ranges[id].bp \in O /\ ranges[id].size \in Sizes
       /\ L[ranges[id].bp].size >= Needed(ranges[id].size)
       /\ \A k \in 0 .. ranges[id].size - 1 : h.mem[ranges[id].bp + k] = Data(id)
  /\ \A i, j \in HeldIn(ranges) : ranges[i].bp = ranges[j].bp => i = j
  /\ \A b \in O : \E id \in HeldIn(ranges) : ranges[id].bp = b

\* No two free blocks touch; none but b and a neighbour of it; none in M if
\* none did in L.
Parted(L) == \A x \in FreeOf(L) : End(L, x) \notin FreeOf(L)
PartedBut(L, b) == \A x \in FreeOf(L) : End(L, x) \in FreeOf(L) => x = b \/ End(L, x) = b
Stays(M, L) == Parted(L) => Parted(M)

\* The blocks in use are those of the client, and free blocks touch in a trace
\* that is messy only.
Settled(h, ranges, messy) ==
  /\ ranges \in Ranges
  /\ \E L : Sound(h, L) /\ Owns(h, ranges, L, UsedOf(L)) /\ (~messy => Parted(L))

IInv ==
  /\ IF stale THEN untidy ELSE Settled(heap, live, untidy)
  /\ kept \in BOOLEAN /\ failed \in BOOLEAN /\ untidy \in BOOLEAN /\ stale \in BOOLEAN

\* Every request is for a block that a free list can hold later.
RequestsFit == \A s \in Sizes : Needed(s) >= Pow2[MinPower]

----------------------------------------------------------------------------
(* Sequences as sets *)

\* A set of numbers that is not empty has a least element.
LEMMA Least ==
  ASSUME NEW S \in SUBSET Nat, S # {}
  PROVE  \E m \in S : \A n \in S : m <= n
<1> DEFINE R == OpToRel(<, Nat)
<1>1. IsWellFoundedOn(R, Nat)
  BY NatLessThanWellFounded
<1>2. PICK m \in S : \A n \in S : <<n, m>> \notin R
  <2> HIDE DEF R
  <2> QED BY <1>1, WFMin
<1>3. \A n \in S : ~(n < m)
  <2> TAKE n \in S
  <2>1. n \in Nat /\ m \in Nat
    OBVIOUS
  <2>2. n < m => <<n, m>> \in R
    BY <2>1 DEF OpToRel
  <2> QED BY <1>2, <2>2
<1> QED BY <1>3

LEMMA Lengths ==
  ASSUME NEW A, NEW s \in Seq(A)
  PROVE  Len(s) \in Nat /\ DOMAIN s = 1 .. Len(s) /\ \A i \in 1 .. Len(s) : s[i] \in A
OBVIOUS

\* A new element at the head, or one element less.
LEMMA ListFront ==
  ASSUME NEW A, NEW s \in Seq(A), NEW S, ListIs(s, S), NEW b \in A, b \notin S
  PROVE  <<b>> \o s \in Seq(A) /\ ListIs(<<b>> \o s, S \cup {b})
<1> DEFINE t == <<b>> \o s
<1>1. /\ t \in Seq(A) /\ Len(t) = Len(s) + 1 /\ Len(s) \in Nat
      /\ DOMAIN t = 1 .. Len(s) + 1 /\ DOMAIN s = 1 .. Len(s)
      /\ t[1] = b /\ \A i \in 2 .. Len(s) + 1 : t[i] = s[i - 1]
  OBVIOUS
<1> HIDE DEF t
<1>2. \A i \in 1 .. Len(s) : s[i] \in S
  BY <1>1 DEF ListIs, Range
<1>3. ASSUME NEW i \in DOMAIN t, NEW j \in DOMAIN t, t[i] = t[j] PROVE i = j
  <2>1. CASE i = 1
    BY <1>1, <1>2, <1>3, <2>1
  <2>2. CASE j = 1
    BY <1>1, <1>2, <1>3, <2>2
  <2>3. CASE i # 1 /\ j # 1
    <3>1. /\ i - 1 \in DOMAIN s /\ j - 1 \in DOMAIN s
          /\ s[i - 1] = s[j - 1]
      BY <1>1, <1>3, <2>3
    <3>2. i - 1 = j - 1
      BY <3>1 DEF ListIs, IsInjective
    <3> QED BY <1>1, <3>2
  <2> QED BY <2>1, <2>2, <2>3
<1>4. Range(t) \subseteq S \cup {b}
  BY <1>1, <1>2 DEF Range
<1>5. ASSUME NEW x \in S \cup {b} PROVE x \in Range(t)
  <2>1. CASE x = b
    BY <1>1, <2>1 DEF Range
  <2>2. CASE x \in S
    <3>1. PICK i \in DOMAIN s : s[i] = x
      BY <2>2 DEF ListIs, Range
    <3>2. i + 1 \in DOMAIN t /\ t[i + 1] = x
      BY <1>1, <3>1
    <3> QED BY <3>2 DEF Range
  <2> QED BY <2>1, <2>2
<1> QED BY <1>1, <1>3, <1>4, <1>5 DEF ListIs, IsInjective, t

\* What is left of a list without its k-th element.
LEMMA RemoveAtIs ==
  ASSUME NEW A, NEW s \in Seq(A), NEW k \in 1 .. Len(s)
  PROVE  /\ RemoveAt(s, k) \in Seq(A)
         /\ Len(s) \in Nat /\ Len(RemoveAt(s, k)) = Len(s) - 1
         /\ \A i \in 1 .. Len(s) - 1 : RemoveAt(s, k)[i] = IF i < k THEN s[i] ELSE s[i + 1]
<1> DEFINE front == SubSeq(s, 1, k - 1)
           back == SubSeq(s, k + 1, Len(s))
           rest == front \o back
<1>1. Len(s) \in Nat /\ k \in Nat /\ k <= Len(s)
  OBVIOUS
<1>2. /\ front \in Seq(A) /\ Len(front) = k - 1
      /\ \A i \in 1 .. k - 1 : front[i] = s[i]
  BY <1>1
<1>3. /\ back \in Seq(A) /\ Len(back) = Len(s) - k
      /\ \A i \in 1 .. Len(s) - k : back[i] = s[k + i]
  BY <1>1
<1>4. RemoveAt(s, k) = rest
  BY DEF RemoveAt
<1> HIDE DEF front, back
<1>5. /\ rest \in Seq(A) /\ Len(rest) = Len(front) + Len(back)
      /\ \A i \in 1 .. Len(front) + Len(back) :
           rest[i] = IF i <= Len(front) THEN front[i] ELSE back[i - Len(front)]
  <2>1. front \in Seq(A) /\ back \in Seq(A)
    BY <1>2, <1>3
  <2> QED BY ONLY <2>1
<1> HIDE DEF rest
<1>6. Len(rest) = Len(s) - 1
  BY <1>1, <1>2, <1>3, <1>5
<1>7. ASSUME NEW i \in 1 .. Len(s) - 1
      PROVE  rest[i] = IF i < k THEN s[i] ELSE s[i + 1]
  <2>1. rest[i] = IF i <= k - 1 THEN front[i] ELSE back[i - (k - 1)]
    BY <1>1, <1>2, <1>5, <1>6
  <2>2. CASE i < k
    BY <1>1, <1>2, <2>1, <2>2
  <2>3. CASE ~(i < k)
    <3>1. /\ ~(i <= k - 1) /\ i - (k - 1) \in 1 .. Len(s) - k
          /\ k + (i - (k - 1)) = i + 1
      BY <1>1, <2>3
    <3> QED BY <1>3, <2>1, <2>3, <3>1
  <2> QED BY <2>2, <2>3
<1> QED BY <1>1, <1>4, <1>5, <1>6, <1>7

\* RemoveFirst takes an element out of a list of a set.
LEMMA ListWithout ==
  ASSUME NEW A, NEW s \in Seq(A), NEW S, ListIs(s, S), NEW b
  PROVE  RemoveFirst(s, b) \in Seq(A) /\ ListIs(RemoveFirst(s, b), S \ {b})
<1>1. Len(s) \in Nat /\ DOMAIN s = 1 .. Len(s)
  OBVIOUS
<1>2. CASE ~ \E i \in 1 .. Len(s) : s[i] = b
  <2>1. RemoveFirst(s, b) = s
    BY <1>2 DEF RemoveFirst
  <2>2. S \ {b} = S
    BY <1>1, <1>2 DEF ListIs, Range
  <2> QED BY <2>1, <2>2
<1>3. CASE \E i \in 1 .. Len(s) : s[i] = b
  <2> DEFINE I == {i \in 1 .. Len(s) : s[i] = b}
             k == SelectInSeq(s, LAMBDA v : v = b)
             t == RemoveAt(s, k)
  <2>1. RemoveFirst(s, b) = t
    BY <1>3 DEF RemoveFirst
  <2>2. I # {} /\ I \in SUBSET Nat
    BY <1>1, <1>3
  <2>3. k = Min(I)
    BY <1>3 DEF SelectInSeq
  <2>4. k \in 1 .. Len(s) /\ s[k] = b
    <3>1. \E m \in I : \A n \in I : m <= n
      <4> HIDE DEF I
      <4> QED BY <2>2, Least
    <3>2. Min(I) \in I
      BY <3>1 DEF Min
    <3> QED BY <2>3, <3>2
  <2> HIDE DEF I, k
  <2>5. /\ t \in Seq(A) /\ Len(t) = Len(s) - 1 /\ DOMAIN t = 1 .. Len(s) - 1
        /\ \A i \in 1 .. Len(s) - 1 : t[i] = IF i < k THEN s[i] ELSE s[i + 1]
    BY <2>4, RemoveAtIs, Lengths
  <2> HIDE DEF t
  <2> DEFINE at == [i \in DOMAIN t |-> IF i < k THEN i ELSE i + 1]
  <2>6. \A i \in DOMAIN t : at[i] \in DOMAIN s /\ at[i] # k /\ t[i] = s[at[i]]
    BY <1>1, <2>4, <2>5
  <2>7. \A i, j \in DOMAIN t : at[i] = at[j] => i = j
    BY <1>1, <2>4, <2>5
  <2>8. \A i \in DOMAIN s : i # k => \E j \in DOMAIN t : at[j] = i
    <3> TAKE i \in DOMAIN s
    <3> HAVE i # k
    <3>1. CASE i < k
      BY <1>1, <2>4, <2>5, <3>1
    <3>2. CASE ~(i < k)
      <4>1. i - 1 \in DOMAIN t /\ at[i - 1] = i
        BY <1>1, <2>4, <2>5, <3>2
      <4> QED BY <4>1
    <3> QED BY <3>1, <3>2
  <2> HIDE DEF at
  <2>9. IsInjective(t)
    BY <2>6, <2>7 DEF ListIs, IsInjective
  <2>10. \A i \in DOMAIN s : s[i] = b => i = k
    BY <1>1, <2>4 DEF ListIs, IsInjective
  <2>11. Range(t) = S \ {b}
    <3>1. \A i \in DOMAIN t : t[i] \in S \ {b}
      BY <2>6, <2>10 DEF ListIs, Range
    <3>2. ASSUME NEW x \in S, x # b PROVE x \in Range(t)
      <4>1. PICK i \in DOMAIN s : s[i] = x
        BY DEF ListIs, Range
      <4>2. i # k
        BY <2>4, <3>2, <4>1
      <4>3. PICK j \in DOMAIN t : at[j] = i
        BY <2>8, <4>2
      <4> QED BY <2>6, <4>1, <4>3 DEF Range
    <3> QED BY <3>1, <3>2 DEF Range
  <2> QED BY <2>1, <2>5, <2>9, <2>11 DEF ListIs
<1> QED BY <1>2, <1>3

----------------------------------------------------------------------------
(* Sizes and lists *)

\* The recursive definition of the powers defines something.
LEMMA PowersExist ==
  ASSUME NEW N \in Nat
  PROVE  \E f : f = [n \in 0 .. N |-> IF n = 0 THEN 1 ELSE 2 * f[n - 1]]
<1> DEFINE Eq(f, m) == f = [n \in 0 .. m |-> IF n = 0 THEN 1 ELSE 2 * f[n - 1]]
           U == {m \in Nat : ~ \E f : Eq(f, m)}
<1>1. SUFFICES ASSUME U # {} PROVE FALSE
  <2>1. N \notin U
    BY <1>1
  <2> QED BY <2>1
<1>2. PICK m \in U : \A n \in U : m <= n
  <2>1. U \in SUBSET Nat
    OBVIOUS
  <2> HIDE DEF U
  <2> QED BY <1>1, <2>1, Least
<1>3. CASE m = 0
  <2> DEFINE g == [n \in 0 .. 0 |-> 1]
  <2>1. Eq(g, 0)
    OBVIOUS
  <2> QED BY <1>2, <1>3, <2>1
<1>4. CASE m # 0
  <2>1. m - 1 \in Nat /\ m - 1 \notin U
    <3>1. m \in Nat
      BY <1>2
    <3>2. m - 1 \in Nat /\ ~(m <= m - 1)
      BY <1>4, <3>1
    <3> HIDE DEF U
    <3> QED BY <1>2, <3>2
  <2>2. PICK f : Eq(f, m - 1)
    BY <2>1
  <2> DEFINE g == [n \in 0 .. m |-> IF n = m THEN 2 * f[m - 1] ELSE f[n]]
  <2>3. \A n \in 0 .. m : g[n] = IF n = 0 THEN 1 ELSE 2 * g[n - 1]
    <3> TAKE n \in 0 .. m
    <3>1. CASE n = m
      BY <1>4, <2>1, <3>1
    <3>2. CASE n # m /\ n # 0
      <4>1. n \in 0 .. m - 1 /\ n - 1 \in 0 .. m - 1
        BY <2>1, <3>2
      <4>2. f[n] = 2 * f[n - 1]
        BY <2>2, <3>2, <4>1
      <4> QED BY <2>1, <3>2, <4>1, <4>2
    <3>3. CASE n = 0
      <4>1. f[0] = 1
        BY <2>1, <2>2
      <4> QED BY <1>4, <3>3, <4>1
    <3> QED BY <3>1, <3>2, <3>3
  <2>4. Eq(g, m)
    <3>1. g = [n \in 0 .. m |-> g[n]]
      OBVIOUS
    <3> HIDE DEF g
    <3> QED BY <2>3, <3>1
  <2> HIDE DEF g, Eq
  <2> QED BY <1>2, <2>4
<1> QED BY <1>3, <1>4

\* The equations of Pow2.
LEMMA PowerSteps ==
  /\ Pow2[0] = 1
  /\ \A n \in 1 .. MinPower + NumFl : Pow2[n] = 2 * Pow2[n - 1]
<1> DEFINE Eq(f) == f = [n \in 0 .. MinPower + NumFl |-> IF n = 0 THEN 1 ELSE 2 * f[n - 1]]
<1>1. MinPower + NumFl \in Nat
  BY MmAssumption
<1>2. Pow2 = CHOOSE f : Eq(f)
  BY DEF Pow2
<1>3. \E f : Eq(f)
  BY <1>1, PowersExist
<1>4. Eq(Pow2)
  <2> HIDE DEF Eq
  <2> QED BY <1>2, <1>3
<1> QED BY <1>1, <1>4

\* Powers are positive and grow.
LEMMA PowerType == \A n \in 0 .. MinPower + NumFl : Pow2[n] \in Nat \ {0}
<1> DEFINE U == {n \in 0 .. MinPower + NumFl : Pow2[n] \notin Nat \ {0}}
<1>1. MinPower + NumFl \in Nat
  BY MmAssumption
<1>2. SUFFICES ASSUME U # {} PROVE FALSE
  OBVIOUS
<1>3. PICK m \in U : \A n \in U : m <= n
  <2>1. U \in SUBSET Nat
    BY <1>1
  <2> HIDE DEF U
  <2> QED BY <1>2, <2>1, Least
<1>4. m # 0
  BY <1>3, PowerSteps
<1>5. m \in 1 .. MinPower + NumFl /\ m - 1 \in 0 .. MinPower + NumFl /\ ~(m <= m - 1)
  BY <1>1, <1>3, <1>4
<1>6. Pow2[m - 1] \in Nat \ {0}
  BY <1>3, <1>5
<1>7. Pow2[m] = 2 * Pow2[m - 1]
  BY <1>5, PowerSteps
<1>8. Pow2[m] \in Nat \ {0}
  BY <1>6, <1>7
<1> QED BY <1>3, <1>8

\* Pow2 is monotone.
LEMMA PowerGrows ==
  ASSUME NEW i \in 0 .. MinPower + NumFl, NEW j \in 0 .. MinPower + NumFl, i <= j
  PROVE  Pow2[i] <= Pow2[j]
<1> DEFINE U == {n \in 0 .. MinPower + NumFl : i <= n /\ ~(Pow2[i] <= Pow2[n])}
<1>1. MinPower + NumFl \in Nat
  BY MmAssumption
<1>2. SUFFICES ASSUME U # {} PROVE FALSE
  OBVIOUS
<1>3. PICK m \in U : \A n \in U : m <= n
  <2>1. U \in SUBSET Nat
    BY <1>1
  <2> HIDE DEF U
  <2> QED BY <1>2, <2>1, Least
<1>4. m # i /\ Pow2[i] \in Nat
  BY <1>3, PowerType
<1>5. /\ m \in 1 .. MinPower + NumFl /\ m - 1 \in 0 .. MinPower + NumFl
      /\ ~(m <= m - 1) /\ i <= m - 1
  BY <1>1, <1>3, <1>4
<1>6. Pow2[i] <= Pow2[m - 1] /\ Pow2[m - 1] \in Nat
  BY <1>3, <1>5, PowerType
<1>7. Pow2[m] = 2 * Pow2[m - 1]
  BY <1>5, PowerSteps
<1>8. Pow2[i] <= Pow2[m]
  BY <1>4, <1>6, <1>7
<1> QED BY <1>3, <1>8

\* The smallest free block has room for its tags and its links.
LEMMA MinBlock == Pow2[MinPower] \in Nat /\ Pow2[MinPower] >= 4
<1>1. /\ MinPower \in 0 .. MinPower + NumFl
      /\ {0, 1, 2} \subseteq 0 .. MinPower + NumFl /\ 2 <= MinPower
      /\ {1, 2} \subseteq 1 .. MinPower + NumFl
  BY MmAssumption
<1>2. Pow2[1] = 2 * Pow2[0] /\ Pow2[2] = 2 * Pow2[1] /\ Pow2[0] = 1
  <2>1. 1 - 1 = 0 /\ 2 - 1 = 1
    OBVIOUS
  <2> QED BY <1>1, <2>1, PowerSteps
<1>3. Pow2[2] <= Pow2[MinPower]
  BY <1>1, PowerGrows
<1> QED BY <1>1, <1>2, <1>3, PowerType

\* The list of a size is the one whose bounds it is within; of a block smaller
\* than the smallest, the first.
LEMMA ListOfIs ==
  ASSUME NEW size \in Nat
  PROVE  /\ ListOf(size) \in Lists
         /\ \A n \in Lists : n > ListOf(size) => size < Pow2[n]
         /\ size >= Pow2[MinPower] => Pow2[ListOf(size)] <= size
<1> DEFINE S == {n \in Lists : Pow2[n] <= size} \cup {MinPower}
           U == {u \in Nat : \A n \in S : n <= u}
<1>1. /\ Lists \in SUBSET (0 .. MinPower + NumFl) /\ Lists \in SUBSET Nat
      /\ MinPower \in Lists /\ MinPower + NumFl \in Nat
  BY MmAssumption DEF Lists
<1>2. \E m \in S : \A n \in S : m >= n
  <2>1. MinPower + NumFl \in U /\ U \in SUBSET Nat
    BY <1>1
  <2>2. PICK u \in U : \A v \in U : u <= v
    <3> HIDE DEF U
    <3> QED BY <2>1, Least
  <2>3. u \in S
    <3>1. SUFFICES ASSUME u \notin S PROVE FALSE
      OBVIOUS
    <3>2. \A n \in S : n \in Nat /\ n <= u /\ n # u
      BY <1>1, <2>2, <3>1
    <3>3. u - 1 \in U
      <4>1. MinPower \in S
        OBVIOUS
      <4> HIDE DEF S
      <4>2. u - 1 \in Nat
        BY <2>1, <2>2, <3>2, <4>1
      <4>3. \A n \in S : n <= u - 1
        BY <2>1, <2>2, <3>2
      <4> QED BY <4>2, <4>3
    <3>4. u <= u - 1 /\ u \in Nat
      BY <2>1, <2>2, <3>3
    <3> QED BY <3>4
  <2>4. \A n \in S : u >= n
    BY <2>2
  <2> QED BY <2>3, <2>4
<1>3. ListOf(size) = CHOOSE m \in S : \A n \in S : m >= n
  BY DEF ListOf, Max
<1>4. ListOf(size) \in S /\ \A n \in S : ListOf(size) >= n
  <2> HIDE DEF S
  <2> QED BY <1>2, <1>3
<1>5. \A n \in Lists : Pow2[n] \in Nat
  BY <1>1, PowerType
<1>6. \A n \in Lists : n > ListOf(size) => size < Pow2[n]
  <2> TAKE n \in Lists
  <2>1. ListOf(size) \in Lists
    BY <1>1, <1>4
  <2>2. Pow2[n] <= size => ListOf(size) >= n
    BY <1>4
  <2>3. Pow2[n] \in Nat /\ n \in Nat /\ ListOf(size) \in Nat
    BY <1>1, <1>5, <2>1
  <2> QED BY <2>2, <2>3
<1> QED BY <1>1, <1>4, <1>6

----------------------------------------------------------------------------
(* Walking over the heap *)

\* What a tagged block's header says.
LEMMA TagsSay ==
  ASSUME NEW h, NEW L, NEW b \in DOMAIN L, Tagged(h, L, b), b \in Int, L[b].size \in Int
  PROVE  /\ GetSize(h, Hdr(b)) = L[b].size /\ GetAlloc(h, Hdr(b)) = L[b].alloc
         /\ NextBlk(h, b) = End(L, b) /\ Ftr(h, b) = End(L, b) - 2
         /\ IsFree(h, b) <=> L[b].alloc = 0
         /\ GetSize(h, End(L, b) - 2) = L[b].size /\ GetAlloc(h, End(L, b) - 2) = L[b].alloc
<1>1. h.mem[Hdr(b)] = L[b] /\ h.mem[End(L, b) - 2] = L[b]
  BY DEF Tagged
<1>2. GetSize(h, Hdr(b)) = L[b].size /\ GetAlloc(h, Hdr(b)) = L[b].alloc
  BY <1>1 DEF GetSize, GetAlloc
<1>3. GetSize(h, End(L, b) - 2) = L[b].size /\ GetAlloc(h, End(L, b) - 2) = L[b].alloc
  BY <1>1 DEF GetSize, GetAlloc
<1>4. NextBlk(h, b) = End(L, b) /\ Ftr(h, b) = End(L, b) - 2
  BY <1>2 DEF NextBlk, End, Ftr
<1>5. IsFree(h, b) <=> L[b].alloc = 0
  BY <1>2, Zenon DEF IsFree
<1> QED BY <1>2, <1>3, <1>4, <1>5

\* Addresses and sizes of blocks are numbers, and a block ends by mem_brk.
LEMMA TilesTypes ==
  ASSUME NEW brk \in Nat, NEW L, Tiles(L, brk)
  PROVE  /\ \A b \in DOMAIN L : /\ b \in 1 .. brk - 1 /\ L[b].size \in Nat /\ L[b].size >= 2
                                /\ End(L, b) = b + L[b].size /\ End(L, b) \in Nat
                                /\ b < End(L, b) /\ End(L, b) <= brk
         /\ brk > 1 /\ brk \notin DOMAIN L
<1>1. \A b \in DOMAIN L : b \in 1 .. brk - 1 /\ L[b].size \in 2 .. brk
  BY DEF Tiles
<1>2. \A b \in DOMAIN L : End(L, b) = b + L[b].size
  BY DEF End
<1>3. /\ \A b \in DOMAIN L : End(L, b) \in DOMAIN L \cup {brk}
      /\ Prologue \in DOMAIN L
  BY DEF Tiles
<1>4. ASSUME NEW b \in DOMAIN L
      PROVE  /\ L[b].size \in Nat /\ L[b].size >= 2 /\ End(L, b) \in Nat
             /\ b < End(L, b) /\ End(L, b) <= brk
  <2>1. /\ b \in 1 .. brk - 1 /\ L[b].size \in 2 .. brk
        /\ End(L, b) = b + L[b].size
        /\ End(L, b) \in 1 .. brk - 1 \/ End(L, b) = brk
    BY <1>1, <1>2, <1>3
  <2> QED BY <2>1
<1>5. Prologue \in 1 .. brk - 1 /\ brk \notin DOMAIN L
  BY <1>1, <1>3
<1> QED BY <1>1, <1>2, <1>4, <1>5 DEF Prologue

\* mm_check's walk meets the blocks of the layout and the epilogue, no others.
LEMMA WalkIs ==
  ASSUME NEW h \in Heaps, NEW L, Tiles(L, h.brk), \A b \in DOMAIN L : Tagged(h, L, b)
  PROVE  Walk(h) = DOMAIN L \cup {h.brk}
<1> DEFINE brk == h.brk
           All == DOMAIN L \cup {brk}
           Steps(f, p) == p = Prologue \/ \E b \in f[p - 1] : NextBlk(h, b) = p
           Eq(f) == f = [p \in 0 .. brk |->
                           IF p = 0 THEN {}
                           ELSE IF Steps(f, p) THEN f[p - 1] \cup {p} ELSE f[p - 1]]
           found == CHOOSE f : Eq(f)
           w == [p \in 0 .. brk |-> {b \in All : b <= p}]
<1>1. Walk(h) = found[brk]
  BY DEF Walk
<1>2. brk \in Nat
  BY DEF Heaps
<1>3. \A b \in DOMAIN L : b \in 1 .. brk - 1 /\ b < End(L, b) /\ End(L, b) = NextBlk(h, b)
  <2>1. Tiles(L, brk)
    OBVIOUS
  <2> QED BY <1>2, <2>1, TilesTypes, TagsSay
<1>4. /\ \A b \in DOMAIN L : End(L, b) \in All
      /\ \A b \in All : b # Prologue => \E c \in DOMAIN L : End(L, c) = b
      /\ Prologue \in All /\ Prologue = 1
  BY DEF Tiles, Prologue
<1> HIDE DEF brk, found
<1>5. ASSUME NEW p \in 1 .. brk PROVE Steps(w, p) <=> p \in All
  <2>1. p - 1 \in 0 .. brk /\ w[p - 1] = {b \in All : b <= p - 1}
    BY <1>2
  <2> HIDE DEF w
  <2>2. ASSUME p \in All PROVE Steps(w, p)
    <3>1. CASE p = Prologue
      BY <3>1
    <3>2. CASE p # Prologue
      <4>1. PICK c \in DOMAIN L : End(L, c) = p
        BY <1>4, <2>2, <3>2
      <4>2. c \in w[p - 1] /\ NextBlk(h, c) = p
        BY <1>2, <1>3, <2>1, <4>1
      <4> QED BY <4>2
    <3> QED BY <3>1, <3>2
  <2>3. ASSUME Steps(w, p) PROVE p \in All
    <3>1. CASE p = Prologue
      BY <1>4, <3>1
    <3>2. CASE \E b \in w[p - 1] : NextBlk(h, b) = p
      <4>1. PICK b \in w[p - 1] : NextBlk(h, b) = p
        BY <3>2
      <4>2. b \in DOMAIN L
        BY <1>2, <2>1, <4>1
      <4> QED BY <1>3, <1>4, <4>1, <4>2
    <3> QED BY <2>3, <3>1, <3>2
  <2> QED BY <2>2, <2>3
<1> HIDE DEF Steps
<1>6. ASSUME NEW p \in 0 .. brk
      PROVE  w[p] = IF p = 0 THEN {} ELSE IF Steps(w, p) THEN w[p - 1] \cup {p} ELSE w[p - 1]
  <2>1. \A b \in All : b \in Nat /\ b >= 1
    BY <1>2, <1>3, <1>4
  <2>2. CASE p = 0
    BY <2>1, <2>2
  <2>3. CASE p # 0
    <3>1. p \in 1 .. brk /\ p - 1 \in 0 .. brk
      BY <1>2, <2>3
    <3>2. w[p] = {b \in All : b <= p} /\ w[p - 1] = {b \in All : b <= p - 1}
      BY <3>1
    <3> HIDE DEF w, All
    <3>3. \A b \in All : b <= p <=> b <= p - 1 \/ b = p
      BY <2>1, <3>1
    <3>4. w[p] = IF p \in All THEN w[p - 1] \cup {p} ELSE w[p - 1]
      BY <3>2, <3>3
    <3> QED BY <1>5, <2>3, <3>1, <3>4
  <2> QED BY <2>2, <2>3
<1>7. Eq(w)
  <2>1. w = [p \in 0 .. brk |-> w[p]]
    OBVIOUS
  <2> HIDE DEF w
  <2> QED BY <1>6, <2>1
<1>8. Eq(found)
  <2> HIDE DEF Eq
  <2> QED BY <1>7 DEF found
<1> DEFINE U == {p \in 0 .. brk : found[p] # w[p]}
<1>9. ASSUME U # {} PROVE FALSE
  <2>1. U \in SUBSET Nat
    BY <1>2
  <2>2. PICK p \in U : \A q \in U : p <= q
    <3> HIDE DEF U
    <3> QED BY <1>9, <2>1, Least
  <2>3. p # 0
    <3>1. 0 \in 0 .. brk
      BY <1>2
    <3>2. found[0] = {} /\ w[0] = {}
      <4> HIDE DEF w
      <4> QED BY <1>6, <1>8, <3>1
    <3> QED BY <2>2, <3>2
  <2>4. p - 1 \in 0 .. brk /\ p - 1 \notin U /\ p \in 0 .. brk
    <3>1. p \in 0 .. brk
      BY <2>2
    <3>2. p - 1 \in 0 .. brk /\ ~(p <= p - 1)
      BY <1>2, <2>3, <3>1
    <3> HIDE DEF U
    <3> QED BY <2>2, <3>1, <3>2
  <2>5. found[p - 1] = w[p - 1]
    BY <2>4
  <2>6. Steps(found, p) <=> Steps(w, p)
    BY <2>5 DEF Steps
  <2> HIDE DEF w
  <2> QED BY <1>6, <1>8, <2>2, <2>3, <2>4, <2>5, <2>6
<1>10. found[brk] = w[brk]
  BY <1>2, <1>9
<1>11. w[brk] = All
  BY <1>2, <1>3
<1> QED BY <1>1, <1>10, <1>11 DEF brk

\* The smaller of two numbers.
LEMMA Smaller ==
  ASSUME NEW a \in Int, NEW b \in Int
  PROVE  Min({a, b}) = IF a <= b THEN a ELSE b
<1> DEFINE S == {a, b}
           m == IF a <= b THEN a ELSE b
<1>1. m \in S /\ \A y \in S : m <= y
  OBVIOUS
<1>2. \A x \in S : (\A y \in S : x <= y) => x = m
  OBVIOUS
<1>3. Min(S) \in S /\ \A y \in S : Min(S) <= y
  <2> HIDE DEF S, m
  <2> QED BY <1>1 DEF Min
<1> HIDE DEF S
<1> QED BY <1>2, <1>3 DEF S

----------------------------------------------------------------------------
(* Changes of a layout: a block is marked as free or as used, cut in two,   *)
(* joined with the next one, or added at the end of the heap.               *)

Retag(L, b, a) == [c \in DOMAIN L |-> IF c = b THEN Tag(L[b].size, a) ELSE L[c]]

Cut(L, b, n) ==
  [c \in DOMAIN L \cup {b + n} |->
     IF c = b THEN Tag(n, L[b].alloc)
     ELSE IF c = b + n THEN Tag(L[b].size - n, L[b].alloc)
     ELSE L[c]]

Join(L, b) ==
  [c \in DOMAIN L \ {End(L, b)} |->
     IF c = b THEN Tag(L[b].size + L[End(L, b)].size, L[b].alloc) ELSE L[c]]

Grow(L, brk, n) == [c \in DOMAIN L \cup {brk} |-> IF c = brk THEN Tag(n, 0) ELSE L[c]]

\* The fields of a tag.
LEMMA TagIs ==
  ASSUME NEW n, NEW a
  PROVE  Tag(n, a).size = n /\ Tag(n, a).alloc = a /\ Tag(Tag(n, a).size, Tag(n, a).alloc) = Tag(n, a)
BY DEF Tag

\* To free or to allocate a block leaves a tiling,
LEMMA RetagTiles ==
  ASSUME NEW brk \in Nat, NEW L, Tiles(L, brk), NEW b \in DOMAIN L, b # Prologue,
         NEW a \in {0, 1}
  PROVE  Tiles(Retag(L, b, a), brk)
<1> DEFINE M == Retag(L, b, a)
<1>1. DOMAIN M = DOMAIN L
  BY DEF Retag
<1>2. /\ M[b] = Tag(L[b].size, a)
      /\ \A c \in DOMAIN L : c # b => M[c] = L[c]
  BY DEF Retag
<1> HIDE DEF M
<1>3. \A c \in DOMAIN L : M[c].size = L[c].size /\ End(M, c) = End(L, c)
  <2>1. \A c \in DOMAIN L : M[c].size = L[c].size
    BY <1>2, TagIs
  <2> QED BY <2>1 DEF End
<1>4. ASSUME NEW c \in DOMAIN L
      PROVE  /\ M[c].size \in 2 .. brk /\ M[c].alloc \in {0, 1}
             /\ M[c] = Tag(M[c].size, M[c].alloc)
             /\ c # Prologue => M[c].size > 2
  <2>1. /\ L[c].size \in 2 .. brk /\ L[c].alloc \in {0, 1}
        /\ L[c] = Tag(L[c].size, L[c].alloc)
        /\ c # Prologue => L[c].size > 2
    BY DEF Tiles
  <2> QED BY <1>2, <1>3, <2>1, TagIs
<1>5. M[Prologue] = L[Prologue]
  BY <1>2 DEF Tiles
<1> QED BY <1>1, <1>3, <1>4, <1>5 DEF Tiles, M

\* and so does to cut it in two,
LEMMA CutTiles ==
  ASSUME NEW brk \in Nat, NEW L, Tiles(L, brk), NEW b \in DOMAIN L, b # Prologue,
         NEW n \in Nat, n > 2, L[b].size - n > 2
  PROVE  Tiles(Cut(L, b, n), brk) /\ b + n \notin DOMAIN L /\ b + n # b
<1> DEFINE M == Cut(L, b, n)
           m == b + n
<1>1. /\ \A c \in DOMAIN L : /\ c \in 1 .. brk - 1 /\ L[c].size \in Nat /\ L[c].size >= 2
                             /\ End(L, c) = c + L[c].size /\ End(L, c) \in Nat
                             /\ c < End(L, c) /\ End(L, c) <= brk
      /\ brk > 1 /\ brk \notin DOMAIN L
  BY TilesTypes
<1>2. m \in Nat /\ b < m /\ m < End(L, b)
  BY <1>1
<1>3. m \notin DOMAIN L
  <2>1. \A c \in DOMAIN L : b < c => End(L, b) <= c
    BY DEF Tiles
  <2>2. m \in DOMAIN L => End(L, b) <= m
    BY <1>2, <2>1
  <2> QED BY <1>1, <1>2, <2>2
<1>4. DOMAIN M = DOMAIN L \cup {m}
  BY DEF Cut
<1>5. /\ M[b] = Tag(n, L[b].alloc) /\ M[m] = Tag(L[b].size - n, L[b].alloc)
      /\ \A c \in DOMAIN L : c # b => M[c] = L[c]
  BY <1>2, <1>3 DEF Cut
<1>6. m = b + n
  OBVIOUS
<1> HIDE DEF M, m
<1>7. /\ End(M, b) = m /\ End(M, m) = End(L, b)
      /\ \A c \in DOMAIN L : c # b => End(M, c) = End(L, c)
  <2>1. End(M, b) = b + n /\ End(M, m) = m + (L[b].size - n)
    BY <1>5, TagIs DEF End
  <2> QED BY <1>1, <1>5, <1>6, <2>1 DEF End
<1>8. ASSUME NEW c \in DOMAIN M
      PROVE  /\ M[c].size \in 2 .. brk /\ M[c].alloc \in {0, 1}
             /\ M[c] = Tag(M[c].size, M[c].alloc)
             /\ c # Prologue => M[c].size > 2
  <2>1. /\ \A d \in DOMAIN L : /\ L[d].size \in 2 .. brk /\ L[d].alloc \in {0, 1}
                               /\ L[d] = Tag(L[d].size, L[d].alloc)
                               /\ d # Prologue => L[d].size > 2
    BY DEF Tiles
  <2>2. CASE c \in DOMAIN L /\ c # b
    BY <1>5, <2>1, <2>2
  <2>3. CASE c = b
    <3>1. M[b].size = n /\ M[b].alloc = L[b].alloc /\ M[b] = Tag(M[b].size, M[b].alloc)
      BY <1>5, TagIs
    <3>2. n \in 2 .. brk
      BY <2>1
    <3> QED BY <2>1, <2>3, <3>1, <3>2
  <2>4. CASE c = m
    <3>1. M[m].size = L[b].size - n /\ M[m].alloc = L[b].alloc /\ M[m] = Tag(M[m].size, M[m].alloc)
      BY <1>5, TagIs
    <3>2. L[b].size - n \in 2 .. brk
      BY <2>1
    <3> QED BY <2>1, <2>4, <3>1, <3>2
  <2> QED BY <1>4, <2>2, <2>3, <2>4
<1>9. DOMAIN M \in SUBSET (1 .. brk - 1)
  BY <1>1, <1>2, <1>4
<1>10. Prologue \in DOMAIN M /\ M[Prologue] = Tag(2, 1)
  BY <1>4, <1>5 DEF Tiles
<1>11. \A c \in DOMAIN M : End(M, c) \in DOMAIN M \cup {brk}
  BY <1>4, <1>7 DEF Tiles
<1>12. ASSUME NEW c \in DOMAIN M \cup {brk}, c # Prologue
       PROVE  \E d \in DOMAIN M : End(M, d) = c
  <2>1. CASE c = m
    BY <1>4, <1>7, <2>1
  <2>2. CASE c # m
    <3>1. PICK d \in DOMAIN L : End(L, d) = c
      BY <1>4, <1>12, <2>2 DEF Tiles
    <3> QED BY <1>4, <1>7, <3>1
  <2> QED BY <2>1, <2>2
<1>13. ASSUME NEW c \in DOMAIN M, NEW d \in DOMAIN M, c < d
       PROVE  End(M, c) <= d
  <2>1. \A x, y \in DOMAIN L : x < y => End(L, x) <= y
    BY DEF Tiles
  <2>2. CASE c # m /\ d # m
    <3>1. End(L, c) <= d /\ c \in DOMAIN L /\ d \in DOMAIN L
      BY <1>4, <1>13, <2>1, <2>2
    <3> QED BY <1>1, <1>2, <1>7, <3>1
  <2>3. CASE c = m
    <3>1. d \in DOMAIN L /\ b < d
      BY <1>1, <1>2, <1>4, <1>13, <2>3
    <3> QED BY <1>7, <2>1, <2>3, <3>1
  <2>4. CASE c # m /\ d = m
    <3>1. c \in DOMAIN L
      BY <1>4, <2>4
    <3>2. CASE c = b
      BY <1>2, <1>7, <2>4, <3>2
    <3>3. CASE c # b
      <4>1. c < b
        <5>1. CASE b < c
          <6>1. End(L, b) <= c
            BY <2>1, <3>1, <5>1
          <6> QED BY <1>1, <1>2, <1>13, <2>4, <3>1, <6>1
        <5> QED BY <1>1, <3>1, <3>3, <5>1
      <4>2. End(L, c) <= b
        BY <2>1, <3>1, <4>1
      <4> QED BY <1>1, <1>2, <1>7, <2>4, <3>1, <3>3, <4>2
    <3> QED BY <3>2, <3>3
  <2> QED BY <2>2, <2>3, <2>4
<1>14. Tiles(M, brk)
  BY <1>8, <1>9, <1>10, <1>11, <1>12, <1>13 DEF Tiles
<1> QED BY <1>1, <1>2, <1>3, <1>6, <1>14 DEF M, m

\* to join it with the next,
LEMMA JoinTiles ==
  ASSUME NEW brk \in Nat, NEW L, Tiles(L, brk), NEW b \in DOMAIN L, b # Prologue,
         End(L, b) \in DOMAIN L
  PROVE  /\ Tiles(Join(L, b), brk)
         /\ End(Join(L, b), b) = End(L, End(L, b))
<1> DEFINE M == Join(L, b)
           m == End(L, b)
<1>1. /\ \A c \in DOMAIN L : /\ c \in 1 .. brk - 1 /\ L[c].size \in Nat /\ L[c].size >= 2
                             /\ End(L, c) = c + L[c].size /\ End(L, c) \in Nat
                             /\ c < End(L, c) /\ End(L, c) <= brk
      /\ brk > 1 /\ brk \notin DOMAIN L
  BY TilesTypes
<1>2. m \in DOMAIN L /\ b < m /\ m < End(L, m) /\ m = b + L[b].size
  BY <1>1
<1>3. m # Prologue
  BY <1>1, <1>2 DEF Prologue
<1>4. DOMAIN M = DOMAIN L \ {m}
  BY DEF Join
<1>5. /\ M[b] = Tag(L[b].size + L[m].size, L[b].alloc)
      /\ \A c \in DOMAIN M : c # b => M[c] = L[c]
  BY <1>1, <1>2 DEF Join
<1> HIDE DEF M, m
<1>6. b \in DOMAIN M
  BY <1>1, <1>2, <1>4
<1>7. /\ End(M, b) = End(L, m)
      /\ \A c \in DOMAIN M : c # b => End(M, c) = End(L, c)
  <2>1. End(M, b) = b + (L[b].size + L[m].size)
    BY <1>5, TagIs DEF End
  <2> QED BY <1>1, <1>2, <1>5, <2>1 DEF End
<1>8. \A x, y \in DOMAIN L : x < y => End(L, x) <= y
  BY DEF Tiles
<1>9. \A c \in DOMAIN L : End(L, c) = m => c = b
  <2> TAKE c \in DOMAIN L
  <2> HAVE End(L, c) = m
  <2>1. c < b => End(L, c) <= b
    BY <1>8
  <2>2. b < c => m <= c
    BY <1>8, <1>2 DEF m
  <2> QED BY <1>1, <1>2, <2>1, <2>2
<1>10. ASSUME NEW c \in DOMAIN M
       PROVE  /\ M[c].size \in 2 .. brk /\ M[c].alloc \in {0, 1}
              /\ M[c] = Tag(M[c].size, M[c].alloc)
              /\ c # Prologue => M[c].size > 2
  <2>1. /\ \A d \in DOMAIN L : /\ L[d].size \in 2 .. brk /\ L[d].alloc \in {0, 1}
                               /\ L[d] = Tag(L[d].size, L[d].alloc)
                               /\ d # Prologue => L[d].size > 2
    BY DEF Tiles
  <2>2. CASE c # b
    BY <1>4, <1>5, <2>1, <2>2
  <2>3. CASE c = b
    <3>1. /\ M[b].size = L[b].size + L[m].size /\ M[b].alloc = L[b].alloc
          /\ M[b] = Tag(M[b].size, M[b].alloc)
      BY <1>5, TagIs
    <3>2. L[b].size + L[m].size \in 2 .. brk /\ L[b].size + L[m].size > 2
      BY <1>1, <1>2
    <3> QED BY <2>1, <2>3, <3>1, <3>2
  <2> QED BY <2>2, <2>3
<1>11. DOMAIN M \in SUBSET (1 .. brk - 1)
  BY <1>1, <1>4
<1>12. Prologue \in DOMAIN M /\ M[Prologue] = Tag(2, 1)
  BY <1>3, <1>4, <1>5 DEF Tiles
<1>13. ASSUME NEW c \in DOMAIN M PROVE End(M, c) \in DOMAIN M \cup {brk}
  <2>1. CASE c = b
    <3>1. End(L, m) \in DOMAIN L \cup {brk}
      BY <1>2 DEF Tiles
    <3>2. End(L, m) # m
      BY <1>1, <1>2
    <3> QED BY <1>4, <1>7, <2>1, <3>1, <3>2
  <2>2. CASE c # b
    <3>1. End(L, c) \in DOMAIN L \cup {brk} /\ c \in DOMAIN L
      BY <1>4 DEF Tiles
    <3>2. End(L, c) # m
      BY <1>9, <2>2, <3>1
    <3> QED BY <1>4, <1>7, <2>2, <3>1, <3>2
  <2> QED BY <2>1, <2>2
<1>14. ASSUME NEW c \in DOMAIN M \cup {brk}, c # Prologue
       PROVE  \E d \in DOMAIN M : End(M, d) = c
  <2>1. PICK d \in DOMAIN L : End(L, d) = c
    BY <1>4, <1>14 DEF Tiles
  <2>2. CASE d = m
    BY <1>6, <1>7, <2>1, <2>2
  <2>3. CASE d # m
    <3>1. d \in DOMAIN M /\ d # b
      <4>1. c # m
        BY <1>1, <1>2, <1>4
      <4> QED BY <1>4, <2>1, <2>3, <4>1 DEF m
    <3> QED BY <1>7, <2>1, <3>1
  <2> QED BY <2>2, <2>3
<1>15. ASSUME NEW c \in DOMAIN M, NEW d \in DOMAIN M, c < d
       PROVE  End(M, c) <= d
  <2>1. c \in DOMAIN L /\ d \in DOMAIN L /\ d # m
    BY <1>4
  <2>2. CASE c # b
    BY <1>7, <1>8, <1>15, <2>1, <2>2
  <2>3. CASE c = b
    <3>1. m <= d
      BY <1>8, <1>15, <2>1, <2>3 DEF m
    <3>2. m < d
      BY <1>1, <1>2, <2>1, <3>1
    <3> QED BY <1>2, <1>7, <1>8, <2>1, <2>3, <3>2
  <2> QED BY <2>2, <2>3
<1>16. Tiles(M, brk)
  BY <1>10, <1>11, <1>12, <1>13, <1>14, <1>15 DEF Tiles
<1> QED BY <1>7, <1>16 DEF M, m

\* or to add a block at the end of the heap.
LEMMA GrowTiles ==
  ASSUME NEW brk \in Nat, NEW L, Tiles(L, brk), NEW n \in Nat, n > 2
  PROVE  Tiles(Grow(L, brk, n), brk + n)
<1> DEFINE M == Grow(L, brk, n)
<1>1. /\ \A c \in DOMAIN L : /\ c \in 1 .. brk - 1 /\ L[c].size \in Nat /\ L[c].size >= 2
                             /\ End(L, c) = c + L[c].size /\ End(L, c) \in Nat
                             /\ c < End(L, c) /\ End(L, c) <= brk
      /\ brk > 1 /\ brk \notin DOMAIN L
  BY TilesTypes
<1>2. DOMAIN M = DOMAIN L \cup {brk}
  BY DEF Grow
<1>3. M[brk] = Tag(n, 0) /\ \A c \in DOMAIN L : M[c] = L[c]
  BY <1>1 DEF Grow
<1> HIDE DEF M
<1>4. End(M, brk) = brk + n /\ \A c \in DOMAIN L : End(M, c) = End(L, c)
  BY <1>3, TagIs DEF End
<1>5. ASSUME NEW c \in DOMAIN M
      PROVE  /\ M[c].size \in 2 .. brk + n /\ M[c].alloc \in {0, 1}
             /\ M[c] = Tag(M[c].size, M[c].alloc)
             /\ c # Prologue => M[c].size > 2
  <2>1. \A d \in DOMAIN L : /\ L[d].size \in 2 .. brk + n /\ L[d].alloc \in {0, 1}
                            /\ L[d] = Tag(L[d].size, L[d].alloc)
                            /\ d # Prologue => L[d].size > 2
    BY DEF Tiles
  <2>2. CASE c \in DOMAIN L
    BY <1>3, <2>1, <2>2
  <2>3. CASE c = brk
    <3>1. M[brk].size = n /\ M[brk].alloc = 0 /\ M[brk] = Tag(M[brk].size, M[brk].alloc)
      BY <1>3, TagIs
    <3> QED BY <2>3, <3>1
  <2> QED BY <1>2, <2>2, <2>3
<1>6. DOMAIN M \in SUBSET (1 .. (brk + n) - 1)
  BY <1>1, <1>2
<1>7. Prologue \in DOMAIN M /\ M[Prologue] = Tag(2, 1)
  BY <1>2, <1>3 DEF Tiles
<1>8. \A c \in DOMAIN M : End(M, c) \in DOMAIN M \cup {brk + n}
  BY <1>2, <1>4 DEF Tiles
<1>9. ASSUME NEW c \in DOMAIN M \cup {brk + n}, c # Prologue
      PROVE  \E d \in DOMAIN M : End(M, d) = c
  <2>1. CASE c = brk + n
    BY <1>2, <1>4, <2>1
  <2>2. CASE c # brk + n
    <3>1. PICK d \in DOMAIN L : End(L, d) = c
      BY <1>2, <1>9, <2>2 DEF Tiles
    <3> QED BY <1>2, <1>4, <3>1
  <2> QED BY <2>1, <2>2
<1>10. ASSUME NEW c \in DOMAIN M, NEW d \in DOMAIN M, c < d
       PROVE  End(M, c) <= d
  <2>1. CASE d \in DOMAIN L
    <3>1. c \in DOMAIN L
      BY <1>1, <1>2, <1>10, <2>1
    <3> QED BY <1>4, <1>10, <2>1, <3>1 DEF Tiles
  <2>2. CASE d = brk
    BY <1>1, <1>2, <1>4, <1>10, <2>2
  <2> QED BY <1>2, <2>1, <2>2
<1>11. Tiles(M, brk + n)
  BY <1>5, <1>6, <1>7, <1>8, <1>9, <1>10 DEF Tiles
<1> QED BY <1>11 DEF M

----------------------------------------------------------------------------
(* The steps operations are made of *)

\* The words of a block: the header, the payload and the footer.
WordsOf(L, b) == Hdr(b) .. End(L, b) - 2

\* Nothing but the words of these blocks has changed.
OnlyIn(g, h, L, S) ==
  \A p \in 0 .. MaxHeap - 1 : (\A b \in S : p \notin WordsOf(L, b)) => g.mem[p] = h.mem[p]

\* The types of the fields of a heap.
LEMMA HeapTypes ==
  ASSUME NEW h \in Heaps
  PROVE  /\ h.mem \in [0 .. MaxHeap - 1 -> Words] /\ h.brk \in Nat /\ h.brk <= MaxHeap
         /\ h.last \in Nat /\ h.last <= MaxHeap - 1
         /\ h.lists \in [Lists -> Seq(0 .. MaxHeap - 1)] /\ MaxHeap \in Nat
BY MmAssumption DEF Heaps

\* To write in memory leaves the rest of a heap alone.
LEMMA MemSet ==
  ASSUME NEW h \in Heaps, NEW mem \in [0 .. MaxHeap - 1 -> Words],
         NEW g, g = [h EXCEPT !.mem = mem]
  PROVE  /\ g \in Heaps /\ g.mem = mem /\ g.brk = h.brk /\ g.last = h.last
         /\ g.lists = h.lists
BY DEF Heaps

\* Blocks have no word in common, and the epilogue's is none of theirs.
LEMMA Apart ==
  ASSUME NEW h \in Heaps, NEW L, Tiles(L, h.brk)
  PROVE  /\ \A b \in DOMAIN L :
              /\ WordsOf(L, b) \in SUBSET (0 .. h.brk - 2) /\ WordsOf(L, b) \in SUBSET (0 .. MaxHeap - 1)
              /\ Hdr(b) \in WordsOf(L, b) /\ End(L, b) - 2 \in WordsOf(L, b)
              /\ Hdr(b) = b - 1
         /\ \A b, c \in DOMAIN L : \A p \in WordsOf(L, b) : p \in WordsOf(L, c) => b = c
         /\ h.brk - 1 \in 0 .. MaxHeap - 1 /\ Hdr(h.brk) = h.brk - 1
<1>1. h.brk \in Nat /\ h.brk <= MaxHeap /\ MaxHeap \in Nat
  BY HeapTypes
<1>2. /\ \A b \in DOMAIN L : /\ b \in 1 .. h.brk - 1 /\ L[b].size \in Nat /\ L[b].size >= 2
                             /\ End(L, b) = b + L[b].size /\ End(L, b) \in Nat
                             /\ b < End(L, b) /\ End(L, b) <= h.brk
      /\ h.brk > 1 /\ h.brk \notin DOMAIN L
  BY <1>1, TilesTypes
<1>3. \A b \in DOMAIN L :
        /\ WordsOf(L, b) \in SUBSET (0 .. h.brk - 2) /\ WordsOf(L, b) \in SUBSET (0 .. MaxHeap - 1)
        /\ Hdr(b) \in WordsOf(L, b) /\ End(L, b) - 2 \in WordsOf(L, b)
        /\ Hdr(b) = b - 1
  BY <1>1, <1>2 DEF WordsOf, Hdr
<1>4. ASSUME NEW b \in DOMAIN L, NEW c \in DOMAIN L, NEW p \in WordsOf(L, b),
             p \in WordsOf(L, c)
      PROVE  b = c
  <2>1. b < c => End(L, b) <= c
    BY DEF Tiles
  <2>2. c < b => End(L, c) <= b
    BY DEF Tiles
  <2>3. p \in b - 1 .. End(L, b) - 2 /\ p \in c - 1 .. End(L, c) - 2
    BY <1>4 DEF WordsOf, Hdr
  <2> QED BY <1>2, <2>1, <2>2, <2>3
<1> QED BY <1>1, <1>2, <1>3, <1>4 DEF Hdr

\* Two free blocks are not both at the end of the heap.
LEMMA EndsApart ==
  ASSUME NEW brk \in Nat, NEW L, Tiles(L, brk), NEW b \in DOMAIN L, NEW c \in DOMAIN L,
         End(L, b) = End(L, c)
  PROVE  b = c
<1>1. \A x \in DOMAIN L : x \in Nat /\ x < End(L, x) /\ End(L, x) \in Nat
  BY TilesTypes
<1>2. (b < c => End(L, b) <= c) /\ (c < b => End(L, c) <= b)
  BY DEF Tiles
<1> QED BY <1>1, <1>2

\* A layout that agrees with the old one on the blocks that matter is as good.
LEMMA Relayout ==
  ASSUME NEW h, NEW L, NEW T, NEW F, Good(h, L, T, F), NEW M, Tiles(M, h.brk),
         NEW S \in SUBSET T, S \in SUBSET DOMAIN M, \A b \in S : M[b] = L[b],
         F \in SUBSET S
  PROVE  Good(h, M, S, F)
<1>1. \A b \in S : End(M, b) = End(L, b)
  BY DEF End
<1>2. \A b \in S : Tagged(h, M, b)
  BY <1>1 DEF Good, Tagged
<1>3. \A n : {b \in F : b # h.last /\ ListOf(M[b].size) = n}
             = {b \in F : b # h.last /\ ListOf(L[b].size) = n}
  BY DEF Good
<1>4. Listed(h, M, F)
  BY <1>1, <1>3 DEF Good, Listed
<1> QED BY <1>2, <1>4 DEF Good

\* A tag is a word.
LEMMA TagWord ==
  ASSUME NEW n \in 0 .. MaxHeap, NEW a \in {0, 1}
  PROVE  Tag(n, a) \in Words
BY DEF Tag, Words

\* PutTags gives a block its tags, and writes within it only.
LEMMA Tagging ==
  ASSUME NEW h, NEW L, NEW T, NEW F, Good(h, L, T, F), NEW b \in DOMAIN L,
         NEW g, g = PutTags(h, b, L[b].size, L[b].alloc)
  PROVE  /\ Good(g, L, T \cup {b}, F) /\ g.brk = h.brk
         /\ OnlyIn(g, h, L, {b})
<1> DEFINE w == L[b]
           e == End(L, b) - 2
<1>1. h \in Heaps /\ Tiles(L, h.brk)
  BY DEF Good
<1>2. h.brk \in Nat /\ h.brk <= MaxHeap /\ MaxHeap \in Nat /\ DOMAIN h.mem = 0 .. MaxHeap - 1
  BY <1>1, HeapTypes
<1>3. /\ w = Tag(w.size, w.alloc) /\ w.size \in 0 .. MaxHeap /\ w.alloc \in {0, 1}
  BY <1>1, <1>2 DEF Tiles
<1>4. w \in Words
  BY <1>3, TagWord
<1>5. b + w.size - 2 = e /\ End(L, b) = b + w.size
  <2>1. b \in Nat /\ w.size \in Nat
    BY <1>1, <1>2, TilesTypes
  <2> QED BY <2>1 DEF End
<1>6. g = [h EXCEPT !.mem[Hdr(b)] = w, !.mem[e] = w]
  BY <1>3, <1>5 DEF PutTags
<1>7. /\ Hdr(b) \in WordsOf(L, b) /\ e \in WordsOf(L, b)
      /\ WordsOf(L, b) \in SUBSET (0 .. MaxHeap - 1)
      /\ WordsOf(L, b) \in SUBSET (0 .. h.brk - 2)
  BY <1>1, Apart
<1> HIDE DEF w, e
<1>8. /\ g \in Heaps /\ g.brk = h.brk /\ g.last = h.last /\ g.lists = h.lists
      /\ DOMAIN g.mem = DOMAIN h.mem
      /\ g.mem[Hdr(b)] = w /\ g.mem[e] = w
      /\ \A p \in 0 .. MaxHeap - 1 : p # Hdr(b) /\ p # e => g.mem[p] = h.mem[p]
  <2> DEFINE mem == [p \in 0 .. MaxHeap - 1 |-> IF p = Hdr(b) \/ p = e THEN w ELSE h.mem[p]]
  <2>1. mem \in [0 .. MaxHeap - 1 -> Words]
    BY <1>1, <1>4, HeapTypes
  <2>2. h.mem \in [0 .. MaxHeap - 1 -> Words] /\ Hdr(b) \in 0 .. MaxHeap - 1 /\ e \in 0 .. MaxHeap - 1
    BY <1>1, <1>7, HeapTypes
  <2>3. [h.mem EXCEPT ![Hdr(b)] = w, ![e] = w] = mem
    BY <2>2
  <2>4. g = [h EXCEPT !.mem = [h.mem EXCEPT ![Hdr(b)] = w, ![e] = w]]
    BY <1>1, <1>6 DEF Heaps
  <2>5. g = [h EXCEPT !.mem = mem]
    BY <2>3, <2>4
  <2>6. mem[Hdr(b)] = w /\ mem[e] = w /\ \A p \in 0 .. MaxHeap - 1 : p # Hdr(b) /\ p # e => mem[p] = h.mem[p]
    BY <2>2
  <2> HIDE DEF mem
  <2>7. g.mem = mem /\ g \in Heaps /\ g.brk = h.brk /\ g.last = h.last /\ g.lists = h.lists
    BY <1>1, <2>1, <2>5, MemSet
  <2> QED BY <1>2, <2>1, <2>6, <2>7
<1>9. \A p \in 0 .. MaxHeap - 1 : p \notin WordsOf(L, b) => g.mem[p] = h.mem[p]
  BY <1>7, <1>8
<1>10. ASSUME NEW c \in T \cup {b} PROVE Tagged(g, L, c)
  <2>1. CASE c = b
    BY <1>8, <2>1 DEF Tagged, w, e
  <2>2. CASE c # b
    <3>1. c \in T /\ c \in DOMAIN L /\ Tagged(h, L, c)
      BY <2>2 DEF Good
    <3>2. /\ Hdr(c) \in WordsOf(L, c) /\ End(L, c) - 2 \in WordsOf(L, c)
          /\ WordsOf(L, c) \in SUBSET (0 .. MaxHeap - 1)
          /\ \A p \in WordsOf(L, c) : p \notin WordsOf(L, b)
      BY <1>1, <2>2, <3>1, Apart
    <3>3. g.mem[Hdr(c)] = h.mem[Hdr(c)] /\ g.mem[End(L, c) - 2] = h.mem[End(L, c) - 2]
      BY <1>9, <3>2
    <3> QED BY <3>1, <3>3 DEF Tagged
  <2> QED BY <2>1, <2>2
<1>11. g.mem[Hdr(g.brk)] = Tag(0, 1)
  <2>1. /\ h.brk - 1 \in 0 .. MaxHeap - 1 /\ Hdr(h.brk) = h.brk - 1
        /\ h.brk - 1 \notin 0 .. h.brk - 2
    BY <1>1, <1>2, Apart
  <2>2. h.mem[Hdr(h.brk)] = Tag(0, 1)
    BY DEF Good
  <2> QED BY <1>7, <1>8, <1>9, <2>1, <2>2
<1>12. Listed(g, L, F)
  BY <1>8 DEF Good, Listed
<1>13. OnlyIn(g, h, L, {b})
  BY <1>9 DEF OnlyIn
<1> QED BY <1>1, <1>8, <1>10, <1>11, <1>12, <1>13 DEF Good

\* A heap with a new last block, or with new lists.
LEMMA LastSet ==
  ASSUME NEW h \in Heaps, NEW b \in 0 .. MaxHeap - 1, NEW g, g = [h EXCEPT !.last = b]
  PROVE  /\ g \in Heaps /\ g.mem = h.mem /\ g.brk = h.brk /\ g.last = b
         /\ g.lists = h.lists
BY DEF Heaps

\* To write the lists leaves the rest of a heap alone.
LEMMA ListsSet ==
  ASSUME NEW h \in Heaps, NEW lists \in [Lists -> Seq(0 .. MaxHeap - 1)],
         NEW g, g = [h EXCEPT !.lists = lists]
  PROVE  /\ g \in Heaps /\ g.mem = h.mem /\ g.brk = h.brk /\ g.last = h.last
         /\ g.lists = lists
BY DEF Heaps

\* A link is a word.
LEMMA LinkWord == Link \in Words
BY MmAssumption DEF Link, Data, Words

\* add_to_free_list: the block is in its list, or it is the last one.
LEMMA Adding ==
  ASSUME NEW h, NEW L, NEW T, NEW F, Good(h, L, T, F), NEW b \in T, b \notin F,
         L[b].alloc = 0, End(L, b) = h.brk \/ L[b].size >= Pow2[MinPower],
         NEW g, g = add_to_free_list(h, b, L[b].size)
  PROVE  /\ Good(g, L, T, F \cup {b}) /\ g.brk = h.brk
         /\ OnlyIn(g, h, L, {b})
<1>1. /\ h \in Heaps /\ Tiles(L, h.brk) /\ Tagged(h, L, b) /\ b \in DOMAIN L
      /\ T \in SUBSET DOMAIN L /\ F \in SUBSET DOMAIN L
  BY DEF Good, Listed
<1>2. /\ h.brk \in Nat /\ h.brk <= MaxHeap /\ MaxHeap \in Nat
      /\ h.mem \in [0 .. MaxHeap - 1 -> Words]
      /\ h.lists \in [Lists -> Seq(0 .. MaxHeap - 1)]
  BY <1>1, HeapTypes
<1>3. /\ b \in 1 .. h.brk - 1 /\ L[b].size \in Nat /\ End(L, b) = b + L[b].size
      /\ \A c \in DOMAIN L : c \in Nat /\ c # Null
  BY <1>1, <1>2, TilesTypes DEF Null
<1>4. NextBlk(h, b) = End(L, b)
  BY <1>1, <1>3, TagsSay
<1>5. h.last # b
  BY <1>3 DEF Good, Listed
<1>6. \A c \in F \cup {b} : L[c].alloc = 0
  BY DEF Good, Listed
<1>7. CASE End(L, b) = h.brk
  <2>1. g = [h EXCEPT !.last = b]
    BY <1>4, <1>7 DEF add_to_free_list
  <2>2. /\ g \in Heaps /\ g.mem = h.mem /\ g.brk = h.brk /\ g.last = b
        /\ g.lists = h.lists
    BY <1>1, <1>2, <1>3, <2>1, LastSet
  <2>3. \A c \in F : End(L, c) # h.brk
    BY <1>1, <1>2, <1>7, EndsApart
  <2>4. \A c \in F : c # h.last /\ c # b
    BY <2>3 DEF Good, Listed
  <2>5. \A n : {c \in F \cup {b} : c # g.last /\ ListOf(L[c].size) = n}
               = {c \in F : c # h.last /\ ListOf(L[c].size) = n}
    BY <2>2, <2>4
  <2>6. Listed(g, L, F \cup {b})
    <3>1. \A c \in F \cup {b} : c = g.last <=> End(L, c) = g.brk
      BY <1>7, <2>2, <2>3, <2>4
    <3>2. \A c \in F \cup {b} : c # g.last => L[c].size >= Pow2[MinPower]
      BY <2>2, <2>4 DEF Good, Listed
    <3>3. \A n \in Lists : ListIs(g.lists[n], {c \in F \cup {b} : c # g.last /\ ListOf(L[c].size) = n})
      BY <2>2, <2>5 DEF Good, Listed
    <3> QED BY <1>1, <1>6, <2>2, <3>1, <3>2, <3>3 DEF Listed
  <2>7. \A c \in T : Tagged(g, L, c)
    BY <2>2 DEF Good, Tagged
  <2> QED BY <1>1, <2>2, <2>6, <2>7 DEF Good, OnlyIn
<1>8. CASE End(L, b) # h.brk
  <2> DEFINE k == ListOf(L[b].size)
             lists == [n \in Lists |-> IF n = k THEN <<b>> \o h.lists[k] ELSE h.lists[n]]
             mem == [p \in 0 .. MaxHeap - 1 |-> IF p = b \/ p = b + 1 THEN Link ELSE h.mem[p]]
             S(n) == {c \in F : c # h.last /\ ListOf(L[c].size) = n}
  <2>1. L[b].size >= 4
    BY <1>3, <1>8, MinBlock
  <2>2. /\ b \in WordsOf(L, b) /\ b + 1 \in WordsOf(L, b) /\ b # Hdr(b) /\ b + 1 # Hdr(b)
        /\ b # End(L, b) - 2 /\ b + 1 # End(L, b) - 2
    BY <1>3, <2>1 DEF WordsOf, Hdr
  <2>3. /\ WordsOf(L, b) \in SUBSET (0 .. MaxHeap - 1) /\ WordsOf(L, b) \in SUBSET (0 .. h.brk - 2)
        /\ h.brk - 1 \in 0 .. MaxHeap - 1 /\ Hdr(h.brk) = h.brk - 1
        /\ h.brk - 1 \notin 0 .. h.brk - 2
    BY <1>1, <1>2, Apart
  <2>4. k \in Lists
    BY <1>3, ListOfIs
  <2>5. /\ ListIs(h.lists[k], S(k)) /\ h.lists[k] \in Seq(0 .. MaxHeap - 1)
        /\ b \in 0 .. MaxHeap - 1 /\ b \notin S(k)
    BY <1>2, <2>2, <2>3, <2>4 DEF Good, Listed
  <2>6. <<b>> \o h.lists[k] \in Seq(0 .. MaxHeap - 1) /\ ListIs(<<b>> \o h.lists[k], S(k) \cup {b})
    <3> HIDE DEF S, k
    <3> QED BY <2>5, ListFront
  <2>7. lists \in [Lists -> Seq(0 .. MaxHeap - 1)]
    <3> HIDE DEF k
    <3> QED BY <1>2, <2>6
  <2>8. mem \in [0 .. MaxHeap - 1 -> Words]
    BY <1>2, LinkWord
  <2>9. g = [[h EXCEPT !.lists = lists] EXCEPT !.mem = mem]
    <3>1. g = [h EXCEPT !.lists[k] = <<b>> \o @, !.mem[b] = Link, !.mem[b + 1] = Link]
      BY <1>4, <1>8 DEF add_to_free_list
    <3> HIDE DEF k
    <3>2. lists = [h.lists EXCEPT ![k] = <<b>> \o @]
      BY <1>2, <2>4
    <3>3. mem = [h.mem EXCEPT ![b] = Link, ![b + 1] = Link]
      BY <1>2, <2>2, <2>3
    <3> HIDE DEF lists, mem
    <3> QED BY <1>1, <3>1, <3>2, <3>3 DEF Heaps
  <2>10. /\ g \in Heaps /\ g.mem = mem /\ g.brk = h.brk /\ g.last = h.last
         /\ g.lists = lists
    <3> DEFINE f == [h EXCEPT !.lists = lists]
    <3> HIDE DEF lists, mem
    <3>1. f \in Heaps /\ f.brk = h.brk /\ f.last = h.last /\ f.lists = lists
      BY <1>1, <2>7, ListsSet
    <3>2. g = [f EXCEPT !.mem = mem]
      BY <2>9
    <3> HIDE DEF f
    <3> QED BY <2>8, <3>1, <3>2, MemSet
  <2>11. \A p \in 0 .. MaxHeap - 1 : p # b /\ p # b + 1 => g.mem[p] = h.mem[p]
    BY <2>10
  <2>12. \A n \in Lists : g.lists[n] = IF n = k THEN <<b>> \o h.lists[k] ELSE h.lists[n]
    BY <2>10
  <2> HIDE DEF lists, mem
  <2>13. OnlyIn(g, h, L, {b})
    BY <2>2, <2>11 DEF OnlyIn
  <2>14. ASSUME NEW c \in T PROVE Tagged(g, L, c)
    <3>1. Tagged(h, L, c) /\ c \in DOMAIN L
      BY DEF Good
    <3>2. /\ Hdr(c) \in WordsOf(L, c) /\ End(L, c) - 2 \in WordsOf(L, c)
          /\ WordsOf(L, c) \in SUBSET (0 .. MaxHeap - 1)
          /\ c # b => \A p \in WordsOf(L, c) : p \notin WordsOf(L, b)
      BY <1>1, <3>1, Apart
    <3>3. /\ Hdr(c) # b /\ Hdr(c) # b + 1
          /\ End(L, c) - 2 # b /\ End(L, c) - 2 # b + 1
      BY <2>2, <3>2
    <3>4. g.mem[Hdr(c)] = h.mem[Hdr(c)] /\ g.mem[End(L, c) - 2] = h.mem[End(L, c) - 2]
      BY <2>11, <3>2, <3>3
    <3> QED BY <3>1, <3>4 DEF Tagged
  <2>15. g.mem[Hdr(g.brk)] = Tag(0, 1)
    <3>1. h.brk - 1 # b /\ h.brk - 1 # b + 1
      BY <2>2, <2>3
    <3>2. h.mem[h.brk - 1] = Tag(0, 1)
      BY <2>3 DEF Good
    <3> QED BY <2>3, <2>10, <2>11, <3>1, <3>2
  <2>16. Listed(g, L, F \cup {b})
    <3>1. \A c \in F \cup {b} : c = g.last <=> End(L, c) = g.brk
      BY <1>5, <1>8, <2>10 DEF Good, Listed
    <3>2. \A c \in F \cup {b} : c # g.last => L[c].size >= Pow2[MinPower]
      BY <1>8, <2>10 DEF Good, Listed
    <3>3. ASSUME NEW n \in Lists
          PROVE  ListIs(g.lists[n], {c \in F \cup {b} : c # g.last /\ ListOf(L[c].size) = n})
      <4>1. CASE n = k
        <5>1. {c \in F \cup {b} : c # g.last /\ ListOf(L[c].size) = n} = S(k) \cup {b}
          BY <1>5, <2>10, <4>1
        <5> HIDE DEF S, k
        <5> QED BY <2>6, <2>12, <4>1, <5>1
      <4>2. CASE n # k
        <5>1. {c \in F \cup {b} : c # g.last /\ ListOf(L[c].size) = n} = S(n)
          BY <2>10, <4>2
        <5>2. ListIs(h.lists[n], S(n))
          BY DEF Good, Listed
        <5> HIDE DEF S, k
        <5> QED BY <2>12, <4>2, <5>1, <5>2
      <4> QED BY <4>1, <4>2
    <3>4. g.last \in F \cup {b} \cup {Null}
      BY <2>10 DEF Good, Listed
    <3>5. F \cup {b} \in SUBSET DOMAIN L
      BY <1>1
    <3> QED BY <1>6, <3>1, <3>2, <3>3, <3>4, <3>5 DEF Listed
  <2> QED BY <1>1, <2>10, <2>13, <2>14, <2>15, <2>16 DEF Good
<1> QED BY <1>7, <1>8

\* remove_from_free_list: the block is in no list, and memory is as it was.
LEMMA Removing ==
  ASSUME NEW h, NEW L, NEW T, NEW F, Good(h, L, T, F), NEW b \in F,
         NEW g, g = remove_from_free_list(h, b)
  PROVE  Good(g, L, T, F \ {b}) /\ g.mem = h.mem /\ g.brk = h.brk
<1>1. /\ h \in Heaps /\ Tiles(L, h.brk) /\ F \in SUBSET DOMAIN L /\ h.last \in F \cup {Null}
  BY DEF Good, Listed
<1>2. /\ h.brk \in Nat /\ MaxHeap \in Nat /\ MaxHeap > 0
      /\ h.lists \in [Lists -> Seq(0 .. MaxHeap - 1)]
  BY <1>1, HeapTypes, MmAssumption
<1>3. \A c \in DOMAIN L : c \in Nat /\ c # Null
  BY <1>1, <1>2, TilesTypes DEF Null
<1>4. \A c \in F : (c = h.last <=> End(L, c) = h.brk) /\ L[c].alloc = 0
  BY DEF Good, Listed
<1>5. CASE b = h.last
  <2>1. g = [h EXCEPT !.last = Null]
    BY <1>5 DEF remove_from_free_list
  <2>2. Null \in 0 .. MaxHeap - 1
    BY <1>2 DEF Null
  <2>3. /\ g \in Heaps /\ g.mem = h.mem /\ g.brk = h.brk /\ g.last = Null
        /\ g.lists = h.lists
    BY <1>1, <2>1, <2>2, LastSet
  <2>4. \A c \in F \ {b} : End(L, c) # h.brk /\ c # h.last /\ c # Null
    BY <1>1, <1>3, <1>4, <1>5
  <2>5. \A n : {c \in F \ {b} : c # g.last /\ ListOf(L[c].size) = n}
               = {c \in F : c # h.last /\ ListOf(L[c].size) = n}
    BY <1>5, <2>3, <2>4
  <2>6. Listed(g, L, F \ {b})
    <3>1. \A c \in F \ {b} : c = g.last <=> End(L, c) = g.brk
      BY <2>3, <2>4
    <3>2. \A c \in F \ {b} : c # g.last => L[c].size >= Pow2[MinPower]
      BY <2>4 DEF Good, Listed
    <3>3. \A n \in Lists : ListIs(g.lists[n], {c \in F \ {b} : c # g.last /\ ListOf(L[c].size) = n})
      BY <2>3, <2>5 DEF Good, Listed
    <3> QED BY <1>1, <1>4, <2>3, <3>1, <3>2, <3>3 DEF Listed
  <2>7. \A c \in T : Tagged(g, L, c)
    BY <2>3 DEF Good, Tagged
  <2> QED BY <2>3, <2>6, <2>7 DEF Good
<1>6. CASE b # h.last
  <2> DEFINE lists == [n \in Lists |-> RemoveFirst(h.lists[n], b)]
             S(n) == {c \in F : c # h.last /\ ListOf(L[c].size) = n}
  <2>1. g = [h EXCEPT !.lists = lists]
    BY <1>6 DEF remove_from_free_list
  <2>2. \A n \in Lists : /\ RemoveFirst(h.lists[n], b) \in Seq(0 .. MaxHeap - 1)
                         /\ ListIs(RemoveFirst(h.lists[n], b), S(n) \ {b})
    <3> TAKE n \in Lists
    <3>1. ListIs(h.lists[n], S(n)) /\ h.lists[n] \in Seq(0 .. MaxHeap - 1)
      BY <1>2 DEF Good, Listed
    <3> HIDE DEF S
    <3> QED BY <3>1, ListWithout
  <2>3. lists \in [Lists -> Seq(0 .. MaxHeap - 1)]
    BY <2>2
  <2>4. /\ g \in Heaps /\ g.mem = h.mem /\ g.brk = h.brk /\ g.last = h.last
        /\ g.lists = lists
    <3> HIDE DEF lists
    <3> QED BY <1>1, <2>1, <2>3, ListsSet
  <2>5. \A n \in Lists : ListIs(g.lists[n], {c \in F \ {b} : c # g.last /\ ListOf(L[c].size) = n})
    <3> TAKE n \in Lists
    <3>1. {c \in F \ {b} : c # g.last /\ ListOf(L[c].size) = n} = S(n) \ {b}
      BY <2>4
    <3>2. g.lists[n] = RemoveFirst(h.lists[n], b)
      BY <2>4
    <3> HIDE DEF S
    <3> QED BY <2>2, <3>1, <3>2
  <2> HIDE DEF lists
  <2>6. Listed(g, L, F \ {b})
    <3>1. \A c \in F \ {b} : (c = g.last <=> End(L, c) = g.brk) /\ L[c].alloc = 0
      BY <1>4, <2>4
    <3>2. \A c \in F \ {b} : c # g.last => L[c].size >= Pow2[MinPower]
      BY <2>4 DEF Good, Listed
    <3>3. g.last \in (F \ {b}) \cup {Null}
      BY <1>1, <1>6, <2>4
    <3> QED BY <1>1, <2>5, <3>1, <3>2, <3>3 DEF Listed
  <2>7. \A c \in T : Tagged(g, L, c)
    BY <2>4 DEF Good, Tagged
  <2> QED BY <2>4, <2>6, <2>7 DEF Good
<1> QED BY <1>5, <1>6

----------------------------------------------------------------------------
(* Freeing and joining blocks *)

\* The blocks S are what and where they were, and their words are the same.
Keeps(g, M, h, L, S) ==
  /\ S \in SUBSET DOMAIN L /\ S \in SUBSET DOMAIN M
  /\ \A b \in S : M[b] = L[b] /\ \A p \in WordsOf(L, b) : g.mem[p] = h.mem[p]

\* What one step keeps and the next keeps, both keep.
LEMMA KeepsOn ==
  ASSUME NEW h, NEW L, NEW g, NEW M, NEW k, NEW N, NEW S, NEW S1 \in SUBSET S,
         Keeps(g, M, h, L, S), Keeps(k, N, g, M, S1)
  PROVE  Keeps(k, N, h, L, S1)
<1>1. \A b \in S1 : b \in S /\ b \in DOMAIN L /\ b \in DOMAIN N /\ N[b] = L[b] /\ M[b] = L[b]
  BY DEF Keeps
<1>2. \A b \in S1 : WordsOf(M, b) = WordsOf(L, b)
  BY <1>1 DEF WordsOf, End
<1>3. ASSUME NEW b \in S1, NEW p \in WordsOf(L, b)
      PROVE  k.mem[p] = h.mem[p]
  <2>1. g.mem[p] = h.mem[p]
    BY <1>1, <1>3 DEF Keeps
  <2>2. k.mem[p] = g.mem[p]
    BY <1>2, <1>3 DEF Keeps
  <2> QED BY <2>1, <2>2
<1> QED BY <1>1, <1>3 DEF Keeps

\* A new layout that agrees on some blocks, where only others are written.
LEMMA OnlyKeeps ==
  ASSUME NEW h \in Heaps, NEW L, NEW M, Tiles(M, h.brk), NEW S, NEW X \in SUBSET DOMAIN M,
         S \in SUBSET DOMAIN L, S \in SUBSET DOMAIN M, \A b \in S : M[b] = L[b] /\ b \notin X,
         NEW g, OnlyIn(g, h, M, X)
  PROVE  Keeps(g, M, h, L, S)
<1>1. \A b \in S : WordsOf(M, b) = WordsOf(L, b)
  BY DEF WordsOf, End
<1>2. ASSUME NEW b \in S, NEW p \in WordsOf(M, b)
      PROVE  g.mem[p] = h.mem[p]
  <2>1. p \in 0 .. MaxHeap - 1
    BY <1>2, Apart
  <2>2. \A c \in X : p \notin WordsOf(M, c)
    BY <1>2, Apart
  <2> QED BY <2>1, <2>2 DEF OnlyIn
<1> QED BY <1>1, <1>2 DEF Keeps

\* Two writes that each stay within some blocks.
LEMMA OnlyTwice ==
  ASSUME NEW h, NEW g, NEW k, NEW L, NEW S, NEW S1, OnlyIn(g, h, L, S), OnlyIn(k, g, L, S1)
  PROVE  OnlyIn(k, h, L, S \cup S1)
BY DEF OnlyIn

\* A block of the layout is made a free block in the lists.
LEMMA MakingFree ==
  ASSUME NEW h, NEW L, NEW T, NEW F, Good(h, L, T, F), NEW b \in DOMAIN L, b \notin F,
         L[b].alloc = 0, End(L, b) = h.brk \/ L[b].size >= Pow2[MinPower],
         NEW g, g = add_to_free_list(PutTags(h, b, L[b].size, 0), b, L[b].size)
  PROVE  /\ Good(g, L, T \cup {b}, F \cup {b}) /\ g.brk = h.brk
         /\ OnlyIn(g, h, L, {b})
<1> DEFINE k == PutTags(h, b, L[b].size, 0)
<1>1. k = PutTags(h, b, L[b].size, L[b].alloc) /\ g = add_to_free_list(k, b, L[b].size)
  OBVIOUS
<1> HIDE DEF k
<1>2. Good(k, L, T \cup {b}, F) /\ k.brk = h.brk /\ OnlyIn(k, h, L, {b})
  BY <1>1, Tagging
<1>3. /\ Good(g, L, T \cup {b}, F \cup {b}) /\ g.brk = k.brk /\ OnlyIn(g, k, L, {b})
  BY <1>1, <1>2, Adding
<1>4. OnlyIn(g, h, L, {b} \cup {b})
  BY <1>2, <1>3, OnlyTwice
<1> QED BY <1>2, <1>3, <1>4

Joined(M, L, b) ==
  /\ DOMAIN M = DOMAIN L \ {End(L, b)} /\ b # End(L, b)
  /\ \A c \in DOMAIN M : c # b => M[c] = L[c]
  /\ M[b].alloc = L[b].alloc
  /\ M[b].size = L[b].size + L[End(L, b)].size
  /\ End(M, b) = End(L, End(L, b))

\* Two blocks that are in no list can be seen as one.
LEMMA Joining ==
  ASSUME NEW h, NEW L, NEW T, NEW F, Good(h, L, T, F), NEW b \in DOMAIN L, b # Prologue,
         b \notin F, End(L, b) \in DOMAIN L, End(L, b) \notin F,
         NEW T1 \in SUBSET (T \ {b, End(L, b)}), F \in SUBSET T1, NEW M, M = Join(L, b)
  PROVE  Good(h, M, T1, F) /\ Joined(M, L, b)
<1> DEFINE e == End(L, b)
<1>1. h \in Heaps /\ h.brk \in Nat /\ Tiles(L, h.brk) /\ T \in SUBSET DOMAIN L
  BY HeapTypes DEF Good
<1>2. Tiles(M, h.brk) /\ End(M, b) = End(L, e)
  BY <1>1, JoinTiles
<1>3. b # e
  BY <1>1, TilesTypes
<1>4. DOMAIN M = DOMAIN L \ {e}
  BY DEF Join
<1>5. \A c \in DOMAIN M : M[c] = IF c = b THEN Tag(L[b].size + L[e].size, L[b].alloc) ELSE L[c]
  BY DEF Join
<1> HIDE DEF e
<1>6. M[b].alloc = L[b].alloc /\ M[b].size = L[b].size + L[e].size
  BY <1>3, <1>4, <1>5, TagIs
<1>7. T1 \in SUBSET T /\ T1 \in SUBSET DOMAIN M /\ \A c \in T1 : M[c] = L[c]
  BY <1>1, <1>4, <1>5 DEF e
<1>8. Good(h, M, T1, F)
  BY <1>2, <1>7, Relayout
<1> QED BY <1>2, <1>3, <1>4, <1>5, <1>6, <1>8 DEF Joined, e

\* A block that may be smaller than the others in the lists is the last one.
LEMMA FreeSizes ==
  ASSUME NEW h, NEW L, NEW T, NEW F, Good(h, L, T, F), NEW b \in F
  PROVE  End(L, b) = h.brk \/ L[b].size >= Pow2[MinPower]
BY DEF Good, Listed

\* A neighbour leaves its list if it joins.
LEMMA Unlinking ==
  ASSUME NEW h, NEW L, NEW T, NEW F, Good(h, L, T, F), NEW joins \in BOOLEAN, NEW b,
         joins => b \in F, NEW g, g = Unlink(h, joins, b)
  PROVE  /\ Good(g, L, T, F \ (IF joins THEN {b} ELSE {}))
         /\ g.mem = h.mem /\ g.brk = h.brk
<1>1. CASE joins
  <2>1. g = remove_from_free_list(h, b) /\ b \in F
    BY <1>1 DEF Unlink
  <2>2. Good(g, L, T, F \ {b}) /\ g.mem = h.mem /\ g.brk = h.brk
    BY <2>1, Removing
  <2>3. (IF joins THEN {b} ELSE {}) = {b}
    BY <1>1
  <2> QED BY <2>2, <2>3
<1>2. CASE ~joins
  <2>1. g = h /\ F \ (IF joins THEN {b} ELSE {}) = F
    BY <1>2 DEF Unlink
  <2> QED BY <2>1
<1> QED BY <1>1, <1>2

\* A free block joins its free neighbours; no other block changes.
LEMMA Coalescing ==
  ASSUME NEW h, NEW L, Sound(h, L), NEW b \in FreeOf(L), NEW g, g = coalesce(h, b)
  PROVE  \E M : /\ Sound(g, M) /\ g.brk = h.brk
                /\ UsedOf(M) = UsedOf(L) /\ Keeps(g, M, h, L, UsedOf(L))
                /\ PartedBut(L, b) => Parted(M)
<1> DEFINE n == End(L, b)
           F == FreeOf(L)
<1>1. /\ h \in Heaps /\ Tiles(L, h.brk) /\ h.brk \in Nat /\ Good(h, L, DOMAIN L, F)
      /\ \A x \in DOMAIN L : Tagged(h, L, x)
  BY HeapTypes DEF Sound, Good
<1>2. /\ \A x \in DOMAIN L : /\ x \in Nat /\ L[x].size \in Nat
                             /\ End(L, x) = x + L[x].size /\ End(L, x) \in Nat
                             /\ x < End(L, x)
      /\ h.brk \notin DOMAIN L
  BY <1>1, TilesTypes
<1>3. b \in DOMAIN L /\ L[b].alloc = 0
  BY DEF FreeOf
<1>4. L[Prologue].alloc = 1 /\ Prologue \in DOMAIN L
  BY <1>1, TagIs DEF Tiles
<1>5. PICK c \in DOMAIN L : End(L, c) = b
  BY <1>1, <1>3, <1>4 DEF Tiles
<1>6. n \in DOMAIN L \/ n = h.brk
  BY <1>1, <1>3 DEF Tiles
<1> DEFINE jp == L[c].alloc = 0
           jn == n \in DOMAIN L /\ L[n].alloc = 0
           start == IF jp THEN c ELSE b
           end == IF jn THEN End(L, n) ELSE n
           k0 == remove_from_free_list(h, b)
           k1 == Unlink(k0, jp, start)
           k2 == Unlink(k1, jn, n)
<1>7. NextBlk(h, b) = n
  BY <1>1, <1>2, <1>3, TagsSay
<1>8. (GetAlloc(h, b - 2) = 0 <=> jp) /\ PrevBlk(h, b) = c
  <2>1. GetSize(h, b - 2) = L[c].size /\ GetAlloc(h, b - 2) = L[c].alloc
    BY <1>1, <1>2, <1>5, TagsSay
  <2>2. b = c + L[c].size
    BY <1>2, <1>5
  <2> QED BY <1>2, <1>3, <2>1, <2>2 DEF PrevBlk
<1>9. IsFree(h, n) <=> jn
  <2>1. CASE n \in DOMAIN L
    BY <1>1, <1>2, <2>1, TagsSay
  <2>2. CASE n = h.brk
    <3>1. h.mem[Hdr(n)].alloc = 1
      BY <1>1, <2>2, TagIs DEF Good
    <3> QED BY <1>2, <2>2, <3>1 DEF IsFree, GetAlloc
  <2> QED BY <1>6, <2>1, <2>2
<1>10. jn => NextBlk(h, n) = End(L, n)
  BY <1>1, <1>2, TagsSay
<1>11. g = IF ~jp /\ ~jn THEN h
           ELSE add_to_free_list(PutTags(k2, start, end - start, 0), start, end - start)
  <2> HIDE DEF n
  <2>1. CASE jp /\ jn
    BY <1>7, <1>8, <1>9, <1>10, <2>1 DEF coalesce, Unlink
  <2>2. CASE jp /\ ~jn
    BY <1>7, <1>8, <1>9, <1>10, <2>2 DEF coalesce, Unlink
  <2>3. CASE ~jp /\ jn
    BY <1>7, <1>8, <1>9, <1>10, <2>3 DEF coalesce, Unlink
  <2>4. CASE ~jp /\ ~jn
    BY <1>7, <1>8, <1>9, <1>10, <2>4 DEF coalesce, Unlink
  <2> QED BY <2>1, <2>2, <2>3, <2>4
<1>12. CASE ~jp /\ ~jn
  <2>1. g = h
    BY <1>11, <1>12
  <2>2. Keeps(h, L, h, L, UsedOf(L))
    BY DEF Keeps, UsedOf
  <2>3. PartedBut(L, b) => Parted(L)
    <3> SUFFICES ASSUME PartedBut(L, b), NEW x \in F, End(L, x) \in F
                 PROVE  FALSE
      BY DEF Parted
    <3>1. x = b \/ End(L, x) = b
      BY DEF PartedBut
    <3>2. x # b
      BY <1>12 DEF FreeOf
    <3>3. x \in DOMAIN L /\ L[x].alloc = 0
      BY DEF FreeOf
    <3>4. x = c
      BY <1>1, <1>5, <3>1, <3>2, <3>3, EndsApart
    <3> QED BY <1>12, <3>3, <3>4
  <2> QED BY <2>1, <2>2, <2>3
<1>13. CASE jp \/ jn
  <2> DEFINE Fb == F \ {b}
             Fc == Fb \ (IF jp THEN {start} ELSE {})
             F2 == Fc \ (IF jn THEN {n} ELSE {})
             L1 == IF jn THEN Join(L, b) ELSE L
             T1 == DOMAIN L \ (IF jn THEN {b, n} ELSE {b})
             L2 == IF jp THEN Join(L1, c) ELSE L1
             T2 == T1 \ (IF jp THEN {c} ELSE {})
  <2>1. /\ c # b /\ n # b /\ c # n /\ c < b /\ b < n
        /\ jn => n < end
    BY <1>2, <1>3, <1>5
  <2>2. (jp => start \in Fb) /\ (jn => n \in Fc)
    BY <2>1 DEF FreeOf
  <2>3. Good(k0, L, DOMAIN L, Fb) /\ k0.mem = h.mem /\ k0.brk = h.brk
    BY <1>1, Removing
  <2>4. Good(k1, L, DOMAIN L, Fc) /\ k1.mem = h.mem /\ k1.brk = h.brk
    <3>1. jp \in BOOLEAN
      OBVIOUS
    <3> HIDE DEF k0, Fb, jp, start
    <3> QED BY ONLY <2>2, <2>3, <3>1, Unlinking
  <2>5. Good(k2, L, DOMAIN L, F2) /\ k2.mem = h.mem /\ k2.brk = h.brk
    <3>1. jn \in BOOLEAN
      OBVIOUS
    <3> HIDE DEF k1, Fc, jn, n
    <3> QED BY ONLY <2>2, <2>4, <3>1, Unlinking
  <2> HIDE DEF k2
  <2>6. F2 \in SUBSET T1 /\ b \notin F2 /\ (jn => n \notin F2) /\ (jp => c \notin F2)
    BY DEF FreeOf
  <2>7. /\ Good(k2, L1, T1, F2)
        /\ DOMAIN L1 = T1 \cup {b} /\ \A x \in T1 : L1[x] = L[x]
        /\ L1[b].alloc = 0 /\ End(L1, b) = end
    <3>1. CASE jn
      <4>1. L1 = Join(L, b) /\ T1 = DOMAIN L \ {b, n} /\ end = End(L, n)
        BY <3>1
      <4>2. /\ T1 \in SUBSET (DOMAIN L \ {b, n}) /\ b # Prologue
            /\ n \in DOMAIN L /\ n \notin F2 /\ b \notin F2 /\ F2 \in SUBSET T1
        <5>1. n \in DOMAIN L /\ n \notin F2 /\ b \notin F2 /\ F2 \in SUBSET T1
          BY <2>6, <3>1
        <5> HIDE DEF F2, T1
        <5> QED BY <1>3, <1>4, <4>1, <5>1
      <4> HIDE DEF F2, T1
      <4> HIDE DEF L1
      <4>3. Good(k2, L1, T1, F2) /\ Joined(L1, L, b)
        BY <1>3, <2>5, <4>1, <4>2, Joining
      <4> QED BY <1>3, <4>1, <4>3 DEF Joined
    <3>2. CASE ~jn
      <4>1. L1 = L /\ T1 = DOMAIN L \ {b} /\ end = n
        BY <3>2
      <4> HIDE DEF F2
      <4>2. Good(k2, L, T1, F2)
        BY <1>1, <2>5, <2>6, <4>1, Relayout
      <4> QED BY <1>3, <4>1, <4>2
    <3> QED BY <3>1, <3>2
  <2>8. L1[b].size = end - b
    <3>1. End(L1, b) = b + L1[b].size
      BY DEF End
    <3>2. L1[b].size \in Nat /\ b \in Nat
      BY <1>1, <2>5, <2>7, TilesTypes DEF Good
    <3> QED BY <2>7, <3>1, <3>2
  <2>9. jp => c \in T1 /\ c # Prologue /\ End(L1, c) = b
    <3>1. c \in T1
      BY <2>1
    <3> QED BY <1>4, <1>5, <2>7, <3>1 DEF End
  <2>10. T1 \in SUBSET DOMAIN L /\ b \notin T1 /\ T2 \in SUBSET T1 /\ F2 \in SUBSET T2 /\ (jp => c \notin T2)
    BY <2>6
  <2> HIDE DEF L1, T1, F2
  <2>11. /\ Good(k2, L2, T2, F2)
         /\ DOMAIN L2 = T2 \cup {start} /\ \A x \in T2 : L2[x] = L[x]
         /\ L2[start].alloc = 0 /\ End(L2, start) = end /\ start \notin T2
    <3>1. CASE jp
      <4>1. L2 = Join(L1, c) /\ T2 = T1 \ {c} /\ start = c
        BY <3>1
      <4>2. T2 \in SUBSET (T1 \ {c, b}) /\ c \in DOMAIN L1 /\ b \in DOMAIN L1
        BY <2>7, <2>9, <2>10, <3>1, <4>1
      <4>3. Good(k2, L2, T2, F2) /\ Joined(L2, L1, c)
        <5> HIDE DEF T2, L2
        <5> QED BY <2>6, <2>7, <2>9, <2>10, <3>1, <4>1, <4>2, Joining
      <4>4. L1[c].alloc = 0
        BY <2>7, <2>9, <3>1
      <4> QED BY <2>7, <2>9, <2>10, <3>1, <4>1, <4>2, <4>3, <4>4 DEF Joined
    <3>2. CASE ~jp
      <4>1. L2 = L1 /\ T2 = T1 /\ start = b
        BY <3>2
      <4> QED BY <2>7, <2>10, <4>1
    <3> QED BY <3>1, <3>2
  <2>12. L2[start].size = end - start /\ start \in Nat /\ L2[start].size \in Nat /\ Tiles(L2, k2.brk)
    <3>1. End(L2, start) = start + L2[start].size
      BY DEF End
    <3>2. L2[start].size \in Nat /\ start \in Nat /\ Tiles(L2, k2.brk)
      BY <1>1, <2>5, <2>11, TilesTypes DEF Good
    <3> QED BY <2>11, <3>1, <3>2
  <2>13. end = h.brk \/ end - start >= Pow2[MinPower]
    <3>1. /\ n = h.brk \/ L[b].size >= Pow2[MinPower]
          /\ jn => End(L, n) = h.brk \/ L[n].size >= Pow2[MinPower]
      <4>1. jn => n \in F
        BY DEF FreeOf
      <4> QED BY <1>1, <4>1, FreeSizes
    <3>2. Pow2[MinPower] \in Nat
      BY MinBlock
    <3>3. start <= b /\ n = b + L[b].size /\ (jn => end = n + L[n].size)
      BY <1>2, <1>3, <2>1
    <3>4. CASE jn
      BY <1>2, <1>3, <2>1, <2>12, <3>1, <3>2, <3>3, <3>4
    <3>5. CASE ~jn
      BY <1>2, <1>3, <2>1, <2>12, <3>1, <3>2, <3>3, <3>5
    <3> QED BY <3>4, <3>5
  <2>14. /\ Good(g, L2, T2 \cup {start}, F2 \cup {start}) /\ g.brk = k2.brk
         /\ OnlyIn(g, k2, L2, {start})
    <3>1. g = add_to_free_list(PutTags(k2, start, L2[start].size, 0), start, L2[start].size)
      BY <1>11, <1>13, <2>12
    <3>2. start \in DOMAIN L2 /\ start \notin F2
      BY <2>10, <2>11
    <3>3. End(L2, start) = k2.brk \/ L2[start].size >= Pow2[MinPower]
      BY <2>5, <2>11, <2>12, <2>13
    <3> HIDE DEF L2, T2, start
    <3> QED BY <2>11, <3>1, <3>2, <3>3, MakingFree
  <2>15. \A x \in T2 : x \in F2 <=> L[x].alloc = 0
    BY <2>10 DEF F2, FreeOf, T1
  <2>16. F2 \cup {start} = FreeOf(L2)
    <3> HIDE DEF L2, T2, start
    <3> QED BY <2>10, <2>11, <2>15 DEF FreeOf
  <2>17. UsedOf(L2) = UsedOf(L) /\ \A x \in UsedOf(L) : x \in T2
    <3>1. \A x \in UsedOf(L) : x \in T2
      BY <1>3 DEF T1, UsedOf
    <3> HIDE DEF L2, T2, start
    <3> QED BY <2>10, <2>11, <3>1 DEF UsedOf
  <2>18. Keeps(g, L2, k2, L, UsedOf(L))
    <3>1. /\ UsedOf(L) \in SUBSET DOMAIN L /\ UsedOf(L) \in SUBSET DOMAIN L2
          /\ \A x \in UsedOf(L) : L2[x] = L[x] /\ x \notin {start}
      BY <2>10, <2>11, <2>17
    <3>2. k2 \in Heaps /\ Tiles(L2, k2.brk) /\ {start} \in SUBSET DOMAIN L2
      BY <2>11 DEF Good
    <3> HIDE DEF L2, T2, start
    <3> QED BY <2>14, <3>1, <3>2, OnlyKeeps
  <2>19. Keeps(g, L2, h, L, UsedOf(L))
    BY <2>5, <2>18 DEF Keeps
  <2>20. Sound(g, L2)
    BY <2>11, <2>14, <2>16 DEF Sound
  <2>21. PartedBut(L, b) => Parted(L2)
    <3> SUFFICES ASSUME PartedBut(L, b), NEW x \in FreeOf(L2), End(L2, x) \in FreeOf(L2)
                 PROVE  FALSE
      BY DEF Parted
    <3>1. ASSUME NEW y \in F, End(L, y) \in F PROVE y = b \/ End(L, y) = b
      BY <3>1 DEF PartedBut
    <3>2. F2 \in SUBSET F /\ b \notin F2
      BY <2>6 DEF F2
    <3>3. (jn => n \in F) /\ (jp => c \in F)
      BY DEF FreeOf
    <3>4. start <= b /\ b < n /\ n <= end /\ start \in Nat /\ end \in Nat /\ (jn => n < end)
      BY <1>2, <1>3, <2>1, <2>12
    <3>5. CASE x = start
      <4>1. end \in F2 \cup {start} /\ end # start /\ end # b
        BY <1>2, <1>3, <2>11, <2>16, <3>4, <3>5
      <4>2. end \in F
        BY <3>2, <4>1
      <4>3. CASE jn
        BY <2>1, <3>1, <3>3, <4>1, <4>2, <4>3
      <4>4. CASE ~jn
        BY <4>2, <4>4 DEF FreeOf
      <4> QED BY <4>3, <4>4
    <3>6. CASE x # start
      <4>1. x \in F2 /\ x \in T2 /\ x \in F /\ x # b
        BY <2>10, <2>16, <3>2, <3>6
      <4>2. End(L2, x) = End(L, x)
        BY <2>11, <4>1 DEF End
      <4>3. End(L, x) \in F2 \cup {start}
        BY <2>16, <4>2
      <4>4. CASE End(L, x) \in F2
        BY <3>1, <3>2, <4>1, <4>4
      <4>5. CASE End(L, x) = start /\ jp
        BY <2>1, <3>1, <3>3, <4>1, <4>5
      <4>6. CASE End(L, x) = start /\ ~jp
        <5>1. End(L, x) = b /\ x \in DOMAIN L /\ L[x].alloc = 0
          BY <4>1, <4>6 DEF FreeOf
        <5>2. x = c
          BY <1>1, <1>5, <5>1, EndsApart
        <5> QED BY <4>6, <5>1, <5>2
      <4> QED BY <4>3, <4>4, <4>5, <4>6
    <3> QED BY <3>5, <3>6
  <2> QED BY <2>5, <2>14, <2>17, <2>19, <2>20, <2>21
<1> QED BY <1>12, <1>13

\* The blocks of a layout in which one is freed or allocated.
LEMMA RetagIs ==
  ASSUME NEW L, NEW b \in DOMAIN L, NEW a
  PROVE  /\ DOMAIN Retag(L, b, a) = DOMAIN L
         /\ \A c \in DOMAIN L : c # b => Retag(L, b, a)[c] = L[c]
         /\ Retag(L, b, a)[b].size = L[b].size /\ Retag(L, b, a)[b].alloc = a
         /\ End(Retag(L, b, a), b) = End(L, b)
<1>1. /\ DOMAIN Retag(L, b, a) = DOMAIN L /\ Retag(L, b, a)[b] = Tag(L[b].size, a)
      /\ \A c \in DOMAIN L : c # b => Retag(L, b, a)[c] = L[c]
  BY DEF Retag
<1>2. Retag(L, b, a)[b].size = L[b].size /\ Retag(L, b, a)[b].alloc = a
  BY <1>1, TagIs
<1> QED BY <1>1, <1>2 DEF End

\* mm_free: the block is no longer in use, and the others are kept.
LEMMA Freeing ==
  ASSUME NEW h, NEW L, Sound(h, L), NEW b \in UsedOf(L), L[b].size >= Pow2[MinPower],
         NEW g, g = mm_free(h, b)
  PROVE  \E M : /\ Sound(g, M) /\ g.brk = h.brk
                /\ UsedOf(M) = UsedOf(L) \ {b} /\ Keeps(g, M, h, L, UsedOf(L) \ {b})
                /\ Stays(M, L)
<1> DEFINE M == Retag(L, b, 0)
           S == DOMAIN L \ {b}
           F == FreeOf(L)
           k == add_to_free_list(PutTags(h, b, GetSize(h, Hdr(b)), 0), b, GetSize(h, Hdr(b)))
<1>1. /\ h \in Heaps /\ Tiles(L, h.brk) /\ h.brk \in Nat /\ Good(h, L, DOMAIN L, F)
      /\ b \in DOMAIN L /\ b # Prologue /\ L[b].alloc = 1 /\ Tagged(h, L, b)
  BY HeapTypes DEF Sound, Good, UsedOf
<1>2. b \in Nat /\ L[b].size \in Nat
  BY <1>1, TilesTypes
<1>3. Tiles(M, h.brk)
  BY <1>1, RetagTiles
<1>4. /\ DOMAIN M = DOMAIN L /\ \A c \in S : M[c] = L[c]
      /\ M[b].size = L[b].size /\ M[b].alloc = 0
  BY <1>1, RetagIs
<1>5. F \in SUBSET S /\ b \notin F
  BY <1>1 DEF FreeOf
<1> HIDE DEF M
<1>6. Good(h, M, S, F)
  BY <1>1, <1>3, <1>4, <1>5, Relayout
<1>7. k = add_to_free_list(PutTags(h, b, M[b].size, 0), b, M[b].size)
  BY <1>1, <1>2, <1>4, TagsSay
<1> HIDE DEF k
<1>8. /\ Good(k, M, S \cup {b}, F \cup {b}) /\ k.brk = h.brk
      /\ OnlyIn(k, h, M, {b})
  BY <1>1, <1>4, <1>5, <1>6, <1>7, MakingFree
<1>9. S \cup {b} = DOMAIN M
  BY <1>1, <1>4
<1>10. F \cup {b} = FreeOf(M)
  BY <1>1, <1>4 DEF FreeOf
<1>11. UsedOf(M) = UsedOf(L) \ {b}
  BY <1>1, <1>4 DEF UsedOf
<1>12. Sound(k, M)
  BY <1>8, <1>9, <1>10 DEF Sound
<1>13. Keeps(k, M, h, L, UsedOf(L) \ {b})
  <2> DEFINE U == UsedOf(L) \ {b}
  <2>1. /\ U \in SUBSET DOMAIN L /\ U \in SUBSET DOMAIN M /\ \A c \in U : M[c] = L[c] /\ c \notin {b}
    BY <1>4 DEF UsedOf
  <2>2. {b} \in SUBSET DOMAIN M
    BY <1>1, <1>4
  <2> HIDE DEF U
  <2>3. Keeps(k, M, h, L, U)
    BY <1>1, <1>3, <1>8, <2>1, <2>2, OnlyKeeps
  <2> QED BY <2>3 DEF U
<1>14. g = coalesce(k, b)
  BY DEF mm_free, k
<1>15. b \in FreeOf(M)
  BY <1>1, <1>4 DEF FreeOf
<1>16. PICK N : /\ Sound(g, N) /\ g.brk = k.brk
                /\ UsedOf(N) = UsedOf(M) /\ Keeps(g, N, k, M, UsedOf(M))
                /\ PartedBut(M, b) => Parted(N)
  BY <1>12, <1>14, <1>15, Coalescing
<1>17. Keeps(g, N, h, L, UsedOf(L) \ {b})
  BY <1>11, <1>13, <1>16, KeepsOn
<1>18. Parted(L) => PartedBut(M, b)
  <2> SUFFICES ASSUME Parted(L), NEW x \in FreeOf(M), End(M, x) \in FreeOf(M), x # b, End(M, x) # b
               PROVE  FALSE
    BY DEF PartedBut
  <2>1. x \in F /\ End(M, x) \in F /\ x \in S
    BY <1>5, <1>10
  <2>2. End(M, x) = End(L, x)
    BY <1>4, <2>1 DEF End
  <2> QED BY <2>1, <2>2 DEF Parted
<1> QED BY <1>8, <1>11, <1>16, <1>17, <1>18 DEF Stays

----------------------------------------------------------------------------
(* Growing the heap *)

\* The layout G has the new words as a free block.
Grows(G, L, brk, n) ==
  /\ DOMAIN G = DOMAIN L \cup {brk} /\ \A c \in DOMAIN L : G[c] = L[c]
  /\ G[brk].size = n /\ G[brk].alloc = 0 /\ End(G, brk) = brk + n

\* The blocks of a layout that has grown.
LEMMA GrowIs ==
  ASSUME NEW L, NEW brk \in Nat, brk \notin DOMAIN L, NEW n \in Nat, NEW G, G = Grow(L, brk, n)
  PROVE  Grows(G, L, brk, n)
<1>1. /\ DOMAIN G = DOMAIN L \cup {brk} /\ G[brk] = Tag(n, 0)
      /\ \A c \in DOMAIN L : G[c] = L[c]
  BY DEF Grow
<1> QED BY <1>1, TagIs DEF End, Grows

\* mem_sbrk moves the epilogue to the new end; the new words are in no list.
LEMMA MovingEnd ==
  ASSUME NEW h \in Heaps, h.last = Null, NEW L, NEW F, Good(h, L, DOMAIN L, F),
         \A c \in F : End(L, c) # h.brk, NEW n \in Nat, n > 2, h.brk + n <= MaxHeap,
         NEW e \in Heaps, e.brk = h.brk + n, e.last = Null, e.lists = h.lists,
         e.mem[e.brk - 1] = Tag(0, 1), \A p \in 0 .. h.brk - 2 : e.mem[p] = h.mem[p]
  PROVE  Good(e, Grow(L, h.brk, n), DOMAIN L, F)
<1> DEFINE G == Grow(L, h.brk, n)
<1>1. h.brk \in Nat /\ Tiles(L, h.brk) /\ F \in SUBSET DOMAIN L
  BY HeapTypes DEF Good, Listed
<1>2. /\ \A c \in DOMAIN L : c \in Nat /\ c > 0 /\ End(L, c) \in Nat /\ End(L, c) <= h.brk
      /\ h.brk \notin DOMAIN L
  BY <1>1, TilesTypes
<1>3. DOMAIN G = DOMAIN L \cup {h.brk} /\ \A c \in DOMAIN L : G[c] = L[c]
  <2>1. G = Grow(L, h.brk, n)
    OBVIOUS
  <2> HIDE DEF G
  <2>2. Grows(G, L, h.brk, n)
    BY <1>1, <1>2, <2>1, GrowIs
  <2> QED BY <2>2 DEF Grows
<1>4. Tiles(G, e.brk)
  BY <1>1, GrowTiles
<1> HIDE DEF G
<1>5. \A c \in DOMAIN L : End(G, c) = End(L, c)
  BY <1>3 DEF End
<1>6. ASSUME NEW c \in DOMAIN L PROVE Tagged(e, G, c)
  <2>1. Hdr(c) \in 0 .. h.brk - 2 /\ End(L, c) - 2 \in 0 .. h.brk - 2
    BY <1>1, Apart
  <2>2. Tagged(h, L, c)
    BY DEF Good
  <2> QED BY <1>3, <1>5, <2>1, <2>2 DEF Tagged
<1>7. Listed(e, G, F)
  <2>1. \A c \in F : c # Null /\ G[c] = L[c] /\ L[c].alloc = 0 /\ L[c].size >= Pow2[MinPower]
    BY <1>1, <1>2, <1>3 DEF Good, Listed, Null
  <2>2. \A c \in F : End(G, c) # e.brk
    BY <1>1, <1>2, <1>5
  <2>3. \A m : {c \in F : c # e.last /\ ListOf(G[c].size) = m}
               = {c \in F : c # h.last /\ ListOf(L[c].size) = m}
    BY <2>1
  <2>4. \A m \in Lists : ListIs(e.lists[m], {c \in F : c # e.last /\ ListOf(G[c].size) = m})
    BY <2>3 DEF Good, Listed
  <2> QED BY <1>1, <1>3, <2>1, <2>2, <2>4 DEF Listed
<1>8. Hdr(e.brk) = e.brk - 1
  BY DEF Hdr
<1> QED BY <1>1, <1>3, <1>4, <1>6, <1>7, <1>8 DEF Good, G

\* What extend_heap makes of the heap: the block of the last free block, or the
\* end of the heap, and of the new words.
Extended(h, b, n, total) ==
  add_to_free_list([PutTags([h EXCEPT !.brk = @ + n], b, total, 0)
                      EXCEPT !.mem[b + total - 1] = Tag(0, 1)], b, total)

\* The heap with the epilogue at its new end and no last free block.
WithEnd(h, n) ==
  [mem |-> [h.mem EXCEPT ![h.brk + n - 1] = Tag(0, 1)], brk |-> h.brk + n,
   last |-> Null, lists |-> h.lists]

\* The order of the writes does not matter.
LEMMA GrownHeap ==
  ASSUME NEW h \in Heaps, NEW b \in Nat, b > 0, NEW total \in Nat, total > 2,
         NEW n \in Nat, b + total = h.brk + n, h.brk + n <= MaxHeap,
         NEW e, e = WithEnd(h, n)
  PROVE  /\ e \in Heaps /\ \A p \in 0 .. h.brk + n - 2 : e.mem[p] = h.mem[p]
         /\ e.mem[e.brk - 1] = Tag(0, 1)
         /\ e.brk = h.brk + n /\ e.last = Null /\ e.lists = h.lists
         /\ Extended(h, b, n, total) = add_to_free_list(PutTags(e, b, total, 0), b, total)
<1> DEFINE w == Tag(total, 0)
           z == Tag(0, 1)
           end == h.brk + n - 1
           m1 == [h.mem EXCEPT ![b - 1] = w, ![b + total - 2] = w, ![b + total - 1] = z]
           m2 == [h.mem EXCEPT ![end] = z]
           m3 == [m2 EXCEPT ![b - 1] = w, ![b + total - 2] = w]
           X == [PutTags([h EXCEPT !.brk = @ + n], b, total, 0) EXCEPT !.mem[b + total - 1] = z]
           Y == PutTags(e, b, total, 0)
<1>1. /\ h.brk \in Nat /\ MaxHeap \in Nat /\ h.mem \in [0 .. MaxHeap - 1 -> Words]
      /\ h.lists \in [Lists -> Seq(0 .. MaxHeap - 1)]
  BY HeapTypes
<1>2. /\ end \in 0 .. MaxHeap - 1 /\ b - 1 \in 0 .. MaxHeap - 1 /\ b + total - 2 \in 0 .. MaxHeap - 1
      /\ b + total - 1 = end /\ b - 1 # end /\ b + total - 2 # end /\ b - 1 # b + total - 2
  <2> DEFINE brk == h.brk
  <2>1. brk \in Nat /\ b + total = brk + n /\ brk + n <= MaxHeap /\ MaxHeap \in Nat
    BY <1>1
  <2> HIDE DEF brk
  <2>2. /\ brk + n - 1 \in 0 .. MaxHeap - 1 /\ b - 1 \in 0 .. MaxHeap - 1
        /\ b + total - 2 \in 0 .. MaxHeap - 1 /\ b + total - 1 = brk + n - 1
        /\ b - 1 # brk + n - 1 /\ b + total - 2 # brk + n - 1 /\ b - 1 # b + total - 2
    BY ONLY <2>1, b \in Nat, total \in Nat, n \in Nat, b > 0, total > 2
  <2> QED BY <2>2 DEF brk
<1>3. z \in Words /\ w.size = total
  BY <1>1, TagWord, TagIs
<1> HIDE DEF w, z, end
<1>4. m1 = m3
  BY <1>1, <1>2
<1>5. m2 \in [0 .. MaxHeap - 1 -> Words] /\ m2[end] = z
      /\ \A p \in 0 .. MaxHeap - 1 : p # end => m2[p] = h.mem[p]
  BY <1>1, <1>2, <1>3
<1>6. m1[b - 1] = w
  BY <1>1, <1>2
<1>7. /\ X = [mem |-> m1, brk |-> h.brk + n, last |-> h.last, lists |-> h.lists]
  <2> DEFINE g == [mem |-> h.mem, brk |-> h.brk + n, last |-> h.last, lists |-> h.lists]
             m0 == [h.mem EXCEPT ![b - 1] = w, ![b + total - 2] = w]
             k == [mem |-> m0, brk |-> h.brk + n, last |-> h.last, lists |-> h.lists]
  <2>1. [h EXCEPT !.brk = @ + n] = g
    BY ONLY h \in Heaps DEF Heaps
  <2>2. PutTags(g, b, total, 0) = k
    <3>1. PutTags(g, b, total, 0) = [g EXCEPT !.mem[b - 1] = w, !.mem[b + total - 2] = w]
      BY DEF PutTags, Hdr, w
    <3> HIDE DEF m0
    <3>2. [g EXCEPT !.mem = m0] = k
      OBVIOUS
    <3>3. [g EXCEPT !.mem[b - 1] = w, !.mem[b + total - 2] = w] = [g EXCEPT !.mem = m0]
      BY DEF m0
    <3> QED BY <3>1, <3>2, <3>3
  <2>3. [k EXCEPT !.mem[b + total - 1] = z] = [mem |-> m1, brk |-> h.brk + n, last |-> h.last, lists |-> h.lists]
    <3>1. [m0 EXCEPT ![b + total - 1] = z] = m1
      OBVIOUS
    <3> HIDE DEF m0, m1
    <3> QED BY <3>1
  <2> HIDE DEF g, k
  <2> QED BY <2>1, <2>2, <2>3 DEF z
<1>8. e = [mem |-> m2, brk |-> h.brk + n, last |-> Null, lists |-> h.lists]
  BY DEF WithEnd, end, z
<1>9. Y = [mem |-> m3, brk |-> h.brk + n, last |-> Null, lists |-> h.lists]
  <2> DEFINE f == [mem |-> m2, brk |-> h.brk + n, last |-> Null, lists |-> h.lists]
  <2> HIDE DEF m2
  <2>1. PutTags(f, b, total, 0) = [f EXCEPT !.mem[b - 1] = w, !.mem[b + total - 2] = w]
    BY DEF PutTags, Hdr, w
  <2>2. [f EXCEPT !.mem[b - 1] = w, !.mem[b + total - 2] = w] = [f EXCEPT !.mem = m3]
    OBVIOUS
  <2>3. e = f
    BY <1>8
  <2> HIDE DEF m3
  <2>4. [f EXCEPT !.mem = m3] = [mem |-> m3, brk |-> h.brk + n, last |-> Null, lists |-> h.lists]
    OBVIOUS
  <2> HIDE DEF f
  <2> QED BY <2>1, <2>2, <2>3, <2>4
<1>10. e \in Heaps
  <2>1. Null \in 0 .. MaxHeap - 1
    BY <1>1, <1>2 DEF Null
  <2> HIDE DEF m2
  <2> QED BY <1>1, <1>5, <1>8, <2>1 DEF Heaps
<1>11. e.brk = h.brk + n /\ e.mem = m2
  BY <1>8
<1> HIDE DEF m1, m2, m3, X, Y
<1>12. add_to_free_list(X, b, total) = [X EXCEPT !.last = b]
  <2>1. NextBlk(X, b) = X.brk
    BY <1>3, <1>6, <1>7 DEF NextBlk, GetSize, Hdr
  <2> QED BY <2>1 DEF add_to_free_list
<1>13. add_to_free_list(Y, b, total) = [Y EXCEPT !.last = b]
  <2>1. NextBlk(Y, b) = Y.brk
    BY <1>3, <1>4, <1>6, <1>9 DEF NextBlk, GetSize, Hdr
  <2> QED BY <2>1 DEF add_to_free_list
<1>14. [X EXCEPT !.last = b] = [Y EXCEPT !.last = b]
  BY <1>4, <1>7, <1>9
<1>15. \A p \in 0 .. h.brk + n - 2 : p \in 0 .. MaxHeap - 1 /\ p # end
  BY <1>1 DEF end
<1>16. e.brk - 1 = end
  <2> DEFINE brk == h.brk
  <2>1. brk \in Nat
    BY <1>1
  <2>2. e.brk = brk + n /\ end = brk + n - 1
    BY <1>11 DEF end
  <2> HIDE DEF brk
  <2> QED BY ONLY <2>1, <2>2, n \in Nat
<1>17. Extended(h, b, n, total) = add_to_free_list(X, b, total)
  BY DEF Extended, X, z
<1>18. e.last = Null /\ e.lists = h.lists
  BY <1>8
<1> QED BY <1>5, <1>10, <1>11, <1>12, <1>13, <1>14, <1>15, <1>16, <1>17, <1>18 DEF Y, z

\* A free block is made of the new words and of the free block they follow, if
\* there is one.  The heap h may hold a stale LAST_FREE_BP: k is without it.
LEMMA Growing ==
  ASSUME NEW h \in Heaps, NEW L, NEW b, b = h.brk \/ (b \in FreeOf(L) /\ End(L, b) = h.brk),
         NEW k, k = [h EXCEPT !.last = Null], Good(k, L, DOMAIN L, FreeOf(L) \ {b}),
         NEW n \in Nat, n > 2, h.brk + n <= MaxHeap, NEW total, b + total = h.brk + n, total \in Nat,
         NEW g, g = Extended(h, b, n, total)
  PROVE  \E M : /\ Sound(g, M) /\ g.brk = h.brk + n
                /\ b \in FreeOf(M) /\ M[b].size = total
                /\ UsedOf(M) = UsedOf(L) /\ Keeps(g, M, h, L, UsedOf(L)) /\ Stays(M, L)
<1> DEFINE brk == h.brk
           e == WithEnd(h, n)
           F == FreeOf(L) \ {b}
           S == DOMAIN L \ {b}
           G == Grow(L, brk, n)
           M == IF b = brk THEN G ELSE Join(G, b)
<1>1. brk \in Nat /\ MaxHeap \in Nat /\ Null \in 0 .. MaxHeap - 1 /\ brk + n <= MaxHeap
  BY HeapTypes, MmAssumption DEF Null
<1>2. k \in Heaps /\ k.mem = h.mem /\ k.brk = brk /\ k.last = Null /\ k.lists = h.lists
  BY <1>1, LastSet
<1>3. Tiles(L, brk) /\ F \in SUBSET DOMAIN L
  BY <1>2 DEF Good, Listed
<1>4. /\ \A c \in DOMAIN L : c \in Nat /\ c > 0 /\ c < brk /\ End(L, c) \in Nat /\ End(L, c) <= brk
                             /\ L[c].size \in Nat /\ End(L, c) = c + L[c].size
      /\ brk \notin DOMAIN L /\ brk > 1
  BY <1>1, <1>3, TilesTypes
<1>5. b \in Nat /\ b > 0 /\ b <= brk /\ (b # brk => b \in FreeOf(L) /\ End(L, b) = brk)
  BY <1>1, <1>4 DEF FreeOf
<1> DEFINE q == brk + n
<1>6. total > 2 /\ q \in Nat /\ b + total = q /\ q > brk /\ brk + n = q
  BY ONLY <1>1, <1>5, n \in Nat, n > 2, total \in Nat, b + total = h.brk + n
<1>7. /\ e \in Heaps /\ \A p \in 0 .. h.brk + n - 2 : e.mem[p] = h.mem[p]
      /\ e.mem[e.brk - 1] = Tag(0, 1) /\ e.brk = h.brk + n /\ e.last = Null /\ e.lists = h.lists
      /\ g = add_to_free_list(PutTags(e, b, total, 0), b, total)
  <2>1. e = WithEnd(h, n)
    OBVIOUS
  <2> HIDE DEF e
  <2> QED BY <1>5, <1>6, <2>1, GrownHeap
<1> HIDE DEF e
<1>8. e.brk = q /\ e.last = Null /\ e.lists = h.lists
  BY <1>7
<1>9. \A p \in 0 .. brk - 2 : e.mem[p] = h.mem[p]
  <2>1. \A p \in 0 .. brk - 2 : p \in 0 .. brk + n - 2
    <3> HIDE DEF brk
    <3> QED BY ONLY <1>1, n \in Nat
  <2> QED BY <1>7, <2>1
<1>10. \A c \in F : End(L, c) # brk
  <2> SUFFICES ASSUME NEW c \in F, End(L, c) = brk
               PROVE  FALSE
    OBVIOUS
  <2>1. c = k.last
    BY <1>2 DEF Good, Listed
  <2> QED BY <1>2, <1>3, <1>4, <2>1 DEF Null
<1> HIDE DEF F
<1>11. Good(e, G, DOMAIN L, F)
  <2>1. k \in Heaps /\ k.last = Null /\ Good(k, L, DOMAIN L, F) /\ (\A c \in F : End(L, c) # k.brk)
        /\ k.brk + n <= MaxHeap /\ e \in Heaps /\ e.brk = k.brk + n /\ e.last = Null
        /\ e.lists = k.lists /\ e.mem[e.brk - 1] = Tag(0, 1)
        /\ (\A p \in 0 .. k.brk - 2 : e.mem[p] = k.mem[p]) /\ G = Grow(L, k.brk, n)
    BY <1>1, <1>2, <1>7, <1>8, <1>9, <1>10 DEF F
  <2> HIDE DEF G, brk, q
  <2> QED BY ONLY <2>1, n \in Nat, n > 2, MovingEnd
<1>12. /\ DOMAIN G = DOMAIN L \cup {brk} /\ \A c \in DOMAIN L : G[c] = L[c]
       /\ G[brk].size = n /\ G[brk].alloc = 0 /\ End(G, brk) = q
  <2>1. brk \in Nat /\ brk \notin DOMAIN L /\ G = Grow(L, brk, n)
    BY <1>1, <1>4
  <2> HIDE DEF brk, G
  <2>2. Grows(G, L, brk, n)
    BY ONLY <2>1, n \in Nat, GrowIs
  <2> QED BY <2>2 DEF Grows, q
<1> HIDE DEF G
<1>13. /\ Good(e, M, S, F)
       /\ DOMAIN M = S \cup {b} /\ \A c \in S : M[c] = L[c]
       /\ M[b].alloc = 0 /\ End(M, b) = q
  <2>1. CASE b = brk
    BY <1>4, <1>11, <1>12, <2>1
  <2>2. CASE b # brk
    <3>1. /\ b \in DOMAIN L /\ L[b].alloc = 0 /\ End(L, b) = brk /\ b \notin F /\ brk \notin F
          /\ b # Prologue /\ F \in SUBSET S
      <4>1. L[Prologue].alloc = 1
        BY <1>3, TagIs DEF Tiles
      <4>2. b \in DOMAIN L /\ L[b].alloc = 0 /\ End(L, b) = brk
        BY <1>5, <2>2 DEF FreeOf
      <4> QED BY <1>3, <1>4, <4>1, <4>2 DEF F
    <3>2. b \in DOMAIN G /\ End(G, b) = brk /\ brk \in DOMAIN G /\ S \in SUBSET (DOMAIN L \ {b, brk})
      BY <1>4, <1>12, <3>1 DEF End
    <3> HIDE DEF S, brk, q
    <3>0. /\ b \in DOMAIN G /\ b # Prologue /\ b \notin F /\ End(G, b) \in DOMAIN G
          /\ End(G, b) \notin F /\ S \in SUBSET (DOMAIN L \ {b, End(G, b)}) /\ F \in SUBSET S
      BY <3>1, <3>2
    <3>3. M = Join(G, b)
      BY <2>2
    <3> HIDE DEF M
    <3>4. Good(e, M, S, F) /\ Joined(M, G, b)
      BY ONLY <1>11, <3>0, <3>3, Joining
    <3> QED BY <1>4, <1>12, <3>1, <3>2, <3>4 DEF S, Joined
  <2> QED BY <2>1, <2>2
<1> HIDE DEF M
<1>14. M[b].size = total /\ Tiles(M, e.brk)
  <2>1. Tiles(M, e.brk) /\ b \in DOMAIN M
    BY <1>13 DEF Good
  <2>2. M[b].size \in Nat /\ End(M, b) = b + M[b].size
    BY <1>6, <1>8, <2>1, TilesTypes
  <2> HIDE DEF q
  <2> QED BY ONLY <1>5, <1>6, <1>13, <2>1, <2>2, total \in Nat
<1>15. /\ Good(g, M, S \cup {b}, F \cup {b}) /\ g.brk = e.brk
       /\ OnlyIn(g, e, M, {b})
  <2>1. b \in DOMAIN M /\ b \notin F /\ M[b].alloc = 0 /\ End(M, b) = e.brk
        /\ g = add_to_free_list(PutTags(e, b, M[b].size, 0), b, M[b].size)
    BY <1>7, <1>8, <1>13, <1>14 DEF F
  <2> HIDE DEF S
  <2> QED BY ONLY <1>13, <2>1, MakingFree
<1>16. F \cup {b} = FreeOf(M)
  BY <1>4, <1>13 DEF F, FreeOf
<1>17. UsedOf(M) = UsedOf(L) /\ UsedOf(L) \in SUBSET S
  <2>1. UsedOf(L) \in SUBSET S
    BY <1>4, <1>5 DEF UsedOf, FreeOf
  <2> QED BY <1>13, <2>1 DEF UsedOf
<1>18. Keeps(e, L, h, L, UsedOf(L))
  <2>1. \A c \in DOMAIN L : WordsOf(L, c) \in SUBSET (0 .. brk - 2)
    BY <1>2, <1>3, Apart
  <2> QED BY <1>9, <2>1 DEF Keeps, UsedOf
<1>19. Keeps(g, M, e, L, UsedOf(L))
  <2> DEFINE U == UsedOf(L)
  <2>1. /\ U \in SUBSET DOMAIN L /\ U \in SUBSET DOMAIN M /\ \A c \in U : M[c] = L[c] /\ c \notin {b}
        /\ {b} \in SUBSET DOMAIN M
    BY <1>13, <1>17
  <2> HIDE DEF U, S
  <2>2. Keeps(g, M, e, L, U)
    BY ONLY <1>7, <1>14, <1>15, <2>1, OnlyKeeps
  <2> QED BY <2>2 DEF U
<1>20. Keeps(g, M, h, L, UsedOf(L))
  BY <1>18, <1>19, KeepsOn
<1>21. Sound(g, M)
  BY <1>13, <1>15, <1>16 DEF Sound
<1>22. b \in FreeOf(M)
  BY <1>13 DEF FreeOf
<1>23. Stays(M, L)
  <2> SUFFICES ASSUME Parted(L), NEW x \in FreeOf(M), End(M, x) \in FreeOf(M)
               PROVE  FALSE
    BY DEF Stays, Parted
  <2>1. ASSUME NEW y \in FreeOf(L) PROVE End(L, y) \notin FreeOf(L)
    BY <2>1 DEF Parted
  <2>2. q \notin DOMAIN M
    BY <1>6, <1>8, <1>14, TilesTypes
  <2>3. x # b
    BY <1>13, <2>2 DEF FreeOf
  <2>4. x \in F /\ x \in S /\ x \in FreeOf(L)
    <3>1. x \in F
      BY <1>16, <2>3
    <3> QED BY <3>1 DEF F, FreeOf
  <2>5. End(M, x) = End(L, x)
    BY <1>13, <2>4 DEF End
  <2>6. CASE End(L, x) \in F
    BY <2>1, <2>4, <2>6 DEF F
  <2>7. CASE End(L, x) = b
    BY <1>5, <1>10, <2>1, <2>4, <2>7
  <2> QED BY <1>16, <2>5, <2>6, <2>7
<1> QED BY <1>8, <1>14, <1>15, <1>17, <1>20, <1>21, <1>22, <1>23

\* The fields of a result.
LEMMA GivesIs ==
  ASSUME NEW h, NEW b
  PROVE  Gives(h, b).heap = h /\ Gives(h, b).bp = b
BY DEF Gives

\* The block that new words are added to.
AtEnd(h) == IF h.last = Null THEN h.brk ELSE h.last

\* extend_heap, if the heap has a prologue.
LEMMA ExtendHeap ==
  ASSUME NEW h, h.brk # Null, NEW n
  PROVE  extend_heap(h, n) = IF h.brk + n > MaxHeap THEN Gives(h, Null)
                             ELSE Gives(Extended(h, AtEnd(h), n, n + LastSize(h)), AtEnd(h))
<1> DEFINE more == mem_sbrk(h, n)
           k == [h EXCEPT !.brk = @ + n]
<1>1. CASE h.brk + n > MaxHeap
  <2>1. more.bp = Null
    BY <1>1 DEF mem_sbrk, Gives
  <2> QED BY <1>1, <2>1 DEF extend_heap
<1>2. CASE ~(h.brk + n > MaxHeap)
  <2>1. more = Gives(k, h.brk)
    BY <1>2 DEF mem_sbrk
  <2> HIDE DEF k
  <2>2. more.bp # Null /\ more.heap = k /\ more.bp = h.brk
    BY <2>1, GivesIs
  <2> HIDE DEF more
  <2>3. (IF h.last = Null THEN more.bp ELSE h.last) = AtEnd(h)
    BY <2>2 DEF AtEnd
  <2>4. extend_heap(h, n) =
          Gives(add_to_free_list([PutTags(more.heap, AtEnd(h), n + LastSize(h), 0)
                                    EXCEPT !.mem[AtEnd(h) + (n + LastSize(h)) - 1] = Tag(0, 1)],
                                 AtEnd(h), n + LastSize(h)), AtEnd(h))
    BY <2>2, <2>3 DEF extend_heap, more
  <2> QED BY <1>2, <2>2, <2>4 DEF Extended, k
<1> QED BY <1>1, <1>2

\* What was the last free block, or begins where the heap ended, is a free block
\* of the new words and of those it had.
GrewBy(r, M, h, L, n) ==
  /\ Sound(r.heap, M) /\ r.heap.brk = h.brk + n
  /\ r.bp = AtEnd(h) /\ r.bp # Null
  /\ r.bp \in FreeOf(M) /\ M[r.bp].size = n + LastSize(h)
  /\ UsedOf(M) = UsedOf(L) /\ Keeps(r.heap, M, h, L, UsedOf(L)) /\ Stays(M, L)

\* LAST_FREE_BP is the free block that ends where the heap does.
LEMMA LastIs ==
  ASSUME NEW h, NEW L, Sound(h, L)
  PROVE  /\ h.last # Null => /\ h.last \in FreeOf(L) /\ End(L, h.last) = h.brk
                             /\ LastSize(h) = L[h.last].size
         /\ LastSize(h) \in Nat
         /\ h.last = Null => LastSize(h) = 0
         /\ \A b \in FreeOf(L) : b = h.last <=> End(L, b) = h.brk
<1>1. /\ Tiles(L, h.brk) /\ h.brk \in Nat /\ h.last \in FreeOf(L) \cup {Null}
      /\ \A b \in FreeOf(L) : b = h.last <=> End(L, b) = h.brk
      /\ \A b \in FreeOf(L) : b \in DOMAIN L /\ Tagged(h, L, b)
  BY HeapTypes DEF Sound, Good, Listed
<1>2. CASE h.last = Null
  BY <1>1, <1>2 DEF LastSize
<1>3. CASE h.last # Null
  <2>1. h.last \in FreeOf(L) /\ h.last \in DOMAIN L /\ Tagged(h, L, h.last)
    BY <1>1, <1>3
  <2>2. L[h.last].size \in Nat /\ h.last \in Nat
    BY <1>1, <2>1, TilesTypes
  <2>3. GetSize(h, Hdr(h.last)) = L[h.last].size
    BY <2>1, <2>2, TagsSay
  <2> QED BY <1>1, <1>3, <2>1, <2>2, <2>3 DEF LastSize
<1> QED BY <1>2, <1>3

\* extend_heap of a heap between operations.
LEMMA Extending ==
  ASSUME NEW h, NEW L, Sound(h, L), NEW n \in Nat, n > 2, NEW r, r = extend_heap(h, n)
  PROVE  \/ r.heap = h /\ r.bp = Null
         \/ \E M : GrewBy(r, M, h, L, n)
<1> DEFINE b == AtEnd(h)
           total == n + LastSize(h)
           g == Extended(h, b, n, total)
           k == [h EXCEPT !.last = Null]
<1>1. /\ h \in Heaps /\ Tiles(L, h.brk) /\ h.brk \in Nat /\ MaxHeap \in Nat
      /\ Good(h, L, DOMAIN L, FreeOf(L)) /\ Null \in 0 .. MaxHeap - 1
  BY HeapTypes, MmAssumption DEF Sound, Good, Null
<1>2. h.brk # Null /\ \A c \in DOMAIN L : c \in Nat /\ L[c].size \in Nat /\ End(L, c) = c + L[c].size
  BY <1>1, TilesTypes DEF Null
<1>3. r = IF h.brk + n > MaxHeap THEN Gives(h, Null) ELSE Gives(g, b)
  BY <1>2, ExtendHeap
<1>4. CASE h.brk + n > MaxHeap
  BY <1>3, <1>4, GivesIs
<1>5. CASE ~(h.brk + n > MaxHeap)
  <2>1. r.heap = g /\ r.bp = b
    <3> HIDE DEF g, b
    <3> QED BY <1>3, <1>5, GivesIs
  <2>2. /\ b = h.brk \/ (b \in FreeOf(L) /\ End(L, b) = h.brk)
        /\ LastSize(h) \in Nat /\ b + LastSize(h) = h.brk /\ b \in Nat /\ b # Null
    <3>1. CASE h.last = Null
      <4>1. b = h.brk /\ LastSize(h) = 0
        BY <3>1, LastIs DEF AtEnd
      <4> HIDE DEF b
      <4> QED BY <1>1, <1>2, <4>1
    <3>2. CASE h.last # Null
      <4>1. b = h.last /\ b \in FreeOf(L) /\ End(L, b) = h.brk /\ LastSize(h) = L[b].size
        BY <3>2, LastIs DEF AtEnd
      <4> HIDE DEF b
      <4> QED BY <1>2, <3>2, <4>1 DEF FreeOf
    <3> QED BY <3>1, <3>2
  <2>3. total \in Nat /\ b + total = h.brk + n /\ h.brk + n <= MaxHeap
    <3> HIDE DEF b
    <3> QED BY <1>1, <1>5, <2>2
  <2>4. Good(k, L, DOMAIN L, FreeOf(L) \ {b})
    <3>1. CASE h.last = Null
      <4>1. b = h.brk /\ h.brk \notin DOMAIN L
        BY <1>1, <3>1, TilesTypes DEF AtEnd
      <4>2. FreeOf(L) \ {b} = FreeOf(L)
        BY <4>1 DEF FreeOf
      <4>3. k = h
        BY <1>1, <3>1 DEF Heaps
      <4> QED BY <1>1, <4>2, <4>3
    <3>2. CASE h.last # Null
      <4>1. b = h.last /\ b \in FreeOf(L)
        BY <3>2, LastIs DEF AtEnd
      <4>2. k = remove_from_free_list(h, b)
        BY <4>1 DEF remove_from_free_list
      <4> HIDE DEF b, k
      <4> QED BY <1>1, <4>1, <4>2, Removing
    <3> QED BY <3>1, <3>2
  <2> HIDE DEF k, b, total
  <2>5. k = [h EXCEPT !.last = Null] /\ g = Extended(h, b, n, total)
    BY DEF k
  <2> HIDE DEF g
  <2>6. \E M : /\ Sound(g, M) /\ g.brk = h.brk + n
               /\ b \in FreeOf(M) /\ M[b].size = total
               /\ UsedOf(M) = UsedOf(L) /\ Keeps(g, M, h, L, UsedOf(L)) /\ Stays(M, L)
    BY ONLY <1>1, <2>2, <2>3, <2>4, <2>5, n \in Nat, n > 2, Growing
  <2> QED BY <2>1, <2>2, <2>6 DEF GrewBy, b, total
<1> QED BY <1>4, <1>5

----------------------------------------------------------------------------
(* Finding a block *)

LEMMA MinIs ==
  ASSUME NEW S \in SUBSET Nat, S # {}
  PROVE  Min(S) \in S
<1>1. \E m \in S : \A n \in S : m <= n
  BY Least
<1> QED BY <1>1 DEF Min

\* ROUND_PAGE gives more than it is asked for, and more than two tags.
LEMMA RoundPageIs ==
  ASSUME NEW x \in Nat
  PROVE  RoundPage(x) \in Nat /\ RoundPage(x) > x /\ RoundPage(x) > 2
<1> DEFINE q == x \div PageSize
           m == x % PageSize
<1>1. PageSize \in Nat /\ PageSize > 2
  BY MmAssumption
<1>2. q \in Nat /\ m \in Nat /\ m < PageSize /\ x = PageSize * q + m
  BY <1>1, Z3
<1> HIDE DEF q, m
<1>3. (q + 1) * PageSize = PageSize * q + PageSize /\ PageSize * q \in Nat
  BY <1>1, <1>2
<1>4. RoundPage(x) = (q + 1) * PageSize
  BY DEF RoundPage, q
<1> QED BY <1>1, <1>2, <1>3, <1>4

\* The block has room; the heap has grown for it only if no other has.
Found(r, M, h, L, size) ==
  /\ Sound(r.heap, M) /\ r.bp \in FreeOf(M) /\ r.bp # Null /\ M[r.bp].size >= size
  /\ UsedOf(M) = UsedOf(L) /\ Keeps(r.heap, M, h, L, UsedOf(L)) /\ Stays(M, L)
  /\ r.heap.brk > h.brk => \A b \in FreeOf(L) : L[b].size < size

\* A free block that is large enough is a fit.
LEMMA FoundHere ==
  ASSUME NEW h, NEW L, Sound(h, L), NEW b \in FreeOf(L), NEW size, L[b].size >= size,
         NEW r, r = Gives(h, b)
  PROVE  Found(r, L, h, L, size)
<1>1. r.heap = h /\ r.bp = b
  BY GivesIs
<1>2. h \in Heaps /\ Tiles(L, h.brk) /\ h.brk \in Nat
  BY HeapTypes DEF Sound, Good
<1>3. b # Null /\ ~(h.brk > h.brk)
  BY <1>2, TilesTypes DEF FreeOf, Null
<1>4. Keeps(h, L, h, L, UsedOf(L))
  BY DEF Keeps, UsedOf
<1> QED BY <1>1, <1>3, <1>4 DEF Found, Stays

\* find_fit: a free block that is large enough, or none.
LEMMA Finding ==
  ASSUME NEW h, NEW L, Sound(h, L), NEW size \in Nat, size >= Pow2[MinPower],
         NEW r, r = find_fit(h, size)
  PROVE  \/ r.heap = h /\ r.bp = Null
         \/ \E M : Found(r, M, h, L, size)
<1> DEFINE fits(n) == {k \in DOMAIN h.lists[n] : GetSize(h, Hdr(h.lists[n][k])) >= size}
           lists == {n \in Lists : n >= ListOf(size) /\ fits(n) # {}}
           more == extend_heap(h, RoundPage(size - LastSize(h)))
<1>1. r = IF lists # {} THEN Gives(h, h.lists[Min(lists)][Min(fits(Min(lists)))])
          ELSE IF LastSize(h) >= size THEN Gives(h, h.last)
          ELSE more
  BY DEF find_fit
<1>2. /\ h \in Heaps /\ Tiles(L, h.brk) /\ h.brk \in Nat
      /\ h.lists \in [Lists -> Seq(0 .. MaxHeap - 1)]
      /\ \A b \in DOMAIN L : Tagged(h, L, b)
      /\ \A n \in Lists : ListIs(h.lists[n], {b \in FreeOf(L) : b # h.last /\ ListOf(L[b].size) = n})
  BY HeapTypes DEF Sound, Good, Listed
<1>3. \A b \in FreeOf(L) : /\ b \in DOMAIN L /\ b \in Nat /\ b # Null
                           /\ L[b].size \in Nat /\ GetSize(h, Hdr(b)) = L[b].size
  <2> TAKE b \in FreeOf(L)
  <2>1. b \in DOMAIN L /\ b \in Nat /\ b > 0 /\ L[b].size \in Nat
    BY <1>2, TilesTypes DEF FreeOf
  <2> QED BY <1>2, <2>1, TagsSay DEF Null
<1>4. size > 0 /\ Pow2[MinPower] \in Nat
  BY MinBlock
<1>5. \A n \in Lists : \A k \in DOMAIN h.lists[n] :
        /\ h.lists[n][k] \in FreeOf(L) /\ h.lists[n][k] # h.last
        /\ ListOf(L[h.lists[n][k]].size) = n
  BY <1>2 DEF ListIs, Range
<1>6. \A b \in FreeOf(L) : b # h.last =>
        /\ ListOf(L[b].size) \in Lists
        /\ \E k \in DOMAIN h.lists[ListOf(L[b].size)] : h.lists[ListOf(L[b].size)][k] = b
  <2> TAKE b \in FreeOf(L)
  <2> HAVE b # h.last
  <2> DEFINE n == ListOf(L[b].size)
  <2>1. n \in Lists
    BY <1>3, ListOfIs
  <2> HIDE DEF n
  <2>2. ListIs(h.lists[n], {c \in FreeOf(L) : c # h.last /\ ListOf(L[c].size) = n})
    BY <1>2, <2>1
  <2>3. b \in Range(h.lists[n])
    BY <2>2 DEF ListIs, n
  <2> QED BY <2>1, <2>3 DEF Range, n
<1>7. CASE lists # {}
  <2> DEFINE m == Min(lists)
             k == Min(fits(m))
             b == h.lists[m][k]
  <2>1. m \in lists
    <3>1. lists \in SUBSET Nat
      BY MmAssumption DEF Lists
    <3> HIDE DEF lists
    <3> QED BY <1>7, <3>1, MinIs
  <2> HIDE DEF m
  <2>2. m \in Lists /\ fits(m) # {}
    BY <2>1
  <2>3. k \in fits(m)
    <3>1. h.lists[m] \in Seq(0 .. MaxHeap - 1)
      BY <1>2, <2>2
    <3>2. fits(m) \in SUBSET Nat
      BY <3>1
    <3> HIDE DEF fits
    <3> QED BY <2>2, <3>2, MinIs
  <2> HIDE DEF k
  <2>4. b \in FreeOf(L) /\ L[b].size >= size
    BY <1>3, <1>5, <2>2, <2>3
  <2>5. r = Gives(h, b)
    BY <1>1, <1>7 DEF k, m
  <2> HIDE DEF b
  <2> QED BY <2>4, <2>5, FoundHere
<1>8. CASE lists = {} /\ LastSize(h) >= size
  <2>1. r = Gives(h, h.last)
    <3> HIDE DEF lists
    <3> QED BY <1>1, <1>8
  <2>2. h.last \in FreeOf(L) /\ L[h.last].size >= size
    BY <1>4, <1>8, LastIs
  <2> QED BY <2>1, <2>2, FoundHere
<1>9. CASE lists = {} /\ ~(LastSize(h) >= size)
  <2> DEFINE n == RoundPage(size - LastSize(h))
  <2>1. r = extend_heap(h, n)
    <3> HIDE DEF lists
    <3> QED BY <1>1, <1>9
  <2>2. LastSize(h) \in Nat /\ size - LastSize(h) \in Nat
    BY <1>9, LastIs
  <2>3. n \in Nat /\ n > size - LastSize(h) /\ n > 2
    BY <2>2, RoundPageIs
  <2> HIDE DEF n
  <2>4. CASE r.heap = h /\ r.bp = Null
    BY <2>4
  <2>5. CASE \E M : GrewBy(r, M, h, L, n)
    <3>1. PICK M : GrewBy(r, M, h, L, n)
      BY <2>5
    <3>2. ASSUME NEW b \in FreeOf(L) PROVE L[b].size < size
      <4>1. CASE b = h.last
        BY <1>3, <1>9, <2>2, <4>1, LastIs
      <4>2. CASE b # h.last
        <5> DEFINE j == ListOf(L[b].size)
        <5> SUFFICES ASSUME L[b].size >= size
                     PROVE  FALSE
          BY <1>3
        <5>1. PICK k \in DOMAIN h.lists[j] : h.lists[j][k] = b
          BY <1>6, <4>2
        <5>2. j \in Lists /\ ListOf(size) \in Lists /\ Pow2[ListOf(size)] <= size
              /\ \A i \in Lists : i > j => L[b].size < Pow2[i]
          BY <1>3, ListOfIs
        <5> HIDE DEF j
        <5>3. k \in fits(j)
          BY <1>3, <5>1
        <5>4. j \in Nat /\ ListOf(size) \in Nat /\ Pow2[ListOf(size)] \in Nat
          BY <5>2, MmAssumption, PowerType DEF Lists
        <5>5. j >= ListOf(size)
          BY <1>3, <5>2, <5>4
        <5>6. j \in lists
          BY <5>2, <5>3, <5>5
        <5> QED BY <1>9, <5>6
      <4> QED BY <4>1, <4>2
    <3>3. M[r.bp].size >= size
      <4>1. M[r.bp].size = n + LastSize(h)
        BY <3>1 DEF GrewBy
      <4> QED BY <2>2, <2>3, <4>1
    <3>4. Found(r, M, h, L, size)
      BY <3>1, <3>2, <3>3 DEF GrewBy, Found
    <3> QED BY <3>4
  <2> QED BY <2>1, <2>3, <2>4, <2>5, Extending
<1> QED BY <1>7, <1>8, <1>9

----------------------------------------------------------------------------
(* Placing a block *)

Cuts(M, L, b, n) ==
  /\ DOMAIN M = DOMAIN L \cup {b + n} /\ b + n \notin DOMAIN L
  /\ \A c \in DOMAIN L : c # b => M[c] = L[c]
  /\ M[b].size = n /\ M[b].alloc = L[b].alloc
  /\ M[b + n].size = L[b].size - n /\ M[b + n].alloc = L[b].alloc

\* The blocks of a layout in which one is cut.
LEMMA CutIs ==
  ASSUME NEW brk \in Nat, NEW L, Tiles(L, brk), NEW b \in DOMAIN L, b # Prologue,
         NEW n \in Nat, n > 2, L[b].size - n > 2, NEW M, M = Cut(L, b, n)
  PROVE  Tiles(M, brk) /\ Cuts(M, L, b, n)
<1> DEFINE m == b + n
<1>1. Tiles(M, brk) /\ m \notin DOMAIN L /\ m # b
  BY CutTiles
<1>2. /\ DOMAIN M = DOMAIN L \cup {m}
      /\ M[b] = Tag(n, L[b].alloc) /\ M[m] = Tag(L[b].size - n, L[b].alloc)
      /\ \A c \in DOMAIN L : c # b => M[c] = L[c]
  BY <1>1 DEF Cut
<1> HIDE DEF m
<1>3. /\ M[b].size = n /\ M[b].alloc = L[b].alloc
      /\ M[m].size = L[b].size - n /\ M[m].alloc = L[b].alloc
  BY <1>2, TagIs
<1> QED BY <1>1, <1>2, <1>3 DEF Cuts, m

\* The block is in use from an offset on; what is before and after is free.
Divides(M, L, b, offset, len, rest) ==
  /\ DOMAIN M = (DOMAIN L \ {b}) \cup (IF offset = 0 THEN {} ELSE {b})
                  \cup {b + offset} \cup (IF rest = 0 THEN {} ELSE {b + offset + len})
  /\ \A c \in DOMAIN L \ {b} : M[c] = L[c] /\ c # b + offset /\ (rest # 0 => c # b + offset + len)
  /\ b + offset \in Nat /\ b + offset # 0
  /\ b + offset # b + offset + len /\ b # b + offset + len /\ (offset # 0 => b # b + offset)
  /\ M[b + offset].size = len /\ M[b + offset].alloc = 1
  /\ offset # 0 => M[b].size = offset /\ M[b].alloc = 0
  /\ rest # 0 => M[b + offset + len].size = rest /\ M[b + offset + len].alloc = 0

\* A free block is cut into an offset, a block in use and a rest.
LEMMA Dividing ==
  ASSUME NEW brk \in Nat, NEW L, Tiles(L, brk), NEW b \in DOMAIN L, b # Prologue,
         NEW offset \in Nat, offset = 0 \/ offset > 2, NEW len \in Nat, len > 2,
         NEW rest \in Nat, rest = 0 \/ rest > 2, L[b].size = offset + len + rest
  PROVE  \E M : Tiles(M, brk) /\ Divides(M, L, b, offset, len, rest)
<1> DEFINE K == Retag(L, b, 0)
           at == b + offset
           A == IF offset = 0 THEN K ELSE Cut(K, b, offset)
           to == at + len
           B == IF rest = 0 THEN A ELSE Cut(A, at, len)
           M == Retag(B, at, 1)
<1>0. b \in Nat /\ b > 0 /\ b + offset \in Nat /\ b + offset + len \in Nat
  BY TilesTypes
<1>1. /\ Tiles(K, brk) /\ DOMAIN K = DOMAIN L /\ \A c \in DOMAIN L : c # b => K[c] = L[c]
      /\ K[b].size = offset + len + rest /\ K[b].alloc = 0
  BY RetagTiles, RetagIs
<1> HIDE DEF K
<1>2. /\ Tiles(A, brk) /\ DOMAIN A = DOMAIN L \cup {at} /\ (offset # 0 => at \notin DOMAIN L)
      /\ \A c \in DOMAIN L : c # b => A[c] = L[c]
      /\ offset # 0 => A[b].size = offset /\ A[b].alloc = 0
      /\ A[at].size = len + rest /\ A[at].alloc = 0
  <2>1. CASE offset = 0
    <3>1. A = K /\ at = b
      BY <1>0, <2>1
    <3> HIDE DEF A, at
    <3> QED BY <1>1, <2>1, <3>1
  <2>2. CASE offset # 0
    <3>1. A = Cut(K, b, offset) /\ offset > 2 /\ K[b].size - offset = len + rest
      BY <1>1, <2>2
    <3> HIDE DEF A
    <3>2. Tiles(A, brk) /\ Cuts(A, K, b, offset)
      BY <1>1, <3>1, CutIs
    <3> QED BY <1>1, <2>2, <3>1, <3>2 DEF Cuts
  <2> QED BY <2>1, <2>2
<1> HIDE DEF A
<1>3. at \in DOMAIN A /\ at # Prologue /\ (offset # 0 => b # at) /\ at \in Nat /\ at > 0 /\ to # at /\ to # b
  <2>1. offset # 0 => at > b
    BY <1>0
  <2>2. Prologue \in DOMAIN L
    BY DEF Tiles
  <2> QED BY <1>0, <1>2, <2>1, <2>2
<1>4. /\ Tiles(B, brk) /\ DOMAIN B = DOMAIN L \cup {at} \cup (IF rest = 0 THEN {} ELSE {to})
      /\ rest # 0 => to \notin DOMAIN L \cup {at}
      /\ \A c \in DOMAIN L \cup {at} : c # at => B[c] = A[c]
      /\ B[at].size = len
      /\ rest # 0 => B[to].size = rest /\ B[to].alloc = 0
  <2>1. CASE rest = 0
    <3>1. B = A
      BY <2>1
    <3> HIDE DEF B, at, to
    <3> QED BY <1>2, <2>1, <3>1
  <2>2. CASE rest # 0
    <3>1. B = Cut(A, at, len) /\ A[at].size - len = rest /\ rest > 2
      BY <1>2, <2>2
    <3> HIDE DEF B, at
    <3>2. Tiles(B, brk) /\ Cuts(B, A, at, len)
      BY <1>2, <1>3, <3>1, CutIs
    <3> QED BY <1>2, <2>2, <3>1, <3>2 DEF Cuts
  <2> QED BY <2>1, <2>2
<1> HIDE DEF B
<1>5. /\ Tiles(M, brk) /\ DOMAIN M = DOMAIN B /\ \A c \in DOMAIN B : c # at => M[c] = B[c]
      /\ M[at].size = len /\ M[at].alloc = 1
  <2>1. at \in DOMAIN B
    BY <1>4
  <2> HIDE DEF at
  <2> QED BY <1>3, <1>4, <2>1, RetagTiles, RetagIs
<1> HIDE DEF M, at, to
<1>6. \A c \in DOMAIN L \ {b} : c # at /\ c \in DOMAIN B /\ (rest # 0 => c # to) /\ M[c] = L[c]
  <2> TAKE c \in DOMAIN L \ {b}
  <2>1. c # at
    BY <1>0, <1>2 DEF at
  <2> QED BY <1>2, <1>4, <1>5, <2>1
<1>7. DOMAIN M = (DOMAIN L \ {b}) \cup (IF offset = 0 THEN {} ELSE {b}) \cup {at}
                   \cup (IF rest = 0 THEN {} ELSE {to})
  <2>1. offset = 0 => at = b
    BY <1>0 DEF at
  <2> QED BY <1>4, <1>5, <2>1
<1>8. offset # 0 => M[b].size = offset /\ M[b].alloc = 0
  BY <1>2, <1>3, <1>4, <1>5
<1>9. rest # 0 => M[to].size = rest /\ M[to].alloc = 0
  BY <1>3, <1>4, <1>5
<1>10. at = b + offset /\ to = b + offset + len
  BY DEF at, to
<1>11. Divides(M, L, b, offset, len, rest)
  BY <1>3, <1>5, <1>6, <1>7, <1>8, <1>9, <1>10 DEF Divides
<1> QED BY <1>5, <1>11

\* The result of place: a block in use, where b was.
Placed(r, M, h, L, b, size) ==
  /\ Sound(r.heap, M) /\ r.heap.brk = h.brk
  /\ r.bp \in UsedOf(M) /\ r.bp \notin UsedOf(L) \ {b} /\ r.bp # Null
  /\ M[r.bp].size >= size
  /\ UsedOf(M) = (UsedOf(L) \ {b}) \cup {r.bp}
  /\ Keeps(r.heap, M, h, L, UsedOf(L) \ {b})

\* Around b, no free blocks touch; nor do they where b is cut in front or behind.
Fenced(L, b, front, behind) ==
  /\ PartedBut(L, b)
  /\ front => \A x \in FreeOf(L) \ {b} : End(L, x) # b
  /\ behind => End(L, b) \notin FreeOf(L)

\* A free block is fenced if no free blocks touch.
LEMMA PartedFences ==
  ASSUME NEW L, Parted(L), NEW b \in FreeOf(L), NEW front, NEW behind
  PROVE  Fenced(L, b, front, behind)
BY DEF Parted, PartedBut, Fenced

\* The writes of place, once the layout is known.
LEMMA PlacingAs ==
  ASSUME NEW h, NEW L, NEW b \in DOMAIN L, Good(h, L, DOMAIN L, FreeOf(L) \ {b}), b # Prologue,
         NEW offset \in Nat, offset = 0 \/ offset >= Pow2[MinPower],
         NEW len \in Nat, len >= Pow2[MinPower],
         NEW rest \in Nat, rest = 0 \/ rest >= Pow2[MinPower], L[b].size = offset + len + rest,
         NEW at, at = b + offset,
         NEW cut, cut = IF offset = 0 THEN h
                        ELSE add_to_free_list(PutTags(h, b, offset, 0), b, offset),
         NEW put, put = PutTags(cut, at, len, 1),
         NEW g, g = IF rest = 0 THEN put
                    ELSE add_to_free_list(PutTags(put, at + len, rest, 0), at + len, rest),
         NEW size \in Nat, size <= len
  PROVE  \E M : /\ Placed(Gives(g, at), M, h, L, b, size)
                /\ Fenced(L, b, offset # 0, rest # 0) => Parted(M)
<1> DEFINE S == DOMAIN L \ {b}
           F == FreeOf(L) \ {b}
           X == IF offset = 0 THEN {} ELSE {b}
           to == at + len
           Y == IF rest = 0 THEN {} ELSE {to}
<1>1. /\ h \in Heaps /\ Tiles(L, h.brk) /\ h.brk \in Nat
  BY HeapTypes DEF Good
<1>2. Pow2[MinPower] \in Nat /\ Pow2[MinPower] >= 4
  BY MinBlock
<1>3. PICK M : Tiles(M, h.brk) /\ Divides(M, L, b, offset, len, rest)
  <2>1. (offset = 0 \/ offset > 2) /\ len > 2 /\ (rest = 0 \/ rest > 2)
    BY <1>2
  <2> QED BY <1>1, <2>1, Dividing
<1>4. /\ DOMAIN M = S \cup X \cup {at} \cup Y
      /\ \A c \in S : M[c] = L[c] /\ c # at /\ (rest # 0 => c # to)
      /\ at \in Nat /\ at # 0 /\ at # to /\ b # to /\ (offset # 0 => b # at)
      /\ M[at].size = len /\ M[at].alloc = 1
      /\ offset # 0 => M[b].size = offset /\ M[b].alloc = 0
      /\ rest # 0 => M[to].size = rest /\ M[to].alloc = 0
  BY <1>3 DEF Divides
<1> HIDE DEF to
<1>5. F \in SUBSET S /\ S \in SUBSET DOMAIN M /\ b \notin F /\ at \notin F /\ (rest # 0 => to \notin F)
  BY <1>4 DEF FreeOf
<1>6. Good(h, M, S, F)
  BY <1>3, <1>4, <1>5, Relayout
<1>7. Good(cut, M, S \cup X, F \cup X) /\ cut.brk = h.brk /\ OnlyIn(cut, h, M, X)
  <2>1. CASE offset = 0
    <3>1. cut = h /\ X = {}
      BY <2>1
    <3> QED BY <1>6, <3>1 DEF OnlyIn
  <2>2. CASE offset # 0
    <3>1. cut = add_to_free_list(PutTags(h, b, M[b].size, 0), b, M[b].size) /\ X = {b}
      BY <1>4, <2>2
    <3>2. b \in DOMAIN M /\ b \notin F /\ M[b].alloc = 0 /\ M[b].size >= Pow2[MinPower]
      BY <1>4, <1>5, <2>2
    <3> HIDE DEF X, S, F
    <3> QED BY ONLY <1>6, <3>1, <3>2, MakingFree
  <2> QED BY <2>1, <2>2
<1>8. Good(put, M, S \cup X \cup {at}, F \cup X) /\ put.brk = h.brk /\ OnlyIn(put, h, M, X \cup {at})
  <2>1. at \in DOMAIN M /\ put = PutTags(cut, at, M[at].size, M[at].alloc)
    BY <1>4
  <2> DEFINE T == S \cup X
             FX == F \cup X
  <2>2. Good(cut, M, T, FX)
    BY <1>7
  <2> HIDE DEF X, S, F, T, FX
  <2>4. Good(put, M, T \cup {at}, FX) /\ put.brk = cut.brk /\ OnlyIn(put, cut, M, {at})
    BY ONLY <2>1, <2>2, Tagging
  <2>3. OnlyIn(put, h, M, X \cup {at})
    BY ONLY <1>7, <2>4, OnlyTwice
  <2> QED BY <1>7, <2>3, <2>4 DEF T, FX
<1>9. /\ Good(g, M, S \cup X \cup {at} \cup Y, F \cup X \cup Y) /\ g.brk = h.brk
      /\ OnlyIn(g, h, M, X \cup {at} \cup Y)
  <2>1. CASE rest = 0
    <3>1. g = put /\ Y = {}
      BY <2>1
    <3> HIDE DEF X, S, F
    <3> QED BY <1>8, <3>1
  <2>2. CASE rest # 0
    <3>1. g = add_to_free_list(PutTags(put, to, M[to].size, 0), to, M[to].size) /\ Y = {to}
      BY <1>4, <2>2 DEF to
    <3>2. to \in DOMAIN M /\ to \notin F \cup X /\ M[to].alloc = 0 /\ M[to].size >= Pow2[MinPower]
      BY <1>4, <1>5, <2>2
    <3> HIDE DEF X, S, F
    <3>3. /\ Good(g, M, S \cup X \cup {at} \cup {to}, F \cup X \cup {to}) /\ g.brk = put.brk
          /\ OnlyIn(g, put, M, {to})
      BY ONLY <1>8, <3>1, <3>2, MakingFree
    <3>4. OnlyIn(g, h, M, X \cup {at} \cup {to})
      BY ONLY <1>8, <3>3, OnlyTwice
    <3> QED BY <1>8, <3>1, <3>3, <3>4
  <2> QED BY <2>1, <2>2
<1>10. F \cup X \cup Y = FreeOf(M)
  BY <1>4 DEF FreeOf
<1>11. UsedOf(M) = (UsedOf(L) \ {b}) \cup {at} /\ at \in UsedOf(M) /\ UsedOf(L) \ {b} \in SUBSET S
  <2>1. at # Prologue
    <3>1. Prologue \in S
      BY <1>1 DEF Tiles
    <3> QED BY <1>4, <3>1
  <2> QED BY <1>4, <2>1 DEF UsedOf
<1>12. at \notin UsedOf(L) \ {b}
  BY <1>4, <1>11
<1>13. Sound(g, M)
  BY <1>4, <1>9, <1>10 DEF Sound
<1>14. Keeps(g, M, h, L, UsedOf(L) \ {b})
  <2> DEFINE U == UsedOf(L) \ {b}
             Z == X \cup {at} \cup Y
  <2>1. /\ U \in SUBSET DOMAIN L /\ U \in SUBSET DOMAIN M /\ \A c \in U : M[c] = L[c] /\ c \notin Z
        /\ Z \in SUBSET DOMAIN M
    BY <1>4, <1>11
  <2>2. OnlyIn(g, h, M, Z)
    BY <1>9
  <2> HIDE DEF U, Z
  <2>3. Keeps(g, M, h, L, U)
    BY ONLY <1>1, <1>3, <2>1, <2>2, OnlyKeeps
  <2> QED BY <2>3 DEF U
<1>15. Gives(g, at).heap = g /\ Gives(g, at).bp = at /\ at # Null
  BY <1>4, GivesIs DEF Null
<1>16. Fenced(L, b, offset # 0, rest # 0) => Parted(M)
  <2> SUFFICES ASSUME Fenced(L, b, offset # 0, rest # 0),
                      NEW x \in FreeOf(M), End(M, x) \in FreeOf(M)
               PROVE  FALSE
    BY DEF Parted
  <2>1. /\ \A y \in F : End(L, y) \notin F
        /\ offset # 0 => \A y \in F : End(L, y) # b
        /\ rest # 0 => End(L, b) \notin F
    BY DEF Fenced, PartedBut
  <2>2. /\ b \in Nat /\ End(L, b) = b + L[b].size /\ End(L, b) <= h.brk
        /\ \A y \in DOMAIN L : End(L, y) \in DOMAIN L \cup {h.brk}
    <3>1. \A y \in DOMAIN L : End(L, y) \in DOMAIN L \cup {h.brk}
      BY <1>1 DEF Tiles
    <3> QED BY <1>1, <3>1, TilesTypes
  <2>3. rest # 0 => /\ to + rest = End(L, b) /\ to \in Nat /\ to < End(L, b) /\ b < to
    BY <1>2, <2>2 DEF to
  <2>4. rest # 0 => /\ End(M, to) = End(L, b) /\ End(L, b) # to /\ End(L, b) # b /\ to # h.brk
    BY <1>1, <1>4, <2>2, <2>3 DEF End
  <2>5. offset # 0 => End(M, b) = at
    BY <1>4 DEF End
  <2>6. CASE x \in F
    <3>1. x \in S /\ x \in DOMAIN L /\ End(M, x) = End(L, x)
      BY <1>4, <1>5, <2>6 DEF End
    <3>2. End(L, x) \in F \cup X \cup Y
      BY <1>10, <3>1
    <3>3. End(L, x) \notin F
      BY <2>1, <2>6
    <3>4. End(L, x) \notin X
      BY <2>1, <2>6
    <3>5. End(L, x) \notin Y
      <4> SUFFICES ASSUME rest # 0, End(L, x) = to PROVE FALSE
        OBVIOUS
      <4>1. to \in DOMAIN L
        BY <2>2, <2>4, <3>1
      <4> QED BY <1>4, <4>1
    <3> QED BY <3>2, <3>3, <3>4, <3>5
  <2>7. CASE x \in X
    <3>1. End(M, x) = at
      BY <2>5, <2>7
    <3> QED BY <1>4, <3>1 DEF FreeOf
  <2>8. CASE x \in Y
    <3>1. rest # 0 /\ End(M, x) = End(L, b)
      BY <2>4, <2>8
    <3>2. End(L, b) \notin F \cup X \cup Y
      BY <2>1, <2>4, <3>1
    <3> QED BY <1>10, <3>1, <3>2
  <2> QED BY <1>10, <2>6, <2>7, <2>8
<1> QED BY <1>4, <1>9, <1>11, <1>12, <1>13, <1>14, <1>15, <1>16 DEF Placed

\* place: the block returned is in use and is large enough.
LEMMA Placing ==
  ASSUME NEW h, NEW L, NEW b \in DOMAIN L, Good(h, L, DOMAIN L, FreeOf(L) \ {b}), b # Prologue,
         NEW size \in Nat, size >= Pow2[MinPower], L[b].size >= size,
         NEW with_offset \in BOOLEAN, NEW r, r = place(h, b, size, with_offset)
  PROVE  \E M : /\ Placed(r, M, h, L, b, size)
                /\ Fenced(L, b, with_offset, L[b].size - size >= Pow2[MinPower]) => Parted(M)
<1> DEFINE min == Pow2[MinPower]
           curr == L[b].size
           room == Min({curr - size, size})
           offset == IF with_offset /\ room > min THEN room ELSE 0
           at == b + offset
           rest == curr - size - offset
           cut == IF offset = 0 THEN h
                  ELSE add_to_free_list(PutTags(h, b, offset, 0), b, offset)
           split == PutTags(PutTags(cut, at, size, 1), at + size, rest, 0)
<1>1. /\ h \in Heaps /\ Tiles(L, h.brk) /\ h.brk \in Nat /\ Tagged(h, L, b)
  BY HeapTypes DEF Good
<1>2. curr \in Nat /\ b \in Nat
  BY <1>1, TilesTypes
<1>3. GetSize(h, Hdr(b)) = curr
  BY <1>1, <1>2, TagsSay
<1> HIDE DEF curr
<1>4. r = IF rest < min THEN Gives(PutTags(cut, at, curr - offset, 1), at)
          ELSE Gives(add_to_free_list(split, at + size, rest), at)
  BY <1>3 DEF place
<1>5. min \in Nat /\ min >= 4
  BY MinBlock
<1>6. curr - size \in Nat /\ (room = curr - size \/ room = size) /\ room <= curr - size /\ room \in Nat
  <2>1. curr - size \in Nat
    BY <1>2 DEF curr
  <2> DEFINE c == curr - size
  <2> HIDE DEF c
  <2>2. Min({c, size}) = IF c <= size THEN c ELSE size
    BY <2>1, Smaller DEF c
  <2>3. (Min({c, size}) = c \/ Min({c, size}) = size) /\ Min({c, size}) <= c /\ Min({c, size}) \in Nat
    BY <2>1, <2>2 DEF c
  <2> QED BY <2>1, <2>3 DEF c
<1> HIDE DEF room, min
<1>7. /\ offset \in Nat /\ (offset = 0 \/ offset >= min)
      /\ rest \in Nat /\ curr = offset + size + rest
  BY <1>2, <1>5, <1>6
<1>10. offset # 0 => with_offset
  OBVIOUS
<1> HIDE DEF offset, rest, at
<1>8. CASE rest < min
  <2> DEFINE len == curr - offset
             put == PutTags(cut, at, len, 1)
  <2>1. r = Gives(put, at)
    BY <1>4, <1>8
  <2>2. len \in Nat /\ len >= min /\ size <= len /\ curr = offset + len + 0
    BY <1>5, <1>7 DEF min
  <2>3. at = b + offset /\ cut = (IF offset = 0 THEN h
                        ELSE add_to_free_list(PutTags(h, b, offset, 0), b, offset))
        /\ put = PutTags(cut, at, len, 1)
    BY DEF at
  <2> HIDE DEF len, put, cut
  <2>4. put = IF 0 = 0 THEN put
              ELSE add_to_free_list(PutTags(put, at + len, 0, 0), at + len, 0)
    OBVIOUS
  <2>5. \E M : /\ Placed(Gives(put, at), M, h, L, b, size)
               /\ Fenced(L, b, offset # 0, 0 # 0) => Parted(M)
    BY <1>7, <2>2, <2>3, <2>4, PlacingAs DEF curr, min
  <2>6. Fenced(L, b, with_offset, curr - size >= min) => Fenced(L, b, offset # 0, 0 # 0)
    BY <1>10 DEF Fenced
  <2> QED BY <2>1, <2>5, <2>6 DEF curr, min
<1>9. CASE ~(rest < min)
  <2> DEFINE put == PutTags(cut, at, size, 1)
             g == add_to_free_list(PutTags(put, at + size, rest, 0), at + size, rest)
  <2>1. r = Gives(g, at)
    BY <1>4, <1>9
  <2>2. rest >= min /\ rest # 0
    BY <1>5, <1>7, <1>9
  <2>3. at = b + offset /\ cut = (IF offset = 0 THEN h
                        ELSE add_to_free_list(PutTags(h, b, offset, 0), b, offset))
        /\ put = PutTags(cut, at, size, 1)
        /\ g = (IF rest = 0 THEN put
                ELSE add_to_free_list(PutTags(put, at + size, rest, 0), at + size, rest))
    BY <2>2 DEF at
  <2> HIDE DEF put, cut, g
  <2>4. \E M : /\ Placed(Gives(g, at), M, h, L, b, size)
               /\ Fenced(L, b, offset # 0, rest # 0) => Parted(M)
    BY <1>7, <2>2, <2>3, PlacingAs DEF curr, min
  <2>5. curr - size >= min
    BY <1>2, <1>5, <1>7, <2>2
  <2>6. Fenced(L, b, with_offset, curr - size >= min) => Fenced(L, b, offset # 0, rest # 0)
    BY <1>10, <2>5 DEF Fenced
  <2> QED BY <2>1, <2>4, <2>6 DEF curr, min
<1> QED BY <1>8, <1>9

----------------------------------------------------------------------------
(* The calls of the package *)

\* The blocks O are kept; besides them, the block returned is in use.
Served(r, M, h, L, O, size) ==
  /\ Sound(r.heap, M) /\ Keeps(r.heap, M, h, L, O)
  /\ \/ r.bp = Null /\ UsedOf(M) = O
     \/ /\ r.bp # Null /\ r.bp \in UsedOf(M) /\ r.bp \notin O
        /\ UsedOf(M) = O \cup {r.bp} /\ M[r.bp].size >= size

\* A block that is placed serves the request, whatever was kept before.
LEMMA PlacedServes ==
  ASSUME NEW r, NEW M, NEW k, NEW J, NEW b, NEW size, Placed(r, M, k, J, b, size),
         NEW h, NEW L, NEW O, O = UsedOf(J) \ {b}, Keeps(k, J, h, L, O)
  PROVE  Served(r, M, h, L, O, size)
<1>1. Keeps(r.heap, M, k, J, O)
  BY DEF Placed
<1>2. Keeps(r.heap, M, h, L, O)
  BY <1>1, KeepsOn
<1> QED BY <1>2 DEF Placed, Served

\* What is kept depends on memory only.
LEMMA SameMemory ==
  ASSUME NEW g, NEW M, NEW h, NEW L, NEW S, Keeps(g, M, h, L, S), NEW k, k.mem = g.mem
  PROVE  Keeps(k, M, h, L, S)
BY DEF Keeps

ServedIn(r, k, h, L, size) ==
  r.heap.brk = k.brk /\ \E N : Served(r, N, h, L, UsedOf(L), size) /\ Stays(N, L)

\* The block found leaves its list and is placed, after what was written in its
\* payload.
LEMMA PlacingFound ==
  ASSUME NEW h, NEW L, NEW f, NEW M, NEW size \in Nat, Found(f, M, h, L, size),
         size >= Pow2[MinPower],
         NEW k, Good(k, M, DOMAIN M, FreeOf(M) \ {f.bp}), Keeps(k, M, h, L, UsedOf(L)),
         NEW r, r = place(k, f.bp, size, TRUE)
  PROVE  ServedIn(r, k, h, L, size)
<1>1. /\ f.bp \in DOMAIN M /\ M[f.bp].alloc = 0 /\ M[f.bp].size >= size
      /\ UsedOf(M) = UsedOf(L) /\ Tiles(M, f.heap.brk)
  BY DEF Found, FreeOf, Sound, Good
<1>2. f.bp # Prologue
  BY <1>1, TagIs DEF Tiles
<1>3. TRUE \in BOOLEAN
  OBVIOUS
<1>4. PICK N : /\ Placed(r, N, k, M, f.bp, size)
               /\ Fenced(M, f.bp, TRUE, M[f.bp].size - size >= Pow2[MinPower]) => Parted(N)
  BY <1>1, <1>2, <1>3, Placing
<1>5. UsedOf(L) = UsedOf(M) \ {f.bp}
  BY <1>1 DEF UsedOf
<1>6. Served(r, N, h, L, UsedOf(L), size)
  BY <1>4, <1>5, PlacedServes
<1>7. Stays(N, L)
  <2>1. Stays(M, L) /\ f.bp \in FreeOf(M)
    BY DEF Found
  <2> QED BY <1>4, <2>1, PartedFences DEF Stays
<1> QED BY <1>4, <1>6, <1>7 DEF Placed, ServedIn

\* mm_malloc: the heap has grown only if no free block has room.
Allocated(r, M, h, L, size) ==
  /\ Served(r, M, h, L, UsedOf(L), size) /\ Stays(M, L)
  /\ r.heap.brk > h.brk => \A b \in FreeOf(L) : L[b].size < size

\* mm_malloc of a heap between operations.
LEMMA Allocating ==
  ASSUME NEW h, NEW L, Sound(h, L), NEW size \in Nat \ {0}, Needed(size) >= Pow2[MinPower],
         NEW r, r = mm_malloc(h, size)
  PROVE  \E M : Allocated(r, M, h, L, Needed(size))
<1> DEFINE f == find_fit(h, Needed(size))
           k == remove_from_free_list(f.heap, f.bp)
<1>1. r = IF f.bp = Null THEN f ELSE place(k, f.bp, Needed(size), TRUE)
  BY DEF mm_malloc
<1>2. Needed(size) \in Nat
  BY DEF Needed
<1>3. f = find_fit(h, Needed(size))
  OBVIOUS
<1> HIDE DEF f
<1>4. h.brk \in Nat
  BY HeapTypes DEF Sound, Good
<1>5. (f.bp = Null /\ f.heap = h) \/ \E M : Found(f, M, h, L, Needed(size))
  BY <1>2, <1>3, Finding
<1>6. CASE f.bp = Null
  <2>1. f.heap = h
    BY <1>5, <1>6 DEF Found
  <2>2. Keeps(h, L, h, L, UsedOf(L))
    BY DEF Keeps, UsedOf
  <2>3. r = f /\ ~(h.brk > h.brk)
    BY <1>1, <1>4, <1>6
  <2>4. Allocated(r, L, h, L, Needed(size))
    BY <1>6, <2>1, <2>2, <2>3 DEF Allocated, Served, Stays
  <2> QED BY <2>4
<1>7. CASE f.bp # Null
  <2>1. PICK M : Found(f, M, h, L, Needed(size))
    BY <1>5, <1>7
  <2>2. f.bp \in FreeOf(M) /\ Good(f.heap, M, DOMAIN M, FreeOf(M)) /\ Keeps(f.heap, M, h, L, UsedOf(L))
    BY <2>1 DEF Found, Sound
  <2>3. k = remove_from_free_list(f.heap, f.bp)
    OBVIOUS
  <2> HIDE DEF k
  <2>4. Good(k, M, DOMAIN M, FreeOf(M) \ {f.bp}) /\ k.mem = f.heap.mem /\ k.brk = f.heap.brk
    BY <2>2, <2>3, Removing
  <2>5. Keeps(k, M, h, L, UsedOf(L))
    BY <2>2, <2>4, SameMemory
  <2>6. r = place(k, f.bp, Needed(size), TRUE)
    BY <1>1, <1>7
  <2>7. PICK N : Served(r, N, h, L, UsedOf(L), Needed(size)) /\ Stays(N, L) /\ r.heap.brk = k.brk
    <3> DEFINE n == Needed(size)
    <3>1. n \in Nat /\ n >= Pow2[MinPower] /\ Found(f, M, h, L, n) /\ r = place(k, f.bp, n, TRUE)
      BY <1>2, <2>1, <2>6
    <3> HIDE DEF n
    <3>2. ServedIn(r, k, h, L, n)
      BY ONLY <2>4, <2>5, <3>1, PlacingFound
    <3> QED BY <3>2 DEF n, ServedIn
  <2>8. Allocated(r, N, h, L, Needed(size))
    BY <2>1, <2>4, <2>7 DEF Allocated, Found
  <2> QED BY <2>8
<1> QED BY <1>6, <1>7

\* Only words between the tags of a block are written.
LEMMA Writing ==
  ASSUME NEW h, NEW L, NEW T, NEW F, Good(h, L, T, F), NEW b \in DOMAIN L,
         NEW mem \in [0 .. MaxHeap - 1 -> Words],
         \A p \in 0 .. MaxHeap - 1 : p \notin b .. End(L, b) - 3 => mem[p] = h.mem[p],
         NEW g, g = [h EXCEPT !.mem = mem]
  PROVE  Good(g, L, T, F) /\ g.brk = h.brk /\ OnlyIn(g, h, L, {b})
<1>1. /\ h \in Heaps /\ Tiles(L, h.brk) /\ h.brk \in Nat /\ h.brk <= MaxHeap /\ MaxHeap \in Nat
      /\ T \in SUBSET DOMAIN L
  BY HeapTypes DEF Good
<1>2. g \in Heaps /\ g.mem = mem /\ g.brk = h.brk /\ g.last = h.last /\ g.lists = h.lists
  BY <1>1, MemSet
<1>3. b \in Nat /\ End(L, b) \in Nat /\ b < End(L, b) /\ End(L, b) <= h.brk
  BY <1>1, TilesTypes
<1>4. \A p \in b .. End(L, b) - 3 : p \in WordsOf(L, b) /\ p # Hdr(b) /\ p # End(L, b) - 2
  BY <1>3 DEF WordsOf, Hdr
<1>5. OnlyIn(g, h, L, {b})
  BY <1>2, <1>4 DEF OnlyIn
<1>6. ASSUME NEW c \in T PROVE Tagged(g, L, c)
  <2>1. Tagged(h, L, c) /\ c \in DOMAIN L
    BY DEF Good
  <2>2. /\ Hdr(c) \in WordsOf(L, c) /\ End(L, c) - 2 \in WordsOf(L, c)
        /\ WordsOf(L, c) \in SUBSET (0 .. MaxHeap - 1)
        /\ \A p \in WordsOf(L, c) : p \in WordsOf(L, b) => c = b
    BY <1>1, <2>1, Apart
  <2>3. Hdr(c) \notin b .. End(L, b) - 3 /\ End(L, c) - 2 \notin b .. End(L, b) - 3
    BY <1>4, <2>2
  <2> QED BY <1>2, <2>1, <2>2, <2>3 DEF Tagged
<1>7. g.mem[Hdr(g.brk)] = Tag(0, 1)
  <2>1. h.brk - 1 \in 0 .. MaxHeap - 1 /\ Hdr(h.brk) = h.brk - 1 /\ h.brk - 1 \notin 0 .. h.brk - 2
        /\ WordsOf(L, b) \in SUBSET (0 .. h.brk - 2)
    BY <1>1, Apart
  <2>2. h.brk - 1 \notin b .. End(L, b) - 3
    BY <1>4, <2>1
  <2> QED BY <1>2, <2>1, <2>2 DEF Good
<1>8. Listed(g, L, F)
  BY <1>2 DEF Good, Listed
<1> QED BY <1>1, <1>2, <1>5, <1>6, <1>7, <1>8 DEF Good

\* A block in use takes in the free block after it.
LEMMA Absorbing ==
  ASSUME NEW h, NEW L, Sound(h, L), NEW b \in UsedOf(L), NEW next \in FreeOf(L), End(L, b) = next,
         NEW size \in Nat, size >= Pow2[MinPower], L[b].size + L[next].size >= size,
         NEW r, r = Absorb(h, b, next, size)
  PROVE  \E M : Served(r, M, h, L, UsedOf(L) \ {b}, size) /\ Stays(M, L)
<1> DEFINE k == remove_from_free_list(h, next)
           J == Join(L, b)
           M == Retag(J, b, 0)
           T == DOMAIN L \ {b, next}
           F == FreeOf(L) \ {next}
           g == PutTags(k, b, M[b].size, M[b].alloc)
           O == UsedOf(L) \ {b}
<1>1. /\ h \in Heaps /\ Tiles(L, h.brk) /\ h.brk \in Nat /\ Good(h, L, DOMAIN L, FreeOf(L))
      /\ b \in DOMAIN L /\ b # Prologue /\ L[b].alloc = 1 /\ Tagged(h, L, b)
      /\ next \in DOMAIN L /\ L[next].alloc = 0 /\ Tagged(h, L, next)
  BY HeapTypes DEF Sound, Good, UsedOf, FreeOf
<1>2. b \in Nat /\ next \in Nat /\ L[b].size \in Nat /\ L[next].size \in Nat
  BY <1>1, TilesTypes
<1>3. GetSize(h, Hdr(b)) = L[b].size /\ GetSize(h, Hdr(next)) = L[next].size
  BY <1>1, <1>2, TagsSay
<1>4. Good(k, L, DOMAIN L, F) /\ k.mem = h.mem /\ k.brk = h.brk
  BY <1>1, Removing
<1>5. b \notin F /\ next \notin F /\ F \in SUBSET T /\ T \in SUBSET (DOMAIN L \ {b, End(L, b)})
  BY <1>1 DEF FreeOf
<1> DEFINE q == Absorb(h, b, next, size)
<1>6. r = place(PutTags(k, b, L[b].size + L[next].size, 0), b, size, FALSE)
  BY <1>3 DEF Absorb
<1>7. Good(k, J, T, F) /\ Joined(J, L, b)
  <2>1. J = Join(L, b)
    OBVIOUS
  <2> HIDE DEF J, k, T, F
  <2> QED BY <1>1, <1>4, <1>5, <2>1, Joining
<1>8. /\ DOMAIN J = DOMAIN L \ {next} /\ b # next /\ \A c \in DOMAIN J : c # b => J[c] = L[c]
      /\ J[b].size = L[b].size + L[next].size /\ b \in DOMAIN J /\ Tiles(J, k.brk) /\ k \in Heaps
  BY <1>1, <1>7 DEF Joined, Good
<1> HIDE DEF J, k
<1>9. /\ Tiles(M, k.brk) /\ DOMAIN M = DOMAIN J /\ \A c \in DOMAIN J : c # b => M[c] = J[c]
      /\ M[b].size = L[b].size + L[next].size /\ M[b].alloc = 0
  BY <1>1, <1>4, <1>8, RetagTiles, RetagIs
<1> HIDE DEF M
<1>10. Good(k, M, T, F)
  <2>1. T \in SUBSET T /\ T \in SUBSET DOMAIN M /\ \A c \in T : M[c] = J[c]
    BY <1>8, <1>9
  <2>2. F \in SUBSET T
    BY <1>5
  <2> HIDE DEF T, F
  <2> QED BY <1>7, <1>9, <2>1, <2>2, Relayout
<1>11. Good(g, M, T \cup {b}, F) /\ g.brk = k.brk /\ OnlyIn(g, k, M, {b})
  <2>1. b \in DOMAIN M /\ g = PutTags(k, b, M[b].size, M[b].alloc)
    BY <1>8, <1>9
  <2> HIDE DEF T, F, g
  <2> QED BY ONLY <1>10, <2>1, Tagging, Z3
<1>12. T \cup {b} = DOMAIN M /\ F = FreeOf(M) \ {b} /\ O = UsedOf(M) \ {b}
  <2>1. DOMAIN M = T \cup {b} /\ \A c \in T : M[c] = L[c]
    BY <1>1, <1>8, <1>9
  <2> QED BY <1>1, <1>9, <2>1 DEF FreeOf, UsedOf
<1>13. r = place(g, b, size, FALSE)
  BY <1>6, <1>9
<1>14. Keeps(k, L, h, L, O)
  BY <1>4 DEF Keeps, UsedOf
<1>15. Keeps(g, M, k, L, O)
  <2>1. /\ O \in SUBSET DOMAIN L /\ O \in SUBSET DOMAIN M /\ \A c \in O : M[c] = L[c] /\ c \notin {b}
        /\ {b} \in SUBSET DOMAIN M
    BY <1>1, <1>8, <1>9 DEF UsedOf
  <2> HIDE DEF O, g
  <2> QED BY <1>8, <1>9, <1>11, <2>1, OnlyKeeps
<1> HIDE DEF g, O
<1>16. Keeps(g, M, h, L, O)
  BY <1>14, <1>15, KeepsOn
<1>17. \E N : /\ Placed(r, N, g, M, b, size)
              /\ Fenced(M, b, FALSE, M[b].size - size >= Pow2[MinPower]) => Parted(N)
  <2>1. b \in DOMAIN M /\ Good(g, M, DOMAIN M, FreeOf(M) \ {b}) /\ M[b].size >= size
        /\ FALSE \in BOOLEAN
    BY <1>8, <1>9, <1>11, <1>12
  <2> QED BY <1>1, <1>13, <2>1, Placing
<1>18. PICK N : /\ Placed(r, N, g, M, b, size)
                /\ Fenced(M, b, FALSE, M[b].size - size >= Pow2[MinPower]) => Parted(N)
  BY <1>17
<1>19. Served(r, N, h, L, O, size)
  BY <1>12, <1>16, <1>18, PlacedServes
<1>20. Parted(L) => Fenced(M, b, FALSE, M[b].size - size >= Pow2[MinPower])
  <2> SUFFICES ASSUME Parted(L) PROVE PartedBut(M, b) /\ End(M, b) \notin FreeOf(M)
    BY DEF Fenced
  <2>1. \A x \in FreeOf(L) : End(L, x) \notin FreeOf(L)
    BY DEF Parted
  <2>2. F \in SUBSET FreeOf(L) /\ \A x \in F : x \in DOMAIN J /\ x # b
    BY <1>5, <1>8
  <2>3. \A x \in F : End(M, x) = End(L, x)
    BY <1>8, <1>9, <2>2 DEF End
  <2>4. PartedBut(M, b)
    <3> SUFFICES ASSUME NEW x \in FreeOf(M), End(M, x) \in FreeOf(M), x # b, End(M, x) # b
                 PROVE  FALSE
      BY DEF PartedBut
    <3>1. x \in F /\ End(L, x) \in F
      BY <1>12, <2>3
    <3> QED BY <2>1, <2>2, <3>1
  <2>5. End(M, b) = End(L, next) /\ End(L, next) # b
    BY <1>1, <1>2, <1>9, TilesTypes DEF End
  <2>6. End(M, b) \notin FreeOf(M)
    BY <1>12, <2>1, <2>2, <2>5
  <2> QED BY <2>4, <2>6
<1> QED BY <1>18, <1>19, <1>20 DEF O, Stays

\* A request served after a step that keeps the blocks in use.
LEMMA ServedLater ==
  ASSUME NEW r, NEW N, NEW g, NEW M, NEW O, NEW size, Served(r, N, g, M, O, size),
         NEW h, NEW L, NEW U, O \in SUBSET U, Keeps(g, M, h, L, U)
  PROVE  Served(r, N, h, L, O, size)
<1>1. Keeps(r.heap, N, g, M, O)
  BY DEF Served
<1>2. Keeps(r.heap, N, h, L, O)
  BY <1>1, KeepsOn
<1> QED BY <1>2 DEF Served

\* A block is freed, and its payload copied to one that is larger.
LEMMA Moving ==
  ASSUME NEW h, NEW L, Sound(h, L), NEW b \in UsedOf(L), L[b].size >= Pow2[MinPower],
         NEW size \in Nat, size > L[b].size, NEW r, r = Move(h, b, size)
  PROVE  \E M : Served(r, M, h, L, UsedOf(L) \ {b}, size) /\ Stays(M, L)
<1> DEFINE O == UsedOf(L) \ {b}
           e == mm_free(h, b)
           f == find_fit(e, size)
           new == remove_from_free_list(f.heap, f.bp)
           copy == GetSize(h, Hdr(b)) - 2
           word(k) == IF k < 2 THEN h.mem[b + k] ELSE new.mem[b + k]
           last == IF copy < 2 THEN 1 ELSE copy - 1
           copied == [p \in DOMAIN h.mem |->
                        IF p - f.bp \in 0 .. last THEN word(p - f.bp) ELSE new.mem[p]]
           moved == [new EXCEPT !.mem = copied]
<1>1. r = IF f.bp = Null THEN f ELSE place(moved, f.bp, size, TRUE)
  BY DEF Move
<1>2. /\ h \in Heaps /\ Tiles(L, h.brk) /\ h.brk \in Nat /\ h.brk <= MaxHeap /\ MaxHeap \in Nat
      /\ b \in DOMAIN L /\ Tagged(h, L, b) /\ h.mem \in [0 .. MaxHeap - 1 -> Words]
  BY HeapTypes DEF Sound, Good, UsedOf
<1>3. b \in Nat /\ L[b].size \in Nat /\ End(L, b) = b + L[b].size /\ End(L, b) <= h.brk
  BY <1>2, TilesTypes
<1>4. Pow2[MinPower] \in Nat /\ Pow2[MinPower] >= 4
  BY MinBlock
<1>5. last = L[b].size - 3 /\ last \in Nat
  <2>1. copy = L[b].size - 2
    BY <1>2, <1>3, TagsSay
  <2> HIDE DEF copy
  <2> QED BY <1>3, <1>4, <2>1
<1> HIDE DEF last
<1>6. e = mm_free(h, b)
  OBVIOUS
<1> HIDE DEF e
<1>7. PICK K : Sound(e, K) /\ UsedOf(K) = O /\ Keeps(e, K, h, L, O) /\ Stays(K, L)
  <2>1. \E K : /\ Sound(e, K) /\ e.brk = h.brk
               /\ UsedOf(K) = UsedOf(L) \ {b} /\ Keeps(e, K, h, L, UsedOf(L) \ {b})
               /\ Stays(K, L)
    BY <1>6, Freeing
  <2> QED BY <2>1
<1> HIDE DEF O
<1>8. (f.bp = Null /\ f.heap = e) \/ \E M : Found(f, M, e, K, size)
  <2>1. size >= Pow2[MinPower] /\ f = find_fit(e, size)
    BY <1>3, <1>4
  <2> HIDE DEF f
  <2> QED BY <1>7, <2>1, Finding
<1> HIDE DEF f
<1>9. CASE f.bp = Null
  <2>1. f.heap = e
    BY <1>8, <1>9 DEF Found
  <2>2. r = f
    BY <1>1, <1>9
  <2>3. Served(r, K, h, L, O, size)
    BY <1>7, <1>9, <2>1, <2>2 DEF Served
  <2> QED BY <1>7, <2>3 DEF O
<1>10. CASE f.bp # Null
  <2>1. PICK M : Found(f, M, e, K, size)
    BY <1>8, <1>10
  <2>2. /\ f.bp \in FreeOf(M) /\ Good(f.heap, M, DOMAIN M, FreeOf(M)) /\ Keeps(f.heap, M, e, K, UsedOf(K))
        /\ f.bp \in DOMAIN M /\ M[f.bp].size >= size /\ M[f.bp].alloc = 0 /\ UsedOf(M) = UsedOf(K)
    BY <2>1 DEF Found, Sound, FreeOf
  <2>3. new = remove_from_free_list(f.heap, f.bp)
    OBVIOUS
  <2> HIDE DEF new
  <2>4. Good(new, M, DOMAIN M, FreeOf(M) \ {f.bp}) /\ new.mem = f.heap.mem /\ new.brk = f.heap.brk
    BY <2>2, <2>3, Removing
  <2>5. Keeps(new, M, e, K, UsedOf(K))
    BY <2>2, <2>4, SameMemory
  <2>6. new \in Heaps /\ new.mem \in [0 .. MaxHeap - 1 -> Words] /\ Tiles(M, new.brk) /\ new.brk \in Nat
    BY <2>4, HeapTypes DEF Good
  <2>7. f.bp \in Nat /\ M[f.bp].size \in Nat /\ End(M, f.bp) = f.bp + M[f.bp].size
    BY <2>2, <2>6, TilesTypes
  <2>8. copied \in [0 .. MaxHeap - 1 -> Words]
    <3>1. DOMAIN h.mem = 0 .. MaxHeap - 1
      BY <1>2
    <3>2. ASSUME NEW k \in 0 .. last PROVE word(k) \in Words
      <4>1. b + k \in 0 .. MaxHeap - 1
        BY <1>2, <1>3, <1>5
      <4> QED BY <1>2, <2>6, <4>1
    <3> HIDE DEF word
    <3> QED BY <2>6, <3>1, <3>2
  <2>9. \A p \in 0 .. MaxHeap - 1 : p \notin f.bp .. End(M, f.bp) - 3 => copied[p] = new.mem[p]
    <3> TAKE p \in 0 .. MaxHeap - 1
    <3>1. DOMAIN h.mem = 0 .. MaxHeap - 1
      BY <1>2
    <3>2. p - f.bp \in 0 .. last => p \in f.bp .. End(M, f.bp) - 3
      BY <1>3, <1>5, <2>2, <2>7
    <3> HIDE DEF word
    <3> QED BY <3>1, <3>2
  <2> HIDE DEF copied
  <2>10. moved = [new EXCEPT !.mem = copied]
    OBVIOUS
  <2> HIDE DEF moved
  <2>11. /\ Good(moved, M, DOMAIN M, FreeOf(M) \ {f.bp})
         /\ OnlyIn(moved, new, M, {f.bp})
    <3> DEFINE T == DOMAIN M
               F == FreeOf(M) \ {f.bp}
    <3>1. Good(new, M, T, F)
      BY <2>4
    <3> HIDE DEF T, F
    <3>2. Good(moved, M, T, F) /\ OnlyIn(moved, new, M, {f.bp})
      BY ONLY <2>2, <2>8, <2>9, <2>10, <3>1, Writing
    <3> QED BY <3>2 DEF T, F
  <2>12. Keeps(moved, M, new, M, UsedOf(K))
    <3>1. /\ UsedOf(K) \in SUBSET DOMAIN M /\ {f.bp} \in SUBSET DOMAIN M
          /\ \A c \in UsedOf(K) : M[c] = M[c] /\ c \notin {f.bp}
      <4>1. f.bp \notin UsedOf(M)
        BY <2>2 DEF UsedOf
      <4>2. UsedOf(M) \in SUBSET DOMAIN M
        BY DEF UsedOf
      <4> QED BY <2>2, <4>1, <4>2
    <3> QED BY ONLY <2>6, <2>11, <3>1, OnlyKeeps
  <2>13. Keeps(moved, M, e, K, UsedOf(K))
    BY <2>5, <2>12, KeepsOn
  <2>14. ServedIn(r, moved, e, K, size)
    <3>1. r = place(moved, f.bp, size, TRUE) /\ size >= Pow2[MinPower]
      BY <1>1, <1>3, <1>4, <1>10
    <3> QED BY ONLY size \in Nat, <2>1, <2>11, <2>13, <3>1, PlacingFound
  <2>15. PICK N : Served(r, N, e, K, O, size) /\ Stays(N, K)
    BY <1>7, <2>14 DEF ServedIn
  <2>16. Served(r, N, h, L, O, size)
    BY <1>7, <2>15, ServedLater
  <2> QED BY <1>7, <2>15, <2>16 DEF O, Stays
<1> QED BY <1>9, <1>10

\* The block after b is where the heap ends, or the last free block: the heap is
\* extended there.
LEMMA Stretching ==
  ASSUME NEW h, NEW L, Sound(h, L), NEW b \in UsedOf(L), NEW next, next = End(L, b),
         next \in {h.brk, h.last}, NEW size \in Nat, size >= Pow2[MinPower],
         size > L[b].size, next \in FreeOf(L) => size > L[b].size + L[next].size,
         NEW more, more = extend_heap(h, RoundPage(size - L[b].size - LastSize(h))), more.bp # Null,
         NEW r, r = Absorb(more.heap, b, more.bp, size)
  PROVE  \E M : Served(r, M, h, L, UsedOf(L) \ {b}, size) /\ Stays(M, L)
<1> DEFINE x == size - L[b].size - LastSize(h)
           n == RoundPage(x)
           U == UsedOf(L)
<1>1. /\ h \in Heaps /\ Tiles(L, h.brk) /\ h.brk \in Nat /\ b \in DOMAIN L /\ L[b].alloc = 1
      /\ FreeOf(L) \in SUBSET DOMAIN L /\ \A c \in FreeOf(L) : L[c].alloc = 0
  BY HeapTypes DEF Sound, Good, UsedOf, FreeOf
<1>2. b \in Nat /\ L[b].size \in Nat /\ next \in Nat /\ b < next /\ next = b + L[b].size
  BY <1>1, TilesTypes
<1>3. AtEnd(h) = next /\ LastSize(h) \in Nat /\ size > L[b].size + LastSize(h)
  <2>1. CASE h.last = Null
    <3>1. next = h.brk /\ LastSize(h) = 0
      BY <1>2, <2>1, LastIs DEF Null
    <3> QED BY <1>2, <2>1, <3>1 DEF AtEnd
  <2>2. CASE h.last # Null
    <3>1. h.last \in FreeOf(L) /\ End(L, h.last) = h.brk /\ LastSize(h) = L[h.last].size
          /\ LastSize(h) \in Nat
      BY <2>2, LastIs
    <3>2. h.last # b
      BY <1>1, <3>1
    <3>3. next # h.brk
      BY <1>1, <3>1, <3>2, EndsApart
    <3>4. next = h.last
      BY <3>3
    <3> QED BY <2>2, <3>1, <3>4 DEF AtEnd
  <2> QED BY <2>1, <2>2
<1>4. x \in Nat /\ x + (L[b].size + LastSize(h)) = size
  <2> DEFINE o == L[b].size
             l == LastSize(h)
  <2>1. o \in Nat /\ l \in Nat /\ size > o + l /\ x = size - o - l
    BY <1>2, <1>3
  <2> HIDE DEF o, l, x
  <2>2. x \in Nat /\ x + (o + l) = size
    BY <2>1
  <2> QED BY <2>2 DEF o, l
<1> HIDE DEF x
<1>5. n \in Nat /\ n > x /\ n > 2
  BY <1>4, RoundPageIs
<1>6. more = extend_heap(h, n)
  BY DEF x
<1> HIDE DEF n
<1>7. \E M : GrewBy(more, M, h, L, n)
  BY <1>5, <1>6, Extending
<1>8. PICK M : GrewBy(more, M, h, L, n)
  BY <1>7
<1>9. /\ Sound(more.heap, M) /\ more.bp = next /\ next \in FreeOf(M)
      /\ M[next].size = n + LastSize(h) /\ UsedOf(M) = U /\ Keeps(more.heap, M, h, L, U)
  BY <1>3, <1>8 DEF GrewBy
<1>10. M[b] = L[b] /\ b \in UsedOf(M)
  BY <1>9 DEF Keeps
<1>11. End(M, b) = next /\ M[b].size + M[next].size >= size
  <2>1. End(M, b) = next
    BY <1>10 DEF End
  <2> DEFINE o == L[b].size
             l == LastSize(h)
             m == M[b].size
             k == M[next].size
  <2>2. o \in Nat /\ l \in Nat /\ m = o /\ k = n + l /\ n \in Nat /\ n > x /\ x \in Nat /\ x + (o + l) = size
    BY <1>2, <1>3, <1>4, <1>5, <1>9, <1>10
  <2> HIDE DEF o, l, m, k
  <2>3. m + k >= size
    BY <2>2
  <2> QED BY <2>1, <2>3 DEF m, k
<1> HIDE DEF U
<1>12. r = Absorb(more.heap, b, next, size)
  BY <1>9
<1>13. \E N : Served(r, N, more.heap, M, UsedOf(M) \ {b}, size) /\ Stays(N, M)
  BY <1>9, <1>10, <1>11, <1>12, Absorbing
<1>14. PICK N : Served(r, N, more.heap, M, UsedOf(M) \ {b}, size) /\ Stays(N, M)
  BY <1>13
<1>15. Served(r, N, h, L, U \ {b}, size)
  <2> DEFINE O == U \ {b}
  <2>1. O \in SUBSET U /\ Served(r, N, more.heap, M, O, size)
    BY <1>9, <1>14
  <2> HIDE DEF O
  <2>2. Served(r, N, h, L, O, size)
    BY <1>9, <2>1, ServedLater
  <2> QED BY <2>2 DEF O
<1>16. Stays(N, L)
  BY <1>8, <1>14 DEF GrewBy, Stays
<1> QED BY <1>15, <1>16 DEF U

\* mm_realloc of a block in use, to a payload of another size or to none.
LEMMA Reallocating ==
  ASSUME NEW h, NEW L, Sound(h, L), NEW b \in UsedOf(L), L[b].size >= Pow2[MinPower],
         NEW payload \in Nat, payload # 0 => Needed(payload) >= Pow2[MinPower],
         NEW r, r = mm_realloc(h, b, payload)
  PROVE  \E M : /\ Served(r, M, h, L, UsedOf(L) \ {b}, Needed(payload))
                /\ payload = 0 => r.bp = Null
                /\ ~Splits(h, b, payload) => Stays(M, L)
<1> DEFINE old == GetSize(h, Hdr(b))
           size == Needed(payload)
           next == NextBlk(h, b)
           more == extend_heap(h, RoundPage(size - old - LastSize(h)))
           O == UsedOf(L) \ {b}
<1>1. /\ h \in Heaps /\ Tiles(L, h.brk) /\ h.brk \in Nat /\ b \in DOMAIN L /\ L[b].alloc = 1
      /\ Tagged(h, L, b) /\ Good(h, L, DOMAIN L, FreeOf(L)) /\ b # Prologue
      /\ b \notin FreeOf(L) /\ h.brk - 1 = Hdr(h.brk) /\ h.mem[Hdr(h.brk)] = Tag(0, 1)
  BY HeapTypes DEF Sound, Good, UsedOf, FreeOf, Hdr
<1>2. b \in Nat /\ b # Null /\ L[b].size \in Nat /\ End(L, b) \in DOMAIN L \cup {h.brk}
  BY <1>1, TilesTypes DEF Null, Tiles
<1>3. old = L[b].size /\ next = End(L, b)
  BY <1>1, <1>2, TagsSay
<1>4. size \in Nat
  BY DEF Needed
<1>5. r = IF payload = 0 THEN Gives(mm_free(h, b), Null)
          ELSE IF size <= old THEN place(h, b, size, FALSE)
          ELSE IF IsFree(h, next) /\ size <= old + GetSize(h, Hdr(next))
               THEN Absorb(h, b, next, size)
          ELSE IF next \in {h.brk, h.last} /\ more.bp # Null
               THEN Absorb(more.heap, b, more.bp, size)
          ELSE Move(h, b, size)
  BY <1>2 DEF mm_realloc
<1>6. more = extend_heap(h, RoundPage(size - L[b].size - LastSize(h)))
  BY <1>3
<1> HIDE DEF old, next, more
<1>7. payload # 0 => size >= Pow2[MinPower]
  OBVIOUS
<1> HIDE DEF size
<1>8. IsFree(h, next) <=> next \in FreeOf(L)
  <2>1. CASE next \in DOMAIN L
    <3>1. Tagged(h, L, next) /\ next \in Nat /\ L[next].size \in Nat
      BY <1>1, <2>1, TilesTypes DEF Good
    <3> QED BY <2>1, <3>1, TagsSay DEF FreeOf
  <2>2. CASE next = h.brk
    <3>1. GetAlloc(h, Hdr(next)) = 1 /\ next \notin DOMAIN L
      BY <1>1, <2>2, TagIs, TilesTypes DEF GetAlloc
    <3> QED BY <3>1 DEF IsFree, FreeOf
  <2> QED BY <1>2, <1>3, <2>1, <2>2
<1>9. next \in FreeOf(L) => GetSize(h, Hdr(next)) = L[next].size /\ L[next].size \in Nat
  <2> SUFFICES ASSUME next \in FreeOf(L)
               PROVE  GetSize(h, Hdr(next)) = L[next].size /\ L[next].size \in Nat
    OBVIOUS
  <2>1. next \in DOMAIN L /\ Tagged(h, L, next)
    BY <1>1 DEF Good, FreeOf
  <2>2. next \in Nat /\ L[next].size \in Nat
    BY <1>1, <2>1, TilesTypes
  <2> QED BY <2>1, <2>2, TagsSay
<1>10. CASE payload = 0
  <2> DEFINE g == mm_free(h, b)
  <2>1. r = Gives(g, Null) /\ g = mm_free(h, b)
    BY <1>5, <1>10
  <2> HIDE DEF g
  <2>2. \E M : Sound(g, M) /\ g.brk = h.brk /\ UsedOf(M) = O /\ Keeps(g, M, h, L, O) /\ Stays(M, L)
    BY <2>1, Freeing
  <2>3. PICK M : Sound(g, M) /\ UsedOf(M) = O /\ Keeps(g, M, h, L, O) /\ Stays(M, L)
    BY <2>2
  <2>4. r.heap = g /\ r.bp = Null
    BY <2>1, GivesIs
  <2>5. Served(r, M, h, L, O, Needed(payload))
    BY <2>3, <2>4 DEF Served
  <2> QED BY <2>3, <2>4, <2>5
<1>11. CASE payload # 0 /\ size <= old
  <2>1. r = place(h, b, size, FALSE)
    BY <1>5, <1>11
  <2>2. FreeOf(L) \ {b} = FreeOf(L)
    BY <1>1
  <2>3. Good(h, L, DOMAIN L, FreeOf(L) \ {b}) /\ L[b].size >= size /\ FALSE \in BOOLEAN
    BY <1>1, <1>3, <1>11, <2>2
  <2>4. \E M : /\ Placed(r, M, h, L, b, size)
               /\ Fenced(L, b, FALSE, L[b].size - size >= Pow2[MinPower]) => Parted(M)
    BY <1>1, <1>4, <1>7, <1>11, <2>1, <2>3, Placing
  <2>5. PICK M : /\ Placed(r, M, h, L, b, size)
                 /\ Fenced(L, b, FALSE, L[b].size - size >= Pow2[MinPower]) => Parted(M)
    BY <2>4
  <2>6. Keeps(h, L, h, L, O)
    BY DEF Keeps, UsedOf
  <2>7. Served(r, M, h, L, O, size)
    BY <2>5, <2>6, PlacedServes
  <2>8. ~Splits(h, b, payload) => ~(L[b].size - size >= Pow2[MinPower])
    BY <1>2, <1>3, <1>11 DEF Splits, size, old
  <2>9. Parted(L) => Fenced(L, b, FALSE, FALSE)
    BY DEF Parted, PartedBut, Fenced
  <2>10. ~Splits(h, b, payload) => Stays(M, L)
    BY <2>5, <2>8, <2>9 DEF Stays, Fenced
  <2> QED BY <1>11, <2>7, <2>10 DEF size
<1>12. CASE payload # 0 /\ ~(size <= old) /\ IsFree(h, next) /\ size <= old + GetSize(h, Hdr(next))
  <2>1. r = Absorb(h, b, next, size)
    BY <1>5, <1>12
  <2>2. next \in FreeOf(L) /\ L[b].size + L[next].size >= size /\ End(L, b) = next
    BY <1>2, <1>3, <1>4, <1>8, <1>9, <1>12
  <2>3. \E M : Served(r, M, h, L, O, size) /\ Stays(M, L)
    BY <1>4, <1>7, <1>12, <2>1, <2>2, Absorbing
  <2> QED BY <1>12, <2>3 DEF size
<1>13. CASE /\ payload # 0 /\ ~(size <= old) /\ ~(IsFree(h, next) /\ size <= old + GetSize(h, Hdr(next)))
            /\ next \in {h.brk, h.last} /\ more.bp # Null
  <2>1. r = Absorb(more.heap, b, more.bp, size)
    BY <1>5, <1>13
  <2>2. size > L[b].size /\ (next \in FreeOf(L) => size > L[b].size + L[next].size)
    BY <1>2, <1>3, <1>4, <1>8, <1>9, <1>13
  <2>3. \E M : Served(r, M, h, L, O, size) /\ Stays(M, L)
    BY <1>3, <1>4, <1>6, <1>7, <1>13, <2>1, <2>2, Stretching
  <2> QED BY <1>13, <2>3 DEF size
<1>14. CASE /\ payload # 0 /\ ~(size <= old) /\ ~(IsFree(h, next) /\ size <= old + GetSize(h, Hdr(next)))
            /\ ~(next \in {h.brk, h.last} /\ more.bp # Null)
  <2>1. r = Move(h, b, size)
    BY <1>5, <1>14
  <2>2. size > L[b].size
    BY <1>2, <1>3, <1>4, <1>14
  <2>3. \E M : Served(r, M, h, L, O, size) /\ Stays(M, L)
    BY <1>4, <2>1, <2>2, Moving
  <2> QED BY <1>14, <2>3 DEF size
<1> QED BY <1>10, <1>11, <1>12, <1>13, <1>14

----------------------------------------------------------------------------
(* A new heap *)

\* The prologue and the epilogue.
Bare(s) == [s EXCEPT !.lists = [n \in Lists |-> <<>>],
                     !.mem[0] = Tag(2, 1), !.mem[1] = Tag(2, 1), !.mem[2] = Tag(0, 1)]
BareLayout == [c \in {Prologue} |-> Tag(2, 1)]

\* The fields of the heap that mm_init writes.
LEMMA BareIs ==
  ASSUME NEW h \in Heaps, h.brk = 3, NEW e, e = Bare(h)
  PROVE  /\ e \in Heaps /\ e.brk = 3 /\ e.last = h.last /\ e.lists = [n \in Lists |-> <<>>]
         /\ e.mem[0] = Tag(2, 1) /\ e.mem[1] = Tag(2, 1) /\ e.mem[2] = Tag(0, 1)
<1> DEFINE mem == [h.mem EXCEPT ![0] = Tag(2, 1), ![1] = Tag(2, 1), ![2] = Tag(0, 1)]
           lists == [n \in Lists |-> <<>>]
<1>1. h.mem \in [0 .. MaxHeap - 1 -> Words] /\ MaxHeap \in Nat /\ MaxHeap > 5
  BY HeapTypes, MmAssumption
<1>2. Tag(2, 1) \in Words /\ Tag(0, 1) \in Words
  BY <1>1, TagWord
<1>3. /\ mem \in [0 .. MaxHeap - 1 -> Words]
      /\ mem[0] = Tag(2, 1) /\ mem[1] = Tag(2, 1) /\ mem[2] = Tag(0, 1)
  BY <1>1, <1>2
<1>4. lists \in [Lists -> Seq(0 .. MaxHeap - 1)]
  <2>1. <<>> \in Seq(0 .. MaxHeap - 1)
    OBVIOUS
  <2> QED BY <2>1
<1>5. 3 \in 0 .. MaxHeap
  BY <1>1
<1>6. h = [mem |-> h.mem, brk |-> h.brk, last |-> h.last, lists |-> h.lists]
  BY DEF Heaps
<1>7. e = [mem |-> mem, brk |-> 3, last |-> h.last, lists |-> lists]
  BY <1>6 DEF Bare
<1>8. h.last \in 0 .. MaxHeap - 1
  BY DEF Heaps
<1> HIDE DEF mem, lists
<1>9. e \in Heaps
  BY <1>3, <1>4, <1>5, <1>7, <1>8 DEF Heaps
<1> QED BY <1>3, <1>7, <1>9 DEF lists

\* The prologue and the epilogue tile it,
LEMMA BareTiles == Tiles(BareLayout, 3)
<1>1. DOMAIN BareLayout = {1} /\ BareLayout[1] = Tag(2, 1)
  BY DEF BareLayout, Prologue
<1>2. BareLayout[1].size = 2 /\ BareLayout[1].alloc = 1
  BY <1>1, TagIs
<1>3. End(BareLayout, 1) = 3
  BY <1>2 DEF End
<1> HIDE DEF BareLayout
<1> QED BY <1>1, <1>2, <1>3 DEF Tiles, Prologue

\* and its lists are empty.
LEMMA BareGood ==
  ASSUME NEW k \in Heaps, k.brk = 3, k.last = Null, k.lists = [n \in Lists |-> <<>>],
         k.mem[0] = Tag(2, 1), k.mem[1] = Tag(2, 1), k.mem[2] = Tag(0, 1)
  PROVE  Good(k, BareLayout, DOMAIN BareLayout, {})
<1>1. DOMAIN BareLayout = {1} /\ BareLayout[1] = Tag(2, 1)
  BY DEF BareLayout, Prologue
<1>2. BareLayout[1].size = 2
  BY <1>1, TagIs
<1>3. Tagged(k, BareLayout, 1)
  BY <1>1, <1>2 DEF Tagged, End, Hdr
<1>4. Listed(k, BareLayout, {})
  <2>1. ASSUME NEW n \in Lists
        PROVE  ListIs(k.lists[n], {b \in {} : b # k.last /\ ListOf(BareLayout[b].size) = n})
    <3>1. k.lists[n] = <<>>
      OBVIOUS
    <3>2. DOMAIN <<>> = {}
      OBVIOUS
    <3> QED BY <3>1, <3>2 DEF ListIs, IsInjective, Range
  <2> QED BY <2>1 DEF Listed
<1> HIDE DEF BareLayout
<1> QED BY <1>1, <1>3, <1>4, BareTiles DEF Good, Hdr

\* mm_init after a reset: a stale LAST_FREE_BP does no harm if it is the first
\* block, where the new one will be.
LEMMA Starting ==
  ASSUME NEW h \in Heaps, h.brk = 0, h.last \in {Null, FirstBp}, NEW r, r = mm_init(h)
  PROVE  \E M : Sound(r.heap, M) /\ UsedOf(M) = {} /\ Parted(M)
<1> DEFINE s == mem_sbrk(h, 3).heap
           e == Bare(s)
           k == [e EXCEPT !.last = Null]
           L == BareLayout
           g == Extended(e, 3, PageSize, PageSize)
<1>1. MaxHeap \in Nat /\ PageSize \in Nat /\ PageSize > 2 /\ 3 + PageSize <= MaxHeap /\ ~(0 + 3 > MaxHeap)
  BY MmAssumption
<1>2. h = [mem |-> h.mem, brk |-> 0, last |-> h.last, lists |-> h.lists]
  BY DEF Heaps
<1>3. s \in Heaps /\ s.brk = 3 /\ s.last = h.last
  <2>1. mem_sbrk(h, 3) = Gives([h EXCEPT !.brk = @ + 3], h.brk)
    BY <1>1 DEF mem_sbrk
  <2>2. s = [h EXCEPT !.brk = @ + 3]
    BY <2>1, GivesIs
  <2>3. s = [mem |-> h.mem, brk |-> 3, last |-> h.last, lists |-> h.lists]
    BY <1>2, <2>2
  <2>4. 3 \in 0 .. MaxHeap
    BY <1>1
  <2> HIDE DEF s
  <2>5. s \in Heaps
    BY <2>3, <2>4 DEF Heaps
  <2> QED BY <2>3, <2>5
<1>4. r = extend_heap(e, PageSize)
  BY DEF mm_init, Bare
<1> HIDE DEF s
<1>5. /\ e \in Heaps /\ e.brk = 3 /\ e.last = h.last /\ e.lists = [n \in Lists |-> <<>>]
      /\ e.mem[0] = Tag(2, 1) /\ e.mem[1] = Tag(2, 1) /\ e.mem[2] = Tag(0, 1)
  BY <1>3, BareIs
<1> HIDE DEF e
<1>6. AtEnd(e) = 3 /\ LastSize(e) = 0
  <2>1. CASE e.last = Null
    BY <1>5, <2>1 DEF AtEnd, LastSize
  <2>2. CASE e.last = 3 /\ e.last # Null
    <3>1. GetSize(e, Hdr(e.last)) = 0
      BY <1>5, <2>2, TagIs DEF GetSize, Hdr
    <3> QED BY <2>2, <3>1 DEF AtEnd, LastSize
  <2> QED BY <1>5, <2>1, <2>2 DEF FirstBp, Null
<1>7. r = Gives(g, 3)
  <2>1. e.brk # Null /\ PageSize + LastSize(e) = PageSize /\ ~(e.brk + PageSize > MaxHeap)
    BY <1>1, <1>5, <1>6 DEF Null
  <2>2. extend_heap(e, PageSize) = Gives(Extended(e, AtEnd(e), PageSize, PageSize + LastSize(e)), AtEnd(e))
    BY <2>1, ExtendHeap
  <2> QED BY <1>4, <1>6, <2>1, <2>2
<1>8. Good(k, L, DOMAIN L, {})
  <2>1. Null \in 0 .. MaxHeap - 1
    BY <1>1 DEF Null
  <2>2. k \in Heaps /\ k.mem = e.mem /\ k.brk = e.brk /\ k.last = Null /\ k.lists = e.lists
    BY <1>5, <2>1, LastSet
  <2> HIDE DEF k
  <2> QED BY <1>5, <2>2, BareGood
<1>9. FreeOf(L) = {} /\ UsedOf(L) = {} /\ Parted(L)
  BY TagIs DEF FreeOf, UsedOf, BareLayout, Parted
<1>10. k = [e EXCEPT !.last = Null] /\ g = Extended(e, 3, PageSize, PageSize)
  OBVIOUS
<1> HIDE DEF k, L, g
<1>11. \E M : /\ Sound(g, M) /\ g.brk = e.brk + PageSize
              /\ 3 \in FreeOf(M) /\ M[3].size = PageSize
              /\ UsedOf(M) = UsedOf(L) /\ Keeps(g, M, e, L, UsedOf(L)) /\ Stays(M, L)
  <2>1. Good(k, L, DOMAIN L, FreeOf(L) \ {3}) /\ 3 + PageSize = e.brk + PageSize /\ 3 = e.brk
        /\ e.brk + PageSize <= MaxHeap
    BY <1>1, <1>5, <1>8, <1>9
  <2> QED BY ONLY <1>1, <1>5, <1>10, <2>1, Growing
<1>12. r.heap = g
  BY <1>7, GivesIs
<1> QED BY <1>9, <1>11, <1>12 DEF Stays

----------------------------------------------------------------------------
(* The client *)

\* A payload lies between the tags of its block.
LEMMA Inside ==
  ASSUME NEW brk \in Nat, NEW L, Tiles(L, brk), NEW b \in DOMAIN L, NEW size \in Nat,
         L[b].size >= Needed(size)
  PROVE  /\ \A p \in b .. b + size - 1 : p \in WordsOf(L, b) /\ p \in b .. End(L, b) - 3
         /\ b + size <= brk /\ b \in 1 .. brk - 1
<1>1. b \in 1 .. brk - 1 /\ L[b].size \in Nat /\ End(L, b) = b + L[b].size /\ End(L, b) <= brk
  BY TilesTypes
<1> DEFINE n == L[b].size
<1>2. n \in Nat /\ n >= size + 2 /\ End(L, b) = b + n
  BY <1>1 DEF Needed
<1> HIDE DEF n
<1> QED BY <1>1, <1>2 DEF WordsOf, Hdr

\* Blocks that are kept stay owned.
LEMMA StillOwned ==
  ASSUME NEW h \in Heaps, NEW L, Tiles(L, h.brk), NEW O, NEW ranges, Owns(h, ranges, L, O),
         NEW g, NEW M, Keeps(g, M, h, L, O)
  PROVE  Owns(g, ranges, M, O)
<1>1. h.brk \in Nat
  BY HeapTypes
<1>2. ASSUME NEW id \in HeldIn(ranges)
      PROVE  /\ M[ranges[id].bp].size >= Needed(ranges[id].size)
             /\ \A k \in 0 .. ranges[id].size - 1 : g.mem[ranges[id].bp + k] = Data(id)
  <2> DEFINE b == ranges[id].bp
             size == ranges[id].size
  <2>1. /\ b \in O /\ L[b].size >= Needed(size) /\ size \in Nat
        /\ \A k \in 0 .. size - 1 : h.mem[b + k] = Data(id)
    BY MmAssumption DEF Owns
  <2>2. b \in DOMAIN L /\ M[b] = L[b] /\ \A p \in WordsOf(L, b) : g.mem[p] = h.mem[p]
    BY <2>1 DEF Keeps
  <2> HIDE DEF b, size
  <2>3. b \in Nat /\ \A p \in b .. b + size - 1 : p \in WordsOf(L, b)
    BY <1>1, <2>1, <2>2, Inside
  <2>4. \A k \in 0 .. size - 1 : b + k \in b .. b + size - 1
    BY <2>1, <2>3
  <2>5. M[b].size >= Needed(size) /\ \A k \in 0 .. size - 1 : g.mem[b + k] = Data(id)
    BY <2>1, <2>2, <2>3, <2>4
  <2> QED BY <2>5 DEF b, size
<1> QED BY <1>2 DEF Owns

\* A block is given up.
LEMMA Disowned ==
  ASSUME NEW h, NEW L, NEW O, NEW ranges \in Ranges, Owns(h, ranges, L, O),
         NEW id \in HeldIn(ranges), NEW rest, rest = remove_range(ranges, id)
  PROVE  /\ rest \in Ranges /\ rest[id] = NoBlock
         /\ Owns(h, rest, L, O \ {ranges[id].bp})
<1>1. id \in Ids /\ NoBlock \in [bp : 0 .. MaxHeap - 1, size : 0 .. MaxHeap]
  BY MmAssumption DEF NoBlock, Null, HeldIn
<1>2. rest \in Ranges /\ rest[id] = NoBlock /\ \A i \in Ids : i # id => rest[i] = ranges[i]
  BY <1>1 DEF remove_range, Ranges
<1>3. HeldIn(rest) = HeldIn(ranges) \ {id}
  BY <1>1, <1>2 DEF HeldIn
<1>4. \A i \in HeldIn(rest) : rest[i] = ranges[i] /\ i \in HeldIn(ranges) /\ i # id
  BY <1>2, <1>3 DEF HeldIn
<1> QED BY <1>2, <1>3, <1>4 DEF Owns

Taken(ranges, id, b, size) == [ranges EXCEPT ![id] = [bp |-> b, size |-> size]]

\* A block is given, and filled: mdriver finds its payload within the heap and
\* apart from all others.
LEMMA Given ==
  ASSUME NEW h, NEW L, Sound(h, L), NEW ranges \in Ranges, NEW O, Owns(h, ranges, L, O),
         NEW id \in Ids, ranges[id] = NoBlock, NEW b \in UsedOf(L),
         O = UsedOf(L) \ {b}, NEW size \in Sizes, L[b].size >= Needed(size),
         NEW g, g = Fill(h, b, id, size),
         NEW next, next = Taken(ranges, id, b, size), NEW messy, ~messy => Parted(L)
  PROVE  add_range(h, ranges, b, size) /\ Settled(g, next, messy) /\ g.brk = h.brk
<1> DEFINE mem == [p \in DOMAIN h.mem |-> IF p - b \in 0 .. size - 1 THEN Data(id) ELSE h.mem[p]]
<1>1. /\ h \in Heaps /\ Tiles(L, h.brk) /\ h.brk \in Nat /\ h.brk <= MaxHeap /\ MaxHeap \in Nat
      /\ b \in DOMAIN L /\ Good(h, L, DOMAIN L, FreeOf(L)) /\ h.mem \in [0 .. MaxHeap - 1 -> Words]
      /\ size \in Nat /\ size > 0 /\ O \in SUBSET DOMAIN L
  BY HeapTypes, MmAssumption DEF Sound, Good, UsedOf
<1>2. /\ \A p \in b .. b + size - 1 : p \in WordsOf(L, b) /\ p \in b .. End(L, b) - 3
      /\ b + size <= h.brk /\ b \in 1 .. h.brk - 1 /\ b \in Nat
  BY <1>1, Inside
<1>3. add_range(h, ranges, b, size)
  <2> DEFINE hi == b + size - 1
  <2>1. hi \in b .. b + size - 1 /\ b \in b .. b + size - 1 /\ {b, hi} \in SUBSET (0 .. h.brk - 1)
    BY <1>1, <1>2
  <2>2. b \in WordsOf(L, b) /\ hi \in WordsOf(L, b)
    BY <1>2, <2>1
  <2> HIDE DEF hi
  <2>3. ASSUME NEW i \in Ids, ranges[i] # NoBlock
        PROVE  {b, hi} \cap (ranges[i].bp .. ranges[i].bp + ranges[i].size - 1) = {}
    <3> DEFINE c == ranges[i].bp
               s == ranges[i].size
    <3>1. c \in O /\ s \in Nat /\ L[c].size >= Needed(s)
      BY <2>3, MmAssumption DEF Owns, HeldIn
    <3> HIDE DEF c, s
    <3>2. c \in DOMAIN L /\ c # b /\ \A p \in c .. c + s - 1 : p \in WordsOf(L, c)
      BY <1>1, <3>1, Inside
    <3>3. b \notin c .. c + s - 1 /\ hi \notin c .. c + s - 1
      BY <1>1, <2>2, <3>2, Apart
    <3> QED BY <3>3 DEF c, s
  <2> QED BY <2>1, <2>3 DEF add_range, Overlaps, mem_heap_lo, mem_heap_hi, hi
<1>4. mem \in [0 .. MaxHeap - 1 -> Words]
  <2>1. Data(id) \in Words
    BY <1>1 DEF Data, Words
  <2> QED BY <1>1, <2>1
<1>5. \A p \in 0 .. MaxHeap - 1 : p \notin b .. End(L, b) - 3 => mem[p] = h.mem[p]
  <2> TAKE p \in 0 .. MaxHeap - 1
  <2>1. p \in DOMAIN h.mem
    BY <1>1
  <2>2. p - b \in 0 .. size - 1 => p \in b .. b + size - 1
    BY <1>1, <1>2
  <2> QED BY <1>2, <2>1, <2>2
<1>6. \A k \in 0 .. size - 1 : mem[b + k] = Data(id)
  <2> TAKE k \in 0 .. size - 1
  <2>1. b + k \in 0 .. MaxHeap - 1 /\ (b + k) - b \in 0 .. size - 1
    BY <1>1, <1>2
  <2>2. b + k \in DOMAIN h.mem
    BY <1>1, <2>1
  <2> QED BY <2>1, <2>2
<1>7. g = [h EXCEPT !.mem = mem]
  BY DEF Fill
<1> HIDE DEF mem
<1>8. g.mem = mem
  BY <1>1, <1>4, <1>7, MemSet
<1>9. Sound(g, L) /\ g.brk = h.brk /\ OnlyIn(g, h, L, {b})
  <2> DEFINE T == DOMAIN L
             F == FreeOf(L)
  <2>1. Good(h, L, T, F)
    BY <1>1
  <2> HIDE DEF T, F
  <2>2. Good(g, L, T, F) /\ g.brk = h.brk /\ OnlyIn(g, h, L, {b})
    BY ONLY <1>1, <1>4, <1>5, <1>7, <2>1, Writing
  <2> QED BY <2>2 DEF T, F, Sound
<1>10. Owns(g, ranges, L, O)
  <2>1. \A c \in O : L[c] = L[c] /\ c \notin {b}
    OBVIOUS
  <2>2. Keeps(g, L, h, L, O)
    BY <1>1, <1>9, <2>1, OnlyKeeps
  <2> QED BY <1>1, <2>2, StillOwned
<1>11. [bp |-> b, size |-> size] \in [bp : 0 .. MaxHeap - 1, size : 0 .. MaxHeap]
  BY <1>1, <1>2
<1>12. next \in Ranges /\ next[id] = [bp |-> b, size |-> size] /\ \A i \in Ids : i # id => next[i] = ranges[i]
  BY <1>11 DEF Ranges, Taken
<1>13. next[id].bp = b /\ next[id].size = size /\ next[id] # NoBlock
  BY <1>2, <1>12 DEF NoBlock, Null
<1>14. HeldIn(next) = HeldIn(ranges) \cup {id} /\ id \notin HeldIn(ranges)
       /\ \A i \in HeldIn(ranges) : next[i] = ranges[i] /\ i # id
  BY <1>12, <1>13 DEF HeldIn
<1>15. Owns(g, next, L, UsedOf(L))
  <2>1. ASSUME NEW i \in HeldIn(next)
        PROVE  /\ next[i].bp \in UsedOf(L) /\ next[i].size \in Sizes
               /\ L[next[i].bp].size >= Needed(next[i].size)
               /\ \A k \in 0 .. next[i].size - 1 : g.mem[next[i].bp + k] = Data(i)
    <3>1. CASE i = id
      BY <1>6, <1>8, <1>13, <3>1
    <3>2. CASE i \in HeldIn(ranges)
      BY <1>10, <1>14, <3>2 DEF Owns
    <3> QED BY <1>14, <3>1, <3>2
  <2>2. ASSUME NEW i \in HeldIn(next), NEW j \in HeldIn(next), next[i].bp = next[j].bp PROVE i = j
    <3>1. \A k \in HeldIn(ranges) : next[k].bp \in O /\ next[k].bp # b
      BY <1>10, <1>14 DEF Owns
    <3>2. \A k, l \in HeldIn(ranges) : ranges[k].bp = ranges[l].bp => k = l
      BY <1>10 DEF Owns
    <3>3. i = id <=> j = id
      BY <1>13, <1>14, <2>2, <3>1
    <3>4. i # id /\ j # id => next[i] = ranges[i] /\ next[j] = ranges[j]
                              /\ i \in HeldIn(ranges) /\ j \in HeldIn(ranges)
      BY <1>14
    <3> QED BY <2>2, <3>2, <3>3, <3>4
  <2>3. ASSUME NEW c \in UsedOf(L) PROVE \E i \in HeldIn(next) : next[i].bp = c
    <3>1. CASE c = b
      BY <1>13, <1>14, <3>1
    <3>2. CASE c \in O
      <4>1. PICK i \in HeldIn(ranges) : ranges[i].bp = c
        BY <1>10, <3>2 DEF Owns
      <4>2. i \in HeldIn(next) /\ next[i].bp = c
        BY <1>14, <4>1
      <4> QED BY <4>2
    <3> QED BY <3>1, <3>2
  <2> QED BY <2>1, <2>2, <2>3 DEF Owns
<1> QED BY <1>3, <1>9, <1>12, <1>15 DEF Settled

\* A call has returned a block for id, or none.
Settles(r, ranges, id, size, messy) ==
  /\ r.bp = Null => Settled(r.heap, ranges, messy)
  /\ r.bp # Null =>
       /\ add_range(r.heap, ranges, r.bp, size)
       /\ Settled(Fill(r.heap, r.bp, id, size), Taken(ranges, id, r.bp, size), messy)
       /\ Fill(r.heap, r.bp, id, size).brk = r.heap.brk

\* The client records and fills the block that a call returns.
LEMMA Settling ==
  ASSUME NEW h, NEW L, Sound(h, L), NEW ranges \in Ranges, NEW O, Owns(h, ranges, L, O),
         NEW id \in Ids, ranges[id] = NoBlock, NEW size,
         NEW r, NEW M, Served(r, M, h, L, O, Needed(size)), r.bp # Null => size \in Sizes,
         NEW messy, ~messy => Parted(M)
  PROVE  Settles(r, ranges, id, size, messy)
<1>1. h \in Heaps /\ Tiles(L, h.brk)
  BY DEF Sound, Good
<1>2. Sound(r.heap, M) /\ Keeps(r.heap, M, h, L, O)
  BY DEF Served
<1>3. Owns(r.heap, ranges, M, O)
  BY <1>1, <1>2, StillOwned
<1>4. CASE r.bp = Null
  <2>1. UsedOf(M) = O
    BY <1>4 DEF Served
  <2>2. Settled(r.heap, ranges, messy)
    BY <1>2, <1>3, <2>1 DEF Settled
  <2> QED BY <1>4, <2>2 DEF Settles
<1>5. CASE r.bp # Null
  <2>1. /\ r.bp \in UsedOf(M) /\ r.bp \notin O /\ UsedOf(M) = O \cup {r.bp}
        /\ M[r.bp].size >= Needed(size) /\ size \in Sizes
    BY <1>5 DEF Served
  <2> DEFINE g == Fill(r.heap, r.bp, id, size)
             next == Taken(ranges, id, r.bp, size)
             b == r.bp
             k == r.heap
  <2>2. g = Fill(r.heap, r.bp, id, size) /\ next = Taken(ranges, id, r.bp, size)
    OBVIOUS
  <2>3. /\ Sound(k, M) /\ ranges \in Ranges /\ Owns(k, ranges, M, O) /\ id \in Ids /\ ranges[id] = NoBlock
        /\ b \in UsedOf(M) /\ O = UsedOf(M) \ {b} /\ size \in Sizes
        /\ M[b].size >= Needed(size) /\ g = Fill(k, b, id, size)
        /\ next = Taken(ranges, id, b, size) /\ (~messy => Parted(M))
    BY <1>2, <1>3, <2>1, <2>2
  <2> HIDE DEF g, next, b, k
  <2>4. add_range(k, ranges, b, size) /\ Settled(g, next, messy) /\ g.brk = k.brk
    BY ONLY <2>3, Given
  <2> QED BY <1>5, <2>2, <2>4 DEF Settles, b, k
<1> QED BY <1>4, <1>5

\* The block of an id that is held, which is large enough to be free.
LEMMA Holding ==
  ASSUME RequestsFit, NEW h, NEW L, NEW ranges, NEW O, Owns(h, ranges, L, O), O \in SUBSET DOMAIN L,
         NEW brk \in Nat, Tiles(L, brk), NEW id \in Ids, ranges[id] # NoBlock
  PROVE  ranges[id].bp \in O /\ L[ranges[id].bp].size >= Pow2[MinPower]
<1>1. /\ ranges[id].bp \in O /\ ranges[id].size \in Sizes
      /\ L[ranges[id].bp].size >= Needed(ranges[id].size)
  BY DEF Owns, HeldIn
<1> DEFINE n == Needed(ranges[id].size)
           m == L[ranges[id].bp].size
           p == Pow2[MinPower]
<1>2. n >= p /\ m >= n /\ n \in Nat /\ m \in Nat /\ p \in Nat
  <2>1. n >= p /\ m >= n
    BY <1>1 DEF RequestsFit
  <2>2. n \in Nat
    <3>1. ranges[id].size \in Nat
      BY <1>1, MmAssumption
    <3>2. n = ranges[id].size + 2
      BY DEF Needed
    <3> QED BY <3>1, <3>2
  <2>3. m \in Nat
    BY <1>1, TilesTypes
  <2> QED BY <2>1, <2>2, <2>3, MinBlock
<1> HIDE DEF n, m, p
<1>3. m >= p
  BY <1>2
<1> QED BY <1>1, <1>3 DEF m, p

\* No blocks are in use.
LEMMA Cleared ==
  ASSUME NEW h, NEW M, Sound(h, M), UsedOf(M) = {}, Parted(M), NEW messy
  PROVE  Settled(h, clear_ranges, messy)
<1>1. clear_ranges \in Ranges
  BY MmAssumption DEF clear_ranges, Ranges, NoBlock, Null
<1>2. HeldIn(clear_ranges) = {}
  BY DEF HeldIn, clear_ranges
<1>3. Owns(h, clear_ranges, M, UsedOf(M))
  BY <1>2 DEF Owns
<1> QED BY <1>1, <1>3 DEF Settled

\* mm_init of a heap that has never been used.
LEMMA NewSettled ==
  ASSUME NEW r, r = mm_init(NewHeap), NEW messy
  PROVE  Settled(r.heap, clear_ranges, messy)
<1>1. NewHeap \in Heaps /\ NewHeap.brk = 0 /\ NewHeap.last = Null
  <2>1. [p \in 0 .. MaxHeap - 1 |-> Link] \in [0 .. MaxHeap - 1 -> Words]
    BY LinkWord
  <2>2. 0 \in 0 .. MaxHeap /\ Null \in 0 .. MaxHeap - 1
    BY MmAssumption DEF Null
  <2>3. <<>> \in Seq(0 .. MaxHeap - 1)
    OBVIOUS
  <2>4. [n \in Lists |-> <<>>] \in [Lists -> Seq(0 .. MaxHeap - 1)]
    BY <2>3
  <2> QED BY <2>1, <2>2, <2>4 DEF NewHeap, Heaps
<1>2. \E M : Sound(r.heap, M) /\ UsedOf(M) = {} /\ Parted(M)
  BY <1>1, Starting
<1> QED BY <1>2, Cleared

LEMMA InitSettled == Init => IInv
BY NewSettled DEF Init, IInv

\* Malloc: a block that is returned has a good range.
LEMMA MallocSettles ==
  ASSUME RequestsFit, Settled(heap, live, untidy), NEW id \in Ids, live[id] = NoBlock,
         NEW size \in Sizes, NEW r, r = mm_malloc(heap, size), NEW messy, untidy => messy
  PROVE  Settles(r, live, id, size, messy)
<1>1. PICK L : Sound(heap, L) /\ Owns(heap, live, L, UsedOf(L)) /\ (~untidy => Parted(L))
  BY DEF Settled
<1>2. size \in Nat \ {0} /\ Needed(size) >= Pow2[MinPower]
  BY MmAssumption DEF RequestsFit
<1>3. \E M : Allocated(r, M, heap, L, Needed(size))
  BY <1>1, <1>2, Allocating
<1>4. PICK M : Served(r, M, heap, L, UsedOf(L), Needed(size)) /\ Stays(M, L)
  BY <1>3 DEF Allocated
<1>5. live \in Ranges
  BY DEF Settled
<1>6. ~messy => Parted(M)
  BY <1>1, <1>4 DEF Stays
<1> QED BY <1>1, <1>4, <1>5, <1>6, Settling

\* mm_free of the block of an id.
LEMMA FreeSettles ==
  ASSUME RequestsFit, Settled(heap, live, untidy), NEW id \in Ids, live[id] # NoBlock,
         NEW g, g = mm_free(heap, live[id].bp)
  PROVE  Settled(g, remove_range(live, id), untidy)
<1> DEFINE b == live[id].bp
           rest == remove_range(live, id)
<1>1. PICK L : Sound(heap, L) /\ Owns(heap, live, L, UsedOf(L)) /\ (~untidy => Parted(L))
  BY DEF Settled
<1>2. heap \in Heaps /\ heap.brk \in Nat /\ Tiles(L, heap.brk) /\ UsedOf(L) \in SUBSET DOMAIN L
  BY <1>1, HeapTypes DEF Sound, Good, UsedOf
<1>3. b \in UsedOf(L) /\ L[b].size >= Pow2[MinPower]
  BY <1>1, <1>2, Holding
<1>4. rest = remove_range(live, id) /\ live \in Ranges /\ id \in HeldIn(live)
  BY DEF Settled, HeldIn
<1>5. rest \in Ranges /\ Owns(heap, rest, L, UsedOf(L) \ {b})
  <2> HIDE DEF rest
  <2> QED BY <1>1, <1>4, Disowned
<1> HIDE DEF rest
<1>6. \E M : /\ Sound(g, M) /\ g.brk = heap.brk
             /\ UsedOf(M) = UsedOf(L) \ {b} /\ Keeps(g, M, heap, L, UsedOf(L) \ {b})
             /\ Stays(M, L)
  BY <1>1, <1>3, Freeing
<1>7. PICK M : /\ Sound(g, M) /\ UsedOf(M) = UsedOf(L) \ {b}
               /\ Keeps(g, M, heap, L, UsedOf(L) \ {b}) /\ Stays(M, L)
  BY <1>6
<1>8. Owns(g, rest, M, UsedOf(M))
  BY <1>2, <1>5, <1>7, StillOwned
<1>9. Settled(g, rest, untidy)
  BY <1>1, <1>5, <1>7, <1>8 DEF Settled, Stays
<1> QED BY <1>9 DEF rest

\* Realloc: of no block, it is malloc; to size 0, it returns none.
LEMMA ReallocSettles ==
  ASSUME RequestsFit, Settled(heap, live, untidy), NEW id \in Ids, NEW size \in Sizes \cup {0},
         NEW r, r = mm_realloc(heap, live[id].bp, size),
         NEW messy, untidy \/ Splits(heap, live[id].bp, size) => messy
  PROVE  Settles(r, remove_range(live, id), id, size, messy)
<1> DEFINE b == live[id].bp
           rest == remove_range(live, id)
<1>1. PICK L : Sound(heap, L) /\ Owns(heap, live, L, UsedOf(L)) /\ (~untidy => Parted(L))
  BY DEF Settled
<1>2. /\ heap \in Heaps /\ heap.brk \in Nat /\ Tiles(L, heap.brk) /\ UsedOf(L) \in SUBSET DOMAIN L
      /\ live \in Ranges /\ size \in Nat
      /\ size # 0 => size \in Sizes
      /\ size # 0 => Needed(size) >= Pow2[MinPower]
  BY <1>1, HeapTypes, MmAssumption DEF Sound, Good, UsedOf, Settled, RequestsFit
<1>3. CASE live[id] = NoBlock
  <2>1. b = Null /\ rest = live
    <3>1. live[id].bp = Null
      BY <1>3 DEF NoBlock
    <3>2. live = [i \in Ids |-> live[i]]
      BY <1>2 DEF Ranges
    <3>3. [live EXCEPT ![id] = NoBlock] = live
      BY <1>3, <3>2
    <3> QED BY <3>1, <3>3 DEF remove_range
  <2>2. r = mm_malloc(heap, size)
    BY <2>1 DEF mm_realloc
  <2>3. CASE size = 0
    <3>1. r = Gives(heap, Null)
      BY <2>2, <2>3 DEF mm_malloc
    <3>2. r.heap = heap /\ r.bp = Null
      BY <3>1, GivesIs
    <3>3. Settles(r, live, id, size, messy)
      BY <3>2 DEF Settles, Settled
    <3> QED BY <2>1, <3>3
  <2>4. CASE size # 0
    <3>1. Settles(r, live, id, size, messy)
      BY <1>2, <1>3, <2>2, <2>4, MallocSettles
    <3> QED BY <2>1, <3>1
  <2> QED BY <2>3, <2>4
<1>4. CASE live[id] # NoBlock
  <2>1. b \in UsedOf(L) /\ L[b].size >= Pow2[MinPower]
    BY <1>1, <1>2, <1>4, Holding
  <2>2. id \in HeldIn(live) /\ rest = remove_range(live, id)
    BY <1>4 DEF HeldIn
  <2>3. r = mm_realloc(heap, b, size) /\ (untidy \/ Splits(heap, b, size) => messy)
    OBVIOUS
  <2>4. rest \in Ranges /\ rest[id] = NoBlock /\ Owns(heap, rest, L, UsedOf(L) \ {b})
    <3> DEFINE U == UsedOf(L)
    <3>1. Owns(heap, live, L, U) /\ live \in Ranges
      BY <1>1, <1>2
    <3> HIDE DEF rest, U
    <3>2. rest \in Ranges /\ rest[id] = NoBlock /\ Owns(heap, rest, L, U \ {b})
      BY ONLY <2>2, <3>1, Disowned
    <3> QED BY <3>2 DEF U
  <2> HIDE DEF rest, b
  <2>5. \E M : /\ Served(r, M, heap, L, UsedOf(L) \ {b}, Needed(size))
               /\ size = 0 => r.bp = Null
               /\ ~Splits(heap, b, size) => Stays(M, L)
    <3>1. Sound(heap, L) /\ size \in Nat /\ (size # 0 => Needed(size) >= Pow2[MinPower])
      BY <1>1, <1>2
    <3> QED BY ONLY <2>1, <2>3, <3>1, Reallocating
  <2>6. PICK M : /\ Served(r, M, heap, L, UsedOf(L) \ {b}, Needed(size))
                 /\ size = 0 => r.bp = Null
                 /\ ~Splits(heap, b, size) => Stays(M, L)
    BY <2>5
  <2> DEFINE O == UsedOf(L) \ {b}
  <2>7. Served(r, M, heap, L, O, Needed(size)) /\ Owns(heap, rest, L, O) /\ (r.bp # Null => size \in Sizes)
    BY <1>2, <2>4, <2>6
  <2>9. ~messy => Parted(M)
    BY <1>1, <2>3, <2>6 DEF Stays
  <2> HIDE DEF O
  <2>8. Settles(r, rest, id, size, messy)
    BY <1>1, <2>4, <2>7, <2>9, Settling
  <2> QED BY <2>8 DEF rest
<1> QED BY <1>3, <1>4

----------------------------------------------------------------------------
(* What the invariant says *)

\* The walk over the heap sees the layout.
LEMMA Seen ==
  ASSUME NEW L, Sound(heap, L)
  PROVE  /\ heap \in Heaps /\ Tiles(L, heap.brk) /\ heap.brk \in Nat /\ heap.brk \notin DOMAIN L
         /\ Walk(heap) = DOMAIN L \cup {heap.brk}
         /\ Blocks = (DOMAIN L \ {Prologue}) \cup {heap.brk}
         /\ FreeBlocks = FreeOf(L)
         /\ \A b \in DOMAIN L :
              /\ GetSize(heap, Hdr(b)) = L[b].size /\ L[b].size \in Nat /\ b \in Nat
              /\ GetAlloc(heap, Hdr(b)) = L[b].alloc /\ NextBlk(heap, b) = End(L, b)
              /\ GetSize(heap, Ftr(heap, b)) = L[b].size /\ GetAlloc(heap, Ftr(heap, b)) = L[b].alloc
<1>1. /\ heap \in Heaps /\ Tiles(L, heap.brk) /\ heap.brk \in Nat
      /\ \A b \in DOMAIN L : Tagged(heap, L, b)
  BY HeapTypes DEF Sound, Good
<1>2. /\ \A b \in DOMAIN L : b \in Nat /\ L[b].size \in Nat
      /\ heap.brk > 1 /\ heap.brk \notin DOMAIN L
  BY <1>1, TilesTypes
<1>3. Walk(heap) = DOMAIN L \cup {heap.brk}
  BY <1>1, WalkIs
<1>4. Blocks = (DOMAIN L \ {Prologue}) \cup {heap.brk}
  BY <1>2, <1>3 DEF Blocks, Prologue
<1>5. ASSUME NEW b \in DOMAIN L
      PROVE  /\ GetSize(heap, Hdr(b)) = L[b].size /\ GetAlloc(heap, Hdr(b)) = L[b].alloc
             /\ NextBlk(heap, b) = End(L, b)
             /\ IsFree(heap, b) <=> L[b].alloc = 0
             /\ GetSize(heap, Ftr(heap, b)) = L[b].size /\ GetAlloc(heap, Ftr(heap, b)) = L[b].alloc
  <2>1. Tagged(heap, L, b) /\ b \in Int /\ L[b].size \in Int
    BY <1>1, <1>2
  <2> QED BY <2>1, TagsSay
<1>6. L[Prologue].alloc = 1
  BY <1>1, TagIs DEF Tiles
<1>7. FreeBlocks = FreeOf(L)
  BY <1>2, <1>4, <1>5, <1>6 DEF FreeBlocks, FreeOf
<1> QED BY <1>1, <1>2, <1>3, <1>4, <1>5, <1>7

\* The heap checker has nothing to report, since the walk sees the layout.
LEMMA IsTiled == IInv => Tiled
<1> SUFFICES ASSUME IInv, ~stale PROVE WellFormed
  BY DEF IInv, Tiled
<1>1. PICK L : Sound(heap, L) /\ (~untidy => Parted(L))
  BY DEF IInv, Settled
<1>2. /\ heap \in Heaps /\ Tiles(L, heap.brk) /\ heap.brk \in Nat /\ heap.brk \notin DOMAIN L
      /\ Walk(heap) = DOMAIN L \cup {heap.brk}
      /\ Blocks = (DOMAIN L \ {Prologue}) \cup {heap.brk} /\ FreeBlocks = FreeOf(L)
      /\ \A b \in DOMAIN L :
           /\ GetSize(heap, Hdr(b)) = L[b].size /\ GetAlloc(heap, Hdr(b)) = L[b].alloc
           /\ NextBlk(heap, b) = End(L, b)
           /\ GetSize(heap, Ftr(heap, b)) = L[b].size /\ GetAlloc(heap, Ftr(heap, b)) = L[b].alloc
  BY <1>1, Seen
<1>3. TypeOK
  BY <1>2 DEF IInv, Settled, Ranges, TypeOK, Heaps, Words
<1>4. mm_check(heap) = 0
  <2>1. ASSUME NEW n \in Lists, NEW b \in Range(heap.lists[n]) PROVE b \in FreeOf(L)
    BY <1>1 DEF Sound, Good, Listed, ListIs
  <2>2. \A b \in UNION {Range(heap.lists[n]) : n \in Lists} : b \in DOMAIN L /\ L[b].alloc = 0
    BY <2>1 DEF FreeOf
  <2>3. \A b \in Walk(heap) \ {heap.brk} : b \in DOMAIN L
    BY <1>2
  <2> QED BY <1>2, <2>2, <2>3 DEF mm_check, IsFree
<1>5. heap.brk \in Blocks /\ heap.mem[Hdr(heap.brk)] = Tag(0, 1)
  BY <1>1, <1>2 DEF Sound, Good
<1>6. \A b \in Blocks \ {heap.brk} : GetSize(heap, Hdr(b)) > 2
  BY <1>2 DEF Tiles
<1>7. ~untidy => \A b \in FreeBlocks : NextBlk(heap, b) \notin FreeBlocks
  <2>1. \A b \in FreeOf(L) : NextBlk(heap, b) = End(L, b)
    BY <1>2 DEF FreeOf
  <2> QED BY <1>1, <1>2, <2>1 DEF Parted
<1> QED BY <1>3, <1>4, <1>5, <1>6, <1>7 DEF WellFormed

\* A size belongs to one list.
LEMMA ListBounds ==
  ASSUME NEW size \in Nat, size >= Pow2[MinPower], NEW n \in Lists
  PROVE  ListOf(size) = n <=> /\ size >= Pow2[n]
                              /\ n + 1 \in Lists => size < Pow2[n + 1]
<1> DEFINE m == ListOf(size)
<1>1. /\ m \in Lists /\ Pow2[m] <= size /\ \A k \in Lists : k > m => size < Pow2[k]
  BY ListOfIs
<1> HIDE DEF m
<1>2. \A k \in Lists : k \in Nat /\ k \in 0 .. MinPower + NumFl
  BY MmAssumption DEF Lists
<1>3. \A k \in Lists : Pow2[k] \in Nat
  BY <1>2, PowerType
<1>4. CASE m = n
  BY <1>1, <1>2, <1>3, <1>4 DEF m
<1>5. CASE n > m
  <2>1. size < Pow2[n]
    BY <1>1, <1>5
  <2> QED BY <1>2, <1>3, <1>5, <2>1 DEF m
<1>6. CASE n < m
  <2>1. n + 1 \in Lists /\ n + 1 <= m
    BY <1>1, <1>2, <1>6, MmAssumption DEF Lists
  <2>2. Pow2[n + 1] <= Pow2[m]
    BY <1>1, <1>2, <2>1, PowerGrows
  <2>3. ~(size < Pow2[n + 1])
    BY <1>1, <1>3, <2>1, <2>2
  <2> QED BY <1>2, <1>6, <2>1, <2>3 DEF m
<1> QED BY <1>1, <1>2, <1>4, <1>5, <1>6

\* LAST_FREE_BP is the largest address, and a size is between the powers of its list.
LEMMA HasListsExact == IInv => ListsExact
<1> SUFFICES ASSUME IInv, ~stale PROVE ListsExact
  BY DEF ListsExact
<1>1. PICK L : Sound(heap, L)
  BY DEF IInv, Settled
<1>2. /\ Tiles(L, heap.brk) /\ heap.brk \in Nat /\ FreeBlocks = FreeOf(L)
      /\ \A b \in DOMAIN L :
           /\ GetSize(heap, Hdr(b)) = L[b].size /\ L[b].size \in Nat /\ b \in Nat
           /\ NextBlk(heap, b) = End(L, b)
  BY <1>1, Seen
<1>3. /\ heap.last \in FreeOf(L) \cup {Null} /\ \A b \in FreeOf(L) : b \in DOMAIN L
      /\ \A b \in FreeOf(L) : b = heap.last <=> End(L, b) = heap.brk
      /\ \A b \in FreeOf(L) : b # heap.last => L[b].size >= Pow2[MinPower]
      /\ \A n \in Lists : ListIs(heap.lists[n],
                                 {b \in FreeOf(L) : b # heap.last /\ ListOf(L[b].size) = n})
  BY <1>1 DEF Sound, Good, Listed
<1>4. heap.last = (IF \E b \in FreeBlocks : NextBlk(heap, b) = heap.brk
                   THEN Max(FreeBlocks) ELSE Null)
  <2>1. CASE \E b \in FreeOf(L) : End(L, b) = heap.brk
    <3>1. PICK b \in FreeOf(L) : End(L, b) = heap.brk
      BY <2>1
    <3>2. ASSUME NEW c \in FreeOf(L) PROVE b >= c
      <4>1. b \in Nat /\ c \in Nat /\ c < heap.brk /\ (b < c => heap.brk <= c)
        BY <1>2, <1>3, <3>1, TilesTypes DEF Tiles
      <4> QED BY <1>2, <4>1
    <3>3. \A c \in FreeOf(L) : c \in Nat
      BY <1>2, <1>3
    <3>4. Max(FreeOf(L)) = b
      BY <3>1, <3>2, <3>3 DEF Max
    <3> QED BY <1>2, <1>3, <3>1, <3>4
  <2>2. CASE ~\E b \in FreeOf(L) : End(L, b) = heap.brk
    BY <1>2, <1>3, <2>2
  <2> QED BY <2>1, <2>2
<1>5. ASSUME NEW n \in Lists
      PROVE  /\ IsInjective(heap.lists[n])
             /\ Range(heap.lists[n]) =
                  {b \in FreeBlocks \ {heap.last} :
                     /\ GetSize(heap, Hdr(b)) >= Pow2[n]
                     /\ n + 1 \in Lists => GetSize(heap, Hdr(b)) < Pow2[n + 1]}
  <2>1. /\ IsInjective(heap.lists[n])
        /\ Range(heap.lists[n]) = {b \in FreeOf(L) : b # heap.last /\ ListOf(L[b].size) = n}
    BY <1>3 DEF ListIs
  <2>2. ASSUME NEW b \in FreeOf(L), b # heap.last
        PROVE  ListOf(L[b].size) = n <=>
                 /\ GetSize(heap, Hdr(b)) >= Pow2[n]
                 /\ n + 1 \in Lists => GetSize(heap, Hdr(b)) < Pow2[n + 1]
    <3>1. L[b].size \in Nat /\ L[b].size >= Pow2[MinPower] /\ GetSize(heap, Hdr(b)) = L[b].size
      BY <1>2, <1>3, <2>2
    <3> QED BY <3>1, ListBounds
  <2> QED BY <1>2, <2>1, <2>2
<1> QED BY <1>4, <1>5 DEF ListsExact

\* The blocks in use are the client's.
LEMMA KeepsPayloads == IInv => PayloadsKept
<1> SUFFICES ASSUME IInv, ~stale PROVE PayloadsKept
  BY DEF PayloadsKept
<1>1. PICK L : Sound(heap, L) /\ Owns(heap, live, L, UsedOf(L))
  BY DEF IInv, Settled
<1>2. /\ Tiles(L, heap.brk) /\ heap.brk \notin DOMAIN L
      /\ Blocks = (DOMAIN L \ {Prologue}) \cup {heap.brk} /\ FreeBlocks = FreeOf(L)
      /\ \A b \in DOMAIN L : GetSize(heap, Hdr(b)) = L[b].size
  BY <1>1, Seen
<1>3. (Blocks \ {heap.brk}) \ FreeBlocks = UsedOf(L)
  BY <1>2 DEF Tiles, FreeOf, UsedOf
<1>4. UsedOf(L) = {live[id].bp : id \in HeldIn(live)}
  BY <1>1 DEF Owns
<1>5. \A id \in HeldIn(live) :
        /\ GetSize(heap, Hdr(live[id].bp)) >= Needed(live[id].size)
        /\ \A k \in 0 .. live[id].size - 1 : heap.mem[live[id].bp + k] = Data(id)
  BY <1>1, <1>2 DEF Owns, UsedOf
<1> QED BY <1>3, <1>4, <1>5 DEF PayloadsKept, HeldIn

----------------------------------------------------------------------------
(* The steps of the client *)

\* Fill's ranges are those the driver records, whether or not the block had one.
LEMMA TakenIs ==
  ASSUME live \in Ranges, NEW id \in Ids, NEW b, NEW size
  PROVE  /\ Taken(live, id, b, size) = [live EXCEPT ![id] = [bp |-> b, size |-> size]]
         /\ Taken(remove_range(live, id), id, b, size) = [live EXCEPT ![id] = [bp |-> b, size |-> size]]
BY DEF Ranges, Taken, remove_range

\* Malloc, Free, Realloc and Reset keep the invariant, and the driver gives up
\* only if no block is returned.
LEMMA MallocKeeps ==
  ASSUME RequestsFit, IInv, NEW id \in Ids, NEW size \in Sizes, Malloc(id, size)
  PROVE  IInv' /\ (failed' => mm_malloc(heap, size).bp = Null)
<1> DEFINE r == mm_malloc(heap, size)
<1>1. /\ ~failed /\ live[id] = NoBlock /\ kept' = kept /\ live \in Ranges /\ kept \in BOOLEAN
      /\ ~stale /\ stale' = stale /\ untidy' = untidy /\ untidy \in BOOLEAN /\ stale \in BOOLEAN
      /\ Settled(heap, live, untidy)
      /\ IF r.bp = Null \/ ~add_range(r.heap, live, r.bp, size)
         THEN failed' = TRUE /\ heap' = r.heap /\ live' = live
         ELSE /\ heap' = Fill(r.heap, r.bp, id, size)
              /\ live' = [live EXCEPT ![id] = [bp |-> r.bp, size |-> size]]
              /\ failed' = failed
  BY DEF Malloc, IInv, Settled
<1>2. r = mm_malloc(heap, size)
  OBVIOUS
<1> HIDE DEF r
<1>3. Settles(r, live, id, size, untidy)
  BY <1>1, <1>2, MallocSettles
<1>4. CASE r.bp = Null
  <2>1. Settled(heap', live', untidy') /\ failed' = TRUE
    BY <1>1, <1>3, <1>4 DEF Settles
  <2> QED BY <1>1, <1>2, <1>4, <2>1 DEF IInv
<1>5. CASE r.bp # Null
  <2>1. /\ add_range(r.heap, live, r.bp, size)
        /\ Settled(Fill(r.heap, r.bp, id, size), Taken(live, id, r.bp, size), untidy)
    BY <1>3, <1>5 DEF Settles
  <2>2. Settled(heap', live', untidy') /\ failed' = FALSE
    BY <1>1, <1>5, <2>1, TakenIs
  <2> QED BY <1>1, <2>2 DEF IInv
<1> QED BY <1>4, <1>5

\* The same of Free,
LEMMA FreeKeeps ==
  ASSUME RequestsFit, IInv, NEW id \in Ids, Free(id)
  PROVE  IInv' /\ failed' = failed
<1>1. /\ live[id] # NoBlock /\ heap' = mm_free(heap, live[id].bp)
      /\ live' = remove_range(live, id) /\ kept' = kept /\ failed' = failed
      /\ ~stale /\ stale' = stale /\ untidy' = untidy /\ Settled(heap, live, untidy)
  BY DEF Free, IInv
<1>2. Settled(heap', live', untidy')
  BY <1>1, FreeSettles
<1> QED BY <1>1, <1>2 DEF IInv

\* of Realloc,
LEMMA ReallocKeeps ==
  ASSUME RequestsFit, IInv, NEW id \in Ids, NEW size \in Sizes \cup {0}, Realloc(id, size)
  PROVE  IInv' /\ (failed' => mm_realloc(heap, live[id].bp, size).bp = Null)
<1> DEFINE r == mm_realloc(heap, live[id].bp, size)
           others == remove_range(live, id)
           data == \A k \in 0 .. Min({live[id].size, size}) - 1 : r.heap.mem[r.bp + k].data = id
           messy == untidy \/ Splits(heap, live[id].bp, size)
<1>1. /\ ~stale /\ stale' = stale /\ untidy' = messy /\ stale \in BOOLEAN /\ untidy \in BOOLEAN
      /\ Settled(heap, live, untidy)
      /\ ~failed /\ live \in Ranges /\ kept \in BOOLEAN /\ failed \in BOOLEAN
      /\ IF r.bp = Null \/ ~add_range(r.heap, others, r.bp, size)
         THEN /\ heap' = r.heap /\ live' = others /\ failed' = (size # 0) /\ kept' = kept
         ELSE /\ heap' = Fill(r.heap, r.bp, id, size)
              /\ live' = [live EXCEPT ![id] = [bp |-> r.bp, size |-> size]]
              /\ kept' = data /\ failed' = failed
  BY DEF Realloc, IInv, Settled
<1>2. r = mm_realloc(heap, live[id].bp, size) /\ others = remove_range(live, id) /\ data \in BOOLEAN
  OBVIOUS
<1>7. messy \in BOOLEAN
  BY <1>1 DEF Splits
<1> HIDE DEF r, data
<1>3. Settles(r, others, id, size, messy)
  BY <1>1, <1>2, ReallocSettles
<1> HIDE DEF messy
<1>4. Taken(others, id, r.bp, size) = [live EXCEPT ![id] = [bp |-> r.bp, size |-> size]]
  BY <1>1, TakenIs
<1> HIDE DEF others
<1>5. CASE r.bp = Null
  <2>1. Settled(heap', live', untidy') /\ failed' = (size # 0) /\ kept' = kept
    BY <1>1, <1>3, <1>5 DEF Settles
  <2>2. failed' \in BOOLEAN
    BY <2>1
  <2> QED BY <1>1, <1>2, <1>5, <1>7, <2>1, <2>2 DEF IInv
<1>6. CASE r.bp # Null
  <2>1. /\ add_range(r.heap, others, r.bp, size)
        /\ Settled(Fill(r.heap, r.bp, id, size), Taken(others, id, r.bp, size), messy)
    BY <1>3, <1>6 DEF Settles
  <2>2. heap' = Fill(r.heap, r.bp, id, size) /\ live' = Taken(others, id, r.bp, size)
        /\ kept' = data /\ failed' = failed
    BY <1>1, <1>4, <1>6, <2>1
  <2>3. Settled(heap', live', untidy')
    BY <1>1, <2>1, <2>2
  <2> QED BY <1>1, <1>2, <1>7, <2>2, <2>3 DEF IInv
<1> QED BY <1>5, <1>6

\* A heap that has nothing but free blocks, none of which touch, is one block.
LEMMA OneBlock ==
  ASSUME NEW h, NEW L, Sound(h, L), Parted(L), UsedOf(L) = {}
  PROVE  h.last \in {Null, FirstBp}
<1> SUFFICES ASSUME h.last # Null PROVE h.last = FirstBp
  OBVIOUS
<1>1. h.last \in FreeOf(L) /\ h.brk \in Nat /\ Tiles(L, h.brk)
  BY LastIs, HeapTypes DEF Sound, Good
<1>2. L[Prologue].alloc = 1 /\ L[Prologue].size = 2
  BY <1>1, TagIs DEF Tiles
<1>3. h.last \in DOMAIN L /\ h.last # Prologue
  BY <1>1, <1>2 DEF FreeOf
<1>4. PICK c \in DOMAIN L : End(L, c) = h.last
  BY <1>1, <1>3 DEF Tiles
<1>5. c \notin FreeOf(L)
  BY <1>1, <1>4 DEF Parted
<1>6. c = Prologue
  BY <1>1, <1>5 DEF Tiles, FreeOf, UsedOf
<1> QED BY <1>2, <1>4, <1>6 DEF End, Prologue, FirstBp

\* and of Reset, which keeps LAST_FREE_BP: it is the first block, or else the
\* trace has split a block in use or left one.
LEMMA ResetKeeps ==
  ASSUME IInv, Reset
  PROVE  IInv' /\ failed' = FALSE
<1> DEFINE h == mem_reset_brk(heap)
           r == mm_init(h)
           left == \E id \in Ids : live[id] # NoBlock
<1>1. /\ heap' = r.heap /\ live' = clear_ranges /\ kept' = TRUE /\ failed' = FALSE
      /\ stale' = (heap.last \notin {Null, FirstBp}) /\ untidy' = (stale' /\ (untidy \/ left))
      /\ untidy \in BOOLEAN
  BY DEF Reset, IInv
<1>7. PICK L : Sound(heap, L) /\ Owns(heap, live, L, UsedOf(L)) /\ (~untidy => Parted(L))
  BY DEF Reset, IInv, Settled
<1>8. heap \in Heaps
  BY <1>7 DEF Sound, Good
<1>2. h \in Heaps /\ h.brk = 0 /\ h.last = heap.last
  <2>1. h = [heap EXCEPT !.brk = 0]
    BY DEF mem_reset_brk
  <2>2. 0 \in 0 .. MaxHeap
    BY MmAssumption
  <2> HIDE DEF h
  <2> QED BY <1>8, <2>1, <2>2 DEF Heaps
<1>3. r = mm_init(h)
  OBVIOUS
<1>9. left \in BOOLEAN
  OBVIOUS
<1>10. ~left => UsedOf(L) = {}
  BY <1>7 DEF Owns, HeldIn
<1> HIDE DEF r, h, left
<1>4. CASE heap.last \in {Null, FirstBp}
  <2>1. \E M : Sound(r.heap, M) /\ UsedOf(M) = {} /\ Parted(M)
    BY <1>2, <1>3, <1>4, Starting
  <2>2. Settled(heap', live', untidy')
    BY <1>1, <2>1, Cleared
  <2>3. stale' = FALSE /\ untidy' = FALSE
    BY <1>1, <1>4
  <2> QED BY <1>1, <2>2, <2>3 DEF IInv
<1>5. CASE heap.last \notin {Null, FirstBp}
  <2>1. untidy \/ left
    BY <1>5, <1>7, <1>10, OneBlock
  <2>2. stale' = TRUE /\ untidy' = TRUE
    BY <1>1, <1>5, <2>1
  <2> QED BY <1>1, <2>2 DEF IInv
<1> QED BY <1>4, <1>5

\* The same of Restart, which starts as Init does.
LEMMA RestartKeeps ==
  ASSUME Restart
  PROVE  IInv' /\ failed' = FALSE
<1>1. /\ heap' = mm_init(NewHeap).heap /\ live' = clear_ranges
      /\ kept' = TRUE /\ failed' = FALSE /\ untidy' = FALSE /\ stale' = FALSE
  BY DEF Restart
<1>2. Settled(heap', live', untidy')
  BY <1>1, NewSettled
<1> QED BY <1>1, <1>2 DEF IInv

\* The invariant is inductive.
LEMMA NextKeeps ==
  ASSUME RequestsFit
  PROVE  IInv /\ [Next]_vars => IInv'
<1> SUFFICES ASSUME IInv, [Next]_vars PROVE IInv'
  OBVIOUS
<1>1. CASE \E id \in Ids, size \in Sizes : Malloc(id, size)
  BY <1>1, MallocKeeps
<1>2. CASE \E id \in Ids : Free(id)
  BY <1>2, FreeKeeps
<1>3. CASE \E id \in Ids, size \in Sizes \cup {0} : Realloc(id, size)
  BY <1>3, ReallocKeeps
<1>4. CASE Reset
  BY <1>4, ResetKeeps
<1>5. CASE UNCHANGED vars
  BY <1>5 DEF vars, IInv
<1>6. CASE Restart
  BY <1>6, RestartKeeps
<1> QED BY <1>1, <1>2, <1>3, <1>4, <1>5, <1>6 DEF Next

\* A block that was not held is new: it comes from mm_malloc, and the heap has
\* grown only if no free block had room.
LEMMA MallocGrows ==
  ASSUME RequestsFit, IInv, ~stale, NEW id \in Ids, NEW size \in Sizes, live[id] = NoBlock,
         NEW r, r = mm_malloc(heap, size), r.heap.brk > heap.brk
  PROVE  \A b \in FreeBlocks : GetSize(heap, Hdr(b)) < Needed(size)
<1>1. PICK L : Sound(heap, L)
  BY DEF IInv, Settled
<1>2. size \in Nat \ {0} /\ Needed(size) >= Pow2[MinPower]
  BY MmAssumption DEF RequestsFit
<1>3. \E M : Allocated(r, M, heap, L, Needed(size))
  BY <1>1, <1>2, Allocating
<1>4. \A b \in FreeOf(L) : L[b].size < Needed(size)
  BY <1>3 DEF Allocated
<1>5. FreeBlocks = FreeOf(L) /\ \A b \in FreeOf(L) : GetSize(heap, Hdr(b)) = L[b].size
  BY <1>1, Seen DEF FreeOf
<1> QED BY <1>4, <1>5

GrowthStep ==
  \A id \in Ids :
    live[id] = NoBlock /\ live'[id] # NoBlock /\ heap'.brk > heap.brk =>
      \A b \in FreeBlocks : GetSize(heap, Hdr(b)) < Needed(live'[id].size)

\* Each step that gives an id a block and grows the heap found the others full.
LEMMA NextGrows ==
  ASSUME RequestsFit, IInv, [Next]_vars
  PROVE  GrowthStep
<1> SUFFICES ASSUME NEW id \in Ids, live[id] = NoBlock, live'[id] # NoBlock, heap'.brk > heap.brk
             PROVE  \A b \in FreeBlocks : GetSize(heap, Hdr(b)) < Needed(live'[id].size)
  BY DEF GrowthStep
<1>7. CASE Reset \/ Restart
  BY <1>7 DEF Reset, Restart, clear_ranges
<1>8. CASE stale
  BY <1>7, <1>8 DEF Next, Malloc, Free, Realloc, vars
<1> SUFFICES ASSUME ~stale PROVE \A b \in FreeBlocks : GetSize(heap, Hdr(b)) < Needed(live'[id].size)
  BY <1>8
<1>1. live \in Ranges /\ \A i \in Ids : \A size, b :
        LET after == [live EXCEPT ![i] = [bp |-> b, size |-> size]] IN
        after[id] # NoBlock => i = id /\ after[id].size = size
  BY DEF IInv, Settled, Ranges
<1>2. ASSUME NEW i \in Ids, NEW size \in Sizes, Malloc(i, size)
      PROVE  \A b \in FreeBlocks : GetSize(heap, Hdr(b)) < Needed(live'[id].size)
  <2> DEFINE r == mm_malloc(heap, size)
  <2>1. /\ heap' = Fill(r.heap, r.bp, i, size) /\ r.bp # Null
        /\ live' = [live EXCEPT ![i] = [bp |-> r.bp, size |-> size]]
    BY <1>2 DEF Malloc
  <2>2. i = id /\ live'[id].size = size
    BY <1>1, <2>1
  <2>3. r.heap.brk > heap.brk
    BY <2>1 DEF Fill
  <2> QED BY <2>2, <2>3, MallocGrows
<1>3. ASSUME NEW i \in Ids, NEW size \in Sizes \cup {0}, Realloc(i, size)
      PROVE  \A b \in FreeBlocks : GetSize(heap, Hdr(b)) < Needed(live'[id].size)
  <2> DEFINE r == mm_realloc(heap, live[i].bp, size)
             others == remove_range(live, i)
  <2>1. others[id] = NoBlock
    BY <1>1 DEF remove_range, Ranges
  <2>2. /\ heap' = Fill(r.heap, r.bp, i, size) /\ r.bp # Null
        /\ live' = [live EXCEPT ![i] = [bp |-> r.bp, size |-> size]]
    BY <1>3, <2>1 DEF Realloc
  <2>3. i = id /\ live'[id].size = size
    BY <1>1, <2>2
  <2>4. r = mm_malloc(heap, size)
    <3>1. live[i].bp = Null
      BY <2>3 DEF NoBlock
    <3>2. mm_realloc(heap, Null, size) = mm_malloc(heap, size)
      BY DEF mm_realloc
    <3> QED BY <3>1, <3>2
  <2>5. size # 0
    <3> SUFFICES ASSUME size = 0 PROVE FALSE
      OBVIOUS
    <3>1. r = Gives(heap, Null)
      BY <2>4 DEF mm_malloc
    <3> HIDE DEF r
    <3> QED BY <2>2, <3>1, GivesIs
  <2>6. r.heap.brk > heap.brk
    BY <2>2 DEF Fill
  <2> QED BY <2>3, <2>4, <2>5, <2>6, MallocGrows
<1>4. CASE \E i \in Ids : Free(i)
  BY <1>1, <1>4 DEF Free, remove_range, Ranges
<1>6. CASE UNCHANGED vars
  BY <1>6 DEF vars
<1> QED BY <1>2, <1>3, <1>4, <1>6, <1>7 DEF Next

----------------------------------------------------------------------------
(* The theorems *)

\* mdriver gives up only when a call has returned NULL: no range that the package
\* returns is ever outside the heap or in another block.
RangesAccepted ==
  [][\A id \in Ids :
       /\ \A size \in Sizes : Malloc(id, size) /\ failed' => mm_malloc(heap, size).bp = Null
       /\ \A size \in Sizes \cup {0} :
            Realloc(id, size) /\ failed' => mm_realloc(heap, live[id].bp, size).bp = Null]_vars

\* After any sequence of calls some layout describes the heap of mm.c, and its
\* blocks in use are those that mdriver holds.
THEOREM Invariance == RequestsFit /\ Spec => []IInv
<1> SUFFICES ASSUME RequestsFit PROVE Spec => []IInv
  OBVIOUS
<1>1. Init => IInv
  BY InitSettled
<1>2. IInv /\ [Next]_vars => IInv'
  BY NextKeeps
<1> QED BY <1>1, <1>2, PTL DEF Spec

\* mm_check reports nothing: the blocks tile the heap from the prologue to the
\* epilogue, the two tags of each agree, and no free blocks touch unless the trace
\* has split a block in use.  Only after a trace that has, or that has not freed
\* every block, does mm_init start from a LAST_FREE_BP that does not name the first.
THEOREM HeapTiled == RequestsFit /\ Spec => []Tiled
BY Invariance, IsTiled, PTL

\* Each segregated list has the free blocks of its sizes, each once, and
\* LAST_FREE_BP is the free block at the end of the heap, if there is one; not
\* after a stale reset.
THEOREM FreeListsExact == RequestsFit /\ Spec => []ListsExact
BY Invariance, HasListsExact, PTL

\* No call of the package writes in a payload that the client holds, or makes its
\* block too small; every other block is free (after a stale reset there is none
\* that this says anything about).
THEOREM PayloadsSafe == RequestsFit /\ Spec => []PayloadsKept
BY Invariance, KeepsPayloads, PTL

\* mm_malloc extends the heap only if every free block is too small.
THEOREM GrowthNeeded == RequestsFit /\ Spec => GrowsOnlyIfFull
<1> SUFFICES ASSUME RequestsFit PROVE Spec => GrowsOnlyIfFull
  OBVIOUS
<1>1. Spec => []IInv
  BY Invariance
<1>2. IInv /\ [Next]_vars => [GrowthStep]_vars
  BY NextGrows
<1>3. GrowsOnlyIfFull <=> [][GrowthStep]_vars
  BY DEF GrowsOnlyIfFull, GrowthStep
<1> QED BY <1>1, <1>2, <1>3, PTL DEF Spec

\* No range that mm_malloc or mm_realloc returns is refused by add_range: mdriver
\* gives up only on NULL.
THEOREM NoBadRange == RequestsFit /\ Spec => RangesAccepted
<1> SUFFICES ASSUME RequestsFit PROVE Spec => RangesAccepted
  OBVIOUS
<1> DEFINE A == \A id \in Ids :
       /\ \A size \in Sizes : Malloc(id, size) /\ failed' => mm_malloc(heap, size).bp = Null
       /\ \A size \in Sizes \cup {0} :
            Realloc(id, size) /\ failed' => mm_realloc(heap, live[id].bp, size).bp = Null
<1>1. Spec => []IInv
  BY Invariance
<1>2. IInv => A
  BY MallocKeeps, ReallocKeeps
<1>3. RangesAccepted <=> [][A]_vars
  BY DEF RangesAccepted
<1> HIDE DEF A
<1> QED BY <1>1, <1>2, <1>3, PTL DEF Spec
=============================================================================
