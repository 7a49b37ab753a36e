--------------------------- MODULE LruCacheProofs ---------------------------
(***************************************************************************)
(* Proofs about the response cache, for any workers, keys, addresses and   *)
(* sizes: the pointers form a list at every step, the size counted is the  *)
(* size of what is in it, copies of a key are bounded, and the cache is the*)
(* atomic one of LruSpec.                                                  *)
(***************************************************************************)
EXTENDS LruCache, FiniteSetTheorems, TLAPS

----------------------------------------------------------------------------
(* Lists of items: where a key is, and what they add up to                 *)

\* A set of numbers that is not empty has a least element.
LEMMA Least ==
  ASSUME NEW S \in SUBSET Nat, S # {}
  PROVE  \E m \in S : \A n \in S : m <= n
<1> DEFINE R == OpToRel(<, Nat)
<1>1. IsWellFoundedOn(R, Nat)
  BY NatLessThanWellFounded
<1>2. PICK m \in S : \A n \in S : <<n, m>> \notin R
  <2> HIDE DEF R
  <2> QED BY <1>1, WFMin
<1>3. \A n \in S : ~(n < m)
  <2> TAKE n \in S
  <2>1. n \in Nat /\ m \in Nat
    OBVIOUS
  <2>2. n < m => <<n, m>> \in R
    BY <2>1 DEF OpToRel
  <2> QED BY <1>2, <2>2
<1> QED BY <1>3

\* Some numbers up to a bound have a largest.
LEMMA Largest ==
  ASSUME NEW n \in Nat, NEW S \in SUBSET (0 .. n), S # {}
  PROVE  \E m \in S : \A i \in S : i <= m
<1> DEFINE U == {u \in Nat : \A i \in S : i <= u}
<1>1. n \in U /\ U \in SUBSET Nat
  OBVIOUS
<1>2. PICK u \in U : \A v \in U : u <= v
  <2> HIDE DEF U
  <2> QED BY <1>1, Least
<1>3. u \in S
  <2>1. SUFFICES ASSUME u \notin S PROVE FALSE
    OBVIOUS
  <2>2. \A i \in S : i \in Nat /\ i < u
    BY <1>2, <2>1
  <2>3. PICK i \in S : TRUE
    OBVIOUS
  <2>4. u # 0 /\ u \in Nat
    BY <1>2, <2>2, <2>3
  <2>5. u - 1 \in U
    BY <2>2, <2>4
  <2> QED BY <1>2, <2>4, <2>5
<1> QED BY <1>2, <1>3

\* The empty list has no size.
LEMMA TotalEmpty == Total(<<>>) = 0
<1>1. DOMAIN <<>> = {}
  OBVIOUS
<1> QED BY <1>1 DEF Total, FoldSeq, FoldFunction, FoldFunctionOnSet, MapThenFoldSet

\* The first position of a key that is in the list.
LEMMA FirstHit ==
  ASSUME NEW S, NEW s \in Seq(S), NEW k, Hits(s, k) # {}
  PROVE  /\ First(s, k) \in Hits(s, k)
         /\ \A i \in Hits(s, k) : First(s, k) <= i
<1>1. Hits(s, k) \in SUBSET Nat
  BY DEF Hits
<1>2. \E i \in Hits(s, k) : \A j \in Hits(s, k) : i <= j
  BY <1>1, Least
<1> QED BY <1>2 DEF First

\* Taking an item out closes the gap it leaves.
LEMMA RemoveIs ==
  ASSUME NEW S, NEW s \in Seq(S), NEW f \in 1 .. Len(s)
  PROVE  /\ RemoveAt(s, f) \in Seq(S)
         /\ Len(s) = Len(RemoveAt(s, f)) + 1
         /\ \A i \in 1 .. Len(RemoveAt(s, f)) :
              RemoveAt(s, f)[i] = IF i < f THEN s[i] ELSE s[i + 1]
<1> DEFINE front == SubSeq(s, 1, f - 1)
           back == SubSeq(s, f + 1, Len(s))
           others == front \o back
<1>1. Len(s) \in Nat /\ f \in Nat /\ f <= Len(s)
  OBVIOUS
<1>2. /\ front \in Seq(S) /\ Len(front) = f - 1
      /\ \A i \in 1 .. f - 1 : front[i] = s[i]
  BY <1>1
<1>3. /\ back \in Seq(S) /\ Len(back) = Len(s) - f
      /\ \A i \in 1 .. Len(s) - f : back[i] = s[f + i]
  BY <1>1
<1>4. RemoveAt(s, f) = others
  BY DEF RemoveAt
<1> HIDE DEF front, back
<1>5. /\ others \in Seq(S) /\ Len(others) = Len(s) - 1
      /\ \A i \in 1 .. Len(s) - 1 :
           others[i] = IF i <= f - 1 THEN front[i] ELSE back[i - (f - 1)]
  <2>1. /\ others \in Seq(S) /\ Len(others) = Len(front) + Len(back)
        /\ \A i \in 1 .. Len(front) + Len(back) :
             others[i] = IF i <= Len(front) THEN front[i] ELSE back[i - Len(front)]
    <3>1. front \in Seq(S) /\ back \in Seq(S)
      BY <1>2, <1>3
    <3> QED BY ONLY <3>1
  <2>2. Len(front) + Len(back) = Len(s) - 1
    BY <1>1, <1>2, <1>3
  <2> HIDE DEF others
  <2> QED BY <1>2, <2>1, <2>2
<1> HIDE DEF others
<1>6. ASSUME NEW i \in 1 .. Len(s) - 1
      PROVE  others[i] = IF i < f THEN s[i] ELSE s[i + 1]
  <2>1. CASE i < f
    BY <1>1, <1>2, <1>5, <2>1
  <2>2. CASE ~(i < f)
    <3>1. /\ ~(i <= f - 1) /\ i - (f - 1) \in 1 .. Len(s) - f
          /\ f + (i - (f - 1)) = i + 1
      BY <1>1, <2>2
    <3> QED BY <1>3, <1>5, <2>2, <3>1
  <2> QED BY <2>1, <2>2
<1>7. Len(others) + 1 = Len(s) /\ 1 .. Len(others) = 1 .. Len(s) - 1
  BY <1>1, <1>5
<1> QED BY <1>4, <1>5, <1>6, <1>7


\* A collection of subsets of a finite set has one that is minimal.
LEMMA MinimalSet ==
  ASSUME NEW S, IsFiniteSet(S), NEW U \in SUBSET (SUBSET S), U # {}
  PROVE  \E T \in U : \A x \in T : T \ {x} \notin U
<1> DEFINE N == {n \in Nat : \E T \in U : n = Cardinality(T)}
<1>1. \A T \in U : IsFiniteSet(T) /\ Cardinality(T) \in Nat
  BY FS_Subset, FS_CardinalityType
<1>2. N # {} /\ N \in SUBSET Nat
  BY <1>1
<1>3. PICK n \in N : \A m \in N : n <= m
  <2> HIDE DEF N
  <2> QED BY <1>2, Least
<1>4. PICK T \in U : n = Cardinality(T)
  BY <1>3
<1>5. ASSUME NEW x \in T, T \ {x} \in U PROVE FALSE
  <2>1. Cardinality(T \ {x}) = n - 1 /\ n - 1 \in Nat
    BY <1>1, <1>4, <1>5, FS_RemoveElement
  <2>2. n - 1 \in N
    BY <1>5, <2>1
  <2> QED BY <1>3, <2>1, <2>2
<1> QED BY <1>4, <1>5

\* g gives each part of S the sum of the values v has on it.
IsSum(g, v, S) ==
  /\ g \in [SUBSET S -> Nat]
  /\ g[{}] = 0
  /\ \A T \in SUBSET S : \A x \in T : g[T] = v[x] + g[T \ {x}]

LEMMA SumExists ==
  ASSUME NEW S, IsFiniteSet(S), NEW v \in [S -> Nat]
  PROVE  \E g : IsSum(g, v, S)
<1> DEFINE U == {T \in SUBSET S : ~ \E g : IsSum(g, v, T)}
<1>1. SUFFICES ASSUME U # {} PROVE FALSE
  OBVIOUS
<1>2. PICK T \in U : \A x \in T : T \ {x} \notin U
  <2>1. U \in SUBSET (SUBSET S)
    OBVIOUS
  <2> HIDE DEF U
  <2> QED BY <1>1, <2>1, MinimalSet
<1>3. CASE T = {}
  <2> DEFINE g == [t \in SUBSET {} |-> 0]
  <2>1. IsSum(g, v, {})
    BY DEF IsSum
  <2> HIDE DEF g
  <2> QED BY <1>2, <1>3, <2>1
<1>4. ASSUME NEW a \in T PROVE FALSE
  <2>1. PICK h : IsSum(h, v, T \ {a})
    BY <1>2
  <2> DEFINE g == [t \in SUBSET T |-> IF a \in t THEN v[a] + h[t \ {a}] ELSE h[t]]
  <2>2. v[a] \in Nat /\ \A x \in T : v[x] \in Nat
    BY <1>2
  <2>3. \A t \in SUBSET T : t \ {a} \in SUBSET (T \ {a}) /\ h[t \ {a}] \in Nat
    BY <2>1 DEF IsSum
  <2>4. \A t \in SUBSET T : a \notin t => t \in SUBSET (T \ {a}) /\ t \ {a} = t
    OBVIOUS
  <2>5. g \in [SUBSET T -> Nat]
    <3>1. ASSUME NEW t \in SUBSET T
          PROVE  (IF a \in t THEN v[a] + h[t \ {a}] ELSE h[t]) \in Nat
      <4>1. h[t \ {a}] \in Nat /\ (a \notin t => h[t] \in Nat)
        BY <2>3, <2>4
      <4> QED BY <2>2, <4>1
    <3> QED BY <3>1
  <2>6. g[{}] = 0
    BY <2>1 DEF IsSum
  <2>7. ASSUME NEW t \in SUBSET T, NEW x \in t PROVE g[t] = v[x] + g[t \ {x}]
    <3>1. CASE x = a
      BY <3>1
    <3>2. CASE x # a /\ a \notin t
      <4>1. t \in SUBSET (T \ {a}) /\ h[t] = v[x] + h[t \ {x}]
        BY <2>1, <2>4, <3>2 DEF IsSum
      <4> QED BY <3>2, <4>1
    <3>3. CASE x # a /\ a \in t
      <4>1. t \ {a} \in SUBSET (T \ {a}) /\ x \in t \ {a} /\ (t \ {a}) \ {x} = (t \ {x}) \ {a}
        BY <3>3
      <4>2. h[t \ {a}] = v[x] + h[(t \ {x}) \ {a}]
        BY <2>1, <4>1 DEF IsSum
      <4>3. g[t] = v[a] + h[t \ {a}] /\ g[t \ {x}] = v[a] + h[(t \ {x}) \ {a}]
        BY <3>3
      <4>4. h[(t \ {x}) \ {a}] \in Nat /\ v[x] \in Nat
        BY <2>2, <2>3
      <4> QED BY <2>2, <4>2, <4>3, <4>4
    <3> QED BY <3>1, <3>2, <3>3
  <2> HIDE DEF g
  <2>8. IsSum(g, v, T)
    BY <2>5, <2>6, <2>7 DEF IsSum
  <2> QED BY <1>2, <2>8
<1> QED BY <1>3, <1>4

\* h adds the values up in some order.
IsFold(h, v, S) ==
  /\ h[{}] = 0
  /\ \A T \in SUBSET S : T # {} => \E x \in T : h[T] = v[x] + h[T \ {x}]

\* Whatever the order, that gives the sum.
LEMMA SumUnique ==
  ASSUME NEW S, IsFiniteSet(S), NEW v, NEW g, IsSum(g, v, S), NEW h, IsFold(h, v, S)
  PROVE  \A T \in SUBSET S : h[T] = g[T]
<1> DEFINE U == {T \in SUBSET S : h[T] # g[T]}
<1>1. SUFFICES ASSUME U # {} PROVE FALSE
  OBVIOUS
<1>2. PICK T \in U : \A x \in T : T \ {x} \notin U
  <2>1. U \in SUBSET (SUBSET S)
    OBVIOUS
  <2> HIDE DEF U
  <2> QED BY <1>1, <2>1, MinimalSet
<1>3. T # {}
  BY <1>2 DEF IsSum, IsFold
<1>4. PICK x \in T : h[T] = v[x] + h[T \ {x}]
  BY <1>2, <1>3 DEF IsFold
<1>5. h[T \ {x}] = g[T \ {x}] /\ g[T] = v[x] + g[T \ {x}]
  BY <1>2, <1>4 DEF IsSum
<1> QED BY <1>2, <1>4, <1>5

\* The total size of a list is the sum of the sizes of its items.
LEMMA TotalIs ==
  ASSUME NEW S, NEW s \in Seq(S), \A i \in DOMAIN s : s[i].size \in Nat,
         NEW g, IsSum(g, [i \in DOMAIN s |-> s[i].size], DOMAIN s)
  PROVE  Total(s) = g[DOMAIN s]
<1> DEFINE D == DOMAIN s
           v == [i \in D |-> s[i].size]
           Eq(h) == h = [t \in SUBSET D |->
                           IF t = {} THEN 0
                           ELSE LET x == CHOOSE x \in t : TRUE IN s[x].size + h[t \ {x}]]
           iter == CHOOSE h : Eq(h)
<1>1. Total(s) = iter[D]
  BY DEF Total, FoldSeq, FoldFunction, FoldFunctionOnSet, MapThenFoldSet
<1>2. IsFiniteSet(D) /\ IsSum(g, v, D)
  <2>1. D = 1 .. Len(s) /\ Len(s) \in Nat
    OBVIOUS
  <2> QED BY <2>1, FS_Interval
<1>3. Eq(g)
  <2> DEFINE e == [t \in SUBSET D |->
                     IF t = {} THEN 0
                     ELSE LET x == CHOOSE x \in t : TRUE IN s[x].size + g[t \ {x}]]
  <2>1. ASSUME NEW t \in SUBSET D PROVE g[t] = e[t]
    <3>1. CASE t = {}
      BY <1>2, <3>1 DEF IsSum
    <3>2. CASE t # {}
      <4> DEFINE x == CHOOSE x \in t : TRUE
      <4>1. x \in t
        BY <3>2
      <4>2. g[t] = v[x] + g[t \ {x}]
        BY <1>2, <4>1 DEF IsSum
      <4>3. v[x] = s[x].size
        BY <4>1
      <4> QED BY <3>2, <4>2, <4>3
    <3> QED BY <3>1, <3>2
  <2>2. DOMAIN g = SUBSET D
    BY <1>2 DEF IsSum
  <2>3. g = [t \in SUBSET D |-> g[t]]
    BY <1>2 DEF IsSum
  <2>4. e = [t \in SUBSET D |-> e[t]]
    OBVIOUS
  <2> HIDE DEF e
  <2>5. g = e
    BY <2>1, <2>3, <2>4
  <2> QED BY <2>5 DEF e
<1>4. Eq(iter)
  <2> HIDE DEF Eq
  <2> QED BY <1>3
<1> HIDE DEF iter
<1>5. iter[{}] = 0
  BY <1>4
<1>6. ASSUME NEW t \in SUBSET D, t # {} PROVE \E x \in t : iter[t] = v[x] + iter[t \ {x}]
  <2> DEFINE x == CHOOSE x \in t : TRUE
  <2>1. x \in t
    BY <1>6
  <2>2. iter[t] = s[x].size + iter[t \ {x}]
    BY <1>4, <1>6
  <2> QED BY <2>1, <2>2
<1> HIDE DEF v, D
<1>7. \A t \in SUBSET D : iter[t] = g[t]
  <2>1. IsFold(iter, v, D)
    BY <1>5, <1>6 DEF IsFold
  <2> QED BY <1>2, <2>1, SumUnique
<1> QED BY <1>1, <1>7 DEF D

\* The total size, item by item.
LEMMA TotalWithout ==
  ASSUME NEW S, NEW s \in Seq(S), \A i \in 1 .. Len(s) : s[i].size \in Nat,
         NEW r \in Seq(S), Len(s) = Len(r) + 1, NEW f \in 1 .. Len(s),
         \A i \in 1 .. Len(r) : r[i] = IF i < f THEN s[i] ELSE s[i + 1]
  PROVE  Total(s) = s[f].size + Total(r) /\ Total(r) \in Nat
<1> DEFINE D == DOMAIN s
           E == DOMAIN r
           v == [i \in D |-> s[i].size]
           w == [i \in E |-> r[i].size]
           h == [i \in E |-> IF i < f THEN i ELSE i + 1]
           Im(t) == {h[i] : i \in t}
<1>1. D = 1 .. Len(s) /\ E = 1 .. Len(r) /\ Len(s) \in Nat /\ Len(r) \in Nat
  OBVIOUS
<1>2. IsFiniteSet(D)
  BY <1>1, FS_Interval
<1>3. h \in [E -> D] /\ (\A i, j \in E : h[i] = h[j] => i = j) /\ Im(E) = D \ {f}
  <2>1. h \in [E -> D] /\ \A i, j \in E : h[i] = h[j] => i = j
    BY <1>1
  <2>2. \A i \in E : h[i] # f
    BY <1>1
  <2>3. ASSUME NEW j \in D \ {f} PROVE \E i \in E : h[i] = j
    <3>1. CASE j < f
      BY <1>1, <3>1
    <3>2. CASE j > f
      <4>1. j - 1 \in E /\ h[j - 1] = j
        BY <1>1, <3>2
      <4> QED BY <4>1
    <3> QED BY <1>1, <3>1, <3>2
  <2> QED BY <2>1, <2>2, <2>3
<1>4. \A i \in E : r[i] = s[h[i]] /\ r[i].size \in Nat
  BY <1>1
<1>5. v \in [D -> Nat] /\ \A i \in E : w[i] = v[h[i]]
  BY <1>1, <1>3, <1>4
<1> HIDE DEF h
<1>6. PICK g : IsSum(g, v, D)
  <2> HIDE DEF v
  <2> QED BY <1>2, <1>5, SumExists
<1>7. Total(s) = g[D]
  BY <1>1, <1>6, TotalIs
<1> DEFINE k == [t \in SUBSET E |-> g[Im(t)]]
<1>8. IsSum(k, w, E)
  <2>1. \A t \in SUBSET E : Im(t) \in SUBSET D
    BY <1>3
  <2>2. k \in [SUBSET E -> Nat]
    BY <1>6, <2>1 DEF IsSum
  <2>3. k[{}] = 0
    <3>1. Im({}) = {}
      OBVIOUS
    <3> QED BY <1>6, <3>1 DEF IsSum
  <2>4. ASSUME NEW t \in SUBSET E, NEW x \in t PROVE k[t] = w[x] + k[t \ {x}]
    <3>1. Im(t \ {x}) = Im(t) \ {h[x]} /\ h[x] \in Im(t)
      BY <1>3
    <3>2. g[Im(t)] = v[h[x]] + g[Im(t) \ {h[x]}]
      BY <1>6, <2>1, <3>1 DEF IsSum
    <3>3. w[x] = v[h[x]]
      BY <1>5
    <3> HIDE DEF w, v
    <3> QED BY <3>1, <3>2, <3>3
  <2> HIDE DEF k, w
  <2> QED BY <2>2, <2>3, <2>4 DEF IsSum
<1>9. Total(r) = k[E] /\ k[E] = g[D \ {f}]
  <2>1. Total(r) = k[E]
    <3> HIDE DEF k
    <3> QED BY <1>4, <1>8, TotalIs
  <2> QED BY <1>3, <2>1
<1>10. g[D] = v[f] + g[D \ {f}] /\ g[D \ {f}] \in Nat /\ v[f] = s[f].size
  BY <1>1, <1>6 DEF IsSum
<1> QED BY <1>7, <1>9, <1>10

LEMMA TotalType ==
  ASSUME NEW S, NEW s \in Seq(S), \A i \in 1 .. Len(s) : s[i].size \in Nat
  PROVE  Total(s) \in Nat
<1> DEFINE D == DOMAIN s
           v == [i \in D |-> s[i].size]
<1>1. D = 1 .. Len(s) /\ Len(s) \in Nat /\ v \in [D -> Nat]
  OBVIOUS
<1>2. IsFiniteSet(D)
  BY <1>1, FS_Interval
<1>3. PICK g : IsSum(g, v, D)
  <2> HIDE DEF v
  <2> QED BY <1>1, <1>2, SumExists
<1>4. Total(s) = g[D]
  BY <1>1, <1>3, TotalIs
<1> QED BY <1>3, <1>4 DEF IsSum

\* A list that leaves room is kept as it is.
LEMMA TrimAll ==
  ASSUME NEW S, NEW s \in Seq(S), NEW n, Total(s) + n <= MaxSize
  PROVE  Trim(s, n) = s
<1> DEFINE fits == {i \in 0 .. Len(s) : Total(SubSeq(s, 1, i)) + n <= MaxSize}
           top == CHOOSE i \in fits : \A j \in fits : j <= i
<1>1. Len(s) \in Nat /\ SubSeq(s, 1, Len(s)) = s
  OBVIOUS
<1>2. Len(s) \in fits /\ \A j \in fits : j \in Int /\ j <= Len(s)
  <2>1. Total(SubSeq(s, 1, Len(s))) + n <= MaxSize
    BY <1>1, Zenon
  <2>2. Len(s) \in 0 .. Len(s)
    BY <1>1
  <2>3. \A j \in 0 .. Len(s) : j \in Int /\ j <= Len(s)
    BY <1>1
  <2> QED BY <2>1, <2>2, <2>3
<1>3. top \in fits /\ Len(s) <= top
  <2> HIDE DEF fits
  <2> QED BY <1>2
<1>4. top = Len(s)
  BY <1>1, <1>2, <1>3
<1> QED BY <1>1, <1>4 DEF Trim

\* One that does not is kept as it is without its last item.
LEMMA TrimLast ==
  ASSUME NEW S, NEW s \in Seq(S), NEW n \in Int, n <= MaxSize, MaxSize \in Int,
         NEW r \in Seq(S), Len(s) = Len(r) + 1, \A i \in 1 .. Len(r) : r[i] = s[i],
         ~(Total(s) + n <= MaxSize)
  PROVE  Trim(s, n) = Trim(r, n)
<1> DEFINE fits(q) == {i \in 0 .. Len(q) : Total(SubSeq(q, 1, i)) + n <= MaxSize}
           top == CHOOSE i \in fits(r) : \A j \in fits(r) : j <= i
<1>1. Len(r) \in Nat /\ Len(s) \in Nat /\ SubSeq(s, 1, Len(s)) = s
  OBVIOUS
<1>2. ASSUME NEW i \in 0 .. Len(r) PROVE SubSeq(s, 1, i) = SubSeq(r, 1, i)
  BY <1>1
<1>3. fits(s) = fits(r)
  <2>1. Len(s) \notin fits(s)
    BY <1>1
  <2>2. \A i \in 0 .. Len(s) : i = Len(s) \/ i \in 0 .. Len(r)
    BY <1>1
  <2>3. 0 .. Len(r) \subseteq 0 .. Len(s)
    BY <1>1
  <2> QED BY <1>2, <2>1, <2>2, <2>3
<1>4. top \in 0 .. Len(r)
  <2>1. 0 \in fits(r)
    <3>1. SubSeq(r, 1, 0) = <<>>
      OBVIOUS
    <3>2. Total(SubSeq(r, 1, 0)) = 0
      BY <3>1, TotalEmpty
    <3> QED BY <3>2, <1>1
  <2>2. fits(r) \in SUBSET (0 .. Len(r))
    OBVIOUS
  <2>3. \E m \in fits(r) : \A i \in fits(r) : i <= m
    <3> HIDE DEF fits
    <3> QED BY <1>1, <2>1, <2>2, Largest
  <2>4. top \in fits(r)
    <3> HIDE DEF fits
    <3> QED BY <2>3
  <2> QED BY <2>2, <2>4
<1>5. Trim(s, n) = SubSeq(s, 1, top) /\ Trim(r, n) = SubSeq(r, 1, top)
  BY <1>3 DEF Trim
<1> QED BY <1>2, <1>4, <1>5

----------------------------------------------------------------------------
(* The inductive invariant *)

\* The address at position i of a list, between the sentinels.
At(c, i) == IF i = 0 THEN HeadNode ELSE IF i = Len(c) + 1 THEN TailNode ELSE c[i]

Once(c) == \A i, j \in 1 .. Len(c) : c[i] = c[j] => i = j

Links(nx, pv, c) ==
  \A i \in 0 .. Len(c) : nx[At(c, i)] = At(c, i + 1) /\ pv[At(c, i + 1)] = At(c, i)

\* The links are a list from head to tail, forwards and backwards.
ListOK == Chain \in Seq(Nodes) /\ Once(Chain) /\ Links(next, prev, Chain)

\* One worker at a time is between P and V.
Within == {"get_scan", "get_front", "get_unlock", "put_evict", "put_unlock"}

MutexOK ==
  /\ \A t, u \in Threads : pc[t] \in Within /\ pc[u] \in Within => t = u
  /\ \A t \in Threads : pc[t] \in Within => mutex = 0

\* What is malloc'ed is linked or some worker's own, and has a key and a size.
HeapOK ==
  /\ heap = Linked \cup {item[t] : t \in Unlinked}
  /\ \A t \in Unlinked : item[t] \in Nodes /\ item[t] \notin Linked
  /\ \A t, u \in Unlinked : item[t] = item[u] => t = u
  /\ \A a \in heap : key[a] \in Keys /\ size[a] \in Sizes

\* What a worker knows: the items it has scanned do not have its key.
CallOK(t) ==
  /\ pc[t] # "idle" => arg[t] \in Keys
  /\ t \in Unlinked => key[item[t]] = arg[t]
  /\ pc[t] = "get_scan" =>
       /\ answer[t] = None
       /\ \E i \in 1 .. Len(Chain) + 1 :
            item[t] = At(Chain, i) /\ \A j \in 1 .. i - 1 : key[Chain[j]] # arg[t]
  /\ pc[t] = "get_front" => answer[t] = item[t]

CallsOK == \A t \in Threads : CallOK(t)

SizeOK ==
  /\ \A t \in Threads : pc[t] = "get_front" => lsize = Total(AbstractChain) + size[item[t]]
  /\ (\A t \in Threads : pc[t] # "get_front") => lsize = Total(AbstractChain)

\* The workers that have not found a key, and will fetch its response, count
\* before they give the mutex back.
Copies(k) == {a \in heap : key[a] = k}
Waiting(k) == {t \in Threads : /\ arg[t] = k
                               /\ pc[t] = "missed" \/ (pc[t] = "get_unlock" /\ answer[t] = None)}

CopiesOK ==
  \A k \in Keys : Cardinality(Copies(k)) + Cardinality(Waiting(k)) <= Cardinality(Threads)

IInv ==
  TypeOK /\ ListOK /\ MutexOK /\ HeapOK /\ CallsOK /\ SizeOK /\ CopiesOK

----------------------------------------------------------------------------
(* Lists and links *)

\* A list of different addresses is not longer than there are addresses.
LEMMA LenBound ==
  ASSUME NEW c \in Seq(Nodes), Once(c)
  PROVE  /\ Len(c) \in Nat /\ Cardinality(Nodes) \in Nat /\ Len(c) <= Cardinality(Nodes)
         /\ IsFiniteSet(Range(c)) /\ Cardinality(Range(c)) = Len(c)
         /\ Cardinality(1 .. Len(c)) = Len(c)
<1>1. /\ Len(c) \in Nat /\ DOMAIN c = 1 .. Len(c) /\ c \in [1 .. Len(c) -> Nodes]
      /\ IsFiniteSet(Nodes)
  BY LruAssumption
<1>2. IsFiniteSet(1 .. Len(c)) /\ Cardinality(1 .. Len(c)) = Len(c)
  BY <1>1, FS_Interval
<1>3. c \in Injection(1 .. Len(c), Nodes)
  BY <1>1 DEF Once, Injection, IsInjective
<1>4. Len(c) <= Cardinality(Nodes) /\ Cardinality(Nodes) \in Nat
  BY <1>1, <1>2, <1>3, FS_Injection, FS_CardinalityType
<1>5. c \in Bijection(1 .. Len(c), Range(c))
  BY <1>1 DEF Once, Range, Injection, IsInjective, Surjection, Bijection
<1>6. ExistsBijection(1 .. Len(c), Range(c))
  BY <1>5 DEF ExistsBijection
<1> QED BY <1>1, <1>2, <1>4, <1>6, FS_Bijection

\* The addresses between and with the sentinels are different, and what is at
\* them is what the list has.
LEMMA Ats ==
  ASSUME NEW c \in Seq(Nodes), Once(c)
  PROVE  /\ Len(c) \in Nat
         /\ At(c, 0) = HeadNode /\ At(c, Len(c) + 1) = TailNode
         /\ \A i \in 1 .. Len(c) : At(c, i) = c[i] /\ c[i] \in Nodes
         /\ \A i \in 0 .. Len(c) + 1 : At(c, i) \in Addresses
         /\ \A i, j \in 0 .. Len(c) + 1 : At(c, i) = At(c, j) => i = j
<1>1. Len(c) \in Nat /\ \A i \in 1 .. Len(c) : c[i] \in Nodes
  OBVIOUS
<1>2. HeadNode \notin Nodes /\ TailNode \notin Nodes /\ HeadNode # TailNode
  BY LruAssumption
<1>3. At(c, 0) = HeadNode /\ At(c, Len(c) + 1) = TailNode
  BY <1>1 DEF At
<1>4. \A i \in 1 .. Len(c) : At(c, i) = c[i]
  BY <1>1 DEF At
<1>5. \A i \in 0 .. Len(c) + 1 : i = 0 \/ i = Len(c) + 1 \/ i \in 1 .. Len(c)
  BY <1>1
<1>6. \A i \in 0 .. Len(c) + 1 : At(c, i) \in Addresses
  BY <1>1, <1>3, <1>4, <1>5 DEF Addresses
<1>7. \A i, j \in 0 .. Len(c) + 1 : At(c, i) = At(c, j) => i = j
  BY <1>1, <1>2, <1>3, <1>4, <1>5 DEF Once
<1> QED BY <1>1, <1>3, <1>4, <1>6, <1>7

\* Following the links goes through the list, and then stays at its end.
LEMMA FollowIs ==
  ASSUME NEW c \in Seq(Nodes), Once(c), NEW nx,
         \A i \in 0 .. Len(c) : nx[At(c, i)] = At(c, i + 1)
  PROVE  \A i \in 0 .. Cardinality(Nodes) + 1 :
           Follow(nx)[i] = IF i <= Len(c) THEN At(c, i) ELSE TailNode
<1> DEFINE N == Cardinality(Nodes) + 1
           Eq(f) == f = [i \in 0 .. N |->
                           IF i = 0 THEN HeadNode
                           ELSE IF f[i-1] \in {TailNode, Null} THEN f[i-1] ELSE nx[f[i-1]]]
           at == CHOOSE f : Eq(f)
           w == [i \in 0 .. N |-> IF i <= Len(c) THEN At(c, i) ELSE TailNode]
<1>1. Follow(nx) = at
  BY DEF Follow
<1>2. Len(c) \in Nat /\ N \in Nat /\ Len(c) + 1 <= N
  BY LenBound
<1>3. \A i \in 0 .. Len(c) : At(c, i) \notin {TailNode, Null} /\ nx[At(c, i)] = At(c, i + 1)
  <2>1. \A i \in 0 .. Len(c) : At(c, i) = HeadNode \/ At(c, i) \in Nodes
    BY <1>2 DEF At
  <2> QED BY <2>1, LruAssumption
<1>4. ASSUME NEW i \in 0 .. N
      PROVE  w[i] = IF i = 0 THEN HeadNode
                    ELSE IF w[i-1] \in {TailNode, Null} THEN w[i-1] ELSE nx[w[i-1]]
  <2>1. CASE i = 0
    BY <1>2, <2>1, Ats
  <2>2. CASE i # 0 /\ i - 1 <= Len(c)
    <3>1. i - 1 \in 0 .. Len(c) /\ i - 1 \in 0 .. N /\ (i - 1) + 1 = i
      BY <1>2, <2>2
    <3>2. w[i-1] = At(c, i - 1) /\ nx[At(c, i - 1)] = At(c, i)
      BY <1>3, <3>1
    <3>3. w[i] = At(c, i)
      BY <1>2, <2>2, <3>1, Ats
    <3> QED BY <1>3, <2>2, <3>1, <3>2, <3>3
  <2>3. CASE i # 0 /\ ~(i - 1 <= Len(c))
    BY <1>2, <2>3
  <2> QED BY <2>1, <2>2, <2>3
<1>5. Eq(w)
  <2> DEFINE v == [i \in 0 .. N |->
                     IF i = 0 THEN HeadNode
                     ELSE IF w[i-1] \in {TailNode, Null} THEN w[i-1] ELSE nx[w[i-1]]]
  <2>1. w = [i \in 0 .. N |-> w[i]]
    OBVIOUS
  <2> HIDE DEF w
  <2> QED BY <1>4, <2>1
<1>6. Eq(at)
  <2> HIDE DEF Eq
  <2> QED BY <1>5
<1> DEFINE U == {i \in 0 .. N : at[i] # w[i]}
<1> HIDE DEF at, w
<1>7. ASSUME U # {} PROVE FALSE
  <2>1. U \in SUBSET Nat
    BY <1>2
  <2>2. PICK i \in U : \A j \in U : i <= j
    <3> HIDE DEF U
    <3> QED BY <1>7, <2>1, Least
  <2>3. i # 0
    BY <1>4, <1>6, <2>2
  <2>4. i - 1 \in 0 .. N /\ i - 1 \notin U
    BY <1>2, <2>2, <2>3
  <2>5. at[i-1] = w[i-1]
    BY <2>4
  <2> QED BY <1>4, <1>6, <2>2, <2>3, <2>5
<1>8. \A i \in 0 .. N : at[i] = w[i]
  BY <1>7
<1> QED BY <1>1, <1>8 DEF w

LEMMA ChainIs ==
  ASSUME NEW c \in Seq(Nodes), Once(c), NEW nx,
         \A i \in 0 .. Len(c) : nx[At(c, i)] = At(c, i + 1)
  PROVE  ChainOf(nx) = c
<1> DEFINE N == Cardinality(Nodes)
           at == Follow(nx)
           len == Cardinality({i \in 1 .. N : at[i] \in Nodes})
<1>1. Len(c) \in Nat /\ N \in Nat /\ Len(c) <= N /\ DOMAIN c = 1 .. Len(c)
  BY LenBound
<1>2. \A i \in 0 .. N + 1 : at[i] = IF i <= Len(c) THEN At(c, i) ELSE TailNode
  BY FollowIs
<1>3. \A i \in 1 .. Len(c) : at[i] = c[i] /\ c[i] \in Nodes
  BY <1>1, <1>2, Ats
<1>4. \A i \in 1 .. N : ~(i <= Len(c)) => at[i] = TailNode
  BY <1>1, <1>2
<1> HIDE DEF at
<1>5. {i \in 1 .. N : at[i] \in Nodes} = 1 .. Len(c)
  <2>1. TailNode \notin Nodes
    BY LruAssumption
  <2> QED BY <1>1, <1>3, <1>4, <2>1
<1>6. len = Len(c)
  <2>1. Cardinality(1 .. Len(c)) = Len(c)
    BY LenBound
  <2> QED BY <1>5, <2>1
<1>7. ChainOf(nx) = [i \in 1 .. len |-> at[i]]
  BY DEF ChainOf, at
<1>8. c = [i \in 1 .. Len(c) |-> c[i]]
  BY <1>1
<1> HIDE DEF len
<1> QED BY <1>3, <1>6, <1>7, <1>8


\* What remove_item does to the links, and what the links are a list of then.
UnlinkedAt(nx, pv, nx2, pv2, c, f) ==
  /\ nx2[At(c, f - 1)] = At(c, f + 1)
  /\ \A a \in Addresses : a # At(c, f - 1) /\ a # c[f] => nx2[a] = nx[a]
  /\ pv2[At(c, f + 1)] = At(c, f - 1)
  /\ \A a \in Addresses : a # At(c, f + 1) /\ a # c[f] => pv2[a] = pv[a]

LEMMA UnlinkKeeps ==
  ASSUME NEW c \in Seq(Nodes), Once(c), NEW nx, NEW pv, Links(nx, pv, c),
         NEW f \in 1 .. Len(c), NEW nx2, NEW pv2, UnlinkedAt(nx, pv, nx2, pv2, c, f)
  PROVE  /\ RemoveAt(c, f) \in Seq(Nodes) /\ Once(RemoveAt(c, f))
         /\ Links(nx2, pv2, RemoveAt(c, f))
         /\ Range(RemoveAt(c, f)) = Range(c) \ {c[f]}
<1> DEFINE r == RemoveAt(c, f)
<1>1. /\ r \in Seq(Nodes) /\ Len(c) = Len(r) + 1
      /\ \A i \in 1 .. Len(r) : r[i] = IF i < f THEN c[i] ELSE c[i + 1]
  BY RemoveIs
<1> HIDE DEF r
<1>2. Len(c) \in Nat /\ Len(r) \in Nat /\ DOMAIN c = 1 .. Len(c) /\ DOMAIN r = 1 .. Len(r)
  BY <1>1
<1>3. \A i \in 0 .. Len(r) + 1 : At(r, i) = IF i < f THEN At(c, i) ELSE At(c, i + 1)
  <2> TAKE i \in 0 .. Len(r) + 1
  <2>1. CASE i = 0
    BY <1>2, <2>1 DEF At
  <2>2. CASE i = Len(r) + 1
    BY <1>1, <1>2, <2>2 DEF At
  <2>3. CASE i \in 1 .. Len(r)
    BY <1>1, <1>2, <2>3 DEF At
  <2> QED BY <1>2, <2>1, <2>2, <2>3
<1>4. /\ c[f] = At(c, f)
      /\ \A i \in 0 .. Len(c) + 1 : At(c, i) \in Addresses
      /\ \A i, j \in 0 .. Len(c) + 1 : At(c, i) = At(c, j) => i = j
  BY Ats
<1>5. Once(r)
  BY <1>1, <1>2 DEF Once
<1>6. Range(r) = Range(c) \ {c[f]}
  <2>1. \A i \in 1 .. Len(r) : r[i] \in Range(c) /\ r[i] # c[f]
    BY <1>1, <1>2 DEF Range, Once
  <2>2. ASSUME NEW j \in 1 .. Len(c), j # f PROVE c[j] \in Range(r)
    <3>1. CASE j < f
      <4>1. j \in 1 .. Len(r) /\ r[j] = c[j]
        BY <1>1, <1>2, <3>1
      <4> QED BY <1>2, <4>1 DEF Range
    <3>2. CASE j > f
      <4>1. j - 1 \in 1 .. Len(r) /\ r[j - 1] = c[j]
        BY <1>1, <1>2, <3>2
      <4> QED BY <1>2, <4>1 DEF Range
    <3> QED BY <1>2, <2>2, <3>1, <3>2
  <2> QED BY <1>2, <2>1, <2>2 DEF Range
<1>7. ASSUME NEW i \in 0 .. Len(r)
      PROVE  nx2[At(r, i)] = At(r, i + 1) /\ pv2[At(r, i + 1)] = At(r, i)
  <2>1. CASE i = f - 1
    <3>1. At(r, i) = At(c, f - 1) /\ At(r, i + 1) = At(c, f + 1)
      BY <1>2, <1>3, <2>1
    <3> QED BY <3>1 DEF UnlinkedAt
  <2>2. CASE i # f - 1
    <3> DEFINE k == IF i < f THEN i ELSE i + 1
    <3>1. /\ k \in 0 .. Len(c) /\ k \in 0 .. Len(c) + 1 /\ k + 1 \in 0 .. Len(c) + 1
          /\ k # f - 1 /\ k # f /\ k + 1 # f /\ k + 1 # f + 1
          /\ f - 1 \in 0 .. Len(c) + 1 /\ f + 1 \in 0 .. Len(c) + 1 /\ f \in 0 .. Len(c) + 1
      BY <1>1, <1>2, <2>2
    <3>2. At(r, i) = At(c, k) /\ At(r, i + 1) = At(c, k + 1)
      BY <1>2, <1>3, <2>2
    <3> HIDE DEF k
    <3>3. nx[At(c, k)] = At(c, k + 1) /\ pv[At(c, k + 1)] = At(c, k)
      BY <3>1 DEF Links
    <3>4. At(c, k) # At(c, f - 1) /\ At(c, k) # c[f] /\ At(c, k) \in Addresses
      BY <1>4, <3>1
    <3>5. At(c, k + 1) # At(c, f + 1) /\ At(c, k + 1) # c[f] /\ At(c, k + 1) \in Addresses
      BY <1>4, <3>1
    <3> QED BY <3>2, <3>3, <3>4, <3>5 DEF UnlinkedAt
  <2> QED BY <2>1, <2>2
<1>8. Links(nx2, pv2, r)
  BY <1>7 DEF Links
<1> QED BY <1>1, <1>5, <1>6, <1>8 DEF r

\* What move_item_front does to them.
LinkedFront(nx, pv, nx2, pv2, c, a) ==
  /\ nx2[HeadNode] = a /\ nx2[a] = At(c, 1)
  /\ \A b \in Addresses : b # HeadNode /\ b # a => nx2[b] = nx[b]
  /\ pv2[At(c, 1)] = a /\ pv2[a] = HeadNode
  /\ \A b \in Addresses : b # At(c, 1) /\ b # a => pv2[b] = pv[b]

LEMMA FrontKeeps ==
  ASSUME NEW c \in Seq(Nodes), Once(c), NEW nx, NEW pv, Links(nx, pv, c),
         NEW a \in Nodes, a \notin Range(c), NEW nx2, NEW pv2,
         LinkedFront(nx, pv, nx2, pv2, c, a)
  PROVE  /\ <<a>> \o c \in Seq(Nodes) /\ Once(<<a>> \o c)
         /\ Links(nx2, pv2, <<a>> \o c)
         /\ Range(<<a>> \o c) = Range(c) \cup {a}
<1> DEFINE d == <<a>> \o c
<1>1. /\ d \in Seq(Nodes) /\ Len(d) = Len(c) + 1 /\ d[1] = a
      /\ \A i \in 2 .. Len(d) : d[i] = c[i - 1]
      /\ \A i \in 1 .. Len(c) : d[i + 1] = c[i]
  OBVIOUS
<1> HIDE DEF d
<1>2. Len(c) \in Nat /\ DOMAIN c = 1 .. Len(c) /\ DOMAIN d = 1 .. Len(d)
  BY <1>1
<1>3. \A i \in 1 .. Len(c) : c[i] # a
  BY <1>2 DEF Range
<1>4. /\ At(d, 0) = HeadNode /\ At(d, 1) = a
      /\ \A i \in 2 .. Len(d) + 1 : At(d, i) = At(c, i - 1)
  BY <1>1, <1>2 DEF At
<1>5. /\ At(c, 0) = HeadNode
      /\ \A i \in 0 .. Len(c) + 1 : At(c, i) \in Addresses
      /\ \A i, j \in 0 .. Len(c) + 1 : At(c, i) = At(c, j) => i = j
      /\ \A i \in 1 .. Len(c) : At(c, i) = c[i]
      /\ At(c, Len(c) + 1) = TailNode
  BY Ats
<1>6. \A i \in 0 .. Len(c) + 1 : At(c, i) # a
  BY <1>2, <1>3, <1>5, LruAssumption
<1>7. Once(d)
  <2> SUFFICES ASSUME NEW i \in 1 .. Len(d), NEW j \in 1 .. Len(d), d[i] = d[j]
               PROVE  i = j
    BY DEF Once
  <2>1. CASE i = 1 \/ j = 1
    BY <1>1, <1>2, <1>3, <2>1
  <2>2. CASE i # 1 /\ j # 1
    <3>1. /\ i - 1 \in 1 .. Len(c) /\ j - 1 \in 1 .. Len(c)
          /\ c[i - 1] = c[j - 1]
      BY <1>1, <1>2, <2>2
    <3>2. i - 1 = j - 1
      BY <3>1 DEF Once
    <3> QED BY <3>2
  <2> QED BY <2>1, <2>2
<1>8. Range(d) = Range(c) \cup {a}
  <2>1. \A i \in 1 .. Len(d) : i = 1 \/ i - 1 \in 1 .. Len(c)
    BY <1>1, <1>2
  <2>2. ASSUME NEW i \in 1 .. Len(d) PROVE d[i] \in Range(c) \cup {a}
    <3>1. CASE i = 1
      BY <1>1, <3>1
    <3>2. CASE i # 1
      <4>1. i \in 2 .. Len(d) /\ i - 1 \in DOMAIN c
        BY <1>1, <1>2, <2>1, <3>2
      <4>2. d[i] = c[i - 1]
        BY <1>1, <4>1
      <4> QED BY <4>1, <4>2 DEF Range
    <3> QED BY <3>1, <3>2
  <2>3. 1 \in DOMAIN d /\ \A i \in 1 .. Len(c) : i + 1 \in DOMAIN d
    BY <1>1, <1>2
  <2>4. a \in Range(d) /\ \A i \in 1 .. Len(c) : c[i] \in Range(d)
    <3>1. a \in Range(d)
      BY <1>1, <2>3 DEF Range
    <3>2. \A i \in 1 .. Len(c) : c[i] \in Range(d)
      BY <1>1, <2>3 DEF Range
    <3> QED BY <3>1, <3>2
  <2> QED BY <1>2, <2>2, <2>4 DEF Range
<1>9. ASSUME NEW i \in 0 .. Len(d)
      PROVE  nx2[At(d, i)] = At(d, i + 1) /\ pv2[At(d, i + 1)] = At(d, i)
  <2>1. CASE i = 0
    BY <1>4, <2>1 DEF LinkedFront
  <2>2. CASE i = 1
    <3>1. At(d, 2) = At(c, 1)
      BY <1>1, <1>2, <1>4
    <3> QED BY <1>4, <2>2, <3>1 DEF LinkedFront
  <2>3. CASE i > 1
    <3>1. /\ At(d, i) = At(c, i - 1) /\ At(d, i + 1) = At(c, i) /\ (i - 1) + 1 = i
          /\ i - 1 \in 0 .. Len(c) /\ i \in 0 .. Len(c) + 1 /\ i - 1 \in 0 .. Len(c) + 1
          /\ i - 1 # 0 /\ i # 1 /\ 0 \in 0 .. Len(c) + 1 /\ 1 \in 0 .. Len(c) + 1
      <4>1. i \in 2 .. Len(d) + 1 /\ i + 1 \in 2 .. Len(d) + 1 /\ (i + 1) - 1 = i
        BY <1>1, <1>2, <2>3
      <4>2. At(d, i) = At(c, i - 1) /\ At(d, i + 1) = At(c, i)
        BY <1>4, <4>1
      <4> QED BY <1>1, <1>2, <2>3, <4>2
    <3>2. nx[At(c, i - 1)] = At(c, i) /\ pv[At(c, i)] = At(c, i - 1)
      BY <3>1 DEF Links
    <3>3. At(c, i - 1) # HeadNode /\ At(c, i - 1) # a /\ At(c, i - 1) \in Addresses
      BY <1>5, <1>6, <3>1
    <3>4. At(c, i) # At(c, 1) /\ At(c, i) # a /\ At(c, i) \in Addresses
      BY <1>5, <1>6, <3>1
    <3> QED BY <3>1, <3>2, <3>3, <3>4 DEF LinkedFront
  <2> QED BY <1>1, <1>2, <2>1, <2>2, <2>3
<1>10. Links(nx2, pv2, d)
  BY <1>9 DEF Links
<1> QED BY <1>1, <1>7, <1>8, <1>10 DEF d

----------------------------------------------------------------------------
(* The items of a list of addresses *)

Items == [key : Keys \cup {Null}, resp : Nodes, size : Sizes \cup {0}]

ItemsOf(c, ky, sz) ==
  [i \in DOMAIN c |-> [key |-> ky[c[i]], resp |-> c[i], size |-> sz[c[i]]]]

LEMMA SizesAre ==
  MaxSize \in Nat /\ \A n \in Sizes : n \in Nat /\ 1 <= n /\ n <= MaxSize
BY LruAssumption

LEMMA ItemsAre ==
  ASSUME NEW c \in Seq(Nodes), NEW ky \in [Nodes -> Keys \cup {Null}],
         NEW sz \in [Nodes -> Sizes \cup {0}]
  PROVE  /\ ItemsOf(c, ky, sz) \in Seq(Items)
         /\ Len(ItemsOf(c, ky, sz)) = Len(c)
         /\ \A i \in 1 .. Len(c) :
              /\ ItemsOf(c, ky, sz)[i] = [key |-> ky[c[i]], resp |-> c[i], size |-> sz[c[i]]]
              /\ ItemsOf(c, ky, sz)[i].size \in Nat
<1>1. Len(c) \in Nat /\ DOMAIN c = 1 .. Len(c) /\ \A i \in 1 .. Len(c) : c[i] \in Nodes
  OBVIOUS
<1>2. \A a \in Nodes : sz[a] \in Nat
  BY SizesAre
<1>3. \A i \in 1 .. Len(c) : [key |-> ky[c[i]], resp |-> c[i], size |-> sz[c[i]]] \in Items
  BY <1>1 DEF Items
<1>4. ItemsOf(c, ky, sz) =
        [i \in 1 .. Len(c) |-> [key |-> ky[c[i]], resp |-> c[i], size |-> sz[c[i]]]]
  BY <1>1 DEF ItemsOf
<1> QED BY <1>1, <1>2, <1>3, <1>4

LEMMA ItemsSame ==
  ASSUME NEW c \in Seq(Nodes), NEW ky, NEW sz, NEW ky2, NEW sz2,
         \A a \in Range(c) : ky2[a] = ky[a] /\ sz2[a] = sz[a]
  PROVE  ItemsOf(c, ky2, sz2) = ItemsOf(c, ky, sz)
<1>1. \A i \in DOMAIN c : ky2[c[i]] = ky[c[i]] /\ sz2[c[i]] = sz[c[i]]
  BY DEF Range
<1> QED BY <1>1 DEF ItemsOf

LEMMA ItemsWithout ==
  ASSUME NEW c \in Seq(Nodes), Once(c), NEW f \in 1 .. Len(c),
         NEW ky \in [Nodes -> Keys \cup {Null}], NEW sz \in [Nodes -> Sizes \cup {0}],
         NEW ky2 \in [Nodes -> Keys \cup {Null}], NEW sz2 \in [Nodes -> Sizes \cup {0}],
         \A a \in Nodes : a # c[f] => ky2[a] = ky[a] /\ sz2[a] = sz[a]
  PROVE  /\ ItemsOf(RemoveAt(c, f), ky2, sz2) = RemoveAt(ItemsOf(c, ky, sz), f)
         /\ Total(ItemsOf(c, ky, sz)) =
              sz[c[f]] + Total(ItemsOf(RemoveAt(c, f), ky2, sz2))
         /\ Total(ItemsOf(RemoveAt(c, f), ky2, sz2)) \in Nat
<1> DEFINE r == RemoveAt(c, f)
           s == ItemsOf(c, ky, sz)
           q == ItemsOf(r, ky2, sz2)
           p == RemoveAt(s, f)
<1>1. /\ r \in Seq(Nodes) /\ Len(c) = Len(r) + 1
      /\ \A i \in 1 .. Len(r) : r[i] = IF i < f THEN c[i] ELSE c[i + 1]
  BY RemoveIs
<1> HIDE DEF r
<1>2. /\ s \in Seq(Items) /\ Len(s) = Len(c)
      /\ \A i \in 1 .. Len(c) :
           /\ s[i] = [key |-> ky[c[i]], resp |-> c[i], size |-> sz[c[i]]]
           /\ s[i].size \in Nat
  BY ItemsAre
<1>3. /\ q \in Seq(Items) /\ Len(q) = Len(r)
      /\ \A i \in 1 .. Len(r) : q[i] = [key |-> ky2[r[i]], resp |-> r[i], size |-> sz2[r[i]]]
  BY <1>1, ItemsAre
<1> HIDE DEF s, q
<1>4. /\ p \in Seq(Items) /\ Len(s) = Len(p) + 1
      /\ \A i \in 1 .. Len(p) : p[i] = IF i < f THEN s[i] ELSE s[i + 1]
  BY <1>2, RemoveIs
<1> HIDE DEF p
<1>5. Len(p) = Len(q) /\ Len(p) \in Nat /\ Len(c) \in Nat /\ Len(r) \in Nat
  BY <1>1, <1>2, <1>3, <1>4
<1>6. ASSUME NEW i \in 1 .. Len(q) PROVE q[i] = p[i]
  <2> DEFINE j == IF i < f THEN i ELSE i + 1
  <2>1. j \in 1 .. Len(c) /\ j # f /\ r[i] = c[j] /\ p[i] = s[j] /\ i \in 1 .. Len(r)
    BY <1>1, <1>2, <1>3, <1>4, <1>5
  <2> HIDE DEF j
  <2>2. c[j] \in Nodes /\ c[j] # c[f]
    BY <2>1 DEF Once
  <2>3. q[i] = [key |-> ky2[r[i]], resp |-> r[i], size |-> sz2[r[i]]]
    BY <1>3, <2>1
  <2>4. s[j] = [key |-> ky[c[j]], resp |-> c[j], size |-> sz[c[j]]]
    BY <1>2, <2>1
  <2> QED BY <2>1, <2>2, <2>3, <2>4
<1>7. q = p
  BY <1>3, <1>4, <1>5, <1>6
<1>8. Total(s) = s[f].size + Total(p) /\ Total(p) \in Nat
  BY <1>2, <1>4, TotalWithout
<1>9. s[f].size = sz[c[f]]
  <2>1. s[f] = [key |-> ky[c[f]], resp |-> c[f], size |-> sz[c[f]]]
    BY <1>2
  <2> QED BY <2>1
<1> QED BY <1>7, <1>8, <1>9 DEF p, q, r, s

LEMMA ItemsFront ==
  ASSUME NEW c \in Seq(Nodes), NEW a \in Nodes,
         NEW ky \in [Nodes -> Keys \cup {Null}], NEW sz \in [Nodes -> Sizes \cup {0}]
  PROVE  /\ ItemsOf(<<a>> \o c, ky, sz) =
              <<[key |-> ky[a], resp |-> a, size |-> sz[a]]>> \o ItemsOf(c, ky, sz)
         /\ Total(ItemsOf(<<a>> \o c, ky, sz)) = sz[a] + Total(ItemsOf(c, ky, sz))
<1> DEFINE d == <<a>> \o c
           s == ItemsOf(c, ky, sz)
           it == [key |-> ky[a], resp |-> a, size |-> sz[a]]
           q == ItemsOf(d, ky, sz)
           p == <<it>> \o s
<1>1. /\ d \in Seq(Nodes) /\ Len(d) = Len(c) + 1 /\ d[1] = a
      /\ \A i \in 1 .. Len(c) : d[i + 1] = c[i]
      /\ Len(c) \in Nat
  OBVIOUS
<1> HIDE DEF d
<1>2. /\ s \in Seq(Items) /\ Len(s) = Len(c)
      /\ \A i \in 1 .. Len(c) : s[i] = [key |-> ky[c[i]], resp |-> c[i], size |-> sz[c[i]]]
  BY ItemsAre
<1>3. /\ q \in Seq(Items) /\ Len(q) = Len(d)
      /\ \A i \in 1 .. Len(d) :
           /\ q[i] = [key |-> ky[d[i]], resp |-> d[i], size |-> sz[d[i]]]
           /\ q[i].size \in Nat
  BY <1>1, ItemsAre
<1>4. it \in Items
  BY DEF Items
<1> HIDE DEF s, q, it
<1>5. /\ p \in Seq(Items) /\ Len(p) = Len(s) + 1 /\ p[1] = it
      /\ \A i \in 1 .. Len(s) : p[i + 1] = s[i]
  BY <1>2, <1>4
<1> HIDE DEF p
<1>6. ASSUME NEW i \in 1 .. Len(q) PROVE q[i] = p[i]
  <2>1. CASE i = 1
    BY <1>1, <1>3, <1>5, <2>1 DEF it
  <2>2. CASE i # 1
    <3>1. /\ i - 1 \in 1 .. Len(c) /\ i - 1 \in 1 .. Len(s) /\ (i - 1) + 1 = i
          /\ i \in 1 .. Len(d)
      BY <1>1, <1>2, <1>3, <2>2
    <3>2. d[i] = c[i - 1] /\ p[i] = s[i - 1]
      BY <1>1, <1>5, <3>1
    <3> QED BY <1>2, <1>3, <3>1, <3>2
  <2> QED BY <2>1, <2>2
<1>7. q = p
  BY <1>1, <1>2, <1>3, <1>5, <1>6
<1>8. Total(q) = q[1].size + Total(s)
  <2>1. /\ 1 \in 1 .. Len(q) /\ Len(q) = Len(s) + 1
        /\ \A i \in 1 .. Len(q) : q[i].size \in Nat
    BY <1>1, <1>2, <1>3
  <2>2. \A i \in 1 .. Len(s) : s[i] = IF i < 1 THEN q[i] ELSE q[i + 1]
    BY <1>5, <1>7
  <2> QED BY <1>2, <1>3, <2>1, <2>2, TotalWithout
<1>9. q[1].size = sz[a]
  BY <1>1, <1>3
<1> QED BY <1>7, <1>8, <1>9 DEF p, q, d, s, it

----------------------------------------------------------------------------
(* What the steps do to the list *)

LEMMA NewList ==
  ASSUME NEW c \in Seq(Nodes), Once(c), Links(next', prev', c)
  PROVE  ListOK' /\ Chain' = c /\ Linked' = Range(c)
<1>1. ChainOf(next') = c
  BY ChainIs DEF Links
<1>2. Chain' = c
  BY <1>1 DEF Chain
<1> QED BY <1>2 DEF ListOK, Linked

LEMMA ItemsNow ==
  ASSUME TypeOK, ListOK
  PROVE  /\ AbstractChain = ItemsOf(Chain, key, size)
         /\ Chain \in Seq(Nodes) /\ Once(Chain) /\ Len(Chain) \in Nat
         /\ \A i \in 1 .. Len(Chain) : Chain[i] \in Linked /\ Chain[i] \in Nodes
         /\ AbstractChain \in Seq(Items) /\ Len(AbstractChain) = Len(Chain)
         /\ \A i \in 1 .. Len(Chain) :
              /\ AbstractChain[i] = AbstractItem(Chain[i])
              /\ AbstractChain[i].key = key[Chain[i]]
              /\ AbstractChain[i].resp = Chain[i]
              /\ AbstractChain[i].size \in Nat
         /\ Total(AbstractChain) \in Nat
<1>1. AbstractChain = ItemsOf(Chain, key, size)
  BY DEF AbstractChain, ItemsOf, AbstractItem
<1>2. Chain \in Seq(Nodes) /\ Once(Chain)
  BY DEF ListOK
<1>3. key \in [Nodes -> Keys \cup {Null}] /\ size \in [Nodes -> Sizes \cup {0}]
  BY DEF TypeOK
<1> DEFINE c == Chain
           s == AbstractChain
<1>4. \A i \in 1 .. Len(c) : c[i] \in Linked /\ c[i] \in Nodes
  BY <1>2 DEF Linked, Range
<1> HIDE DEF c, s
<1>5. c \in Seq(Nodes) /\ Once(c) /\ s = ItemsOf(c, key, size)
  BY <1>1, <1>2 DEF c, s
<1>6. /\ s \in Seq(Items) /\ Len(s) = Len(c)
      /\ \A i \in 1 .. Len(c) :
           /\ s[i] = [key |-> key[c[i]], resp |-> c[i], size |-> size[c[i]]]
           /\ s[i].size \in Nat
  BY <1>3, <1>5, ItemsAre
<1>7. ASSUME NEW i \in 1 .. Len(c) PROVE s[i].key = key[c[i]] /\ s[i].resp = c[i]
  <2>1. s[i] = [key |-> key[c[i]], resp |-> c[i], size |-> size[c[i]]]
    BY <1>6
  <2> QED BY <2>1
<1>8. \A i \in 1 .. Len(c) : s[i] = AbstractItem(c[i])
  BY <1>6 DEF AbstractItem
<1>9. Total(s) \in Nat
  BY <1>6, TotalType
<1>10. Len(c) \in Nat
  BY <1>5
<1> QED BY <1>4, <1>5, <1>6, <1>7, <1>8, <1>9, <1>10 DEF c, s

LEMMA QuietEffect ==
  ASSUME ListOK, UNCHANGED <<next, prev>>
  PROVE  ListOK' /\ Chain' = Chain /\ Linked' = Linked
<1>1. Chain' = Chain
  BY DEF Chain
<1> QED BY <1>1 DEF ListOK, Linked

\* The node at position f is taken out.
Removes(f) ==
  /\ ListOK'
  /\ Chain' = RemoveAt(Chain, f) /\ Linked' = Linked \ {Chain[f]}
  /\ AbstractChain' = RemoveAt(AbstractChain, f)
  /\ Total(AbstractChain) = size[Chain[f]] + Total(AbstractChain')
  /\ Total(AbstractChain') \in Nat

LEMMA RemoveEffect ==
  ASSUME TypeOK, ListOK, NEW f \in 1 .. Len(Chain),
         UnlinkedAt(next, prev, next', prev', Chain, f),
         key' \in [Nodes -> Keys \cup {Null}], size' \in [Nodes -> Sizes \cup {0}],
         \A a \in Nodes : a # Chain[f] => key'[a] = key[a] /\ size'[a] = size[a]
  PROVE  Removes(f)
<1> DEFINE c == Chain
           r == RemoveAt(c, f)
<1>1. /\ c \in Seq(Nodes) /\ Once(c) /\ Links(next, prev, c)
      /\ AbstractChain = ItemsOf(c, key, size) /\ Linked = Range(c)
      /\ key \in [Nodes -> Keys \cup {Null}] /\ size \in [Nodes -> Sizes \cup {0}]
  BY ItemsNow DEF ListOK, Linked, TypeOK
<1>2. /\ f \in 1 .. Len(c) /\ UnlinkedAt(next, prev, next', prev', c, f)
      /\ \A a \in Nodes : a # c[f] => key'[a] = key[a] /\ size'[a] = size[a]
  OBVIOUS
<1>3. AbstractChain' = ItemsOf(Chain', key', size')
  BY DEF AbstractChain, ItemsOf, AbstractItem
<1> HIDE DEF c
<1>4. /\ r \in Seq(Nodes) /\ Once(r) /\ Links(next', prev', r)
      /\ Range(r) = Range(c) \ {c[f]}
  BY <1>1, <1>2, UnlinkKeeps
<1> HIDE DEF r
<1>5. ListOK' /\ Chain' = r /\ Linked' = Range(r)
  BY <1>4, NewList
<1>6. /\ ItemsOf(r, key', size') = RemoveAt(ItemsOf(c, key, size), f)
      /\ Total(ItemsOf(c, key, size)) = size[c[f]] + Total(ItemsOf(r, key', size'))
      /\ Total(ItemsOf(r, key', size')) \in Nat
  BY <1>1, <1>2, ItemsWithout DEF r
<1>7. AbstractChain' = ItemsOf(r, key', size')
  BY <1>3, <1>5
<1> QED BY <1>1, <1>4, <1>5, <1>6, <1>7 DEF c, r, Removes

\* The first node with the key a worker looks up is the one it stops at.
LEMMA FoundFirst ==
  ASSUME TypeOK, ListOK, NEW k, NEW i \in 1 .. Len(Chain), key[Chain[i]] = k,
         \A j \in 1 .. i - 1 : key[Chain[j]] # k
  PROVE  Hits(AbstractChain, k) # {} /\ First(AbstractChain, k) = i
<1> DEFINE s == AbstractChain
<1>1. /\ s \in Seq(Items) /\ Len(s) = Len(Chain) /\ Len(Chain) \in Nat
      /\ \A j \in 1 .. Len(Chain) : s[j].key = key[Chain[j]]
  BY ItemsNow
<1> HIDE DEF s
<1>2. i \in Hits(s, k)
  BY <1>1 DEF Hits
<1>3. First(s, k) \in Hits(s, k) /\ \A j \in Hits(s, k) : First(s, k) <= j
  BY <1>1, <1>2, FirstHit
<1>4. First(s, k) \in 1 .. Len(Chain) /\ key[Chain[First(s, k)]] = k
  BY <1>1, <1>3 DEF Hits
<1>5. First(s, k) <= i
  BY <1>2, <1>3
<1>6. ~(First(s, k) < i)
  BY <1>4
<1>7. First(s, k) = i
  BY <1>4, <1>5, <1>6
<1> QED BY <1>2, <1>7 DEF s

LEMMA NotFound ==
  ASSUME TypeOK, ListOK, NEW k, \A j \in 1 .. Len(Chain) : key[Chain[j]] # k
  PROVE  Hits(AbstractChain, k) = {}
BY ItemsNow DEF Hits

LEMMA HitEffect ==
  ASSUME TypeOK, ListOK, CallsOK, NEW t \in Threads, GetHit(t)
  PROVE  LET f == First(AbstractChain, arg[t]) IN
         /\ Hits(AbstractChain, arg[t]) # {}
         /\ f \in 1 .. Len(Chain) /\ item[t] = Chain[f] /\ key[Chain[f]] = arg[t]
         /\ Removes(f)
<1>1. /\ pc[t] = "get_scan" /\ item[t] # TailNode /\ key[item[t]] = arg[t]
      /\ next' = [next EXCEPT ![prev[item[t]]] = next[item[t]]]
      /\ prev' = [prev EXCEPT ![next[item[t]]] = prev[item[t]]]
      /\ key' = key /\ size' = size
  BY DEF GetHit, Goto, UnlinkNext, UnlinkPrev
<1>2. PICK i \in 1 .. Len(Chain) + 1 :
        item[t] = At(Chain, i) /\ \A j \in 1 .. i - 1 : key[Chain[j]] # arg[t]
  BY <1>1 DEF CallsOK, CallOK
<1>3. /\ Chain \in Seq(Nodes) /\ Once(Chain) /\ Links(next, prev, Chain)
      /\ Len(Chain) \in Nat
  BY ItemsNow DEF ListOK
<1> DEFINE c == Chain
<1>4. /\ At(c, Len(c) + 1) = TailNode
      /\ \A j \in 1 .. Len(c) : At(c, j) = c[j] /\ c[j] \in Nodes
      /\ \A j \in 0 .. Len(c) + 1 : At(c, j) \in Addresses
  BY <1>3, Ats
<1>5. i \in 1 .. Len(c) /\ item[t] = c[i]
  BY <1>1, <1>2, <1>3, <1>4
<1>6. Hits(AbstractChain, arg[t]) # {} /\ First(AbstractChain, arg[t]) = i
  BY <1>1, <1>2, <1>5, FoundFirst
<1>7. /\ prev[c[i]] = At(c, i - 1) /\ next[c[i]] = At(c, i + 1)
      /\ At(c, i - 1) \in Addresses /\ At(c, i + 1) \in Addresses
  <2>1. i - 1 \in 0 .. Len(c) /\ i \in 0 .. Len(c) /\ (i - 1) + 1 = i
    BY <1>3, <1>5
  <2>2. prev[At(c, i)] = At(c, i - 1) /\ next[At(c, i)] = At(c, i + 1)
    BY <1>3, <2>1 DEF Links
  <2>3. At(c, i) = c[i] /\ i - 1 \in 0 .. Len(c) + 1 /\ i + 1 \in 0 .. Len(c) + 1
    BY <1>3, <1>4, <1>5
  <2> QED BY <1>4, <2>2, <2>3
<1>8. UnlinkedAt(next, prev, next', prev', c, i)
  <2>1. next \in [Addresses -> Addresses \cup {Null}] /\ prev \in [Addresses -> Addresses \cup {Null}]
    BY DEF TypeOK
  <2> QED BY <1>1, <1>5, <1>7, <2>1 DEF UnlinkedAt
<1>9. Removes(i)
  <2>1. key' \in [Nodes -> Keys \cup {Null}] /\ size' \in [Nodes -> Sizes \cup {0}]
    BY <1>1 DEF TypeOK
  <2> QED BY <1>1, <1>5, <1>8, <2>1, RemoveEffect
<1> QED BY <1>1, <1>5, <1>6, <1>9

LEMMA EvictEffect ==
  ASSUME TypeOK, ListOK, MutexOK, HeapOK, SizeOK, NEW t \in Threads,
         pc[t] = "put_evict", TooFull(t)
  PROVE  /\ Len(Chain) \in 1 .. Len(Chain)
         /\ prev[TailNode] = Chain[Len(Chain)] /\ prev[TailNode] \in Linked
         /\ prev[TailNode] \in Nodes
         /\ lsize = Total(AbstractChain)
         /\ PutEvict(t) => Removes(Len(Chain))
<1>1. /\ Chain \in Seq(Nodes) /\ Once(Chain) /\ Links(next, prev, Chain)
      /\ Len(Chain) \in Nat /\ Len(AbstractChain) = Len(Chain) /\ AbstractChain \in Seq(Items)
      /\ \A i \in 1 .. Len(Chain) : Chain[i] \in Linked /\ Chain[i] \in Nodes
  BY ItemsNow DEF ListOK
<1>2. lsize = Total(AbstractChain)
  <2>1. \A u \in Threads : pc[u] # "get_front"
    BY DEF MutexOK, Within
  <2> QED BY <2>1 DEF SizeOK
<1>3. Len(Chain) # 0
  <2>1. SUFFICES ASSUME Len(Chain) = 0 PROVE FALSE
    OBVIOUS
  <2>2. AbstractChain = <<>>
    BY <1>1, <2>1
  <2>3. lsize = 0
    BY <1>2, <2>2, TotalEmpty
  <2>4. size[item[t]] \in Sizes
    BY DEF HeapOK, Unlinked
  <2>5. size[item[t]] \in Nat /\ size[item[t]] <= MaxSize /\ MaxSize \in Nat
    BY <2>4, SizesAre
  <2> QED BY <2>3, <2>5 DEF TooFull
<1> DEFINE c == Chain
           n == Len(Chain)
<1>4. n \in 1 .. n /\ n - 1 \in 0 .. n /\ n \in 0 .. n /\ (n - 1) + 1 = n
  BY <1>1, <1>3
<1>5. /\ At(c, n + 1) = TailNode /\ At(c, n) = c[n]
      /\ \A j \in 0 .. n + 1 : At(c, j) \in Addresses
  BY <1>1, <1>4, Ats
<1>6. /\ prev[TailNode] = c[n] /\ next[c[n]] = TailNode
      /\ prev[c[n]] = At(c, n - 1) /\ At(c, n - 1) \in Addresses /\ TailNode \in Addresses
  <2>1. prev[At(c, n + 1)] = At(c, n) /\ next[At(c, n)] = At(c, n + 1)
    BY <1>1, <1>4 DEF Links
  <2>2. prev[At(c, n)] = At(c, n - 1)
    BY <1>1, <1>4 DEF Links
  <2>3. n - 1 \in 0 .. n + 1
    BY <1>1, <1>4
  <2> QED BY <1>5, <2>1, <2>2, <2>3 DEF Addresses
<1>7. c[n] \in Linked /\ c[n] \in Nodes
  BY <1>1, <1>4
<1>8. ASSUME PutEvict(t) PROVE Removes(n)
  <2> DEFINE a == c[n]
  <2>1. /\ next \in [Addresses -> Addresses \cup {Null}]
        /\ prev \in [Addresses -> Addresses \cup {Null}]
        /\ key \in [Nodes -> Keys \cup {Null}] /\ size \in [Nodes -> Sizes \cup {0}]
    BY DEF TypeOK
  <2>2. /\ next' = [[next EXCEPT ![At(c, n - 1)] = TailNode] EXCEPT ![a] = Null]
        /\ prev' = [[prev EXCEPT ![TailNode] = At(c, n - 1)] EXCEPT ![a] = Null]
        /\ key' = [key EXCEPT ![a] = Null] /\ size' = [size EXCEPT ![a] = 0]
    BY <1>6, <1>8 DEF PutEvict, UnlinkNext, UnlinkPrev
  <2>3. a # TailNode /\ a # At(c, n - 1)
    <3>1. n \in 0 .. n + 1 /\ n - 1 \in 0 .. n + 1 /\ n + 1 \in 0 .. n + 1
      BY <1>1, <1>4
    <3>2. \A i, j \in 0 .. n + 1 : At(c, i) = At(c, j) => i = j
      BY <1>1, Ats
    <3> QED BY <1>1, <1>4, <1>5, <3>1, <3>2
  <2>4. UnlinkedAt(next, prev, next', prev', c, n)
    BY <1>5, <1>6, <2>1, <2>2, <2>3 DEF UnlinkedAt
  <2>5. /\ key' \in [Nodes -> Keys \cup {Null}] /\ size' \in [Nodes -> Sizes \cup {0}]
        /\ \A b \in Nodes : b # a => key'[b] = key[b] /\ size'[b] = size[b]
    BY <1>7, <2>1, <2>2
  <2> QED BY <1>4, <2>4, <2>5, RemoveEffect
<1> QED BY <1>2, <1>4, <1>6, <1>7, <1>8

LEMMA FrontEffect ==
  ASSUME TypeOK, ListOK, NEW a \in Nodes, a \notin Linked, LinkFront(a),
         UNCHANGED <<key, size>>
  PROVE  /\ ListOK' /\ Chain' = <<a>> \o Chain /\ Linked' = Linked \cup {a}
         /\ AbstractChain' = <<AbstractItem(a)>> \o AbstractChain
         /\ Total(AbstractChain') = size[a] + Total(AbstractChain)
<1> DEFINE c == Chain
           d == <<a>> \o c
<1>1. /\ c \in Seq(Nodes) /\ Once(c) /\ Links(next, prev, c) /\ Len(c) \in Nat
      /\ AbstractChain = ItemsOf(c, key, size) /\ Linked = Range(c)
  BY ItemsNow DEF ListOK, Linked
<1>2. /\ key \in [Nodes -> Keys \cup {Null}] /\ size \in [Nodes -> Sizes \cup {0}]
      /\ next \in [Addresses -> Addresses \cup {Null}]
      /\ prev \in [Addresses -> Addresses \cup {Null}]
  BY DEF TypeOK
<1>3. AbstractChain' = ItemsOf(Chain', key, size)
  BY DEF AbstractChain, ItemsOf, AbstractItem
<1>4. AbstractItem(a) = [key |-> key[a], resp |-> a, size |-> size[a]]
  BY DEF AbstractItem
<1> HIDE DEF c
<1>5. At(c, 0) = HeadNode /\ \A i \in 0 .. Len(c) + 1 : At(c, i) \in Addresses
  BY <1>1, Ats
<1>6. next[HeadNode] = At(c, 1) /\ At(c, 1) \in Addresses /\ At(c, 1) # a
  <2>1. 0 \in 0 .. Len(c) /\ 1 \in 0 .. Len(c) + 1 /\ 0 + 1 = 1
    BY <1>1
  <2>2. next[At(c, 0)] = At(c, 0 + 1)
    BY <1>1, <2>1 DEF Links
  <2>3. At(c, 1) # a
    <3>1. At(c, 1) = TailNode \/ (1 \in DOMAIN c /\ At(c, 1) = c[1])
      BY <1>1 DEF At
    <3>2. TailNode # a
      BY LruAssumption
    <3> QED BY <1>1, <3>1, <3>2 DEF Range
  <2> QED BY <1>5, <2>1, <2>2, <2>3
<1>7. HeadNode \in Addresses /\ a \in Addresses /\ a # HeadNode
  BY LruAssumption DEF Addresses
<1>8. LinkedFront(next, prev, next', prev', c, a)
  BY <1>2, <1>6, <1>7 DEF LinkFront, LinkedFront
<1>9. /\ d \in Seq(Nodes) /\ Once(d) /\ Links(next', prev', d)
      /\ Range(d) = Range(c) \cup {a}
  BY <1>1, <1>8, FrontKeeps
<1> HIDE DEF d
<1>10. ListOK' /\ Chain' = d /\ Linked' = Range(d)
  BY <1>9, NewList
<1>11. /\ ItemsOf(d, key, size) = <<AbstractItem(a)>> \o ItemsOf(c, key, size)
       /\ Total(ItemsOf(d, key, size)) = size[a] + Total(ItemsOf(c, key, size))
  <2>1. /\ ItemsOf(d, key, size) =
             <<[key |-> key[a], resp |-> a, size |-> size[a]]>> \o ItemsOf(c, key, size)
        /\ Total(ItemsOf(d, key, size)) = size[a] + Total(ItemsOf(c, key, size))
    <3>1. /\ c \in Seq(Nodes) /\ key \in [Nodes -> Keys \cup {Null}]
          /\ size \in [Nodes -> Sizes \cup {0}]
      BY <1>1, <1>2
    <3> QED BY <3>1, ItemsFront, Zenon DEF d
  <2> QED BY <1>4, <2>1
<1> QED BY <1>1, <1>3, <1>9, <1>10, <1>11 DEF c, d

----------------------------------------------------------------------------
(* The steps preserve the invariant, part by part *)

LEMMA Went ==
  ASSUME TypeOK, NEW t \in Threads, NEW from, NEW to, Goto(t, from, to)
  PROVE  /\ pc[t] = from /\ pc'[t] = to
         /\ \A u \in Threads : u # t => pc'[u] = pc[u]
BY DEF Goto, TypeOK

LEMMA TypeNext ==
  ASSUME IInv, [Next]_vars
  PROVE  TypeOK'
<1> USE DEF IInv
<1>1. /\ next \in [Addresses -> Addresses \cup {Null}]
      /\ prev \in [Addresses -> Addresses \cup {Null}]
      /\ key \in [Nodes -> Keys \cup {Null}]
      /\ size \in [Nodes -> Sizes \cup {0}]
      /\ heap \subseteq Nodes
      /\ lsize \in 0 .. MaxSize
      /\ mutex \in {0, 1}
      /\ arg \in [Threads -> Keys \cup {Null}]
      /\ item \in [Threads -> Addresses \cup {Null}]
      /\ answer \in [Threads -> Nodes \cup {None}]
  BY DEF TypeOK
<1>2. pc \in [Threads -> {"idle", "get_lock", "get_scan", "get_front",
                          "get_unlock", "missed", "put_lock", "put_evict",
                          "put_unlock"}]
  BY DEF TypeOK
<1>3. CASE UNCHANGED vars
  BY <1>3 DEF TypeOK, vars
<1>4. ASSUME NEW t \in Threads, P PROVE mutex' \in {0, 1}
  BY <1>1, <1>4 DEF P
<1>5. ASSUME NEW t \in Threads, pc[t] \in Within, V PROVE mutex' \in {0, 1}
  BY <1>1, <1>5 DEF V, MutexOK
<1>6. ASSUME NEW t \in Threads, pc[t] = "get_scan" PROVE item[t] \in Addresses
  <2>1. PICK i \in 1 .. Len(Chain) + 1 : item[t] = At(Chain, i)
    BY <1>6 DEF CallsOK, CallOK
  <2>2. Chain \in Seq(Nodes) /\ Once(Chain) /\ Len(Chain) \in Nat
    BY DEF ListOK
  <2> QED BY <2>1, <2>2, Ats
<1>7. ASSUME NEW t \in Threads, t \in Unlinked
      PROVE  item[t] \in Nodes /\ item[t] \in Addresses
  BY <1>7 DEF HeapOK, Addresses
<1>8. HeadNode \in Addresses
  BY DEF Addresses
<1>9. ASSUME NEW a \in Addresses, LinkFront(a)
      PROVE  /\ next' \in [Addresses -> Addresses \cup {Null}]
             /\ prev' \in [Addresses -> Addresses \cup {Null}]
  BY <1>1, <1>8, <1>9 DEF LinkFront
<1>10. ASSUME NEW a \in Addresses
       PROVE  /\ UnlinkNext(a) \in [Addresses -> Addresses \cup {Null}]
              /\ UnlinkPrev(a) \in [Addresses -> Addresses \cup {Null}]
  BY <1>1 DEF UnlinkNext, UnlinkPrev
<1>11. ASSUME NEW t \in Threads, NEW k \in Keys, GetCall(t, k) PROVE TypeOK'
  BY <1>1, <1>2, <1>11 DEF GetCall, Goto, TypeOK
<1>12. ASSUME NEW t \in Threads, GetLock(t) PROVE TypeOK'
  <2>1. mutex' \in {0, 1} /\ next[HeadNode] \in Addresses \cup {Null}
    BY <1>1, <1>4, <1>8, <1>12 DEF GetLock
  <2> QED BY <1>1, <1>2, <1>12, <2>1 DEF GetLock, Goto, TypeOK
<1>13. ASSUME NEW t \in Threads, GetAdvance(t) PROVE TypeOK'
  <2>1. next[item[t]] \in Addresses \cup {Null}
    BY <1>1, <1>6, <1>13 DEF GetAdvance
  <2> QED BY <1>1, <1>2, <1>13, <2>1 DEF GetAdvance, TypeOK
<1>14. ASSUME NEW t \in Threads, GetHit(t) PROVE TypeOK'
  <2>1. item[t] \in Addresses
    BY <1>6, <1>14 DEF GetHit, Goto
  <2>2. item[t] \in Nodes
    BY <1>14, HitEffect, ItemsNow
  <2>3. /\ next' \in [Addresses -> Addresses \cup {Null}]
        /\ prev' \in [Addresses -> Addresses \cup {Null}]
    BY <1>10, <1>14, <2>1 DEF GetHit
  <2> QED BY <1>1, <1>2, <1>14, <2>2, <2>3 DEF GetHit, Goto, TypeOK
<1>15. ASSUME NEW t \in Threads, GetFront(t) PROVE TypeOK'
  <2>1. item[t] \in Addresses
    BY <1>7, <1>15 DEF GetFront, Goto, Unlinked
  <2>2. /\ next' \in [Addresses -> Addresses \cup {Null}]
        /\ prev' \in [Addresses -> Addresses \cup {Null}]
    BY <1>9, <1>15, <2>1 DEF GetFront
  <2> QED BY <1>1, <1>2, <1>15, <2>2 DEF GetFront, Goto, TypeOK
<1>16. ASSUME NEW t \in Threads, GetMiss(t) PROVE TypeOK'
  BY <1>1, <1>2, <1>16 DEF GetMiss, Goto, TypeOK
<1>17. ASSUME NEW t \in Threads, GetUnlock(t) PROVE TypeOK'
  <2>1. mutex' \in {0, 1}
    BY <1>5, <1>17 DEF GetUnlock, Goto, Within
  <2> QED BY <1>1, <1>2, <1>17, <2>1 DEF GetUnlock, Goto, TypeOK
<1>18. ASSUME NEW t \in Threads, DontPut(t) PROVE TypeOK'
  BY <1>1, <1>2, <1>18 DEF DontPut, Goto, TypeOK
<1>19. ASSUME NEW t \in Threads, NEW a \in Nodes, NEW n \in Sizes, PutCall(t, a, n)
       PROVE  TypeOK'
  <2>1. a \in Addresses
    BY DEF Addresses
  <2> QED BY <1>1, <1>2, <1>19, <2>1 DEF PutCall, Goto, TypeOK
<1>20. ASSUME NEW t \in Threads, PutLock(t) PROVE TypeOK'
  <2>1. mutex' \in {0, 1}
    BY <1>4, <1>20 DEF PutLock
  <2> QED BY <1>1, <1>2, <1>20, <2>1 DEF PutLock, Goto, TypeOK
<1>21. ASSUME NEW t \in Threads, PutEvict(t) PROVE TypeOK'
  <2> DEFINE last == prev[TailNode]
             un == UnlinkNext(last)
             up == UnlinkPrev(last)
  <2>1. /\ last \in Nodes /\ lsize = Total(AbstractChain) /\ Removes(Len(Chain))
        /\ last = Chain[Len(Chain)]
    BY <1>21, EvictEffect DEF PutEvict
  <2>2. /\ next' = [un EXCEPT ![last] = Null] /\ prev' = [up EXCEPT ![last] = Null]
        /\ key' = [key EXCEPT ![last] = Null] /\ size' = [size EXCEPT ![last] = 0]
        /\ heap' = heap \ {last} /\ lsize' = lsize - size[last]
        /\ UNCHANGED <<mutex, pc, arg, item, answer>>
    BY <1>21 DEF PutEvict
  <2>3. un \in [Addresses -> Addresses \cup {Null}] /\ up \in [Addresses -> Addresses \cup {Null}]
    BY <1>10, <2>1 DEF Addresses
  <2>4. lsize' \in 0 .. MaxSize
    <3>1. size[last] \in Nat /\ Total(AbstractChain') \in Nat /\ MaxSize \in Nat
      BY <1>1, <2>1, SizesAre DEF Removes
    <3>2. Total(AbstractChain) = size[last] + Total(AbstractChain')
      BY <2>1 DEF Removes
    <3> QED BY <1>1, <2>1, <2>2, <3>1, <3>2
  <2> HIDE DEF last, un, up
  <2>5. /\ next' \in [Addresses -> Addresses \cup {Null}]
        /\ prev' \in [Addresses -> Addresses \cup {Null}]
        /\ key' \in [Nodes -> Keys \cup {Null}]
        /\ size' \in [Nodes -> Sizes \cup {0}]
    BY <1>1, <2>2, <2>3
  <2> QED BY <1>1, <1>2, <2>2, <2>4, <2>5 DEF TypeOK
<1>22. ASSUME NEW t \in Threads, PutFront(t) PROVE TypeOK'
  <2>1. item[t] \in Addresses /\ item[t] \in Nodes
    BY <1>7, <1>22 DEF PutFront, Goto, Unlinked
  <2>2. /\ next' \in [Addresses -> Addresses \cup {Null}]
        /\ prev' \in [Addresses -> Addresses \cup {Null}]
    BY <1>9, <1>22, <2>1 DEF PutFront
  <2>3. lsize' \in 0 .. MaxSize
    <3>1. size[item[t]] \in Nat
      BY <1>1, <2>1, SizesAre
    <3>2. lsize' = lsize + size[item[t]] /\ ~(lsize + size[item[t]] > MaxSize)
      BY <1>22 DEF PutFront, TooFull
    <3> QED BY <1>1, <3>1, <3>2, SizesAre
  <2> QED BY <1>1, <1>2, <1>22, <2>2, <2>3 DEF PutFront, Goto, TypeOK
<1>23. ASSUME NEW t \in Threads, PutUnlock(t) PROVE TypeOK'
  <2>1. mutex' \in {0, 1}
    BY <1>5, <1>23 DEF PutUnlock, Goto, Within
  <2> QED BY <1>1, <1>2, <1>23, <2>1 DEF PutUnlock, Goto, TypeOK
<1> QED BY <1>3, <1>11, <1>12, <1>13, <1>14, <1>15, <1>16, <1>17, <1>18, <1>19,
           <1>20, <1>21, <1>22, <1>23 DEF Next, Step

\* Steps that change neither the list nor what is in it.
Quiet(t) ==
  \/ \E k \in Keys : GetCall(t, k)
  \/ GetLock(t) \/ GetAdvance(t) \/ GetMiss(t) \/ GetUnlock(t) \/ DontPut(t)
  \/ PutLock(t) \/ PutUnlock(t)

LEMMA Cases ==
  ASSUME Next
  PROVE  \E t \in Threads :
           \/ Quiet(t) \/ GetHit(t) \/ GetFront(t) \/ PutFront(t) \/ PutEvict(t)
           \/ \E a \in Nodes, n \in Sizes : PutCall(t, a, n)
BY DEF Next, Step, Quiet

LEMMA QuietIs ==
  ASSUME NEW t \in Threads, Quiet(t)
  PROVE  UNCHANGED <<next, prev, key, size, heap, lsize>>
BY DEF Quiet, GetCall, GetLock, GetAdvance, GetMiss, GetUnlock, DontPut, PutLock, PutUnlock

LEMMA ListNext ==
  ASSUME IInv, [Next]_vars
  PROVE  ListOK'
<1> USE DEF IInv
<1>1. CASE UNCHANGED vars
  BY <1>1, QuietEffect DEF vars
<1>2. ASSUME NEW t \in Threads, Quiet(t) PROVE ListOK'
  BY <1>2, QuietIs, QuietEffect
<1>3. ASSUME NEW t \in Threads, NEW a \in Nodes, NEW n \in Sizes, PutCall(t, a, n)
      PROVE  ListOK'
  BY <1>3, QuietEffect DEF PutCall
<1>4. ASSUME NEW t \in Threads, GetHit(t) PROVE ListOK'
  BY <1>4, HitEffect DEF Removes
<1>5. ASSUME NEW t \in Threads, PutEvict(t) PROVE ListOK'
  <2>1. pc[t] = "put_evict" /\ TooFull(t)
    BY <1>5 DEF PutEvict
  <2> QED BY <1>5, <2>1, EvictEffect DEF Removes
<1>6. ASSUME NEW t \in Threads, t \in Unlinked, LinkFront(item[t]),
             UNCHANGED <<key, size>>
      PROVE  ListOK'
  <2>1. item[t] \in Nodes /\ item[t] \notin Linked
    BY <1>6 DEF HeapOK
  <2> QED BY <1>6, <2>1, FrontEffect
<1>7. ASSUME NEW t \in Threads, GetFront(t) PROVE ListOK'
  BY <1>6, <1>7 DEF GetFront, Goto, Unlinked
<1>8. ASSUME NEW t \in Threads, PutFront(t) PROVE ListOK'
  BY <1>6, <1>8 DEF PutFront, Goto, Unlinked
<1> QED BY <1>1, <1>2, <1>3, <1>4, <1>5, <1>7, <1>8, Cases

LEMMA MutexNext ==
  ASSUME IInv, [Next]_vars
  PROVE  MutexOK'
<1> USE DEF IInv
<1>1. CASE UNCHANGED vars
  BY <1>1 DEF vars, MutexOK
<1>2. mutex \in {0, 1}
  BY DEF TypeOK
<1>3. ASSUME NEW t \in Threads, NEW from, NEW to, Goto(t, from, to),
             to \notin Within, (mutex' = mutex) \/ (from \in Within)
      PROVE  MutexOK'
  <2>1. \A u \in Threads : pc'[u] \in Within => u # t /\ pc[u] \in Within
    BY <1>3, Went
  <2>2. \A u \in Threads : pc'[u] \in Within => mutex' = mutex
    BY <1>3, <2>1, Went DEF MutexOK
  <2> QED BY <2>1, <2>2 DEF MutexOK
<1>4. ASSUME NEW t \in Threads, NEW from, NEW to, Goto(t, from, to),
             from \in Within, mutex' = mutex
      PROVE  MutexOK'
  <2>1. \A u \in Threads : pc'[u] \in Within => pc[u] \in Within
    BY <1>4, Went
  <2> QED BY <1>4, <2>1 DEF MutexOK
<1>5. ASSUME NEW t \in Threads, NEW from, NEW to, Goto(t, from, to), P
      PROVE  MutexOK'
  <2>1. mutex' = 0 /\ \A u \in Threads : pc[u] \notin Within
    BY <1>2, <1>5 DEF P, MutexOK
  <2>2. \A u \in Threads : pc'[u] \in Within => u = t
    BY <1>5, <2>1, Went
  <2> QED BY <2>1, <2>2 DEF MutexOK
<1>6. ASSUME NEW t \in Threads, NEW k \in Keys, GetCall(t, k) PROVE MutexOK'
  BY <1>3, <1>6 DEF GetCall, Within
<1>7. ASSUME NEW t \in Threads, GetLock(t) PROVE MutexOK'
  BY <1>5, <1>7 DEF GetLock
<1>8. ASSUME NEW t \in Threads, GetAdvance(t) PROVE MutexOK'
  BY <1>8 DEF GetAdvance, MutexOK
<1>9. ASSUME NEW t \in Threads, GetHit(t) PROVE MutexOK'
  BY <1>4, <1>9 DEF GetHit, Within
<1>10. ASSUME NEW t \in Threads, GetFront(t) PROVE MutexOK'
  BY <1>4, <1>10 DEF GetFront, Within
<1>11. ASSUME NEW t \in Threads, GetMiss(t) PROVE MutexOK'
  BY <1>4, <1>11 DEF GetMiss, Within
<1>12. ASSUME NEW t \in Threads, GetUnlock(t) PROVE MutexOK'
  BY <1>3, <1>12 DEF GetUnlock, Within
<1>13. ASSUME NEW t \in Threads, DontPut(t) PROVE MutexOK'
  BY <1>3, <1>13 DEF DontPut, Within
<1>14. ASSUME NEW t \in Threads, NEW a \in Nodes, NEW n \in Sizes, PutCall(t, a, n)
       PROVE  MutexOK'
  BY <1>3, <1>14 DEF PutCall, Within
<1>15. ASSUME NEW t \in Threads, PutLock(t) PROVE MutexOK'
  BY <1>5, <1>15 DEF PutLock
<1>16. ASSUME NEW t \in Threads, PutEvict(t) PROVE MutexOK'
  BY <1>16 DEF PutEvict, MutexOK
<1>17. ASSUME NEW t \in Threads, PutFront(t) PROVE MutexOK'
  BY <1>4, <1>17 DEF PutFront, Within
<1>18. ASSUME NEW t \in Threads, PutUnlock(t) PROVE MutexOK'
  BY <1>3, <1>18 DEF PutUnlock, Within
<1> QED BY <1>1, <1>6, <1>7, <1>8, <1>9, <1>10, <1>11, <1>12, <1>13, <1>14, <1>15,
           <1>16, <1>17, <1>18 DEF Next, Step

LEMMA SameItems ==
  ASSUME TypeOK, ListOK, Chain' = Chain,
         \A a \in Linked : key'[a] = key[a] /\ size'[a] = size[a]
  PROVE  AbstractChain' = AbstractChain
<1>1. AbstractChain' = ItemsOf(Chain, key', size')
  BY DEF AbstractChain, ItemsOf, AbstractItem
<1>2. AbstractChain = ItemsOf(Chain, key, size) /\ Chain \in Seq(Nodes)
  BY ItemsNow
<1>3. ItemsOf(Chain, key', size') = ItemsOf(Chain, key, size)
  BY <1>2, ItemsSame DEF Linked
<1> QED BY <1>1, <1>2, <1>3

LEMMA HeapNext ==
  ASSUME IInv, [Next]_vars
  PROVE  HeapOK'
<1> USE DEF IInv
<1> DEFINE Held == {"put_lock", "put_evict", "get_front"}
<1>1. /\ heap = Linked \cup {item[u] : u \in Unlinked}
      /\ \A u \in Unlinked : item[u] \in Nodes /\ item[u] \notin Linked /\ item[u] \in heap
      /\ \A u, v \in Unlinked : item[u] = item[v] => u = v
      /\ \A a \in heap : key[a] \in Keys /\ size[a] \in Sizes
  BY DEF HeapOK
<1>2. item \in [Threads -> Addresses \cup {Null}]
  BY DEF TypeOK
<1>3. Unlinked = {u \in Threads : pc[u] \in Held} /\ Unlinked' = {u \in Threads : pc'[u] \in Held}
  BY DEF Unlinked
\* The workers that hold an item keep it.
<1>4. ASSUME UNCHANGED <<key, size, heap>>, Linked' = Linked, Unlinked' = Unlinked,
             \A u \in Unlinked : item'[u] = item[u]
      PROVE  HeapOK'
  <2>1. {item'[u] : u \in Unlinked} = {item[u] : u \in Unlinked}
    BY <1>4
  <2> QED BY <1>1, <1>4, <2>1 DEF HeapOK
<1>5. ASSUME NEW t \in Threads, NEW from, NEW to, Goto(t, from, to),
             from \notin Held, to \notin Held,
             \A u \in Threads : u # t => item'[u] = item[u]
      PROVE  Unlinked' = Unlinked /\ \A u \in Unlinked : item'[u] = item[u]
  BY <1>3, <1>5, Went
<1>6. ASSUME NEW t \in Threads, Quiet(t) PROVE HeapOK'
  <2>1. UNCHANGED <<key, size, heap>> /\ Linked' = Linked
    BY <1>6, QuietIs, QuietEffect
  <2>2. Unlinked' = Unlinked /\ \A u \in Unlinked : item'[u] = item[u]
    <3>1. ASSUME NEW k \in Keys, GetCall(t, k)
          PROVE  Unlinked' = Unlinked /\ \A u \in Unlinked : item'[u] = item[u]
      BY <1>5, <3>1 DEF GetCall
    <3>2. CASE GetLock(t)
      BY <1>2, <1>5, <3>2 DEF GetLock
    <3>3. CASE GetAdvance(t)
      BY <1>2, <1>3, <3>3 DEF GetAdvance
    <3>4. CASE GetMiss(t)
      BY <1>5, <3>4 DEF GetMiss
    <3>5. CASE GetUnlock(t)
      <4>1. (IF answer[t] = None THEN "missed" ELSE "idle") \notin Held
        OBVIOUS
      <4> QED BY <1>2, <1>5, <3>5, <4>1 DEF GetUnlock
    <3>6. CASE DontPut(t)
      BY <1>5, <3>6 DEF DontPut
    <3>7. CASE PutLock(t)
      BY <1>3, <3>7, Went DEF PutLock
    <3>8. CASE PutUnlock(t)
      BY <1>2, <1>5, <3>8 DEF PutUnlock
    <3> QED BY <1>6, <3>1, <3>2, <3>3, <3>4, <3>5, <3>6, <3>7, <3>8 DEF Quiet
  <2> QED BY <1>4, <2>1, <2>2
<1>7. ASSUME NEW t \in Threads, GetHit(t) PROVE HeapOK'
  <2>1. UNCHANGED <<key, size, heap, item>> /\ pc[t] = "get_scan" /\ pc'[t] = "get_front"
        /\ \A u \in Threads : u # t => pc'[u] = pc[u]
    BY <1>7, Went DEF GetHit
  <2>2. item[t] \in Linked /\ item[t] \in Nodes /\ Linked' = Linked \ {item[t]}
    BY <1>7, HitEffect, ItemsNow DEF Removes
  <2>3. Unlinked' = Unlinked \cup {t} /\ t \notin Unlinked
    BY <1>3, <2>1
  <2>4. heap' = Linked' \cup {item'[u] : u \in Unlinked'}
    BY <1>1, <2>1, <2>2, <2>3
  <2> QED BY <1>1, <2>1, <2>2, <2>3, <2>4 DEF HeapOK
\* An item moved to the front is linked again.
<1>8. ASSUME NEW t \in Threads, t \in Unlinked, LinkFront(item[t]),
             UNCHANGED <<key, size, heap, item>>, pc'[t] \notin Held,
             \A u \in Threads : u # t => pc'[u] = pc[u]
      PROVE  HeapOK'
  <2>1. Linked' = Linked \cup {item[t]}
    BY <1>1, <1>8, FrontEffect
  <2>2. Unlinked' = Unlinked \ {t}
    BY <1>3, <1>8
  <2>3. heap' = Linked' \cup {item'[u] : u \in Unlinked'}
    BY <1>1, <1>8, <2>1, <2>2
  <2> QED BY <1>1, <1>8, <2>1, <2>2, <2>3 DEF HeapOK
<1>9. ASSUME NEW t \in Threads, GetFront(t) PROVE HeapOK'
  <2>1. Goto(t, "get_front", "get_unlock") /\ LinkFront(item[t])
        /\ UNCHANGED <<key, size, heap, item>>
    BY <1>9 DEF GetFront
  <2> QED BY <1>3, <1>8, <2>1, Went
<1>10. ASSUME NEW t \in Threads, PutFront(t) PROVE HeapOK'
  <2>1. Goto(t, "put_evict", "put_unlock") /\ LinkFront(item[t])
        /\ UNCHANGED <<key, size, heap, item>>
    BY <1>10 DEF PutFront
  <2> QED BY <1>3, <1>8, <2>1, Went
<1>11. ASSUME NEW t \in Threads, NEW a \in Nodes, NEW n \in Sizes, PutCall(t, a, n)
       PROVE  HeapOK'
  <2>1. /\ Goto(t, "missed", "put_lock") /\ a \notin heap /\ heap' = heap \cup {a}
        /\ item' = [item EXCEPT ![t] = a] /\ key' = [key EXCEPT ![a] = arg[t]]
        /\ size' = [size EXCEPT ![a] = n] /\ UNCHANGED <<next, prev>>
    BY <1>11 DEF PutCall
  <2>2. Linked' = Linked
    BY <2>1, QuietEffect
  <2>3. Unlinked' = Unlinked \cup {t} /\ t \notin Unlinked
    BY <1>3, <2>1, Went
  <2>4. item'[t] = a /\ \A u \in Threads : u # t => item'[u] = item[u]
    BY <1>2, <2>1
  <2>5. heap' = Linked' \cup {item'[u] : u \in Unlinked'}
    <3>1. Unlinked \subseteq Threads
      BY <1>3
    <3> QED BY <1>1, <2>1, <2>2, <2>3, <2>4, <3>1
  <2>6. arg[t] \in Keys
    BY <2>1 DEF Goto, CallsOK, CallOK
  <2>7. \A b \in heap' : key'[b] \in Keys /\ size'[b] \in Sizes
    <3>1. key \in [Nodes -> Keys \cup {Null}] /\ size \in [Nodes -> Sizes \cup {0}]
          /\ heap \subseteq Nodes
      BY DEF TypeOK
    <3> QED BY <1>1, <2>1, <2>6, <3>1
  <2>8. Unlinked \subseteq Threads /\ \A u \in Unlinked : u # t
    BY <1>3, <2>3
  <2>9. \A u \in Unlinked' : item'[u] \in Nodes /\ item'[u] \notin Linked'
    BY <1>1, <2>1, <2>2, <2>3, <2>4, <2>8
  <2>10. \A u, v \in Unlinked' : item'[u] = item'[v] => u = v
    BY <1>1, <2>1, <2>3, <2>4, <2>8
  <2> QED BY <2>5, <2>7, <2>9, <2>10 DEF HeapOK
<1>12. ASSUME NEW t \in Threads, PutEvict(t) PROVE HeapOK'
  <2> DEFINE last == prev[TailNode]
  <2>1. /\ heap' = heap \ {last} /\ key' = [key EXCEPT ![last] = Null]
        /\ size' = [size EXCEPT ![last] = 0] /\ UNCHANGED <<pc, item>>
    BY <1>12 DEF PutEvict
  <2>2. last \in Linked /\ Linked' = Linked \ {last}
    BY <1>12, EvictEffect DEF PutEvict, Removes
  <2> HIDE DEF last
  <2>3. Unlinked' = Unlinked
    BY <1>3, <2>1
  <2>4. \A u \in Unlinked : item[u] # last
    BY <1>1, <2>2
  <2>5. heap' = Linked' \cup {item'[u] : u \in Unlinked'}
    BY <1>1, <2>1, <2>2, <2>3, <2>4
  <2>6. \A b \in heap' : key'[b] \in Keys /\ size'[b] \in Sizes
    <3>1. key \in [Nodes -> Keys \cup {Null}] /\ size \in [Nodes -> Sizes \cup {0}]
          /\ heap \subseteq Nodes
      BY DEF TypeOK
    <3> QED BY <1>1, <2>1, <3>1
  <2> QED BY <1>1, <2>1, <2>2, <2>3, <2>5, <2>6 DEF HeapOK
<1>13. CASE UNCHANGED vars
  <2>1. UNCHANGED <<next, prev, key, size, heap, item, pc>>
    BY <1>13 DEF vars
  <2>2. Linked' = Linked /\ Unlinked' = Unlinked
    BY <1>3, <2>1, QuietEffect
  <2> QED BY <1>4, <2>1, <2>2
<1> QED BY <1>6, <1>7, <1>9, <1>10, <1>11, <1>12, <1>13, Cases

LEMMA CallsNext ==
  ASSUME IInv, [Next]_vars
  PROVE  CallsOK'
<1> USE DEF IInv
<1> DEFINE Held == {"put_lock", "put_evict", "get_front"}
<1>1. /\ \A u \in Threads : u \in Unlinked <=> pc[u] \in Held
      /\ \A u \in Threads : u \in Unlinked' <=> pc'[u] \in Held
  BY DEF Unlinked
<1>2. /\ item \in [Threads -> Addresses \cup {Null}]
      /\ arg \in [Threads -> Keys \cup {Null}]
      /\ answer \in [Threads -> Nodes \cup {None}]
      /\ key \in [Nodes -> Keys \cup {Null}]
  BY DEF TypeOK
<1>3. /\ \A u \in Unlinked : item[u] \in heap /\ item[u] \in Nodes /\ item[u] \notin Linked
      /\ \A i \in 1 .. Len(Chain) : Chain[i] \in Linked /\ Chain[i] \in Nodes
      /\ Linked \subseteq heap
  BY ItemsNow DEF HeapOK
<1>4. \A u \in Threads : CallOK(u)
  BY DEF CallsOK
\* A worker that does not move, while the list it scans stays as it is.
<1>5. ASSUME NEW u \in Threads, pc'[u] = pc[u], arg'[u] = arg[u], item'[u] = item[u],
             answer'[u] = answer[u], u \in Unlinked => key'[item[u]] = key[item[u]],
             pc[u] = "get_scan" =>
               Chain' = Chain /\ \A a \in Linked : key'[a] = key[a]
      PROVE  CallOK(u)'
  <2>1. /\ pc'[u] # "idle" => arg'[u] \in Keys
        /\ u \in Unlinked' => key'[item'[u]] = arg'[u]
        /\ pc'[u] = "get_front" => answer'[u] = item'[u]
    BY <1>1, <1>4, <1>5 DEF CallOK
  <2>2. ASSUME pc'[u] = "get_scan"
        PROVE  /\ answer'[u] = None
               /\ \E i \in 1 .. Len(Chain') + 1 :
                    item'[u] = At(Chain', i) /\ \A j \in 1 .. i - 1 : key'[Chain'[j]] # arg'[u]
    <3>1. answer[u] = None
      BY <1>4, <1>5, <2>2 DEF CallOK
    <3>2. PICK i \in 1 .. Len(Chain) + 1 :
            item[u] = At(Chain, i) /\ \A j \in 1 .. i - 1 : key[Chain[j]] # arg[u]
      BY <1>4, <1>5, <2>2 DEF CallOK
    <3>3. Chain' = Chain /\ \A a \in Linked : key'[a] = key[a]
      BY <1>5, <2>2
    <3>4. \A j \in 1 .. i - 1 : key'[Chain[j]] # arg[u]
      <4>1. \A j \in 1 .. i - 1 : j \in 1 .. Len(Chain)
        BY <3>2, ItemsNow
      <4> QED BY <1>3, <3>2, <3>3, <4>1
    <3> QED BY <1>5, <3>1, <3>2, <3>3, <3>4
  <2> QED BY <2>1, <2>2 DEF CallOK, At
<1>6. ASSUME NEW t \in Threads, Quiet(t) PROVE CallsOK'
  <2>1. UNCHANGED <<next, prev, key>> /\ Chain' = Chain
    BY <1>6, QuietIs, QuietEffect
  <2>2. ASSUME NEW u \in Threads, u # t PROVE CallOK(u)'
    <3>1. UNCHANGED <<pc[u], arg[u], item[u], answer[u]>>
      BY <1>2, <1>6, <2>2, Went DEF Quiet, GetCall, GetLock, GetAdvance, GetMiss, GetUnlock,
         DontPut, PutLock, PutUnlock
    <3> QED BY <1>5, <2>1, <3>1
  <2>3. CallOK(t)'
    <3>1. ASSUME NEW k \in Keys, GetCall(t, k) PROVE CallOK(t)'
      <4>1. pc'[t] = "get_lock" /\ arg'[t] = k
        BY <1>2, <3>1, Went DEF GetCall
      <4> QED BY <1>1, <4>1 DEF CallOK
    <3>2. CASE GetLock(t)
      <4>1. pc[t] = "get_lock" /\ pc'[t] = "get_scan" /\ arg'[t] = arg[t]
            /\ item'[t] = next[HeadNode] /\ answer'[t] = None
        BY <1>2, <3>2, Went DEF GetLock
      <4>2. arg[t] \in Keys
        BY <1>4, <4>1 DEF CallOK
      <4>3. item'[t] = At(Chain', 1) /\ 1 \in 1 .. Len(Chain') + 1
        <5>1. Len(Chain) \in Nat /\ Links(next, prev, Chain)
          BY DEF ListOK
        <5>2. 0 \in 0 .. Len(Chain) /\ 0 + 1 = 1 /\ At(Chain, 0) = HeadNode
          BY <5>1 DEF At
        <5>3. next[HeadNode] = At(Chain, 1)
          BY <5>1, <5>2 DEF Links
        <5> QED BY <2>1, <4>1, <5>1, <5>3
      <4>4. \A j \in 1 .. 1 - 1 : key'[Chain'[j]] # arg'[t]
        OBVIOUS
      <4> QED BY <1>1, <4>1, <4>2, <4>3, <4>4 DEF CallOK, At
    <3>3. CASE GetAdvance(t)
      <4>1. pc[t] = "get_scan" /\ pc' = pc /\ arg' = arg /\ answer' = answer
            /\ item'[t] = next[item[t]] /\ item[t] # TailNode /\ key[item[t]] # arg[t]
        BY <1>2, <3>3 DEF GetAdvance
      <4>2. arg[t] \in Keys /\ answer[t] = None
        BY <1>4, <4>1 DEF CallOK
      <4>3. PICK i \in 1 .. Len(Chain) + 1 :
              item[t] = At(Chain, i) /\ \A j \in 1 .. i - 1 : key[Chain[j]] # arg[t]
        BY <1>4, <4>1 DEF CallOK
      <4>4. /\ Len(Chain) \in Nat /\ Chain \in Seq(Nodes) /\ Once(Chain)
            /\ Links(next, prev, Chain)
        BY DEF ListOK
      <4>5. At(Chain, Len(Chain) + 1) = TailNode
            /\ \A j \in 1 .. Len(Chain) : At(Chain, j) = Chain[j]
        BY <4>4, Ats
      <4>6. i \in 1 .. Len(Chain) /\ item[t] = Chain[i]
        BY <4>1, <4>3, <4>4, <4>5
      <4>7. i \in 0 .. Len(Chain)
        BY <4>4, <4>6
      <4>8. item'[t] = At(Chain', i + 1) /\ i + 1 \in 1 .. Len(Chain') + 1
        <5>1. next[At(Chain, i)] = At(Chain, i + 1)
          BY <4>4, <4>7 DEF Links
        <5>2. At(Chain', i + 1) = At(Chain, i + 1) /\ Len(Chain') = Len(Chain)
          BY <2>1
        <5>3. i + 1 \in 1 .. Len(Chain) + 1
          BY <4>4, <4>6
        <5> QED BY <4>1, <4>3, <5>1, <5>2, <5>3
      <4>9. \A j \in 1 .. (i + 1) - 1 : key'[Chain'[j]] # arg'[t]
        <5>1. \A j \in 1 .. (i + 1) - 1 : j = i \/ j \in 1 .. i - 1
          BY <4>4, <4>6
        <5> QED BY <2>1, <4>1, <4>3, <4>6, <5>1
      <4> QED BY <1>1, <4>1, <4>2, <4>8, <4>9 DEF CallOK, At
    <3>4. CASE GetMiss(t)
      <4>1. pc[t] = "get_scan" /\ pc'[t] = "get_unlock" /\ arg' = arg
        BY <3>4, Went DEF GetMiss
      <4> QED BY <1>1, <1>4, <4>1 DEF CallOK
    <3>5. CASE GetUnlock(t)
      <4>1. pc[t] = "get_unlock" /\ pc'[t] \in {"missed", "idle"} /\ arg' = arg
        BY <3>5, Went DEF GetUnlock
      <4> QED BY <1>1, <1>4, <4>1 DEF CallOK
    <3>6. CASE DontPut(t)
      <4>1. pc'[t] = "idle"
        BY <3>6, Went DEF DontPut
      <4> QED BY <1>1, <4>1 DEF CallOK
    <3>7. CASE PutLock(t)
      <4>1. pc[t] = "put_lock" /\ pc'[t] = "put_evict" /\ UNCHANGED <<arg, item, answer>>
        BY <3>7, Went DEF PutLock
      <4> QED BY <1>1, <1>4, <2>1, <4>1 DEF CallOK
    <3>8. CASE PutUnlock(t)
      <4>1. pc'[t] = "idle"
        BY <3>8, Went DEF PutUnlock
      <4> QED BY <1>1, <4>1 DEF CallOK
    <3> QED BY <1>6, <3>1, <3>2, <3>3, <3>4, <3>5, <3>6, <3>7, <3>8 DEF Quiet
  <2> QED BY <2>2, <2>3 DEF CallsOK
\* A worker between P and V, and the others, none of which is.
<1>7. ASSUME NEW t \in Threads, pc[t] \in Within, UNCHANGED <<arg, item>>, CallOK(t)',
             \A u \in Threads : u # t => UNCHANGED <<pc[u], answer[u]>>,
             \A a \in Nodes : a \notin Linked => key'[a] = key[a]
      PROVE  CallsOK'
  <2>1. ASSUME NEW u \in Threads, u # t PROVE CallOK(u)'
    <3>1. pc[u] # "get_scan"
      BY <1>7, <2>1 DEF MutexOK, Within
    <3>2. u \in Unlinked => key'[item[u]] = key[item[u]]
      BY <1>3, <1>7
    <3> QED BY <1>5, <1>7, <2>1, <3>1, <3>2
  <2> QED BY <1>7, <2>1 DEF CallsOK
<1>8. ASSUME NEW t \in Threads, GetHit(t) PROVE CallsOK'
  <2>1. /\ pc[t] = "get_scan" /\ pc'[t] = "get_front" /\ UNCHANGED <<key, arg, item>>
        /\ \A u \in Threads : u # t => UNCHANGED <<pc[u], answer[u]>>
        /\ key[item[t]] = arg[t] /\ answer' = [answer EXCEPT ![t] = item[t]]
    BY <1>2, <1>8, Went DEF GetHit
  <2>2. answer'[t] = item[t] /\ arg[t] \in Keys
    BY <1>2, <1>4, <2>1 DEF CallOK
  <2>3. CallOK(t)'
    BY <2>1, <2>2 DEF CallOK
  <2> QED BY <1>7, <2>1, <2>3 DEF Within
<1>9. ASSUME NEW t \in Threads, GetFront(t) PROVE CallsOK'
  <2>1. /\ pc[t] = "get_front" /\ pc'[t] = "get_unlock" /\ UNCHANGED <<key, arg, item, answer>>
        /\ \A u \in Threads : u # t => pc'[u] = pc[u]
    BY <1>9, Went DEF GetFront
  <2>2. CallOK(t)'
    BY <1>1, <1>4, <2>1 DEF CallOK
  <2> QED BY <1>7, <2>1, <2>2 DEF Within
<1>10. ASSUME NEW t \in Threads, PutFront(t) PROVE CallsOK'
  <2>1. /\ pc[t] = "put_evict" /\ pc'[t] = "put_unlock" /\ UNCHANGED <<key, arg, item, answer>>
        /\ \A u \in Threads : u # t => pc'[u] = pc[u]
    BY <1>10, Went DEF PutFront
  <2>2. CallOK(t)'
    BY <1>1, <1>4, <2>1 DEF CallOK
  <2> QED BY <1>7, <2>1, <2>2 DEF Within
<1>11. ASSUME NEW t \in Threads, PutEvict(t) PROVE CallsOK'
  <2>1. /\ pc[t] = "put_evict" /\ UNCHANGED <<pc, arg, item, answer>>
        /\ key' = [key EXCEPT ![prev[TailNode]] = Null]
    BY <1>11 DEF PutEvict
  <2>2. prev[TailNode] \in Linked
    BY <1>11, EvictEffect DEF PutEvict
  <2>3. \A a \in Nodes : a \notin Linked => key'[a] = key[a]
    BY <1>2, <2>1, <2>2
  <2>4. t \in Unlinked
    BY <1>1, <2>1
  <2>5. CallOK(t)'
    BY <1>3, <1>4, <2>1, <2>3, <2>4 DEF CallOK
  <2> QED BY <1>7, <2>1, <2>3, <2>5 DEF Within
<1>12. ASSUME NEW t \in Threads, NEW a \in Nodes, NEW n \in Sizes, PutCall(t, a, n)
       PROVE  CallsOK'
  <2>1. /\ pc[t] = "missed" /\ pc'[t] = "put_lock" /\ a \notin heap
        /\ \A u \in Threads : u # t => UNCHANGED <<pc[u], item[u]>>
        /\ item'[t] = a /\ key' = [key EXCEPT ![a] = arg[t]]
        /\ UNCHANGED <<next, prev, arg, answer>>
    BY <1>2, <1>12, Went DEF PutCall
  <2>2. Chain' = Chain
    BY <2>1, QuietEffect
  <2>3. \A b \in Nodes : b # a => key'[b] = key[b]
    BY <1>2, <2>1
  <2>4. \A b \in Linked : b \in Nodes /\ b # a
    BY <1>3, <2>1 DEF HeapOK, TypeOK
  <2>5. ASSUME NEW u \in Threads, u # t PROVE CallOK(u)'
    BY <1>3, <1>5, <2>1, <2>2, <2>3, <2>4, <2>5
  <2>6. CallOK(t)'
    <3>1. key'[a] = arg[t] /\ arg[t] \in Keys
      BY <1>2, <1>4, <2>1 DEF CallOK
    <3> QED BY <2>1, <3>1 DEF CallOK
  <2> QED BY <2>5, <2>6 DEF CallsOK
<1>13. CASE UNCHANGED vars
  <2>1. UNCHANGED <<next, prev, key, pc, arg, item, answer>>
    BY <1>13 DEF vars
  <2>2. Chain' = Chain
    BY <2>1, QuietEffect
  <2>3. ASSUME NEW u \in Threads PROVE CallOK(u)'
    BY <1>5, <2>1, <2>2
  <2> QED BY <2>3 DEF CallsOK
<1> QED BY <1>6, <1>8, <1>9, <1>10, <1>11, <1>12, <1>13, Cases

LEMMA SizeNext ==
  ASSUME IInv, [Next]_vars
  PROVE  SizeOK'
<1> USE DEF IInv
<1>1. /\ lsize \in Nat /\ Total(AbstractChain) \in Nat
      /\ \A a \in heap : size[a] \in Nat
      /\ \A u \in Unlinked : item[u] \in heap /\ item[u] \in Nodes /\ item[u] \notin Linked
      /\ Linked \subseteq heap /\ heap \subseteq Nodes
      /\ size \in [Nodes -> Sizes \cup {0}] /\ key \in [Nodes -> Keys \cup {Null}]
  BY ItemsNow, SizesAre DEF HeapOK, TypeOK
<1>2. \A u \in Threads : pc[u] = "get_front" => u \in Unlinked
  BY DEF Unlinked
\* No one is moving an item, or the same one still is.
<1>3. ASSUME UNCHANGED lsize, AbstractChain' = AbstractChain,
             \A u \in Threads : pc'[u] = "get_front" <=> pc[u] = "get_front",
             \A u \in Threads : pc[u] = "get_front" =>
               item'[u] = item[u] /\ size'[item[u]] = size[item[u]]
      PROVE  SizeOK'
  BY <1>3 DEF SizeOK
<1>4. ASSUME NEW t \in Threads, Quiet(t) PROVE SizeOK'
  <2>1. UNCHANGED <<next, prev, key, size, lsize>>
    BY <1>4, QuietIs
  <2>2. AbstractChain' = AbstractChain
    BY <2>1, QuietEffect, SameItems
  <2>3. \A u \in Threads : pc'[u] = "get_front" <=> pc[u] = "get_front"
    BY <1>4, Went DEF Quiet, GetCall, GetLock, GetAdvance, GetMiss, GetUnlock, DontPut,
       PutLock, PutUnlock
  <2>4. \A u \in Threads : pc[u] = "get_front" => item'[u] = item[u]
    BY <1>4, Went DEF Quiet, GetCall, GetLock, GetAdvance, GetMiss, GetUnlock, DontPut,
       PutLock, PutUnlock, TypeOK
  <2> QED BY <1>3, <2>1, <2>2, <2>3, <2>4
<1>5. ASSUME NEW t \in Threads, NEW a \in Nodes, NEW n \in Sizes, PutCall(t, a, n)
      PROVE  SizeOK'
  <2>1. /\ a \notin heap /\ item' = [item EXCEPT ![t] = a] /\ UNCHANGED <<next, prev, lsize>>
        /\ key' = [key EXCEPT ![a] = arg[t]] /\ size' = [size EXCEPT ![a] = n]
        /\ pc[t] = "missed" /\ pc'[t] = "put_lock"
        /\ \A u \in Threads : u # t => pc'[u] = pc[u]
    BY <1>5, Went DEF PutCall
  <2>2. \A b \in heap : key'[b] = key[b] /\ size'[b] = size[b]
    BY <1>1, <2>1
  <2>3. AbstractChain' = AbstractChain
    BY <1>1, <2>1, <2>2, QuietEffect, SameItems
  <2>4. \A u \in Threads : pc[u] = "get_front" => item'[u] = item[u]
    BY <2>1 DEF TypeOK
  <2> QED BY <1>1, <1>2, <1>3, <2>1, <2>2, <2>3, <2>4
<1>6. ASSUME NEW t \in Threads, pc[t] \in Within, pc[t] # "get_front"
      PROVE  lsize = Total(AbstractChain) /\ \A u \in Threads : pc[u] # "get_front"
  <2>1. \A u \in Threads : pc[u] # "get_front"
    BY <1>6 DEF MutexOK, Within
  <2> QED BY <2>1 DEF SizeOK
<1>7. ASSUME NEW t \in Threads, GetHit(t) PROVE SizeOK'
  <2>1. /\ pc[t] = "get_scan" /\ pc'[t] = "get_front" /\ UNCHANGED <<size, lsize, item>>
        /\ \A u \in Threads : u # t => pc'[u] = pc[u]
    BY <1>7, Went DEF GetHit
  <2>2. lsize = Total(AbstractChain) /\ \A u \in Threads : pc[u] # "get_front"
    BY <1>6, <2>1 DEF Within
  <2>3. Total(AbstractChain) = size[item[t]] + Total(AbstractChain')
        /\ Total(AbstractChain') \in Nat /\ item[t] \in Linked
    BY <1>7, HitEffect, ItemsNow DEF Removes
  <2>4. size[item[t]] \in Nat
    BY <1>1, <2>3
  <2>5. lsize' = Total(AbstractChain') + size'[item'[t]]
    BY <2>1, <2>2, <2>3, <2>4
  <2> QED BY <2>1, <2>2, <2>5 DEF SizeOK
<1>8. ASSUME NEW t \in Threads, t \in Unlinked, LinkFront(item[t]), UNCHANGED <<key, size>>
      PROVE  Total(AbstractChain') = size[item[t]] + Total(AbstractChain)
  BY <1>1, <1>8, FrontEffect
<1>9. ASSUME NEW t \in Threads, GetFront(t) PROVE SizeOK'
  <2>1. /\ pc[t] = "get_front" /\ pc'[t] = "get_unlock" /\ UNCHANGED <<key, size, lsize, item>>
        /\ LinkFront(item[t]) /\ \A u \in Threads : u # t => pc'[u] = pc[u]
    BY <1>9, Went DEF GetFront
  <2>2. Total(AbstractChain') = size[item[t]] + Total(AbstractChain)
    BY <1>2, <1>8, <2>1
  <2>3. lsize = Total(AbstractChain) + size[item[t]] /\ size[item[t]] \in Nat
    BY <1>1, <1>2, <2>1 DEF SizeOK
  <2>4. \A u \in Threads : pc'[u] # "get_front"
    BY <2>1 DEF MutexOK, Within
  <2> QED BY <1>1, <2>1, <2>2, <2>3, <2>4 DEF SizeOK
<1>10. ASSUME NEW t \in Threads, PutFront(t) PROVE SizeOK'
  <2>1. /\ pc[t] = "put_evict" /\ pc'[t] = "put_unlock" /\ UNCHANGED <<key, size, item>>
        /\ lsize' = lsize + size[item[t]]
        /\ LinkFront(item[t]) /\ \A u \in Threads : u # t => pc'[u] = pc[u]
    BY <1>10, Went DEF PutFront
  <2>2. t \in Unlinked
    BY <2>1 DEF Unlinked
  <2>3. Total(AbstractChain') = size[item[t]] + Total(AbstractChain)
    BY <1>8, <2>1, <2>2
  <2>4. lsize = Total(AbstractChain) /\ \A u \in Threads : pc[u] # "get_front"
    BY <1>6, <2>1 DEF Within
  <2>5. size[item[t]] \in Nat
    BY <1>1, <2>2
  <2>6. lsize' = Total(AbstractChain') /\ \A u \in Threads : pc'[u] # "get_front"
    BY <1>1, <2>1, <2>3, <2>4, <2>5
  <2> QED BY <2>6 DEF SizeOK
<1>11. ASSUME NEW t \in Threads, PutEvict(t) PROVE SizeOK'
  <2>1. /\ pc[t] = "put_evict" /\ pc' = pc /\ lsize' = lsize - size[prev[TailNode]]
        /\ TooFull(t)
    BY <1>11 DEF PutEvict
  <2>2. /\ lsize = Total(AbstractChain) /\ prev[TailNode] \in Linked
        /\ Total(AbstractChain) = size[prev[TailNode]] + Total(AbstractChain')
        /\ Total(AbstractChain') \in Nat
    BY <1>11, <2>1, EvictEffect DEF Removes
  <2>3. size[prev[TailNode]] \in Nat
    BY <1>1, <2>2
  <2>4. lsize' = Total(AbstractChain') /\ \A u \in Threads : pc'[u] # "get_front"
    BY <1>6, <2>1, <2>2, <2>3 DEF Within
  <2> QED BY <2>4 DEF SizeOK
<1>12. CASE UNCHANGED vars
  <2>1. UNCHANGED <<next, prev, key, size, lsize, pc, item>>
    BY <1>12 DEF vars
  <2>2. AbstractChain' = AbstractChain
    BY <2>1, QuietEffect, SameItems
  <2> QED BY <1>3, <2>1, <2>2
<1> QED BY <1>4, <1>5, <1>7, <1>9, <1>10, <1>11, <1>12, Cases

LEMMA CopiesNext ==
  ASSUME IInv, [Next]_vars
  PROVE  CopiesOK'
<1> USE DEF IInv
<1>1. /\ IsFiniteSet(Threads) /\ IsFiniteSet(Nodes) /\ heap \subseteq Nodes
      /\ arg \in [Threads -> Keys \cup {Null}]
      /\ answer \in [Threads -> Nodes \cup {None}]
      /\ key \in [Nodes -> Keys \cup {Null}]
  BY LruAssumption DEF TypeOK
<1>2. ASSUME NEW k \in Keys
      PROVE  /\ Copies(k) \in SUBSET Nodes /\ Waiting(k) \in SUBSET Threads
             /\ IsFiniteSet(Copies(k)) /\ IsFiniteSet(Waiting(k))
             /\ Cardinality(Copies(k)) \in Nat /\ Cardinality(Waiting(k)) \in Nat
             /\ Cardinality(Threads) \in Nat
             /\ Cardinality(Copies(k)) + Cardinality(Waiting(k)) <= Cardinality(Threads)
  <2>1. Copies(k) \in SUBSET Nodes /\ Waiting(k) \in SUBSET Threads
    BY <1>1 DEF Copies, Waiting
  <2> QED BY <1>1, <2>1, FS_Subset, FS_CardinalityType DEF CopiesOK
\* No more copies, and no more workers that wait for one.
<1>3. ASSUME NEW k \in Keys, Copies(k)' \subseteq Copies(k), Waiting(k)' \subseteq Waiting(k)
      PROVE  Cardinality(Copies(k)') + Cardinality(Waiting(k)') <= Cardinality(Threads)
  <2> DEFINE A == Copies(k)
             B == Copies(k)'
             V1 == Waiting(k)
             W == Waiting(k)'
  <2>1. /\ IsFiniteSet(A) /\ IsFiniteSet(V1) /\ B \in SUBSET A /\ W \in SUBSET V1
        /\ Cardinality(A) \in Nat /\ Cardinality(V1) \in Nat /\ Cardinality(Threads) \in Nat
        /\ Cardinality(A) + Cardinality(V1) <= Cardinality(Threads)
    BY <1>2, <1>3
  <2> HIDE DEF A, B, V1, W
  <2>2. /\ IsFiniteSet(B) /\ IsFiniteSet(W)
        /\ Cardinality(B) <= Cardinality(A) /\ Cardinality(W) <= Cardinality(V1)
    BY <2>1, FS_Subset
  <2>3. Cardinality(B) \in Nat /\ Cardinality(W) \in Nat
    BY <2>2, FS_CardinalityType
  <2>4. Cardinality(B) + Cardinality(W) <= Cardinality(Threads)
    BY <2>1, <2>2, <2>3
  <2> QED BY <2>4 DEF B, W
<1>4. ASSUME UNCHANGED <<heap, key>>,
             \A u \in Threads : arg'[u] = arg[u] \/ pc'[u] = "get_lock",
             \A u \in Threads :
               pc'[u] = "missed" \/ (pc'[u] = "get_unlock" /\ answer'[u] = None) =>
                 pc[u] = "missed" \/ (pc[u] = "get_unlock" /\ answer[u] = None)
      PROVE  CopiesOK'
  <2>1. \A k \in Keys : Copies(k)' \subseteq Copies(k) /\ Waiting(k)' \subseteq Waiting(k)
    BY <1>4 DEF Copies, Waiting
  <2> QED BY <1>3, <2>1 DEF CopiesOK
<1>5. ASSUME NEW t \in Threads, NEW k \in Keys, GetCall(t, k) PROVE CopiesOK'
  <2>1. /\ pc'[t] = "get_lock" /\ UNCHANGED <<heap, key, answer>>
        /\ \A u \in Threads : u # t => pc'[u] = pc[u] /\ arg'[u] = arg[u]
    BY <1>1, <1>5, Went DEF GetCall
  <2> QED BY <1>4, <2>1
<1>6. ASSUME NEW t \in Threads, GetLock(t) PROVE CopiesOK'
  <2>1. /\ pc'[t] = "get_scan" /\ UNCHANGED <<heap, key, arg>>
        /\ \A u \in Threads : u # t => pc'[u] = pc[u] /\ answer'[u] = answer[u]
    BY <1>1, <1>6, Went DEF GetLock
  <2> QED BY <1>4, <2>1
<1>7. ASSUME NEW t \in Threads, GetAdvance(t) PROVE CopiesOK'
  BY <1>4, <1>7 DEF GetAdvance
<1>8. ASSUME NEW t \in Threads, GetHit(t) PROVE CopiesOK'
  <2>1. /\ pc'[t] = "get_front" /\ UNCHANGED <<heap, key, arg>>
        /\ \A u \in Threads : u # t => pc'[u] = pc[u] /\ answer'[u] = answer[u]
    BY <1>1, <1>8, Went DEF GetHit
  <2> QED BY <1>4, <2>1
<1>9. ASSUME NEW t \in Threads, GetFront(t) PROVE CopiesOK'
  <2>1. /\ pc[t] = "get_front" /\ pc'[t] = "get_unlock" /\ UNCHANGED <<heap, key, arg, answer>>
        /\ \A u \in Threads : u # t => pc'[u] = pc[u]
    BY <1>9, Went DEF GetFront
  <2>2. answer[t] # None
    <3>1. answer[t] = item[t] /\ item[t] \in Nodes
      BY <2>1 DEF CallsOK, CallOK, HeapOK, Unlinked
    <3> QED BY <3>1, LruAssumption
  <2> QED BY <1>4, <2>1, <2>2
\* A worker that finds no copy joins those that wait for one; all copies are
\* then held by others.
<1>10. ASSUME NEW t \in Threads, GetMiss(t) PROVE CopiesOK'
  <2>1. /\ pc[t] = "get_scan" /\ pc'[t] = "get_unlock" /\ item[t] = TailNode
        /\ UNCHANGED <<heap, key, arg, answer, item>>
        /\ \A u \in Threads : u # t => pc'[u] = pc[u]
    BY <1>10, Went DEF GetMiss
  <2>2. ASSUME NEW k \in Keys, k # arg[t]
        PROVE  Cardinality(Copies(k)') + Cardinality(Waiting(k)') <= Cardinality(Threads)
    <3>1. Copies(k)' \subseteq Copies(k) /\ Waiting(k)' \subseteq Waiting(k)
      BY <2>1, <2>2 DEF Copies, Waiting
    <3> QED BY <1>3, <3>1
  <2>3. ASSUME NEW k \in Keys, k = arg[t]
        PROVE  Cardinality(Copies(k)') + Cardinality(Waiting(k)') <= Cardinality(Threads)
    <3>1. \A a \in Linked : key[a] # k
      <4>1. PICK i \in 1 .. Len(Chain) + 1 :
              item[t] = At(Chain, i) /\ \A j \in 1 .. i - 1 : key[Chain[j]] # arg[t]
        BY <2>1 DEF CallsOK, CallOK
      <4>2. /\ Chain \in Seq(Nodes) /\ Once(Chain) /\ Len(Chain) \in Nat
            /\ DOMAIN Chain = 1 .. Len(Chain)
        BY DEF ListOK
      <4>3. i = Len(Chain) + 1
        BY <2>1, <4>1, <4>2, Ats
      <4>4. \A j \in DOMAIN Chain : key[Chain[j]] # k
        BY <2>3, <4>1, <4>2, <4>3
      <4> QED BY <4>4 DEF Linked, Range
    <3> DEFINE U == {u \in Unlinked : arg[u] = k}
               T == {item[u] : u \in U}
               f == [u \in U |-> item[u]]
               B == Copies(k)'
               W == Waiting(k)'
    <3>2. B \in SUBSET T
      <4> SUFFICES ASSUME NEW a \in B PROVE a \in T
        OBVIOUS
      <4>1. a \in heap /\ key[a] = k
        BY <2>1 DEF Copies
      <4>2. PICK u \in Unlinked : a = item[u]
        BY <3>1, <4>1 DEF HeapOK
      <4>3. key[item[u]] = arg[u]
        BY <4>2 DEF CallsOK, CallOK, Unlinked
      <4> QED BY <4>1, <4>2, <4>3
    <3>3. U \in SUBSET Threads /\ W \in SUBSET Threads /\ U \cap W = {}
      <4>1. \A u \in U : u \in Threads /\ pc[u] \in {"put_lock", "put_evict", "get_front"}
        BY DEF Unlinked
      <4>2. \A u \in W : u \in Threads /\ pc'[u] \in {"missed", "get_unlock"}
        BY DEF Waiting
      <4>3. \A u \in U : u \notin W
        BY <2>1, <4>1, <4>2
      <4> QED BY <4>1, <4>2, <4>3
    <3>4. f \in Surjection(U, T)
      BY DEF Surjection
    <3> HIDE DEF U, T, f, B, W
    <3>5. IsFiniteSet(U) /\ IsFiniteSet(W)
      BY <1>1, <3>3, FS_Subset
    <3>6. IsFiniteSet(T) /\ Cardinality(T) <= Cardinality(U)
      BY <3>4, <3>5, FS_Surjection
    <3>7. IsFiniteSet(B) /\ Cardinality(B) <= Cardinality(T)
      BY <3>2, <3>6, FS_Subset
    <3>8. Cardinality(U \cup W) = Cardinality(U) + Cardinality(W) - Cardinality(U \cap W)
      BY <3>5, FS_Union
    <3>9. Cardinality(U \cap W) = 0
      BY <3>3, FS_EmptySet
    <3>10. Cardinality(U \cup W) <= Cardinality(Threads)
      <4>1. U \cup W \in SUBSET Threads
        BY <3>3
      <4> QED BY <1>1, <4>1, FS_Subset
    <3>11. /\ Cardinality(U) \in Nat /\ Cardinality(W) \in Nat /\ Cardinality(T) \in Nat
           /\ Cardinality(B) \in Nat /\ Cardinality(Threads) \in Nat
      BY <1>1, <3>5, <3>6, <3>7, FS_CardinalityType
    <3>12. Cardinality(B) + Cardinality(W) <= Cardinality(Threads)
      BY <3>6, <3>7, <3>8, <3>9, <3>10, <3>11
    <3> QED BY <3>12 DEF B, W
  <2> QED BY <2>2, <2>3 DEF CopiesOK
<1>11. ASSUME NEW t \in Threads, GetUnlock(t) PROVE CopiesOK'
  <2>1. /\ pc[t] = "get_unlock" /\ UNCHANGED <<heap, key, arg, answer>>
        /\ pc'[t] = IF answer[t] = None THEN "missed" ELSE "idle"
        /\ \A u \in Threads : u # t => pc'[u] = pc[u]
    BY <1>11, Went DEF GetUnlock
  <2> QED BY <1>4, <2>1
<1>12. ASSUME NEW t \in Threads, DontPut(t) PROVE CopiesOK'
  <2>1. /\ pc'[t] = "idle" /\ UNCHANGED <<heap, key, arg, answer>>
        /\ \A u \in Threads : u # t => pc'[u] = pc[u]
    BY <1>12, Went DEF DontPut
  <2> QED BY <1>4, <2>1
\* The worker that puts a copy no longer waits.
<1>13. ASSUME NEW t \in Threads, NEW a \in Nodes, NEW n \in Sizes, PutCall(t, a, n)
       PROVE  CopiesOK'
  <2>1. /\ pc[t] = "missed" /\ pc'[t] = "put_lock" /\ a \notin heap
        /\ heap' = heap \cup {a} /\ key' = [key EXCEPT ![a] = arg[t]]
        /\ \A u \in Threads : u # t => pc'[u] = pc[u]
        /\ UNCHANGED <<arg, answer>>
    BY <1>13, Went DEF PutCall
  <2>2. key'[a] = arg[t] /\ \A b \in heap : key'[b] = key[b]
    BY <1>1, <2>1
  <2>3. ASSUME NEW k \in Keys, k # arg[t]
        PROVE  Cardinality(Copies(k)') + Cardinality(Waiting(k)') <= Cardinality(Threads)
    <3>1. Copies(k)' \subseteq Copies(k) /\ Waiting(k)' \subseteq Waiting(k)
      BY <2>1, <2>2, <2>3 DEF Copies, Waiting
    <3> QED BY <1>3, <3>1
  <2>4. ASSUME NEW k \in Keys, k = arg[t]
        PROVE  Cardinality(Copies(k)') + Cardinality(Waiting(k)') <= Cardinality(Threads)
    <3> DEFINE A == Copies(k)
               W == Waiting(k)
    <3>1. Copies(k)' = A \cup {a} /\ a \notin A
      BY <2>1, <2>2, <2>4 DEF Copies
    <3>2. Waiting(k)' = W \ {t} /\ t \in W
      BY <2>1, <2>4 DEF Waiting
    <3>3. /\ IsFiniteSet(A) /\ IsFiniteSet(W) /\ Cardinality(A) \in Nat
          /\ Cardinality(W) \in Nat /\ Cardinality(Threads) \in Nat
          /\ Cardinality(A) + Cardinality(W) <= Cardinality(Threads)
      BY <1>2
    <3> HIDE DEF A, W
    <3>4. Cardinality(A \cup {a}) = Cardinality(A) + 1
      BY <3>1, <3>3, FS_AddElement
    <3>5. Cardinality(W \ {t}) = Cardinality(W) - 1
      BY <3>2, <3>3, FS_RemoveElement
    <3> QED BY <3>1, <3>2, <3>3, <3>4, <3>5
  <2> QED BY <2>3, <2>4 DEF CopiesOK
<1>14. ASSUME NEW t \in Threads, PutLock(t) PROVE CopiesOK'
  <2>1. /\ pc'[t] = "put_evict" /\ UNCHANGED <<heap, key, arg, answer>>
        /\ \A u \in Threads : u # t => pc'[u] = pc[u]
    BY <1>14, Went DEF PutLock
  <2> QED BY <1>4, <2>1
<1>15. ASSUME NEW t \in Threads, PutEvict(t) PROVE CopiesOK'
  <2>1. /\ heap' = heap \ {prev[TailNode]} /\ key' = [key EXCEPT ![prev[TailNode]] = Null]
        /\ UNCHANGED <<pc, arg, answer>>
    BY <1>15 DEF PutEvict
  <2>2. \A b \in heap' : b \in heap /\ key'[b] = key[b]
    BY <1>1, <2>1
  <2>3. \A k \in Keys : Copies(k)' \subseteq Copies(k) /\ Waiting(k)' \subseteq Waiting(k)
    BY <2>1, <2>2 DEF Copies, Waiting
  <2> QED BY <1>3, <2>3 DEF CopiesOK
<1>16. ASSUME NEW t \in Threads, PutFront(t) PROVE CopiesOK'
  <2>1. /\ pc'[t] = "put_unlock" /\ UNCHANGED <<heap, key, arg, answer>>
        /\ \A u \in Threads : u # t => pc'[u] = pc[u]
    BY <1>16, Went DEF PutFront
  <2> QED BY <1>4, <2>1
<1>17. ASSUME NEW t \in Threads, PutUnlock(t) PROVE CopiesOK'
  <2>1. /\ pc'[t] = "idle" /\ UNCHANGED <<heap, key, arg, answer>>
        /\ \A u \in Threads : u # t => pc'[u] = pc[u]
    BY <1>17, Went DEF PutUnlock
  <2> QED BY <1>4, <2>1
<1>18. CASE UNCHANGED vars
  BY <1>4, <1>18 DEF vars
<1> QED BY <1>5, <1>6, <1>7, <1>8, <1>9, <1>10, <1>11, <1>12, <1>13, <1>14, <1>15,
           <1>16, <1>17, <1>18 DEF Next, Step

LEMMA Initially == Init => IInv
<1> SUFFICES ASSUME Init PROVE IInv
  OBVIOUS
<1> USE DEF Init
<1>1. HeadNode \in Addresses /\ TailNode \in Addresses /\ HeadNode # TailNode
  BY LruAssumption DEF Addresses
<1>2. TypeOK
  BY <1>1, SizesAre DEF TypeOK
<1> DEFINE c == <<>>
<1>3. /\ c \in Seq(Nodes) /\ Once(c) /\ Len(c) = 0
      /\ At(c, 0) = HeadNode /\ At(c, 1) = TailNode
  BY DEF Once, At
<1>4. Links(next, prev, c)
  <2>1. next[HeadNode] = TailNode /\ prev[TailNode] = HeadNode
    BY <1>1
  <2>2. \A i \in 0 .. Len(c) : i = 0
    BY <1>3
  <2> HIDE DEF c
  <2> QED BY <1>3, <2>1, <2>2 DEF Links
<1>5. Chain = c
  <2> HIDE DEF c, Init
  <2> QED BY <1>3, <1>4, ChainIs DEF Chain, Links
<1>6. ListOK
  <2> HIDE DEF c, Init
  <2> QED BY <1>3, <1>4, <1>5 DEF ListOK
<1>7. \A t \in Threads : pc[t] = "idle"
  OBVIOUS
<1>8. MutexOK
  BY <1>7 DEF MutexOK, Within
<1>9. Linked = {} /\ AbstractChain = <<>>
  <2>1. DOMAIN c = {}
    OBVIOUS
  <2>2. Linked = {}
    BY <1>5, <2>1 DEF Linked, Range
  <2>3. Len(AbstractChain) = 0 /\ AbstractChain \in Seq(Items)
    BY <1>2, <1>3, <1>5, <1>6, ItemsNow
  <2> QED BY <2>2, <2>3
<1>10. Unlinked = {}
  BY <1>7 DEF Unlinked
<1>11. HeapOK
  BY <1>9, <1>10 DEF HeapOK
<1>12. CallsOK
  BY <1>7, <1>10 DEF CallsOK, CallOK
<1>13. SizeOK
  BY <1>7, <1>9, TotalEmpty DEF SizeOK
<1>14. CopiesOK
  <2>1. \A k \in Keys : Copies(k) = {} /\ Waiting(k) = {}
    BY <1>7 DEF Copies, Waiting
  <2>2. Cardinality({}) = 0 /\ Cardinality(Threads) \in Nat
    BY FS_EmptySet, FS_CardinalityType, LruAssumption
  <2>3. \A k \in Keys : Cardinality(Copies(k)) = 0 /\ Cardinality(Waiting(k)) = 0
    BY <2>1, <2>2
  <2> HIDE DEF Init
  <2> QED BY <2>2, <2>3 DEF CopiesOK
<1> QED BY <1>2, <1>6, <1>8, <1>11, <1>12, <1>13, <1>14 DEF IInv

LEMMA IInvNext ==
  ASSUME IInv, [Next]_vars
  PROVE  IInv'
BY TypeNext, ListNext, MutexNext, HeapNext, CallsNext, SizeNext, CopiesNext DEF IInv

\* The inductive invariant holds at every step.
THEOREM IInvHolds == Spec => []IInv
<1>1. IInv /\ [Next]_vars => IInv'
  BY IInvNext
<1> QED BY Initially, <1>1, PTL DEF Spec

----------------------------------------------------------------------------
(* What follows from the invariant *)

\* The list is a chain from head to tail at every step, each item malloc'ed is
\* on it once or is being put or moved by exactly one worker.
LEMMA IInvLinked == IInv => WellLinked
<1> SUFFICES ASSUME IInv PROVE WellLinked
  OBVIOUS
<1> USE DEF IInv
<1> DEFINE c == Chain
           chain == <<HeadNode>> \o c \o <<TailNode>>
<1>1. c \in Seq(Nodes) /\ Once(c) /\ Len(c) \in Nat /\ Links(next, prev, c)
  BY DEF ListOK
<1> DEFINE A == Nodes \cup {HeadNode, TailNode}
           front == <<HeadNode>> \o c
<1>2. c \in Seq(A) /\ <<HeadNode>> \in Seq(A) /\ <<TailNode>> \in Seq(A)
  BY <1>1
<1> HIDE DEF A, c
<1>3. /\ front \in Seq(A) /\ Len(front) = Len(c) + 1 /\ front[1] = HeadNode
      /\ \A i \in 2 .. Len(c) + 1 : front[i] = c[i - 1]
  BY <1>1, <1>2
<1>4. chain = front \o <<TailNode>>
  OBVIOUS
<1> HIDE DEF front
<1>5. /\ Len(chain) = Len(c) + 2 /\ chain[Len(c) + 2] = TailNode
      /\ \A i \in 1 .. Len(c) + 1 : chain[i] = front[i]
  BY <1>1, <1>2, <1>3
<1> HIDE DEF chain
<1>6. ASSUME NEW i \in 1 .. Len(c) + 2 PROVE chain[i] = At(c, i - 1)
  <2>1. CASE i = 1
    BY <1>1, <1>3, <1>5, <2>1 DEF At
  <2>2. CASE i = Len(c) + 2
    BY <1>1, <1>5, <2>2 DEF At
  <2>3. CASE i # 1 /\ i # Len(c) + 2
    <3>1. i \in 2 .. Len(c) + 1 /\ i \in 1 .. Len(c) + 1 /\ i - 1 # 0 /\ i - 1 # Len(c) + 1
      BY <1>1, <2>3
    <3> QED BY <1>3, <1>5, <3>1 DEF At
  <2> QED BY <2>1, <2>2, <2>3
<1>7. \A i \in 1 .. Len(chain) - 1 :
        next[chain[i]] = chain[i + 1] /\ prev[chain[i + 1]] = chain[i]
  <2> SUFFICES ASSUME NEW i \in 1 .. Len(c) + 1
               PROVE  next[chain[i]] = chain[i + 1] /\ prev[chain[i + 1]] = chain[i]
    BY <1>1, <1>5
  <2>1. /\ i \in 1 .. Len(c) + 2 /\ i + 1 \in 1 .. Len(c) + 2 /\ (i + 1) - 1 = i
        /\ i - 1 \in 0 .. Len(c) /\ (i - 1) + 1 = i
    BY <1>1
  <2>2. chain[i] = At(c, i - 1) /\ chain[i + 1] = At(c, i)
    BY <1>6, <2>1
  <2>3. next[At(c, i - 1)] = At(c, i) /\ prev[At(c, i)] = At(c, i - 1)
    BY <1>1, <2>1 DEF Links
  <2> QED BY <2>2, <2>3
<1>8. Cardinality(heap) = Len(c) + Cardinality(Unlinked)
  <2> DEFINE U == Unlinked
             T == {item[u] : u \in U}
             f == [u \in U |-> item[u]]
             K == Linked
  <2>1. heap = K \cup T /\ K \cap T = {} /\ \A u, v \in U : item[u] = item[v] => u = v
    BY DEF HeapOK
  <2>2. U \in SUBSET Threads
    BY DEF Unlinked
  <2>3. f \in Bijection(U, T)
    BY <2>1 DEF Bijection, Injection, Surjection, IsInjective
  <2>4. IsFiniteSet(K) /\ Cardinality(K) = Len(c)
    BY <1>1, LenBound DEF Linked, c
  <2> HIDE DEF U, T, f, K
  <2>5. IsFiniteSet(U)
    BY <2>2, FS_Subset, LruAssumption
  <2>6. ExistsBijection(U, T)
    BY <2>3 DEF ExistsBijection
  <2>7. IsFiniteSet(T) /\ Cardinality(T) = Cardinality(U)
    BY <2>5, <2>6, FS_Bijection
  <2>8. Cardinality(K \cup T) = Cardinality(K) + Cardinality(T) - Cardinality(K \cap T)
    BY <2>4, <2>7, FS_Union
  <2>9. Cardinality(K \cap T) = 0
    BY <2>1, FS_EmptySet
  <2>10. Cardinality(U) \in Nat
    BY <2>5, FS_CardinalityType
  <2>11. Cardinality(heap) = Len(c) + Cardinality(U)
    BY <1>1, <2>1, <2>4, <2>7, <2>8, <2>9, <2>10
  <2> QED BY <2>11 DEF U
<1>9. Len(chain) - 2 = Len(c)
  BY <1>1, <1>5
<1>10. heap = Linked \cup {item[t] : t \in Unlinked} /\ TypeOK
  BY DEF HeapOK
<1> QED BY <1>7, <1>8, <1>9, <1>10 DEF WellLinked, chain, c

THEOREM WellLinkedHolds == Spec => []WellLinked
BY IInvHolds, IInvLinked, PTL

\* The size counted is that of what is linked or being moved, and the loop that
\* evicts ends before the list does.
LEMMA IInvSize == IInv => SizeIsSum
<1> SUFFICES ASSUME IInv PROVE SizeIsSum
  OBVIOUS
<1> USE DEF IInv
<1> DEFINE G == {t \in Threads : pc[t] = "get_front"}
           g == CHOOSE t \in Threads : pc[t] = "get_front"
<1>1. lsize = Total(AbstractChain)
              + (IF \E t \in Threads : pc[t] = "get_front" THEN size[item[g]] ELSE 0)
  <2>1. CASE \E t \in Threads : pc[t] = "get_front"
    <3>1. g \in Threads /\ pc[g] = "get_front"
      BY <2>1
    <3> HIDE DEF g
    <3>2. lsize = Total(AbstractChain) + size[item[g]]
      BY <3>1 DEF SizeOK
    <3> QED BY <2>1, <3>2
  <2>2. CASE ~ \E t \in Threads : pc[t] = "get_front"
    <3>1. lsize = Total(AbstractChain) /\ Total(AbstractChain) \in Nat
      BY <2>2, ItemsNow DEF SizeOK
    <3> QED BY <2>2, <3>1
  <2> QED BY <2>1, <2>2
<1>2. \A t \in Threads : pc[t] = "put_evict" /\ TooFull(t) => prev[TailNode] \in Nodes
  BY EvictEffect
<1> QED BY <1>1, <1>2 DEF SizeIsSum

THEOREM SizeIsSumHolds == Spec => []SizeIsSum
BY IInvHolds, IInvSize, PTL

\* Copies of a key, cached or about to be, never exceed the number of workers.
LEMMA IInvCopies == IInv => DuplicatesBounded
<1> SUFFICES ASSUME IInv, NEW k \in Keys
             PROVE  Cardinality({a \in heap : key[a] = k})
                      + Cardinality({t \in Threads : pc[t] = "missed" /\ arg[t] = k})
                    <= Cardinality(Threads)
  BY DEF DuplicatesBounded
<1> DEFINE A == {a \in heap : key[a] = k}
           M == {t \in Threads : pc[t] = "missed" /\ arg[t] = k}
           W == Waiting(k)
<1>1. /\ Cardinality(A) + Cardinality(W) <= Cardinality(Threads)
      /\ A \in SUBSET Nodes /\ W \in SUBSET Threads /\ M \in SUBSET W
  BY DEF IInv, CopiesOK, Copies, Waiting, TypeOK
<1> HIDE DEF A, M, W
<1>2. IsFiniteSet(A) /\ IsFiniteSet(W)
  BY <1>1, LruAssumption, FS_Subset
<1>3. IsFiniteSet(M) /\ Cardinality(M) <= Cardinality(W)
  BY <1>1, <1>2, FS_Subset
<1>4. /\ Cardinality(A) \in Nat /\ Cardinality(M) \in Nat /\ Cardinality(W) \in Nat
      /\ Cardinality(Threads) \in Nat
  BY <1>2, <1>3, LruAssumption, FS_CardinalityType
<1>5. Cardinality(A) + Cardinality(M) <= Cardinality(Threads)
  BY <1>1, <1>3, <1>4
<1> QED BY <1>5 DEF A, M

THEOREM DuplicatesBoundedHolds == Spec => []DuplicatesBounded
BY IInvHolds, IInvCopies, PTL

----------------------------------------------------------------------------
(* The refinement *)

\* The abstract cache computes with the same operators.
LEMMA SameOperators ==
  /\ Abs!None = None
  /\ \A k, r, n : Abs!Item(k, r, n) = Item(k, r, n)
  /\ \A s, k : Abs!Touch(s, k) = Touch(s, k) /\ Abs!Lookup(s, k) = Lookup(s, k)
  /\ \A s, it : Abs!Insert(s, it) = Insert(s, it)
<1>1. Abs!None = None
  BY DEF Abs!None, None
<1>2. \A k, r, n : Abs!Item(k, r, n) = Item(k, r, n)
  BY DEF Abs!Item, Item
<1>3. \A s, k : Abs!Touch(s, k) = Touch(s, k)
  BY DEF Abs!Touch, Touch, Abs!Hits, Hits, Abs!First, First,
         Abs!RemoveAt, RemoveAt
<1>4. \A s, k : Abs!Lookup(s, k) = Lookup(s, k)
  BY <1>1 DEF Abs!Lookup, Lookup, Abs!Hits, Hits, Abs!First, First
<1>5. ASSUME NEW s PROVE Abs!Total(s) = Total(s)
  BY DEF Abs!Total, Total, Abs!FoldSeq, FoldSeq, Abs!FoldFunction, FoldFunction,
         Abs!FoldFunctionOnSet, FoldFunctionOnSet, Abs!MapThenFoldSet, MapThenFoldSet
<1>6. \A s, it : Abs!Insert(s, it) = Insert(s, it)
  BY <1>5 DEF Abs!Insert, Insert, Abs!Trim, Trim
<1> QED BY <1>1, <1>2, <1>3, <1>4, <1>6

\* What the abstract list is, by who is changing the concrete one.
AbsOK ==
  /\ \A t \in Threads : pc[t] = "get_scan" => AbsLru = Touch(AbstractChain, arg[t])
  /\ \A t \in Threads : pc[t] = "get_front" =>
       AbsLru = <<AbstractItem(item[t])>> \o AbstractChain
  /\ \A t \in Threads : pc[t] = "put_evict" =>
       AbsLru = Insert(AbstractChain, AbstractItem(item[t]))
  /\ (\A t \in Threads : pc[t] \notin {"get_scan", "get_front", "put_evict"}) =>
       AbsLru = AbstractChain

LEMMA AbsIs == MutexOK => AbsOK
<1> SUFFICES ASSUME MutexOK PROVE AbsOK
  OBVIOUS
<1>1. ASSUME NEW t \in Threads, NEW l \in {"get_scan", "get_front", "put_evict"}, pc[t] = l
      PROVE  /\ (CHOOSE u \in Inside(l) : TRUE) = t /\ Inside(l) # {}
             /\ \A m \in {"get_scan", "get_front", "put_evict"} : m # l => Inside(m) = {}
  <2>1. \A u \in Threads : pc[u] \in {"get_scan", "get_front", "put_evict"} => u = t
    BY <1>1 DEF MutexOK, Within
  <2>2. Inside(l) = {t}
    BY <1>1, <2>1 DEF Inside
  <2>3. \A m \in {"get_scan", "get_front", "put_evict"} : m # l => Inside(m) = {}
    BY <1>1, <2>1 DEF Inside
  <2> QED BY <2>2, <2>3
<1>2. ASSUME NEW t \in Threads, pc[t] = "get_scan"
      PROVE  AbsLru = Touch(AbstractChain, arg[t])
  BY <1>1, <1>2, Zenon DEF AbsLru
<1>3. ASSUME NEW t \in Threads, pc[t] = "get_front"
      PROVE  AbsLru = <<AbstractItem(item[t])>> \o AbstractChain
  <2>1. /\ Inside("get_scan") = {} /\ Inside("get_front") # {}
        /\ (CHOOSE u \in Inside("get_front") : TRUE) = t
    BY <1>1, <1>3
  <2> QED BY <2>1, Zenon DEF AbsLru
<1>4. ASSUME NEW t \in Threads, pc[t] = "put_evict"
      PROVE  AbsLru = Insert(AbstractChain, AbstractItem(item[t]))
  <2>1. /\ Inside("get_scan") = {} /\ Inside("get_front") = {} /\ Inside("put_evict") # {}
        /\ (CHOOSE u \in Inside("put_evict") : TRUE) = t
    BY <1>1, <1>4
  <2> QED BY <2>1, Zenon DEF AbsLru
<1>5. ASSUME \A t \in Threads : pc[t] \notin {"get_scan", "get_front", "put_evict"}
      PROVE  AbsLru = AbstractChain
  <2>1. Inside("get_scan") = {} /\ Inside("get_front") = {} /\ Inside("put_evict") = {}
    BY <1>5 DEF Inside
  <2> QED BY <2>1, Zenon DEF AbsLru
<1> QED BY <1>2, <1>3, <1>4, <1>5 DEF AbsOK

LEMMA AbsIsNext == MutexOK' => AbsOK'
BY AbsIs, PTL

\* Steps that leave the abstract list, the requests or the answers as they are.
LEMMA SameLru ==
  ASSUME AbstractChain' = AbstractChain,
         \A l \in {"get_scan", "get_front", "put_evict"} :
           \A u \in Threads : pc'[u] = l <=> pc[u] = l,
         \A u \in Threads : pc[u] = "get_scan" => arg'[u] = arg[u],
         \A u \in Threads : pc[u] \in {"get_front", "put_evict"} =>
           AbstractItem(item[u])' = AbstractItem(item[u]),
         IInv, MutexOK'
  PROVE  AbsLru' = AbsLru
<1>1. AbsOK /\ AbsOK'
  BY AbsIs, AbsIsNext DEF IInv
<1>2. CASE \E u \in Threads : pc[u] = "get_scan"
  <2>1. PICK u \in Threads : pc[u] = "get_scan"
    BY <1>2
  <2>2. AbsLru = Touch(AbstractChain, arg[u]) /\ AbsLru' = Touch(AbstractChain', arg'[u])
    BY <1>1, <2>1 DEF AbsOK, Touch, Hits, First
  <2> QED BY <2>1, <2>2
<1>3. CASE \E u \in Threads : pc[u] = "get_front"
  <2>1. PICK u \in Threads : pc[u] = "get_front"
    BY <1>3
  <2>2. /\ AbsLru = <<AbstractItem(item[u])>> \o AbstractChain
        /\ AbsLru' = <<AbstractItem(item[u])'>> \o AbstractChain'
    BY <1>1, <2>1 DEF AbsOK, AbstractItem
  <2> QED BY <2>1, <2>2
<1>4. CASE \E u \in Threads : pc[u] = "put_evict"
  <2>1. PICK u \in Threads : pc[u] = "put_evict"
    BY <1>4
  <2>2. /\ AbsLru = Insert(AbstractChain, AbstractItem(item[u]))
        /\ AbsLru' = Insert(AbstractChain', AbstractItem(item[u])')
    BY <1>1, <2>1 DEF AbsOK, AbstractItem
  <2> QED BY <2>1, <2>2
<1>5. CASE \A u \in Threads : pc[u] \notin {"get_scan", "get_front", "put_evict"}
  BY <1>1, <1>5 DEF AbsOK
<1> QED BY <1>2, <1>3, <1>4, <1>5

LEMMA SameRequest ==
  ASSUME \A l \in {"get_lock", "put_lock"} : \A u \in Threads : pc'[u] = l <=> pc[u] = l,
         \A u \in Threads : pc[u] = "get_lock" => arg'[u] = arg[u],
         \A u \in Threads : pc[u] = "put_lock" =>
           AbstractItem(item[u])' = AbstractItem(item[u])
  PROVE  AbsRequest' = AbsRequest
BY DEF AbsRequest, AbstractItem

LEMMA SameAnswer ==
  ASSUME AbstractChain' = AbstractChain,
         \A u \in Threads : pc'[u] = "get_scan" <=> pc[u] = "get_scan",
         \A u \in Threads : pc[u] = "get_scan" => arg'[u] = arg[u],
         \A u \in Threads : answer'[u] = answer[u]
  PROVE  AbsAnswer' = AbsAnswer
<1>1. ASSUME NEW u \in Threads
      PROVE  (IF pc'[u] = "get_scan" THEN Lookup(AbstractChain', arg'[u]) ELSE answer'[u])
               = IF pc[u] = "get_scan" THEN Lookup(AbstractChain, arg[u]) ELSE answer[u]
  BY <1>1
<1>2. AbsAnswer' = [u \in Threads |->
        IF pc'[u] = "get_scan" THEN Lookup(AbstractChain', arg'[u]) ELSE answer'[u]]
  BY DEF AbsAnswer, Lookup, Hits, First
<1> QED BY <1>1, <1>2 DEF AbsAnswer

LEMMA LruInitial == Init => Abs!SpecInit
<1> SUFFICES ASSUME Init PROVE Abs!SpecInit
  OBVIOUS
<1>1. IInv
  BY Initially
<1>2. \A t \in Threads : pc[t] = "idle" /\ answer[t] = None
  BY DEF Init
<1>3. AbsLru = AbstractChain
  BY <1>1, <1>2, AbsIs DEF AbsOK, IInv
<1>4. AbstractChain = <<>>
  <2>1. Linked = {}
    BY <1>1 DEF IInv, HeapOK, Init
  <2>2. Len(AbstractChain) = Len(Chain) /\ AbstractChain \in Seq(Items) /\ Len(Chain) \in Nat
        /\ \A i \in 1 .. Len(Chain) : Chain[i] \in Linked
    BY <1>1, ItemsNow DEF IInv
  <2>3. Len(AbstractChain) = 0
    BY <2>1, <2>2
  <2> QED BY <2>2, <2>3
<1>5. AbsRequest = [t \in Threads |-> None] /\ AbsAnswer = [t \in Threads |-> None]
  BY <1>2 DEF AbsRequest, AbsAnswer
<1> QED BY <1>3, <1>4, <1>5, SameOperators DEF Abs!SpecInit

LEMMA LruStep ==
  ASSUME IInv, [Next]_vars
  PROVE  [Abs!SpecNext]_(Abs!specVars)
<1>1. /\ IInv' /\ AbsOK /\ AbsOK' /\ MutexOK'
      /\ TypeOK /\ ListOK /\ MutexOK /\ HeapOK /\ CallsOK /\ SizeOK
  <2>1. IInv'
    BY IInvNext
  <2> QED BY <2>1, AbsIs, AbsIsNext DEF IInv
<1>2. /\ item \in [Threads -> Addresses \cup {Null}]
      /\ arg \in [Threads -> Keys \cup {Null}]
      /\ answer \in [Threads -> Nodes \cup {None}]
      /\ key \in [Nodes -> Keys \cup {Null}]
      /\ size \in [Nodes -> Sizes \cup {0}]
  BY <1>1 DEF TypeOK
<1>3. \A u \in Threads : CallOK(u)
  BY <1>1 DEF CallsOK
<1>4. /\ \A u \in Threads : pc[u] \in {"put_lock", "put_evict", "get_front"} =>
           item[u] \in heap /\ item[u] \in Nodes /\ item[u] \notin Linked
      /\ \A i \in 1 .. Len(Chain) : Chain[i] \in Linked
      /\ \A a \in heap : key[a] \in Keys /\ size[a] \in Sizes
      /\ Linked \subseteq heap
  BY <1>1, ItemsNow DEF HeapOK, Unlinked
\* A step that takes effect on no operation.
<1>5. ASSUME AbstractChain' = AbstractChain,
             \A l \in {"get_lock", "get_scan", "get_front", "put_lock", "put_evict"} :
               \A u \in Threads : pc'[u] = l <=> pc[u] = l,
             \A u \in Threads : pc[u] \in {"get_lock", "get_scan"} => arg'[u] = arg[u],
             \A u \in Threads : pc[u] \in {"get_front", "put_lock", "put_evict"} =>
               item'[u] = item[u],
             UNCHANGED <<key, size, answer>>
      PROVE  UNCHANGED Abs!specVars
  <2>1. \A u \in Threads : pc[u] \in {"get_front", "put_lock", "put_evict"} =>
          AbstractItem(item[u])' = AbstractItem(item[u])
    BY <1>5 DEF AbstractItem
  <2>2. AbsLru' = AbsLru
    BY <1>1, <1>5, <2>1, SameLru
  <2>3. AbsRequest' = AbsRequest
    BY <1>5, <2>1, SameRequest
  <2>4. AbsAnswer' = AbsAnswer
    BY <1>5, SameAnswer
  <2> QED BY <2>2, <2>3, <2>4 DEF Abs!specVars
\* No one else is changing the list.
<1>6. ASSUME NEW t \in Threads, pc[t] \in Within
      PROVE  \A u \in Threads : u # t =>
               pc[u] \notin {"get_scan", "get_front", "put_evict"}
  BY <1>1, <1>6 DEF MutexOK, Within
<1>7. ASSUME NEW t \in Threads, P
      PROVE  AbsLru = AbstractChain /\ \A u \in Threads : pc[u] \notin Within
  <2>1. \A u \in Threads : pc[u] \notin Within
    BY <1>1, <1>7 DEF P, MutexOK, TypeOK
  <2> QED BY <1>1, <2>1 DEF AbsOK, Within
<1>8. ASSUME NEW t \in Threads, NEW k \in Keys, GetCall(t, k) PROVE Abs!AskGet(t, k)
  <2>1. /\ pc[t] = "idle" /\ pc'[t] = "get_lock" /\ arg' = [arg EXCEPT ![t] = k]
        /\ \A u \in Threads : u # t => pc'[u] = pc[u]
        /\ UNCHANGED <<next, prev, key, size, item, answer>>
    BY <1>1, <1>8, Went DEF GetCall
  <2>2. AbstractChain' = AbstractChain
    BY <1>1, <2>1, QuietEffect, SameItems
  <2>3. AbsLru' = AbsLru
    <3>1. \A u \in Threads : AbstractItem(item[u])' = AbstractItem(item[u])
      BY <2>1 DEF AbstractItem
    <3>2. \A u \in Threads : pc[u] = "get_scan" => arg'[u] = arg[u]
      BY <1>2, <2>1
    <3>3. \A l \in {"get_scan", "get_front", "put_evict"} :
            \A u \in Threads : pc'[u] = l <=> pc[u] = l
      BY <2>1
    <3> QED BY <1>1, <2>2, <3>1, <3>2, <3>3, SameLru
  <2>4. AbsAnswer' = AbsAnswer
    <3>1. \A u \in Threads : pc'[u] = "get_scan" <=> pc[u] = "get_scan"
      BY <2>1
    <3>2. \A u \in Threads : pc[u] = "get_scan" => arg'[u] = arg[u]
      BY <1>2, <2>1
    <3> QED BY <2>1, <2>2, <3>1, <3>2, SameAnswer
  <2>5. AbsRequest[t] = None
    BY <2>1 DEF AbsRequest
  <2>6. AbsRequest' = [AbsRequest EXCEPT ![t] = [get |-> k]]
    BY <1>2, <2>1 DEF AbsRequest, AbstractItem
  <2> QED BY <2>3, <2>4, <2>5, <2>6, SameOperators DEF Abs!AskGet
<1>9. ASSUME NEW t \in Threads, GetLock(t) PROVE Abs!DoGet(t)
  <2>1. /\ pc[t] = "get_lock" /\ pc'[t] = "get_scan" /\ P
        /\ \A u \in Threads : u # t => pc'[u] = pc[u]
        /\ item' = [item EXCEPT ![t] = next[HeadNode]]
        /\ answer' = [answer EXCEPT ![t] = None]
        /\ UNCHANGED <<next, prev, key, size, arg>>
    BY <1>1, <1>9, Went DEF GetLock
  <2>2. AbstractChain' = AbstractChain
    BY <1>1, <2>1, QuietEffect, SameItems
  <2>3. AbsLru = AbstractChain /\ \A u \in Threads : pc[u] \notin Within
    BY <1>7, <2>1
  <2>4. arg[t] \in Keys
    BY <1>3, <2>1 DEF CallOK
  <2>5. AbsLru' = Touch(AbsLru, arg[t])
    <3>1. AbsLru' = Touch(AbstractChain', arg'[t])
      BY <1>1, <2>1 DEF AbsOK, Touch, Hits, First
    <3> QED BY <2>1, <2>2, <2>3, <3>1
  <2>6. AbsRequest[t] = [get |-> arg[t]]
    BY <2>1 DEF AbsRequest
  <2>7. AbsRequest' = [AbsRequest EXCEPT ![t] = None]
    <3>1. \A u \in Threads : u # t => item'[u] = item[u]
      BY <1>2, <2>1
    <3> QED BY <2>1, <3>1 DEF AbsRequest, AbstractItem
  <2>8. AbsAnswer' = [AbsAnswer EXCEPT ![t] = Lookup(AbsLru, arg[t])]
    <3>1. AbsAnswer' = [u \in Threads |->
            IF pc'[u] = "get_scan" THEN Lookup(AbstractChain', arg'[u]) ELSE answer'[u]]
      BY DEF AbsAnswer, Lookup, Hits, First
    <3>2. \A u \in Threads : u # t =>
            /\ (IF pc'[u] = "get_scan" THEN Lookup(AbstractChain', arg'[u]) ELSE answer'[u])
                 = answer[u]
            /\ AbsAnswer[u] = answer[u]
      BY <1>2, <2>1, <2>3 DEF AbsAnswer, Within
    <3>3. (IF pc'[t] = "get_scan" THEN Lookup(AbstractChain', arg'[t]) ELSE answer'[t])
            = Lookup(AbsLru, arg[t])
      BY <2>1, <2>2, <2>3
    <3>4. AbsAnswer = [u \in Threads |-> AbsAnswer[u]]
      BY DEF AbsAnswer
    <3> QED BY <3>1, <3>2, <3>3, <3>4
  <2> QED BY <2>4, <2>5, <2>6, <2>7, <2>8, SameOperators DEF Abs!DoGet
<1>10. ASSUME NEW t \in Threads, GetAdvance(t) PROVE UNCHANGED Abs!specVars
  <2>1. /\ pc[t] = "get_scan" /\ UNCHANGED <<next, prev, key, size, pc, arg, answer>>
        /\ \A u \in Threads : u # t => item'[u] = item[u]
    BY <1>2, <1>10 DEF GetAdvance
  <2>2. AbstractChain' = AbstractChain
    BY <1>1, <2>1, QuietEffect, SameItems
  <2> QED BY <1>5, <2>1, <2>2
\* The item found is the first of the list already; the answer was known.
<1>11. ASSUME NEW t \in Threads, GetHit(t) PROVE UNCHANGED Abs!specVars
  <2> DEFINE k == arg[t]
             f == First(AbstractChain, k)
  <2>1. /\ pc[t] = "get_scan" /\ pc'[t] = "get_front"
        /\ \A u \in Threads : u # t => pc'[u] = pc[u]
        /\ answer' = [answer EXCEPT ![t] = item[t]]
        /\ UNCHANGED <<key, size, arg, item>>
    BY <1>1, <1>11, Went DEF GetHit
  <2>2. /\ Hits(AbstractChain, k) # {} /\ f \in 1 .. Len(Chain) /\ item[t] = Chain[f]
        /\ AbstractChain' = RemoveAt(AbstractChain, f)
    BY <1>1, <1>11, HitEffect DEF Removes
  <2>3. AbstractChain[f] = AbstractItem(item[t]) /\ AbstractChain[f].resp = item[t]
    BY <1>1, <2>2, ItemsNow
  <2>4. AbsLru = Touch(AbstractChain, k)
    BY <1>1, <2>1 DEF AbsOK
  <2>5. AbsLru' = <<AbstractItem(item[t])>> \o AbstractChain'
    BY <1>1, <2>1 DEF AbsOK, AbstractItem
  <2>6. AbsLru' = AbsLru
    BY <2>2, <2>3, <2>4, <2>5 DEF Touch
  <2>7. AbsRequest' = AbsRequest
    BY <2>1 DEF AbsRequest, AbstractItem
  <2>8. AbsAnswer' = AbsAnswer
    <3>1. \A u \in Threads : u # t => pc[u] # "get_scan" /\ pc'[u] # "get_scan"
      BY <1>6, <2>1 DEF Within
    <3>2. Lookup(AbstractChain, k) = item[t]
      BY <2>2, <2>3 DEF Lookup
    <3>3. AbsAnswer' = [u \in Threads |-> answer'[u]]
      BY <2>1, <3>1 DEF AbsAnswer
    <3>4. AbsAnswer = [u \in Threads |-> IF u = t THEN item[t] ELSE answer[u]]
      BY <2>1, <3>1, <3>2 DEF AbsAnswer
    <3> QED BY <1>2, <2>1, <3>3, <3>4
  <2> QED BY <2>6, <2>7, <2>8 DEF Abs!specVars
<1>12. ASSUME NEW t \in Threads, GetFront(t) PROVE UNCHANGED Abs!specVars
  <2>1. /\ pc[t] = "get_front" /\ pc'[t] = "get_unlock"
        /\ \A u \in Threads : u # t => pc'[u] = pc[u]
        /\ LinkFront(item[t]) /\ UNCHANGED <<key, size, arg, item, answer>>
    BY <1>1, <1>12, Went DEF GetFront
  <2>2. AbstractChain' = <<AbstractItem(item[t])>> \o AbstractChain
    BY <1>1, <1>4, <2>1, FrontEffect
  <2>3. \A u \in Threads : pc'[u] \notin {"get_scan", "get_front", "put_evict"}
    BY <1>6, <2>1 DEF Within
  <2>4. AbsLru' = AbsLru
    BY <1>1, <2>1, <2>2, <2>3 DEF AbsOK
  <2>5. AbsRequest' = AbsRequest
    BY <2>1 DEF AbsRequest, AbstractItem
  <2>6. AbsAnswer' = AbsAnswer
    <3>1. \A u \in Threads : pc[u] # "get_scan"
      BY <1>6, <2>1 DEF Within
    <3> QED BY <2>1, <2>3, <3>1 DEF AbsAnswer
  <2> QED BY <2>4, <2>5, <2>6 DEF Abs!specVars
<1>13. ASSUME NEW t \in Threads, GetMiss(t) PROVE UNCHANGED Abs!specVars
  <2>1. /\ pc[t] = "get_scan" /\ pc'[t] = "get_unlock" /\ item[t] = TailNode
        /\ \A u \in Threads : u # t => pc'[u] = pc[u]
        /\ UNCHANGED <<next, prev, key, size, arg, item, answer>>
    BY <1>1, <1>13, Went DEF GetMiss
  <2>2. AbstractChain' = AbstractChain
    BY <1>1, <2>1, QuietEffect, SameItems
  <2>3. Hits(AbstractChain, arg[t]) = {}
    <3>1. PICK i \in 1 .. Len(Chain) + 1 :
            item[t] = At(Chain, i) /\ \A j \in 1 .. i - 1 : key[Chain[j]] # arg[t]
      BY <1>3, <2>1 DEF CallOK
    <3>2. Chain \in Seq(Nodes) /\ Once(Chain) /\ Len(Chain) \in Nat
      BY <1>1 DEF ListOK
    <3>3. i = Len(Chain) + 1
      BY <2>1, <3>1, <3>2, Ats
    <3>4. \A j \in 1 .. Len(Chain) : key[Chain[j]] # arg[t]
      BY <3>1, <3>2, <3>3
    <3> QED BY <1>1, <3>4, NotFound
  <2>4. \A u \in Threads : pc'[u] \notin {"get_scan", "get_front", "put_evict"}
    BY <1>6, <2>1 DEF Within
  <2>5. AbsLru' = AbsLru
    <3>1. AbsLru = Touch(AbstractChain, arg[t]) /\ AbsLru' = AbstractChain'
      BY <1>1, <2>1, <2>4 DEF AbsOK
    <3> QED BY <2>2, <2>3, <3>1 DEF Touch
  <2>6. AbsRequest' = AbsRequest
    BY <2>1 DEF AbsRequest, AbstractItem
  <2>7. AbsAnswer' = AbsAnswer
    <3>1. \A u \in Threads : u # t => pc[u] # "get_scan"
      BY <1>6, <2>1 DEF Within
    <3>2. answer[t] = None /\ Lookup(AbstractChain, arg[t]) = None
      BY <1>3, <2>1, <2>3 DEF CallOK, Lookup
    <3>3. AbsAnswer' = [u \in Threads |-> answer[u]]
      BY <2>1, <2>4 DEF AbsAnswer
    <3>4. \A u \in Threads : AbsAnswer[u] = answer[u]
      BY <2>1, <3>1, <3>2 DEF AbsAnswer
    <3>5. AbsAnswer = [u \in Threads |-> AbsAnswer[u]]
      BY DEF AbsAnswer
    <3> QED BY <3>3, <3>4, <3>5
  <2> QED BY <2>5, <2>6, <2>7 DEF Abs!specVars
<1>14. ASSUME NEW t \in Threads, GetUnlock(t) PROVE UNCHANGED Abs!specVars
  <2>1. /\ pc[t] = "get_unlock" /\ pc'[t] \in {"missed", "idle"}
        /\ \A u \in Threads : u # t => pc'[u] = pc[u] /\ item'[u] = item[u]
        /\ UNCHANGED <<next, prev, key, size, arg, answer>>
    BY <1>1, <1>2, <1>14, Went DEF GetUnlock
  <2>2. AbstractChain' = AbstractChain
    BY <1>1, <2>1, QuietEffect, SameItems
  <2> QED BY <1>5, <2>1, <2>2
<1>15. ASSUME NEW t \in Threads, DontPut(t) PROVE UNCHANGED Abs!specVars
  <2>1. /\ pc[t] = "missed" /\ pc'[t] = "idle"
        /\ \A u \in Threads : u # t => pc'[u] = pc[u]
        /\ UNCHANGED <<next, prev, key, size, arg, item, answer>>
    BY <1>1, <1>15, Went DEF DontPut
  <2>2. AbstractChain' = AbstractChain
    BY <1>1, <2>1, QuietEffect, SameItems
  <2> QED BY <1>5, <2>1, <2>2
<1>16. ASSUME NEW t \in Threads, NEW a \in Nodes, NEW n \in Sizes, PutCall(t, a, n)
       PROVE  \E k \in Keys : Abs!AskPut(t, k, a, n)
  <2>1. /\ pc[t] = "missed" /\ pc'[t] = "put_lock" /\ a \notin heap
        /\ item' = [item EXCEPT ![t] = a] /\ key' = [key EXCEPT ![a] = arg[t]]
        /\ size' = [size EXCEPT ![a] = n]
        /\ \A u \in Threads : u # t => pc'[u] = pc[u]
        /\ UNCHANGED <<next, prev, arg, answer>>
    BY <1>1, <1>16, Went DEF PutCall
  <2>2. arg[t] \in Keys
    BY <1>3, <2>1 DEF CallOK
  <2>3. \A b \in heap : key'[b] = key[b] /\ size'[b] = size[b]
    BY <1>1, <1>2, <2>1 DEF TypeOK
  <2>4. AbstractChain' = AbstractChain
    BY <1>1, <1>4, <2>1, <2>3, QuietEffect, SameItems
  <2>5. ASSUME NEW u \in Threads, u # t, pc[u] \in {"get_front", "put_lock", "put_evict"}
        PROVE  AbstractItem(item[u])' = AbstractItem(item[u])
    <3>1. item'[u] = item[u] /\ item[u] \in heap
      BY <1>2, <1>4, <2>1, <2>5
    <3> QED BY <2>3, <3>1 DEF AbstractItem
  <2>6. AbsLru' = AbsLru
    <3>1. \A l \in {"get_scan", "get_front", "put_evict"} :
            \A u \in Threads : pc'[u] = l <=> pc[u] = l
      BY <2>1
    <3>2. \A u \in Threads : pc[u] \in {"get_front", "put_evict"} =>
            AbstractItem(item[u])' = AbstractItem(item[u])
      BY <2>1, <2>5
    <3>3. \A u \in Threads : pc[u] = "get_scan" => arg'[u] = arg[u]
      BY <2>1
    <3> QED BY <1>1, <2>4, <3>1, <3>2, <3>3, SameLru
  <2>7. AbsAnswer' = AbsAnswer
    <3>1. /\ \A u \in Threads : pc'[u] = "get_scan" <=> pc[u] = "get_scan"
          /\ \A u \in Threads : pc[u] = "get_scan" => arg'[u] = arg[u]
          /\ \A u \in Threads : answer'[u] = answer[u]
      BY <2>1
    <3> QED BY <2>4, <3>1, SameAnswer
  <2>8. AbsRequest[t] = None
    BY <2>1 DEF AbsRequest
  <2>9. AbstractItem(item[t])' = Item(arg[t], a, n)
    BY <1>2, <2>1 DEF AbstractItem, Item
  <2>10. AbsRequest' = [AbsRequest EXCEPT ![t] = [put |-> Item(arg[t], a, n)]]
    <3> DEFINE R(u) == CASE pc'[u] = "get_lock" -> [get |-> arg'[u]]
                         [] pc'[u] = "put_lock" -> [put |-> AbstractItem(item[u])']
                         [] OTHER -> None
    <3>1. AbsRequest' = [u \in Threads |-> R(u)]
      BY DEF AbsRequest, AbstractItem
    <3>2. R(t) = [put |-> Item(arg[t], a, n)]
      BY <2>1, <2>9
    <3>3. \A u \in Threads : u # t => R(u) = AbsRequest[u]
      BY <2>1, <2>5 DEF AbsRequest
    <3>4. AbsRequest = [u \in Threads |-> AbsRequest[u]]
      BY DEF AbsRequest
    <3> HIDE DEF R
    <3> QED BY <3>1, <3>2, <3>3, <3>4
  <2> QED BY <2>2, <2>6, <2>7, <2>8, <2>10, SameOperators DEF Abs!AskPut
<1>17. ASSUME NEW t \in Threads, PutLock(t) PROVE Abs!DoPut(t)
  <2>1. /\ pc[t] = "put_lock" /\ pc'[t] = "put_evict" /\ P
        /\ \A u \in Threads : u # t => pc'[u] = pc[u]
        /\ UNCHANGED <<next, prev, key, size, arg, item, answer>>
    BY <1>1, <1>17, Went DEF PutLock
  <2>2. AbstractChain' = AbstractChain
    BY <1>1, <2>1, QuietEffect, SameItems
  <2>3. AbsLru = AbstractChain
    BY <1>7, <2>1
  <2> DEFINE k == key[item[t]]
             r == item[t]
             n == size[item[t]]
  <2>4. k \in Keys /\ r \in Nodes /\ n \in Sizes /\ AbstractItem(item[t]) = Item(k, r, n)
    BY <1>4, <2>1 DEF AbstractItem, Item
  <2>5. AbsLru' = Insert(AbsLru, Item(k, r, n))
    <3>1. AbsLru' = Insert(AbstractChain', AbstractItem(item[t])')
      BY <1>1, <2>1 DEF AbsOK, AbstractItem
    <3>2. AbstractItem(item[t])' = AbstractItem(item[t])
      BY <2>1 DEF AbstractItem
    <3> QED BY <2>2, <2>3, <2>4, <3>1, <3>2
  <2>6. AbsRequest[t] = [put |-> Item(k, r, n)]
    BY <2>1, <2>4 DEF AbsRequest
  <2>7. AbsRequest' = [AbsRequest EXCEPT ![t] = None]
    BY <2>1 DEF AbsRequest, AbstractItem
  <2>8. AbsAnswer' = AbsAnswer
    <3>1. /\ \A u \in Threads : pc'[u] = "get_scan" <=> pc[u] = "get_scan"
          /\ \A u \in Threads : pc[u] = "get_scan" => arg'[u] = arg[u]
          /\ \A u \in Threads : answer'[u] = answer[u]
      BY <2>1
    <3> QED BY <2>2, <3>1, SameAnswer
  <2> HIDE DEF k, r, n
  <2> QED BY <2>4, <2>5, <2>6, <2>7, <2>8, SameOperators DEF Abs!DoPut
\* What is evicted would not have been kept.
<1>18. ASSUME NEW t \in Threads, PutEvict(t) PROVE UNCHANGED Abs!specVars
  <2> DEFINE last == prev[TailNode]
             n == Len(Chain)
             it == AbstractItem(item[t])
  <2>1. /\ pc[t] = "put_evict" /\ TooFull(t) /\ UNCHANGED <<pc, arg, item, answer>>
        /\ key' = [key EXCEPT ![last] = Null] /\ size' = [size EXCEPT ![last] = 0]
    BY <1>18 DEF PutEvict
  <2>2. /\ n \in 1 .. n /\ last \in Linked /\ lsize = Total(AbstractChain)
        /\ AbstractChain' = RemoveAt(AbstractChain, n)
    BY <1>1, <1>18, <2>1, EvictEffect DEF Removes
  <2> HIDE DEF last
  <2>3. \A b \in Nodes : b # last => key'[b] = key[b] /\ size'[b] = size[b]
    BY <1>2, <2>1
  <2>4. \A u \in Threads : pc[u] \in {"get_front", "put_lock", "put_evict"} =>
          AbstractItem(item[u])' = AbstractItem(item[u])
    <3>1. ASSUME NEW u \in Threads, pc[u] \in {"get_front", "put_lock", "put_evict"}
          PROVE  AbstractItem(item[u])' = AbstractItem(item[u])
      <4>1. item[u] \in Nodes /\ item[u] # last /\ item'[u] = item[u]
        BY <1>4, <2>1, <2>2, <3>1
      <4> QED BY <2>3, <4>1 DEF AbstractItem
    <3> QED BY <3>1
  <2>5. AbsLru = Insert(AbstractChain, it) /\ AbsLru' = Insert(AbstractChain', it)
    <3>1. AbsLru' = Insert(AbstractChain', AbstractItem(item[t])')
      BY <1>1, <2>1 DEF AbsOK, AbstractItem
    <3> QED BY <1>1, <2>1, <2>4, <3>1 DEF AbsOK
  <2>6. it.size \in Int /\ it.size <= MaxSize /\ it.size = size[item[t]]
    <3>1. size[item[t]] \in Sizes /\ it.size = size[item[t]]
      BY <1>4, <2>1 DEF AbstractItem
    <3> QED BY <3>1, SizesAre
  <2>7. Trim(AbstractChain, it.size) = Trim(AbstractChain', it.size)
    <3> DEFINE s == AbstractChain
               r == AbstractChain'
               m == it.size
    <3>1. s \in Seq(Items) /\ Len(s) = n /\ Len(s) \in Nat
      BY <1>1, ItemsNow
    <3>2. ~(Total(s) + m <= MaxSize)
      <4>1. lsize + m > MaxSize /\ MaxSize \in Int /\ lsize \in Int
        BY <1>1, <2>1, <2>6, SizesAre DEF TooFull, TypeOK
      <4> QED BY <2>2, <2>6, <4>1
    <3>3. /\ r \in Seq(Items) /\ Len(s) = Len(r) + 1
          /\ \A i \in 1 .. Len(r) : r[i] = IF i < n THEN s[i] ELSE s[i + 1]
      BY <2>2, <3>1, RemoveIs
    <3>4. \A i \in 1 .. Len(r) : r[i] = s[i]
      BY <3>1, <3>3
    <3>5. m \in Int /\ m <= MaxSize /\ MaxSize \in Int
      BY <2>6, SizesAre
    <3> HIDE DEF s, r, m
    <3>6. Trim(s, m) = Trim(r, m)
      BY <3>1, <3>2, <3>3, <3>4, <3>5, TrimLast
    <3> QED BY <3>6 DEF s, r, m
  <2>8. AbsLru' = AbsLru
    BY <2>5, <2>7 DEF Insert
  <2>9. AbsRequest' = AbsRequest
    <3>1. /\ \A l \in {"get_lock", "put_lock"} : \A u \in Threads : pc'[u] = l <=> pc[u] = l
          /\ \A u \in Threads : pc[u] = "get_lock" => arg'[u] = arg[u]
          /\ \A u \in Threads : pc[u] = "put_lock" =>
               AbstractItem(item[u])' = AbstractItem(item[u])
      BY <2>1, <2>4
    <3> QED BY <3>1, SameRequest
  <2>10. AbsAnswer' = AbsAnswer
    <3>1. \A u \in Threads : pc[u] # "get_scan"
      BY <1>6, <2>1 DEF Within
    <3> QED BY <2>1, <3>1 DEF AbsAnswer
  <2> QED BY <2>8, <2>9, <2>10 DEF Abs!specVars
\* What is left makes room.
<1>19. ASSUME NEW t \in Threads, PutFront(t) PROVE UNCHANGED Abs!specVars
  <2> DEFINE it == AbstractItem(item[t])
  <2>1. /\ pc[t] = "put_evict" /\ pc'[t] = "put_unlock" /\ ~TooFull(t)
        /\ \A u \in Threads : u # t => pc'[u] = pc[u]
        /\ LinkFront(item[t]) /\ UNCHANGED <<key, size, arg, item, answer>>
    BY <1>1, <1>19, Went DEF PutFront
  <2>2. AbstractChain' = <<it>> \o AbstractChain
    BY <1>1, <1>4, <2>1, FrontEffect
  <2>3. \A u \in Threads : /\ pc'[u] \notin {"get_scan", "get_front", "put_evict"}
                           /\ pc[u] \notin {"get_scan", "get_front"}
    BY <1>6, <2>1 DEF Within
  <2>4. AbsLru = Insert(AbstractChain, it) /\ AbsLru' = AbstractChain'
    BY <1>1, <2>1, <2>3 DEF AbsOK
  <2>5. Trim(AbstractChain, it.size) = AbstractChain
    <3>1. lsize = Total(AbstractChain)
      BY <1>1, <2>3 DEF SizeOK
    <3>2. size[item[t]] \in Sizes /\ it.size = size[item[t]]
      BY <1>4, <2>1 DEF AbstractItem
    <3>3. Total(AbstractChain) + it.size <= MaxSize
      BY <1>1, <2>1, <3>1, <3>2, SizesAre, ItemsNow DEF TooFull
    <3>4. AbstractChain \in Seq(Items)
      BY <1>1, ItemsNow
    <3> DEFINE s == AbstractChain
               m == it.size
    <3> HIDE DEF s, m
    <3>5. s \in Seq(Items) /\ Total(s) + m <= MaxSize
      BY <3>3, <3>4 DEF s, m
    <3>6. Trim(s, m) = s
      BY <3>5, TrimAll
    <3> QED BY <3>6 DEF s, m
  <2>6. AbsLru' = AbsLru
    BY <2>2, <2>4, <2>5 DEF Insert
  <2>7. AbsRequest' = AbsRequest
    BY <2>1 DEF AbsRequest, AbstractItem
  <2>8. AbsAnswer' = AbsAnswer
    BY <2>1, <2>3 DEF AbsAnswer
  <2> QED BY <2>6, <2>7, <2>8 DEF Abs!specVars
<1>20. ASSUME NEW t \in Threads, PutUnlock(t) PROVE UNCHANGED Abs!specVars
  <2>1. /\ pc[t] = "put_unlock" /\ pc'[t] = "idle"
        /\ \A u \in Threads : u # t => pc'[u] = pc[u] /\ item'[u] = item[u]
        /\ UNCHANGED <<next, prev, key, size, arg, answer>>
    BY <1>1, <1>2, <1>20, Went DEF PutUnlock
  <2>2. AbstractChain' = AbstractChain
    BY <1>1, <2>1, QuietEffect, SameItems
  <2> QED BY <1>5, <2>1, <2>2
<1>21. CASE UNCHANGED vars
  <2>1. UNCHANGED <<next, prev, key, size, pc, arg, item, answer>>
    BY <1>21 DEF vars
  <2>2. AbstractChain' = AbstractChain
    BY <1>1, <2>1, QuietEffect, SameItems
  <2>3. UNCHANGED Abs!specVars
    BY <1>5, <2>1, <2>2
  <2> QED BY <2>3
<1>22. CASE Next
  <2>1. PICK t \in Threads :
          \/ Step(t) \/ DontPut(t)
          \/ \E k \in Keys : GetCall(t, k)
          \/ \E a \in Nodes, n \in Sizes : PutCall(t, a, n)
    BY <1>22 DEF Next
  <2>2. CASE \E k \in Keys : GetCall(t, k)
    BY <1>8, <2>2 DEF Abs!SpecNext
  <2>3. CASE \E a \in Nodes, n \in Sizes : PutCall(t, a, n)
    BY <1>16, <2>3 DEF Abs!SpecNext
  <2>4. CASE GetLock(t)
    BY <1>9, <2>4 DEF Abs!SpecNext
  <2>5. CASE PutLock(t)
    BY <1>17, <2>5 DEF Abs!SpecNext
  <2>6. CASE \/ GetAdvance(t) \/ GetHit(t) \/ GetFront(t) \/ GetMiss(t) \/ GetUnlock(t)
             \/ DontPut(t) \/ PutEvict(t) \/ PutFront(t) \/ PutUnlock(t)
    BY <1>10, <1>11, <1>12, <1>13, <1>14, <1>15, <1>18, <1>19, <1>20, <2>6
  <2> QED BY <2>1, <2>2, <2>3, <2>4, <2>5, <2>6 DEF Step
<1> QED BY <1>21, <1>22

\* The cache behaves as if each lookup and each insertion were atomic.
THEOREM RefinesLruHolds == Spec => RefinesLru
<1>1. IInv /\ [Next]_vars => [Abs!SpecNext]_(Abs!specVars)
  BY LruStep
<1> QED BY <1>1, LruInitial, IInvHolds, PTL DEF Spec, RefinesLru, Abs!LruSpecification
=============================================================================
