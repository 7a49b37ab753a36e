------------------------------ MODULE Y86Proofs ------------------------------
(***************************************************************************)
(* Proofs about the Y86-64 processors, for words and memories of any size  *)
(* and for all programs that are Comparable: SEQ and PIPE implement the    *)
(* instruction set, and PIPE loses only the cycles its hazards cost.       *)
(***************************************************************************)
EXTENDS Y86, WellFoundedInduction, TLAPS

----------------------------------------------------------------------------
(* Recursive functions on an interval, and powers of two.                  *)

LEMMA Least ==
  ASSUME NEW S \in SUBSET Nat, S # {}
  PROVE  \E m \in S : \A n \in S : m <= n
<1> DEFINE R == OpToRel(<, Nat)
<1>1. IsWellFoundedOn(R, Nat)
  BY NatLessThanWellFounded
<1>2. PICK m \in S : \A n \in S : <<n, m>> \notin R
  <2> HIDE DEF R
  <2> QED BY <1>1, WFMin
<1>3. \A n \in S : ~(n < m)
  <2> TAKE n \in S
  <2>1. n \in Nat /\ m \in Nat
    OBVIOUS
  <2>2. n < m => <<n, m>> \in R
    BY <2>1 DEF OpToRel
  <2> QED BY <1>2, <2>2
<1> QED BY <1>3

\* A function that is defined at 0 and at n from its value at n - 1 exists.
LEMMA Recursion ==
  ASSUME NEW N \in Nat, NEW b \in Nat, NEW g \in [1 .. N -> [Nat -> Nat]]
  PROVE  \E f \in [0 .. N -> Nat] : f[0] = b /\ \A n \in 1 .. N : f[n] = g[n][f[n - 1]]
<1> DEFINE Good(f, k) == f[0] = b /\ \A n \in 1 .. k : f[n] = g[n][f[n - 1]]
           U == {k \in 0 .. N : ~ \E f \in [0 .. k -> Nat] : Good(f, k)}
<1>1. SUFFICES ASSUME U # {} PROVE FALSE
  <2>1. ASSUME U = {} PROVE \E f \in [0 .. N -> Nat] : Good(f, N)
    <3>1. N \in 0 .. N
      OBVIOUS
    <3> HIDE DEF Good
    <3> QED BY <2>1, <3>1
  <2> QED BY <2>1
<1>2. PICK k \in U : \A n \in U : k <= n
  <2>1. U \in SUBSET Nat
    OBVIOUS
  <2> HIDE DEF U
  <2> QED BY <1>1, <2>1, Least
<1>3. k # 0
  <2> SUFFICES ASSUME k = 0 PROVE FALSE
    OBVIOUS
  <2> DEFINE f == [n \in 0 .. 0 |-> b]
  <2>1. f \in [0 .. 0 -> Nat] /\ Good(f, 0)
    OBVIOUS
  <2> QED BY <1>2, <2>1
<1>4. k \in 1 .. N /\ k - 1 \in 0 .. N /\ ~(k <= k - 1)
  BY <1>2, <1>3
<1>5. PICK f \in [0 .. k - 1 -> Nat] : Good(f, k - 1)
  BY <1>2, <1>4
<1> DEFINE h == [n \in 0 .. k |-> IF n = k THEN g[k][f[k - 1]] ELSE f[n]]
<1>6. h \in [0 .. k -> Nat]
  <2>1. g[k] \in [Nat -> Nat] /\ f[k - 1] \in Nat
    BY <1>4, <1>5
  <2>2. \A n \in 0 .. k : n # k => n \in 0 .. k - 1
    BY <1>4
  <2> QED BY <1>5, <2>1, <2>2
<1>7. Good(h, k)
  <2>1. h[0] = b
    BY <1>4, <1>5
  <2>2. ASSUME NEW n \in 1 .. k PROVE h[n] = g[n][h[n - 1]]
    <3>1. n - 1 \in 0 .. k /\ n - 1 # k /\ n \in 0 .. k
      BY <1>4
    <3>2. h[n - 1] = f[n - 1]
      BY <3>1
    <3>3. CASE n = k
      BY <3>1, <3>2, <3>3
    <3>4. CASE n # k
      <4>1. n \in 1 .. k - 1
        BY <1>4, <3>4
      <4>2. f[n] = g[n][f[n - 1]]
        BY <1>5, <4>1
      <4> QED BY <3>1, <3>2, <3>4, <4>2
    <3> QED BY <3>3, <3>4
  <2> QED BY <2>1, <2>2
<1> QED BY <1>2, <1>6, <1>7

\* What holds at 0, and at n if at n - 1, holds on the whole interval.
LEMMA UpTo ==
  ASSUME NEW N \in Nat, NEW T \in SUBSET (0 .. N), 0 \in T,
         \A n \in 1 .. N : n - 1 \in T => n \in T
  PROVE  T = 0 .. N
<1> DEFINE U == (0 .. N) \ T
<1>1. SUFFICES ASSUME U # {} PROVE FALSE
  OBVIOUS
<1>2. PICK k \in U : \A n \in U : k <= n
  <2>1. U \in SUBSET Nat
    OBVIOUS
  <2> HIDE DEF U
  <2> QED BY <1>1, <2>1, Least
<1>3. k \in 1 .. N /\ k - 1 \in 0 .. N /\ ~(k <= k - 1)
  <2>1. k \in 0 .. N /\ k # 0
    BY <1>2
  <2> QED BY <2>1
<1>4. k - 1 \in T
  BY <1>2, <1>3
<1> QED BY <1>2, <1>3, <1>4

LEMMA Sizes ==
  /\ WordBytes \in Nat \ {0} /\ 8 * WordBytes \in Nat \ {0}
  /\ HalfWord \in Nat /\ MemLen \in Nat
  /\ WordBytes < MemLen /\ MemLen + WordBytes < HalfWord
  /\ 2 * HalfWord = Pow2[8 * WordBytes]
BY IsaAssumption, HalfWordIsSignBit

\* The equations of Pow2, which are natural numbers.
LEMMA Powers ==
  /\ Pow2[0] = 1
  /\ \A n \in 0 .. 8 * WordBytes : Pow2[n] \in Nat \ {0}
  /\ \A n \in 1 .. 8 * WordBytes : Pow2[n] = 2 * Pow2[n - 1]
<1> DEFINE N == 8 * WordBytes
           Eq(f) == f = [n \in 0 .. N |-> IF n = 0 THEN 1 ELSE 2 * f[n - 1]]
           g == [n \in 1 .. N |-> [x \in Nat |-> 2 * x]]
<1>1. Pow2 = CHOOSE f : Eq(f)
  BY DEF Pow2
<1>2. N \in Nat
  BY Sizes
<1>3. PICK f \in [0 .. N -> Nat] : f[0] = 1 /\ \A n \in 1 .. N : f[n] = g[n][f[n - 1]]
  <2>1. g \in [1 .. N -> [Nat -> Nat]]
    OBVIOUS
  <2> HIDE DEF N, g
  <2>2. 1 \in Nat
    OBVIOUS
  <2> QED BY ONLY <1>2, <2>1, <2>2, Recursion, Zenon
<1>4. \A n \in 1 .. N : f[n] = 2 * f[n - 1]
  <2> TAKE n \in 1 .. N
  <2>1. n - 1 \in 0 .. N
    BY <1>2
  <2> QED BY <1>3, <2>1
<1>5. Eq(f)
  <2>1. \A n \in 0 .. N : f[n] = IF n = 0 THEN 1 ELSE 2 * f[n - 1]
    BY <1>2, <1>3, <1>4
  <2> QED BY <1>3, <2>1
<1>6. Eq(Pow2)
  <2> HIDE DEF Eq
  <2> QED BY <1>1, <1>5
<1>7. \A n \in 0 .. N : Pow2[n] = IF n = 0 THEN 1 ELSE 2 * Pow2[n - 1]
  BY <1>6
<1>8. \A n \in 1 .. N : Pow2[n] = 2 * Pow2[n - 1]
  BY <1>2, <1>7
<1>9. Pow2[0] = 1
  BY <1>2, <1>7
<1>10. \A n \in 0 .. N : Pow2[n] \in Nat \ {0}
  <2> DEFINE T == {n \in 0 .. N : Pow2[n] \in Nat \ {0}}
  <2>1. 0 \in T /\ T \in SUBSET (0 .. N)
    BY <1>2, <1>9
  <2>2. \A n \in 1 .. N : n - 1 \in T => n \in T
    BY <1>2, <1>8
  <2>3. T = 0 .. N
    <3> HIDE DEF N, T
    <3> QED BY <1>2, <2>1, <2>2, UpTo
  <2> QED BY <2>3
<1> QED BY <1>8, <1>9, <1>10

----------------------------------------------------------------------------
(* Words, bytes and bits.                                                  *)

LEMMA WrapType ==
  ASSUME NEW x \in Int, -(2 * HalfWord) <= x, x < 2 * HalfWord
  PROVE  Wrap(x) \in Word
<1>1. HalfWord \in Nat
  BY Sizes
<1> QED BY <1>1 DEF Wrap, Word

\* A word is what it wraps to.
LEMMA WrapWord == \A x \in Word : Wrap(x) = x
<1>1. HalfWord \in Nat
  BY Sizes
<1> QED BY <1>1 DEF Wrap, Word

LEMMA WordInt == Word \in SUBSET Int /\ 0 \in Word /\ WordBytes \in Word /\ -WordBytes \in Word
<1>1. HalfWord \in Nat /\ MemLen \in Nat /\ WordBytes \in Nat /\ WordBytes < MemLen
      /\ MemLen + WordBytes < HalfWord
  BY Sizes
<1> QED BY <1>1 DEF Word

LEMMA Product ==
  ASSUME NEW a \in Nat, NEW k \in Nat, a <= k, NEW p \in Nat
  PROVE  a * p \in Nat /\ a * p <= k * p
OBVIOUS

\* The powers of 256 among those of two.
LEMMA BytePowers ==
  \A n \in 1 .. WordBytes :
     Pow2[8 * (n - 1)] \in Nat \ {0} /\ Pow2[8 * n] = 256 * Pow2[8 * (n - 1)]
<1> TAKE n \in 1 .. WordBytes
<1>1. WordBytes \in Nat
  BY Sizes
<1> DEFINE k == 8 * (n - 1)
<1>2. k \in Nat /\ k + 8 = 8 * n /\ k + 8 <= 8 * WordBytes
  BY <1>1
<1> HIDE DEF k
<1>3. \A i \in 1 .. 8 : k + i \in 1 .. 8 * WordBytes /\ k + i - 1 = k + (i - 1)
  BY <1>1, <1>2
<1>4. \A i \in 1 .. 8 : Pow2[k + i] = 2 * Pow2[k + (i - 1)]
  <2> TAKE i \in 1 .. 8
  <2>1. Pow2[k + i] = 2 * Pow2[k + i - 1]
    <3>1. \A j \in 1 .. 8 * WordBytes : Pow2[j] = 2 * Pow2[j - 1]
      BY Powers
    <3> DEFINE j == k + i
    <3>2. j \in 1 .. 8 * WordBytes
      BY <1>3
    <3> HIDE DEF j
    <3>3. Pow2[j] = 2 * Pow2[j - 1]
      BY ONLY <3>1, <3>2
    <3> QED BY <1>2, <3>3 DEF j
  <2> QED BY <1>3, <2>1
<1>5. Pow2[k] \in Nat \ {0}
  <2>1. k \in 0 .. 8 * WordBytes
    BY <1>1, <1>2
  <2> QED BY <2>1, Powers
<1>6. /\ Pow2[k + 1] = 2 * Pow2[k + 0] /\ Pow2[k + 2] = 2 * Pow2[k + 1]
      /\ Pow2[k + 3] = 2 * Pow2[k + 2] /\ Pow2[k + 4] = 2 * Pow2[k + 3]
      /\ Pow2[k + 5] = 2 * Pow2[k + 4] /\ Pow2[k + 6] = 2 * Pow2[k + 5]
      /\ Pow2[k + 7] = 2 * Pow2[k + 6] /\ Pow2[k + 8] = 2 * Pow2[k + 7]
  <2>1. /\ 1 - 1 = 0 /\ 2 - 1 = 1 /\ 3 - 1 = 2 /\ 4 - 1 = 3 /\ 5 - 1 = 4 /\ 6 - 1 = 5
        /\ 7 - 1 = 6 /\ 8 - 1 = 7
    OBVIOUS
  <2>2. \A i \in {1, 2, 3, 4, 5, 6, 7, 8} : i \in 1 .. 8
    OBVIOUS
  <2> QED BY ONLY <1>4, <2>1, <2>2
<1>7. k + 0 = k
  BY <1>2
<1>8. Pow2[k + 8] = 256 * Pow2[k]
  BY ONLY <1>5, <1>6, <1>7
<1> QED BY <1>2, <1>5, <1>8 DEF k

LEMMA FromBytesType ==
  ASSUME NEW bytes \in [0 .. WordBytes - 1 -> Byte]
  PROVE  FromBytes(bytes) \in Word
<1> DEFINE N == WordBytes
           Eq(f) == f = [n \in 0 .. N |->
                           IF n = 0 THEN 0 ELSE f[n - 1] + bytes[n - 1] * Pow2[8 * (n - 1)]]
           low == CHOOSE f : Eq(f)
           g == [n \in 1 .. N |-> [x \in Nat |-> x + bytes[n - 1] * Pow2[8 * (n - 1)]]]
<1>1. FromBytes(bytes) = Wrap(low[N])
  BY DEF FromBytes
<1>2. N \in Nat \ {0}
  BY Sizes
<1>3. \A n \in 1 .. N : /\ bytes[n - 1] \in Nat /\ bytes[n - 1] <= 255
                        /\ Pow2[8 * (n - 1)] \in Nat
                        /\ Pow2[8 * n] = 256 * Pow2[8 * (n - 1)]
                        /\ bytes[n - 1] * Pow2[8 * (n - 1)] \in Nat
                        /\ bytes[n - 1] * Pow2[8 * (n - 1)] <= 255 * Pow2[8 * (n - 1)]
  <2> TAKE n \in 1 .. N
  <2>1. bytes[n - 1] \in 0 .. 255
    <3>1. n - 1 \in 0 .. WordBytes - 1
      BY <1>2
    <3> QED BY <3>1 DEF Byte
  <2>2. Pow2[8 * (n - 1)] \in Nat /\ Pow2[8 * n] = 256 * Pow2[8 * (n - 1)]
    BY BytePowers
  <2> DEFINE p == Pow2[8 * (n - 1)]
             b == bytes[n - 1]
  <2>3. b \in Nat /\ b <= 255 /\ b * p \in Nat /\ b * p <= 255 * p
    <3>1. b \in Nat /\ b <= 255 /\ p \in Nat
      <4>1. b \in 0 .. 255
        BY ONLY <2>1
      <4>2. p \in Nat
        BY ONLY <2>2
      <4> HIDE DEF b, p
      <4> QED BY ONLY <4>1, <4>2
    <3> HIDE DEF b, p
    <3> QED BY <3>1, Product
  <2> QED BY ONLY <2>1, <2>2, <2>3, Zenon
<1>4. PICK f \in [0 .. N -> Nat] : f[0] = 0 /\ \A n \in 1 .. N : f[n] = g[n][f[n - 1]]
  <2>1. g \in [1 .. N -> [Nat -> Nat]]
    BY <1>3
  <2> HIDE DEF N, g
  <2>2. 0 \in Nat /\ N \in Nat
    BY <1>2
  <2> QED BY ONLY <2>1, <2>2, Recursion, Zenon
<1>5. \A n \in 1 .. N : n - 1 \in 0 .. N /\ n # 0 /\ n \in 0 .. N
  BY <1>2
<1>6. \A n \in 1 .. N : f[n] = f[n - 1] + bytes[n - 1] * Pow2[8 * (n - 1)]
  BY <1>4, <1>5
<1>7. Eq(f)
  <2>1. \A n \in 0 .. N : n = 0 \/ n \in 1 .. N
    BY <1>2
  <2>2. \A n \in 0 .. N : f[n] = IF n = 0 THEN 0
                                 ELSE f[n - 1] + bytes[n - 1] * Pow2[8 * (n - 1)]
    BY <1>4, <1>6, <2>1
  <2> QED BY <1>4, <2>2
<1>8. Eq(low)
  <2> HIDE DEF Eq
  <2> QED BY <1>7
<1> HIDE DEF low
<1>9. \A n \in 0 .. N : low[n] = IF n = 0 THEN 0
                                 ELSE low[n - 1] + bytes[n - 1] * Pow2[8 * (n - 1)]
  BY <1>8
<1>10. low[0] = 0 /\ \A n \in 1 .. N : low[n] = low[n - 1] + bytes[n - 1] * Pow2[8 * (n - 1)]
  <2>1. 0 \in 0 .. N
    BY <1>2
  <2> QED BY ONLY <1>5, <1>9, <2>1
<1>11. \A n \in 0 .. N : low[n] \in Nat /\ low[n] < Pow2[8 * n]
  <2> DEFINE T == {n \in 0 .. N : low[n] \in Nat /\ low[n] < Pow2[8 * n]}
  <2>1. 0 \in T /\ T \in SUBSET (0 .. N)
    BY <1>2, <1>10, Powers
  <2>2. \A n \in 1 .. N : n - 1 \in T => n \in T
    <3> SUFFICES ASSUME NEW n \in 1 .. N, n - 1 \in T PROVE n \in T
      OBVIOUS
    <3> DEFINE x == bytes[n - 1] * Pow2[8 * (n - 1)]
               p == Pow2[8 * (n - 1)]
    <3>1. x \in Nat /\ x <= 255 * p /\ p \in Nat /\ Pow2[8 * n] = 256 * p
      BY <1>3
    <3>2. low[n] = low[n - 1] + x /\ low[n - 1] \in Nat /\ low[n - 1] < p
      BY <1>10
    <3> HIDE DEF x, p
    <3>3. low[n] \in Nat /\ low[n] < Pow2[8 * n]
      BY ONLY <3>1, <3>2
    <3> QED BY <1>5, <3>3
  <2>3. T = 0 .. N
    <3> HIDE DEF N, T
    <3>1. N \in Nat
      BY <1>2
    <3> QED BY ONLY <3>1, <2>1, <2>2, UpTo
  <2> QED BY <2>3
<1>12. low[N] \in Nat /\ low[N] < 2 * HalfWord
  BY <1>2, <1>11, Sizes
<1> QED BY <1>1, <1>12, WrapType, Sizes

LEMMA FromBitsType ==
  ASSUME NEW bits \in [Bits -> {0, 1}]
  PROVE  FromBits(bits) \in Word
<1> DEFINE N == 8 * WordBytes
           Eq(f) == f = [n \in 0 .. N |->
                           IF n = 0 THEN 0 ELSE f[n - 1] + bits[n - 1] * Pow2[n - 1]]
           low == CHOOSE f : Eq(f)
           g == [n \in 1 .. N |-> [x \in Nat |-> x + bits[n - 1] * Pow2[n - 1]]]
<1>1. FromBits(bits) = Wrap(low[N])
  BY DEF FromBits
<1>2. N \in Nat \ {0}
  BY Sizes
<1>3. \A n \in 1 .. N : /\ Pow2[n - 1] \in Nat /\ Pow2[n] = 2 * Pow2[n - 1]
                        /\ bits[n - 1] * Pow2[n - 1] \in Nat
                        /\ bits[n - 1] * Pow2[n - 1] <= Pow2[n - 1]
  <2> TAKE n \in 1 .. N
  <2>1. bits[n - 1] \in {0, 1} /\ n - 1 \in 0 .. 8 * WordBytes
    <3>1. n - 1 \in 0 .. 8 * WordBytes - 1 /\ n - 1 \in 0 .. 8 * WordBytes
      BY <1>2
    <3> QED BY <3>1 DEF Bits
  <2>2. Pow2[n - 1] \in Nat /\ Pow2[n] = 2 * Pow2[n - 1]
    BY <2>1, Powers
  <2> QED BY <2>1, <2>2
<1>4. PICK f \in [0 .. N -> Nat] : f[0] = 0 /\ \A n \in 1 .. N : f[n] = g[n][f[n - 1]]
  <2>1. g \in [1 .. N -> [Nat -> Nat]]
    BY <1>3
  <2> HIDE DEF N, g
  <2>2. 0 \in Nat /\ N \in Nat
    BY <1>2
  <2> QED BY ONLY <2>1, <2>2, Recursion, Zenon
<1>5. \A n \in 1 .. N : n - 1 \in 0 .. N /\ n # 0 /\ n \in 0 .. N
  BY <1>2
<1>6. \A n \in 1 .. N : f[n] = f[n - 1] + bits[n - 1] * Pow2[n - 1]
  BY <1>4, <1>5
<1>7. Eq(f)
  <2>1. \A n \in 0 .. N : n = 0 \/ n \in 1 .. N
    BY <1>2
  <2>2. \A n \in 0 .. N : f[n] = IF n = 0 THEN 0 ELSE f[n - 1] + bits[n - 1] * Pow2[n - 1]
    BY <1>4, <1>6, <2>1
  <2> QED BY <1>4, <2>2
<1>8. Eq(low)
  <2> HIDE DEF Eq
  <2> QED BY <1>7
<1> HIDE DEF low
<1>9. \A n \in 0 .. N : low[n] = IF n = 0 THEN 0 ELSE low[n - 1] + bits[n - 1] * Pow2[n - 1]
  BY <1>8
<1>10. low[0] = 0 /\ \A n \in 1 .. N : low[n] = low[n - 1] + bits[n - 1] * Pow2[n - 1]
  <2>1. 0 \in 0 .. N
    BY <1>2
  <2> QED BY ONLY <1>5, <1>9, <2>1
<1>11. \A n \in 0 .. N : low[n] \in Nat /\ low[n] < Pow2[n]
  <2> DEFINE T == {n \in 0 .. N : low[n] \in Nat /\ low[n] < Pow2[n]}
  <2>1. 0 \in T /\ T \in SUBSET (0 .. N)
    BY <1>2, <1>10, Powers
  <2>2. \A n \in 1 .. N : n - 1 \in T => n \in T
    <3> SUFFICES ASSUME NEW n \in 1 .. N, n - 1 \in T PROVE n \in T
      OBVIOUS
    <3> DEFINE x == bits[n - 1] * Pow2[n - 1]
    <3>1. x \in Nat /\ x <= Pow2[n - 1] /\ Pow2[n - 1] \in Nat /\ Pow2[n] = 2 * Pow2[n - 1]
      BY <1>3
    <3>2. low[n] = low[n - 1] + x /\ low[n - 1] \in Nat /\ low[n - 1] < Pow2[n - 1]
      BY <1>10
    <3> HIDE DEF x
    <3>3. low[n] \in Nat /\ low[n] < Pow2[n]
      BY ONLY <3>1, <3>2
    <3> QED BY <1>5, <3>3
  <2>3. T = 0 .. N
    <3> HIDE DEF N, T
    <3>1. N \in Nat
      BY <1>2
    <3> QED BY ONLY <3>1, <2>1, <2>2, UpTo
  <2> QED BY <2>3
<1>12. low[N] \in Nat /\ low[N] < 2 * HalfWord
  BY <1>2, <1>11, Sizes
<1> QED BY <1>1, <1>12, WrapType, Sizes

RegFiles == [Registers -> Word]
States == [pc : Int, r : RegFiles, m : Memory, cc : CCs]

LEMMA GetByteType ==
  ASSUME NEW m \in Memory, NEW pos \in Int
  PROVE  get_byte_val(m, pos) \in Byte
<1>1. MemLen \in Nat
  BY Sizes
<1>2. ByteOK(m, pos) => pos \in 0 .. MemLen - 1
  BY <1>1 DEF ByteOK
<1> QED BY <1>1, <1>2 DEF get_byte_val, Memory, Byte

LEMMA GetWordType ==
  ASSUME NEW m \in Memory, NEW pos \in Int
  PROVE  get_word_val(m, pos) \in Word
<1> DEFINE bytes == [n \in 0 .. WordBytes - 1 |-> m[pos + n]]
<1>1. MemLen \in Nat /\ WordBytes \in Nat
  BY Sizes
<1>2. CASE WordOK(m, pos)
  <2>1. bytes \in [0 .. WordBytes - 1 -> Byte]
    <3>1. \A n \in 0 .. WordBytes - 1 : pos + n \in 0 .. MemLen - 1
      BY <1>1, <1>2 DEF WordOK
    <3> QED BY <3>1 DEF Memory
  <2>2. get_word_val(m, pos) = FromBytes(bytes)
    BY <1>2 DEF get_word_val
  <2> QED BY <2>1, <2>2, FromBytesType
<1>3. CASE ~WordOK(m, pos)
  BY <1>3, WordInt DEF get_word_val
<1> QED BY <1>2, <1>3

LEMMA SetWordType ==
  ASSUME NEW m \in Memory, NEW pos \in Int, NEW val \in Int
  PROVE  set_word_val(m, pos, val) \in Memory
<1>1. MemLen \in Nat /\ WordBytes \in Nat
  BY Sizes
<1>2. CASE WordOK(m, pos)
  <2> SUFFICES ASSUME NEW a \in 0 .. MemLen - 1, a \in pos .. pos + WordBytes - 1
               PROVE  (val \div Pow2[8 * (a - pos)]) % 256 \in Byte
    <3>1. DOMAIN m = 0 .. MemLen - 1
      BY DEF Memory
    <3> QED BY <1>2, <3>1 DEF set_word_val, Memory
  <2>1. 8 * (a - pos) \in 0 .. 8 * WordBytes
    BY <1>1
  <2> DEFINE p == Pow2[8 * (a - pos)]
  <2>2. p \in Nat \ {0}
    BY <2>1, Powers
  <2> HIDE DEF p
  <2>3. val \div p \in Int
    BY <2>2
  <2>4. (val \div p) % 256 \in 0 .. 255
    BY <2>3
  <2> QED BY <2>4 DEF p, Byte
<1>3. CASE ~WordOK(m, pos)
  BY <1>3 DEF set_word_val
<1> QED BY <1>2, <1>3

LEMMA GetRegType ==
  ASSUME NEW r \in RegFiles, NEW id
  PROVE  get_reg_val(r, id) \in Word
BY WordInt DEF get_reg_val, reg_valid, RegFiles

LEMMA SetRegType ==
  ASSUME NEW r \in RegFiles, NEW id, NEW val \in Word
  PROVE  set_reg_val(r, id, val) \in RegFiles
BY DEF set_reg_val, reg_valid, RegFiles

LEMMA WriteBackType ==
  ASSUME NEW r \in RegFiles, NEW de, NEW ve \in Word, NEW dm, NEW vm \in Word
  PROVE  write_back(r, de, ve, dm, vm) \in RegFiles
<1>1. set_reg_val(r, de, ve) \in RegFiles
  BY SetRegType
<1> QED BY <1>1, SetRegType DEF write_back

LEMMA BitType ==
  ASSUME NEW x \in Int, NEW i \in Bits
  PROVE  Bit(x, i) \in {0, 1}
<1>1. 2 * HalfWord \in Nat \ {0} /\ 8 * WordBytes \in Nat
  BY Sizes
<1> DEFINE y == x % (2 * HalfWord)
           p == Pow2[i]
<1>2. y \in Nat
  BY <1>1
<1>3. p \in Nat \ {0}
  <2>1. i \in 0 .. 8 * WordBytes
    BY <1>1 DEF Bits
  <2> QED BY <2>1, Powers
<1> HIDE DEF y, p
<1>4. y \div p \in Int
  BY <1>2, <1>3
<1>5. (y \div p) % 2 \in {0, 1}
  BY <1>4
<1> QED BY <1>5 DEF Bit, y, p

LEMMA AluType ==
  ASSUME NEW op, NEW a \in Word, NEW b \in Word
  PROVE  compute_alu(op, a, b) \in Word
<1>1. HalfWord \in Nat /\ a \in Int /\ b \in Int
  BY Sizes, WordInt
<1>2. Wrap(a + b) \in Word /\ Wrap(b - a) \in Word
  BY <1>1, WrapType DEF Word
<1>3. /\ FromBits([i \in Bits |-> Bit(a, i) * Bit(b, i)]) \in Word
      /\ FromBits([i \in Bits |-> (Bit(a, i) + Bit(b, i)) % 2]) \in Word
  <2>1. \A i \in Bits : Bit(a, i) \in {0, 1} /\ Bit(b, i) \in {0, 1}
    BY <1>1, BitType
  <2>2. \A x, y \in {0, 1} : x * y \in {0, 1} /\ (x + y) % 2 \in {0, 1}
    OBVIOUS
  <2>3. /\ [i \in Bits |-> Bit(a, i) * Bit(b, i)] \in [Bits -> {0, 1}]
        /\ [i \in Bits |-> (Bit(a, i) + Bit(b, i)) % 2] \in [Bits -> {0, 1}]
    BY ONLY <2>1, <2>2
  <2> QED BY <2>3, FromBitsType
<1> QED BY <1>2, <1>3, WordInt DEF compute_alu

LEMMA CcType ==
  ASSUME NEW op, NEW a, NEW b
  PROVE  compute_cc(op, a, b) \in CCs
BY DEF compute_cc, CCs

----------------------------------------------------------------------------
(* Types of the two processors, for every program.                         *)

Reported == {"AOK"} \cup Stopping
Statuses == {"BUB"} \cup Reported

SeqType(s) ==
  /\ s.pc \in Int /\ s.r \in RegFiles /\ s.m \in Memory /\ s.cc \in CCs
  /\ s.pc_in \in Int /\ s.cc_in \in CCs
  /\ s.vale \in Word /\ s.valm \in Word /\ s.mem_addr \in Word /\ s.mem_data \in Int
  /\ s.status \in Reported

LEMMA UpdateType ==
  ASSUME NEW s, SeqType(s)
  PROVE  update_state(s) \in States
<1>1. write_back(s.r, s.destE, s.vale, s.destM, s.valm) \in RegFiles
  BY WriteBackType DEF SeqType
<1>2. set_word_val(s.m, s.mem_addr, s.mem_data) \in Memory
  BY SetWordType, WordInt DEF SeqType
<1> QED BY <1>1, <1>2 DEF update_state, States, SeqType

LEMMA SeqResetType ==
  ASSUME NEW mem \in Memory
  PROVE  SeqType(SeqReset(mem))
<1>1. init_reg \in RegFiles
  BY WordInt DEF init_reg, RegFiles
<1> QED BY <1>1, WordInt DEF SeqReset, SeqType, DEFAULT_CC, CCs, Reported

LEMMA AluAType ==
  ASSUME NEW ic, NEW va \in Word, NEW vc \in Word
  PROVE  aluA(ic, va, vc) \in Word
BY WordInt DEF aluA

LEMMA AluBType ==
  ASSUME NEW ic, NEW vb \in Word
  PROVE  aluB(ic, vb) \in Word
BY WordInt DEF aluB

LEMMA AddrType ==
  ASSUME NEW ic, NEW ve \in Word, NEW va \in Word
  PROVE  mem_addr(ic, ve, va) \in Word
BY WordInt DEF mem_addr

LEMMA SeqStepType ==
  ASSUME NEW s, SeqType(s)
  PROVE  SeqType(sim_step(s))
<1> DEFINE u == update_state(s)
           f == SeqFetch(u.m, u.pc)
           ic == f.icode
           vala == get_reg_val(u.r, srcA(ic, f.ra))
           valb == get_reg_val(u.r, srcB(ic, f.rb))
           cond == cond_holds(u.cc, NameIn(cond_t, f.ifun))
           opA == aluA(ic, vala, f.valc)
           opB == aluB(ic, valb)
           fun == alufun(ic, f.ifun)
           vale == compute_alu(fun, opA, opB)
           addr == mem_addr(ic, vale, vala)
           valm == IF mem_read(ic) THEN get_word_val(u.m, addr) ELSE 0
           dmem_error == (mem_read(ic) \/ mem_write(ic)) /\ ~WordOK(u.m, addr)
           t == sim_step(s)
<1>1. /\ t.pc = u.pc /\ t.r = u.r /\ t.m = u.m /\ t.cc = u.cc
      /\ t.pc_in = new_pc(ic, cond, f.valc, valm, f.valp)
      /\ t.cc_in = IF set_cc(ic) THEN compute_cc(fun, opA, opB) ELSE u.cc
      /\ t.vale = vale /\ t.valm = valm /\ t.mem_addr = addr
      /\ t.mem_data = IF ic \in {"RMMOVQ", "PUSHQ"} THEN vala
                      ELSE IF ic = "CALL" THEN f.valp ELSE 0
      /\ t.status = Stat(ic, f.imem_error, dmem_error)
  BY DEF sim_step
<1>2. u \in States
  BY UpdateType
<1>3. u.pc \in Int /\ u.r \in RegFiles /\ u.m \in Memory /\ u.cc \in CCs
  BY <1>2 DEF States
<1> HIDE DEF u, t
<1>4. f.valc \in Word /\ f.valp \in Int
  <2>1. u.pc + 1 \in Int /\ u.pc + 1 + 1 \in Int /\ u.pc + 1 + 0 \in Int
    BY <1>3
  <2>2. get_word_val(u.m, u.pc + 1 + 1) \in Word /\ get_word_val(u.m, u.pc + 1 + 0) \in Word
    BY <1>3, <2>1, GetWordType
  <2>3. WordBytes \in Int
    BY Sizes
  <2> QED BY <1>3, <2>1, <2>2, <2>3, WordInt DEF SeqFetch
<1>5. vala \in Word /\ valb \in Word
  BY <1>3, GetRegType
<1> HIDE DEF f, vala, valb, cond
<1>6. opA \in Word /\ opB \in Word
  BY <1>4, <1>5, AluAType, AluBType
<1> HIDE DEF opA, opB
<1>7. vale \in Word
  BY <1>6, AluType
<1> HIDE DEF vale
<1>8. addr \in Word
  BY <1>5, <1>7, AddrType
<1> HIDE DEF addr
<1>9. valm \in Word
  BY <1>3, <1>8, GetWordType, WordInt
<1> HIDE DEF valm, dmem_error
<1>10. t.pc_in \in Int
  BY <1>1, <1>4, <1>9, WordInt DEF new_pc
<1>11. t.cc_in \in CCs
  BY <1>1, <1>3, CcType
<1>12. t.mem_data \in Int
  BY <1>1, <1>4, <1>5, WordInt
<1>13. t.status \in Reported
  BY <1>1 DEF Stat, Reported, Stopping
<1> QED BY <1>1, <1>3, <1>7, <1>8, <1>9, <1>10, <1>11, <1>12, <1>13 DEF SeqType, t


FType(F) == F.pc \in Int
DType(D) == /\ D.valc \in Word /\ D.valp \in Int
            /\ D.icode \in {"CALL", "JMP"} => D.valp \in Word
            /\ D.status \in Statuses
EType(E) == E.valc \in Word /\ E.vala \in Word /\ E.valb \in Word /\ E.status \in Statuses
MType(M) == M.vale \in Word /\ M.vala \in Word /\ M.status \in Statuses
WType(W) == W.vale \in Word /\ W.valm \in Word /\ W.status \in Statuses

PipeFields == {"r", "m", "cc", "cc_in", "cc_was", "wb_destE", "wb_valE", "wb_destM", "wb_valM",
               "mem_addr", "mem_data", "mem_write", "F", "D", "E", "M", "W", "status", "f_pc",
               "starting_up", "cycles", "instructions"}

\* The contents the stages see.
CurType(p) ==
  /\ p.r \in RegFiles /\ p.m \in Memory /\ p.cc \in CCs /\ p.cc_in \in CCs
  /\ FType(p.F.cur) /\ DType(p.D.cur) /\ EType(p.E.cur) /\ MType(p.M.cur) /\ WType(p.W.cur)

Orders == {"LOAD", "STALL", "BUBBLE"}

\* What is to happen at the next clock edge.
NxtType(p) ==
  /\ p.wb_valE \in Word /\ p.wb_valM \in Word /\ p.mem_addr \in Word /\ p.mem_data \in Word
  /\ FType(p.F.nxt) /\ DType(p.D.nxt) /\ EType(p.E.nxt) /\ MType(p.M.nxt) /\ WType(p.W.nxt)
  /\ p.F.op \in Orders /\ p.D.op \in Orders /\ p.E.op \in Orders
  /\ p.M.op \in Orders /\ p.W.op \in Orders

PipeType(p) ==
  /\ DOMAIN p = PipeFields
  /\ CurType(p) /\ NxtType(p)
  /\ p.status \in Reported

LEMMA PipeResetType ==
  ASSUME NEW mem \in Memory
  PROVE  PipeType(PipeReset(mem))
<1>1. init_reg \in RegFiles
  BY WordInt DEF init_reg, RegFiles
<1>2. FType(bubble_pc) /\ DType(bubble_if_id) /\ EType(bubble_id_ex) /\ MType(bubble_ex_mem)
      /\ WType(bubble_mem_wb)
  BY WordInt DEF FType, DType, EType, MType, WType, bubble_pc, bubble_if_id, bubble_id_ex,
                 bubble_ex_mem, bubble_mem_wb, Statuses, Reported
<1>3. DEFAULT_CC \in CCs
  BY DEF DEFAULT_CC, CCs
<1>4. DOMAIN PipeReset(mem) = PipeFields
  BY DEF PipeReset, PipeFields
<1>5. CurType(PipeReset(mem))
  BY <1>1, <1>2, <1>3 DEF CurType, PipeReset, new_pipe
<1>6. NxtType(PipeReset(mem))
  BY <1>2, WordInt DEF NxtType, PipeReset, new_pipe, Orders
<1>7. PipeReset(mem).status \in Reported
  BY DEF PipeReset, Reported
<1> QED BY <1>4, <1>5, <1>6, <1>7 DEF PipeType

\* The state after a clock edge.
Edge(p, update_mem, update_cc) == update_pipes(PipeUpdateState(p, update_mem, update_cc))

LEMMA EdgeFields ==
  ASSUME NEW p, DOMAIN p = PipeFields, NEW um, NEW uc
  PROVE  LET q == Edge(p, um, uc) IN
         /\ DOMAIN q = PipeFields
         /\ q.r = write_back(p.r, p.wb_destE, p.wb_valE, p.wb_destM, p.wb_valM)
         /\ q.m = IF um /\ p.mem_write THEN set_word_val(p.m, p.mem_addr, p.mem_data) ELSE p.m
         /\ q.cc = IF uc THEN p.cc_in ELSE p.cc
         /\ q.cc_was = p.cc /\ q.cc_in = p.cc_in
         /\ q.F = Clocked(p.F, bubble_pc) /\ q.D = Clocked(p.D, bubble_if_id)
         /\ q.E = Clocked(p.E, bubble_id_ex) /\ q.M = Clocked(p.M, bubble_ex_mem)
         /\ q.W = Clocked(p.W, bubble_mem_wb)
         /\ q.starting_up = p.starting_up /\ q.cycles = p.cycles
         /\ q.instructions = p.instructions
<1> DEFINE o == PipeUpdateState(p, um, uc)
           q == Edge(p, um, uc)
<1>1. /\ DOMAIN o = PipeFields
      /\ o.r = write_back(p.r, p.wb_destE, p.wb_valE, p.wb_destM, p.wb_valM)
      /\ o.m = IF um /\ p.mem_write THEN set_word_val(p.m, p.mem_addr, p.mem_data) ELSE p.m
      /\ o.cc = IF uc THEN p.cc_in ELSE p.cc
      /\ o.cc_was = p.cc /\ o.cc_in = p.cc_in
      /\ o.F = p.F /\ o.D = p.D /\ o.E = p.E /\ o.M = p.M /\ o.W = p.W
      /\ o.starting_up = p.starting_up /\ o.cycles = p.cycles
      /\ o.instructions = p.instructions
  BY DEF PipeUpdateState, PipeFields
<1>2. q = update_pipes(o)
  BY DEF Edge
<1> HIDE DEF o, q
<1>3. /\ DOMAIN q = PipeFields
      /\ q.r = o.r /\ q.m = o.m /\ q.cc = o.cc /\ q.cc_was = o.cc_was /\ q.cc_in = o.cc_in
      /\ q.F = Clocked(o.F, bubble_pc) /\ q.D = Clocked(o.D, bubble_if_id)
      /\ q.E = Clocked(o.E, bubble_id_ex) /\ q.M = Clocked(o.M, bubble_ex_mem)
      /\ q.W = Clocked(o.W, bubble_mem_wb)
      /\ q.starting_up = o.starting_up /\ q.cycles = o.cycles
      /\ q.instructions = o.instructions
  BY <1>1, <1>2 DEF update_pipes, PipeFields
<1> QED BY <1>1, <1>3 DEF q

LEMMA StagesFields ==
  ASSUME NEW p
  PROVE  LET q == Stages(p)
             fetch == do_if_stage(p.m, f_pc(p))
             mem == do_mem_stage(p.m, p.M.cur)
             ex == do_ex_stage(p, mem.W.status)
             d == do_id_wb_stages(p, ex.M, mem.W)
             op == do_stall_check(p, d, ex.M, mem.W)
         IN
         /\ DOMAIN q = PipeFields
         /\ q.r = p.r /\ q.m = p.m /\ q.cc = p.cc /\ q.cc_was = p.cc_was /\ q.cc_in = ex.cc_in
         /\ q.wb_destE = p.W.cur.deste /\ q.wb_valE = p.W.cur.vale
         /\ q.wb_destM = p.W.cur.destm /\ q.wb_valM = p.W.cur.valm
         /\ q.mem_addr = mem.addr /\ q.mem_data = mem.data /\ q.mem_write = mem.write
         /\ q.F.cur = p.F.cur /\ q.F.nxt = fetch.F /\ q.F.op = op.F
         /\ q.D.cur = p.D.cur /\ q.D.nxt = fetch.D /\ q.D.op = op.D
         /\ q.E.cur = p.E.cur /\ q.E.nxt = d /\ q.E.op = op.E
         /\ q.M.cur = p.M.cur /\ q.M.nxt = ex.M /\ q.M.op = op.M
         /\ q.W.cur = p.W.cur /\ q.W.nxt = mem.W /\ q.W.op = op.W
         /\ q.status = gen_Stat(p.W.cur.status) /\ q.f_pc = f_pc(p)
         /\ q.starting_up = (p.starting_up /\ ~Retires(p))
         /\ q.cycles = IF Retires(p) \/ ~p.starting_up THEN p.cycles + 1 ELSE p.cycles
         /\ q.instructions = IF Retires(p) THEN p.instructions + 1 ELSE p.instructions
BY DEF Stages, PipeFields

LEMMA FetchType ==
  ASSUME NEW m \in Memory, NEW pc \in Int
  PROVE  FType(do_if_stage(m, pc).F) /\ DType(do_if_stage(m, pc).D)
<1> DEFINE imem_error == ~ByteOK(m, pc) \/ ~ByteOK(m, pc + FetchReach)
           icode == IF imem_error THEN "NOP" ELSE NameIn(itype_t, HI4(get_byte_val(m, pc)))
           regs == IF need_regids(icode) THEN 1 ELSE 0
           valp0 == pc + 1 + regs
           valc == IF need_valC(icode) THEN get_word_val(m, valp0) ELSE 0
           valp == valp0 + (IF need_valC(icode) THEN WordBytes ELSE 0)
           D == do_if_stage(m, pc).D
           F == do_if_stage(m, pc).F
<1>1. /\ D.icode = icode /\ D.valc = valc /\ D.valp = valp
      /\ F.pc = IF icode \in {"JMP", "CALL"} THEN valc ELSE valp
  BY DEF do_if_stage
<1>2. D.status \in Statuses
  BY DEF do_if_stage, Statuses, Reported, Stopping
<1>3. icode # "NOP" => 0 <= pc /\ pc < MemLen
  BY DEF ByteOK
<1> HIDE DEF D, F, icode
<1>4. MemLen \in Nat /\ WordBytes \in Nat /\ HalfWord \in Nat /\ MemLen + WordBytes < HalfWord
  BY Sizes
<1>5. valp0 \in Int /\ valp \in Int
  BY <1>4
<1>6. icode \in {"CALL", "JMP"} => valp \in Word
  <2> SUFFICES ASSUME icode \in {"CALL", "JMP"} PROVE valp \in Word
    OBVIOUS
  <2>1. regs = 0 /\ need_valC(icode)
    BY DEF need_regids, need_valC
  <2>2. valp = pc + 1 + 0 + WordBytes
    BY <2>1
  <2>3. 0 <= pc /\ pc < MemLen
    BY <1>3
  <2> QED BY <1>4, <2>2, <2>3 DEF Word
<1>7. valc \in Word
  BY <1>5, GetWordType, WordInt
<1> HIDE DEF valc, valp
<1>8. FType(F)
  BY <1>1, <1>5, <1>7, WordInt DEF FType
<1>9. DType(D)
  BY <1>1, <1>2, <1>5, <1>6, <1>7 DEF DType
<1> QED BY <1>8, <1>9 DEF D, F

LEMMA MemStageType ==
  ASSUME NEW m \in Memory, NEW M, MType(M)
  PROVE  /\ do_mem_stage(m, M).addr \in Word /\ do_mem_stage(m, M).data \in Word
         /\ WType(do_mem_stage(m, M).W)
<1> DEFINE addr == mem_addr(M.icode, M.vale, M.vala)
           W == do_mem_stage(m, M).W
<1>1. addr \in Word
  BY AddrType DEF MType
<1>2. /\ do_mem_stage(m, M).addr = addr /\ do_mem_stage(m, M).data = M.vala
      /\ W.vale = M.vale
      /\ W.valm = IF mem_read(M.icode) THEN get_word_val(m, addr) ELSE 0
      /\ W.status \in {"ADR", M.status}
  BY DEF do_mem_stage
<1> HIDE DEF addr, W
<1>3. W.valm \in Word
  BY <1>1, <1>2, GetWordType, WordInt
<1>4. WType(W)
  BY <1>2, <1>3 DEF WType, MType, Statuses, Reported, Stopping
<1> QED BY <1>1, <1>2, <1>4 DEF MType, W

LEMMA ExecuteType ==
  ASSUME NEW E, EType(E), NEW cc
  PROVE  MType(Execute(E, cc))
<1>1. aluA(E.icode, E.vala, E.valc) \in Word /\ aluB(E.icode, E.valb) \in Word
  BY AluAType, AluBType DEF EType
<1>2. compute_alu(Alu(E).fun, Alu(E).a, Alu(E).b) \in Word
  BY <1>1, AluType DEF Alu
<1> QED BY <1>2 DEF Execute, MType, EType

LEMMA ExStageType ==
  ASSUME NEW p, CurType(p), NEW m_stat
  PROVE  /\ do_ex_stage(p, m_stat).cc_in \in CCs
         /\ do_ex_stage(p, m_stat).M = Execute(p.E.cur, p.cc)
         /\ MType(do_ex_stage(p, m_stat).M)
<1>1. compute_cc(Alu(p.E.cur).fun, Alu(p.E.cur).a, Alu(p.E.cur).b) \in CCs
  BY CcType
<1>2. MType(Execute(p.E.cur, p.cc))
  BY ExecuteType DEF CurType
<1> QED BY <1>1, <1>2 DEF do_ex_stage, CurType

LEMMA ForwardType ==
  ASSUME NEW p, CurType(p), NEW e, MType(e), NEW w, WType(w), NEW src
  PROVE  Forward(p, e, w, src) \in Word
<1>1. get_reg_val(p.r, src) \in Word
  BY GetRegType DEF CurType
<1> QED BY <1>1 DEF Forward, CurType, MType, WType

LEMMA IdStageType ==
  ASSUME NEW p, CurType(p), NEW e, MType(e), NEW w, WType(w)
  PROVE  EType(do_id_wb_stages(p, e, w))
<1>1. \A src : Forward(p, e, w, src) \in Word
  BY ForwardType
<1> QED BY <1>1 DEF do_id_wb_stages, EType, CurType, DType

\* At most one of a stall and a bubble: a load is no jump, and a ret is not
\* flushed while it waits for a load.
LEMMA OrdersAgree ==
  ASSUME NEW p, NEW d, NEW e, NEW w
  PROVE  /\ do_stall_check(p, d, e, w).F \in Orders /\ do_stall_check(p, d, e, w).D \in Orders
         /\ do_stall_check(p, d, e, w).E \in Orders /\ do_stall_check(p, d, e, w).M \in Orders
         /\ do_stall_check(p, d, e, w).W \in Orders
<1>1. ~(loadUse(p, d) /\ D_bubble(p, d, e))
  BY DEF loadUse, D_bubble, mispredicted
<1>2. /\ \A c : pipe_cntl(c, FALSE) \in Orders /\ pipe_cntl(FALSE, c) \in Orders
      /\ \A c, d1 : ~(c /\ d1) => pipe_cntl(c, d1) \in Orders
  BY DEF pipe_cntl, Orders
<1> QED BY <1>1, <1>2 DEF do_stall_check

LEMMA ClockedType ==
  ASSUME NEW X, X.op \in Orders, NEW bubble
  PROVE  Clocked(X, bubble).cur = CASE X.op = "STALL" -> X.cur
                                    [] X.op = "LOAD" -> X.nxt
                                    [] X.op = "BUBBLE" -> bubble
BY DEF Clocked, Orders

LEMMA BubbleTypes ==
  /\ FType(bubble_pc) /\ DType(bubble_if_id) /\ EType(bubble_id_ex) /\ MType(bubble_ex_mem)
  /\ WType(bubble_mem_wb)
BY WordInt DEF FType, DType, EType, MType, WType, bubble_pc, bubble_if_id, bubble_id_ex,
               bubble_ex_mem, bubble_mem_wb, Statuses, Reported

LEMMA EdgeType ==
  ASSUME NEW p, PipeType(p), NEW um, NEW uc
  PROVE  CurType(Edge(p, um, uc))
<1> DEFINE q == Edge(p, um, uc)
<1>1. /\ q.r = write_back(p.r, p.wb_destE, p.wb_valE, p.wb_destM, p.wb_valM)
      /\ q.m = IF um /\ p.mem_write THEN set_word_val(p.m, p.mem_addr, p.mem_data) ELSE p.m
      /\ q.cc = IF uc THEN p.cc_in ELSE p.cc
      /\ q.cc_in = p.cc_in
      /\ q.F = Clocked(p.F, bubble_pc) /\ q.D = Clocked(p.D, bubble_if_id)
      /\ q.E = Clocked(p.E, bubble_id_ex) /\ q.M = Clocked(p.M, bubble_ex_mem)
      /\ q.W = Clocked(p.W, bubble_mem_wb)
  BY EdgeFields DEF PipeType
<1> HIDE DEF q
<1>2. q.r \in RegFiles
  BY <1>1, WriteBackType DEF PipeType, CurType, NxtType
<1>3. q.m \in Memory
  BY <1>1, SetWordType, WordInt DEF PipeType, CurType, NxtType
<1>4. q.cc \in CCs /\ q.cc_in \in CCs
  BY <1>1 DEF PipeType, CurType
<1>5. FType(q.F.cur)
  BY <1>1, ClockedType, BubbleTypes DEF PipeType, CurType, NxtType, Orders
<1>6. DType(q.D.cur)
  BY <1>1, ClockedType, BubbleTypes DEF PipeType, CurType, NxtType, Orders
<1>7. EType(q.E.cur)
  BY <1>1, ClockedType, BubbleTypes DEF PipeType, CurType, NxtType, Orders
<1>8. MType(q.M.cur)
  BY <1>1, ClockedType, BubbleTypes DEF PipeType, CurType, NxtType, Orders
<1>9. WType(q.W.cur)
  BY <1>1, ClockedType, BubbleTypes DEF PipeType, CurType, NxtType, Orders
<1> QED BY <1>2, <1>3, <1>4, <1>5, <1>6, <1>7, <1>8, <1>9 DEF CurType, q

LEMMA StagesType ==
  ASSUME NEW p, CurType(p)
  PROVE  PipeType(Stages(p))
<1> DEFINE q == Stages(p)
           fetch == do_if_stage(p.m, f_pc(p))
           mem == do_mem_stage(p.m, p.M.cur)
           ex == do_ex_stage(p, mem.W.status)
           d == do_id_wb_stages(p, ex.M, mem.W)
           op == do_stall_check(p, d, ex.M, mem.W)
<1>1. /\ DOMAIN q = PipeFields
      /\ q.r = p.r /\ q.m = p.m /\ q.cc = p.cc /\ q.cc_in = ex.cc_in
      /\ q.wb_valE = p.W.cur.vale /\ q.wb_valM = p.W.cur.valm
      /\ q.mem_addr = mem.addr /\ q.mem_data = mem.data
      /\ q.F.cur = p.F.cur /\ q.F.nxt = fetch.F /\ q.F.op = op.F
      /\ q.D.cur = p.D.cur /\ q.D.nxt = fetch.D /\ q.D.op = op.D
      /\ q.E.cur = p.E.cur /\ q.E.nxt = d /\ q.E.op = op.E
      /\ q.M.cur = p.M.cur /\ q.M.nxt = ex.M /\ q.M.op = op.M
      /\ q.W.cur = p.W.cur /\ q.W.nxt = mem.W /\ q.W.op = op.W
      /\ q.status = gen_Stat(p.W.cur.status)
  BY StagesFields
<1> HIDE DEF q
<1>2. f_pc(p) \in Int
  BY WordInt DEF CurType, f_pc, MType, WType, FType
<1>3. FType(fetch.F) /\ DType(fetch.D)
  BY <1>2, FetchType DEF CurType
<1>4. mem.addr \in Word /\ mem.data \in Word /\ WType(mem.W)
  BY MemStageType DEF CurType
<1> HIDE DEF fetch, mem
<1>5. ex.cc_in \in CCs /\ MType(ex.M)
  BY ExStageType
<1> HIDE DEF ex
<1>6. EType(d)
  BY <1>4, <1>5, IdStageType
<1> HIDE DEF d
<1>7. op.F \in Orders /\ op.D \in Orders /\ op.E \in Orders /\ op.M \in Orders /\ op.W \in Orders
  BY OrdersAgree
<1> HIDE DEF op
<1>8. CurType(q)
  BY <1>1, <1>5 DEF CurType
<1>9. NxtType(q)
  BY <1>1, <1>3, <1>4, <1>6, <1>5, <1>7 DEF NxtType, CurType, WType
<1>10. q.status \in Reported
  BY <1>1 DEF CurType, WType, gen_Stat, Statuses, Reported
<1> QED BY <1>1, <1>8, <1>9, <1>10 DEF PipeType, q

LEMMA PipeStepType ==
  ASSUME NEW p, PipeType(p), NEW k
  PROVE  PipeType(sim_step_pipe(p, k))
<1>1. PICK um, uc : sim_step_pipe(p, k) = Stages(Edge(p, um, uc))
  BY DEF sim_step_pipe, Edge
<1> QED BY <1>1, EdgeType, StagesType

----------------------------------------------------------------------------
(* An instruction by the signals the processors compute of it.  Ins is what *)
(* PIPE fetches; the other signals are those of its stages when every       *)
(* register has the value it has in the state s.                            *)

Ins(s) == do_if_stage(s.m, s.pc).D

Operands(s) ==
  LET D == Ins(s)
      srca == srcA(D.icode, D.ra)
      srcb == srcB(D.icode, D.rb)
  IN  [icode |-> D.icode, ifun |-> D.ifun, valc |-> D.valc,
       vala |-> IF D.icode \in {"CALL", "JMP"} THEN D.valp ELSE get_reg_val(s.r, srca),
       valb |-> get_reg_val(s.r, srcb), srca |-> srca, srcb |-> srcb,
       deste |-> dstE(D.icode, D.rb), destm |-> dstM(D.icode, D.ra),
       status |-> D.status, stage_pc |-> D.stage_pc]

Executed(s) == Execute(Operands(s), s.cc)
Accessed(s) == do_mem_stage(s.m, Executed(s))
Written(s) == Accessed(s).W

NextPC(s) == new_pc(Ins(s).icode, Executed(s).takebranch, Ins(s).valc, Written(s).valm, Ins(s).valp)
NextR(s) == write_back(s.r, Written(s).deste, Written(s).vale, Written(s).destm, Written(s).valm)
NextM(s) == IF Accessed(s).write THEN set_word_val(s.m, Accessed(s).addr, Accessed(s).data) ELSE s.m
NextCC(s) == LET A == Alu(Operands(s))
             IN  IF set_cc(Ins(s).icode) THEN compute_cc(A.fun, A.a, A.b) ELSE s.cc

LEMMA StateFields ==
  ASSUME NEW s \in States
  PROVE  s.pc \in Int /\ s.r \in RegFiles /\ s.m \in Memory /\ s.cc \in CCs
BY DEF States

LEMMA StatesEqual ==
  ASSUME NEW s \in States, NEW t \in States,
         s.pc = t.pc, s.r = t.r, s.m = t.m, s.cc = t.cc
  PROVE  s = t
BY DEF States

\* What PIPE and the instruction set fetch is the same, as long as the bytes
\* PIPE reads behind the instruction are in memory.
LEMMA FetchesAgree ==
  ASSUME NEW s \in States, 0 <= s.pc /\ s.pc < MemLen => s.pc + FetchReach < MemLen
  PROVE  LET i == FetchInstr(s.m, s.pc)
             D == Ins(s)
         IN  /\ ~ByteOK(s.m, s.pc) => D.icode = "NOP" /\ D.status = "ADR"
             /\ ByteOK(s.m, s.pc) =>
                  /\ D.icode = i.icode /\ D.ifun = i.ifun /\ D.ra = i.ra /\ D.rb = i.rb
                  /\ D.valc = i.valc /\ D.valp = i.next /\ i.ok1
                  /\ D.status = IF ~instr_valid(i.icode) THEN "INS"
                                ELSE IF i.icode = "HALT" THEN "HLT" ELSE "AOK"
             /\ D.stage_pc = s.pc
<1>1. MemLen \in Nat /\ s.pc \in Int /\ WordBytes \in Nat
  BY Sizes, StateFields
<1>2. FetchReach \in Nat /\ FetchReach >= 1
  BY <1>1 DEF FetchReach
<1>3. CASE ~ByteOK(s.m, s.pc)
  BY <1>3 DEF Ins, do_if_stage
<1>4. CASE ByteOK(s.m, s.pc)
  <2>1. ByteOK(s.m, s.pc + FetchReach) /\ ByteOK(s.m, s.pc + 1)
    BY <1>1, <1>2, <1>4 DEF ByteOK
  <2>2. \A ic : NeedRegids(ic) = need_regids(ic) /\ NeedImm(ic) = need_valC(ic)
    BY DEF NeedRegids, need_regids, NeedImm, need_valC
  <2>3. get_byte_val(s.m, s.pc + 1) = s.m[s.pc + 1]
    BY <2>1 DEF get_byte_val
  <2>4. need_regids(NameIn(itype_t, HI4(get_byte_val(s.m, s.pc)))) \in BOOLEAN
    BY DEF need_regids
  <2> QED BY <1>4, <2>1, <2>2, <2>3, <2>4 DEF Ins, do_if_stage, FetchInstr
<1> QED BY <1>3, <1>4

\* The signals of the instruction fetched in s, spelled out.
LEMMA SignalFields ==
  ASSUME NEW s
  PROVE  LET D == Ins(s)
             E == Operands(s)
             M == Executed(s)
             W == Written(s)
             vala == IF D.icode \in {"CALL", "JMP"} THEN D.valp
                     ELSE get_reg_val(s.r, srcA(D.icode, D.ra))
             valb == get_reg_val(s.r, srcB(D.icode, D.rb))
             fun == alufun(D.icode, D.ifun)
             opA == aluA(D.icode, vala, D.valc)
             opB == aluB(D.icode, valb)
             cnd == cond_holds(s.cc, NameIn(cond_t, D.ifun))
             addr == Accessed(s).addr
         IN  /\ E.vala = vala /\ E.valb = valb
             /\ M.takebranch = cnd /\ M.vale = W.vale /\ M.vala = vala
             /\ W.icode = D.icode
             /\ W.vale = compute_alu(fun, opA, opB)
             /\ W.deste = IF D.icode = "RRMOVQ" /\ ~cnd THEN REG_NONE ELSE dstE(D.icode, D.rb)
             /\ W.destm = dstM(D.icode, D.ra)
             /\ W.valm = IF mem_read(D.icode) THEN get_word_val(s.m, addr) ELSE 0
             /\ W.status = IF (mem_read(D.icode) \/ mem_write(D.icode)) /\ ~WordOK(s.m, addr)
                           THEN "ADR" ELSE D.status
             /\ addr = mem_addr(D.icode, W.vale, vala)
             /\ Accessed(s).data = vala /\ Accessed(s).write = mem_write(D.icode)
             /\ NextPC(s) = new_pc(D.icode, cnd, D.valc, W.valm, D.valp)
             /\ NextR(s) = set_reg_val(set_reg_val(s.r, W.deste, W.vale), W.destm, W.valm)
             /\ NextM(s) = IF mem_write(D.icode) THEN set_word_val(s.m, addr, vala) ELSE s.m
             /\ NextCC(s) = IF set_cc(D.icode) THEN compute_cc(fun, opA, opB) ELSE s.cc
<1>1. /\ Operands(s).vala = IF Ins(s).icode \in {"CALL", "JMP"} THEN Ins(s).valp
                            ELSE get_reg_val(s.r, srcA(Ins(s).icode, Ins(s).ra))
      /\ Operands(s).valb = get_reg_val(s.r, srcB(Ins(s).icode, Ins(s).rb))
      /\ Operands(s).icode = Ins(s).icode /\ Operands(s).ifun = Ins(s).ifun
      /\ Operands(s).valc = Ins(s).valc /\ Operands(s).status = Ins(s).status
      /\ Operands(s).deste = dstE(Ins(s).icode, Ins(s).rb)
      /\ Operands(s).destm = dstM(Ins(s).icode, Ins(s).ra)
  BY DEF Operands
<1>2. LET E == Operands(s)
          M == Executed(s)
          cnd == cond_holds(s.cc, NameIn(cond_t, E.ifun))
      IN  /\ M.icode = E.icode /\ M.takebranch = cnd
          /\ M.vale = compute_alu(alufun(E.icode, E.ifun), aluA(E.icode, E.vala, E.valc),
                                  aluB(E.icode, E.valb))
          /\ M.vala = E.vala
          /\ M.deste = IF E.icode = "RRMOVQ" /\ ~cnd THEN REG_NONE ELSE E.deste
          /\ M.destm = E.destm /\ M.status = E.status
  BY DEF Executed, Execute, Alu
<1>3. LET M == Executed(s)
          A == Accessed(s)
          addr == mem_addr(M.icode, M.vale, M.vala)
      IN  /\ A.addr = addr /\ A.data = M.vala /\ A.write = mem_write(M.icode)
          /\ Written(s).icode = M.icode /\ Written(s).vale = M.vale
          /\ Written(s).valm = IF mem_read(M.icode) THEN get_word_val(s.m, addr) ELSE 0
          /\ Written(s).deste = M.deste /\ Written(s).destm = M.destm
          /\ Written(s).status = IF (mem_read(M.icode) \/ mem_write(M.icode)) /\ ~WordOK(s.m, addr)
                                 THEN "ADR" ELSE M.status
  BY DEF Accessed, Written, do_mem_stage
<1>4. /\ NextPC(s) = new_pc(Ins(s).icode, Executed(s).takebranch, Ins(s).valc, Written(s).valm,
                            Ins(s).valp)
      /\ NextR(s) = set_reg_val(set_reg_val(s.r, Written(s).deste, Written(s).vale),
                                Written(s).destm, Written(s).valm)
      /\ NextM(s) = IF Accessed(s).write
                    THEN set_word_val(s.m, Accessed(s).addr, Accessed(s).data) ELSE s.m
      /\ NextCC(s) = IF set_cc(Ins(s).icode)
                     THEN compute_cc(alufun(Operands(s).icode, Operands(s).ifun),
                                     aluA(Operands(s).icode, Operands(s).vala, Operands(s).valc),
                                     aluB(Operands(s).icode, Operands(s).valb))
                     ELSE s.cc
  BY DEF NextPC, NextR, NextM, NextCC, Alu, write_back
<1> QED BY ONLY <1>1, <1>2, <1>3, <1>4

\* A name is one of a table, or "NONE".
LEMMA IcodeIn ==
  \A x \in 0 .. 255 :
     NameIn(itype_t, HI4(x)) \in
        {"HALT", "NOP", "RRMOVQ", "IRMOVQ", "RMMOVQ", "MRMOVQ", "ALU", "JMP", "CALL",
         "RET", "PUSHQ", "POPQ", "IADDQ", "POP2", "NONE"}
<1> TAKE x \in 0 .. 255
<1>1. HI4(x) \in 0 .. 15
  BY DEF HI4
<1> DEFINE h == HI4(x)
<1> HIDE DEF h
<1>2. h \in 0 .. 15
  BY <1>1 DEF h
<1>3. NameIn(itype_t, h) \in
        {"HALT", "NOP", "RRMOVQ", "IRMOVQ", "RMMOVQ", "MRMOVQ", "ALU", "JMP", "CALL",
         "RET", "PUSHQ", "POPQ", "IADDQ", "POP2", "NONE"}
  BY <1>2 DEF NameIn, itype_t
<1> QED BY <1>3 DEF h

\* An instruction that is fetched well does what its signals say.
LEMMA EffectBySignals ==
  ASSUME NEW s \in States, NEW i, i = FetchInstr(s.m, s.pc), ByteOK(s.m, s.pc),
         FetchStatus(s.m, s.pc, i) = "AOK",
         WellFormed(s.pc, i, Effect(s, i).stat)
  PROVE  LET out == Effect(s, i)
         IN  /\ out.stat = Written(s).status /\ out.stat \in Reported
             /\ out.stat = "AOK" => /\ out.s.pc = NextPC(s) /\ out.s.r = NextR(s)
                                    /\ out.s.m = NextM(s) /\ out.s.cc = NextCC(s)
                                    /\ out.s = [pc |-> out.s.pc, r |-> out.s.r, m |-> out.s.m, cc |-> out.s.cc]
             /\ out.stat # "AOK" => out.s = s
<1> DEFINE out == Effect(s, i)
           W == Written(s)
           rsp == get_reg_val(s.r, REG_RSP)
           A == get_reg_val(s.r, i.ra)
           B == get_reg_val(s.r, i.rb)
           cnd == cond_holds(s.cc, NameIn(cond_t, i.ifun))
           addr == Accessed(s).addr
           Goal == /\ out.stat = W.status /\ out.stat \in Reported
                   /\ out.stat = "AOK" => /\ out.s.pc = NextPC(s) /\ out.s.r = NextR(s)
                                          /\ out.s.m = NextM(s) /\ out.s.cc = NextCC(s)
                                          /\ out.s = [pc |-> out.s.pc, r |-> out.s.r, m |-> out.s.m, cc |-> out.s.cc]
                   /\ out.stat # "AOK" => out.s = s
<1>1. s.pc \in Int /\ s.r \in RegFiles /\ s.m \in Memory /\ s.cc \in CCs
  BY StateFields
<1>2. DOMAIN s = {"pc", "r", "m", "cc"}
  BY DEF States
<1>3. /\ Ins(s).icode = i.icode /\ Ins(s).ifun = i.ifun /\ Ins(s).ra = i.ra /\ Ins(s).rb = i.rb
      /\ Ins(s).valc = i.valc /\ Ins(s).valp = i.next
      /\ Ins(s).status = IF ~instr_valid(i.icode) THEN "INS"
                         ELSE IF i.icode = "HALT" THEN "HLT" ELSE "AOK"
  <2>1. 0 <= s.pc /\ s.pc < MemLen => s.pc + FetchReach < MemLen
    BY DEF WellFormed
  <2> QED BY <2>1, FetchesAgree
<1>4. i.valc \in Word
  <2>1. DType(Ins(s))
    BY <1>1, FetchType DEF Ins
  <2> QED BY <1>3, <2>1 DEF DType
<1>5. rsp \in Word /\ A \in Word /\ B \in Word
  BY <1>1, GetRegType
<1>6. /\ i.icode \notin {"NONE", "POP2", "HALT"} /\ RegsOK(i)
  BY DEF FetchStatus
<1>7. LET vala == IF i.icode \in {"CALL", "JMP"} THEN i.next
                  ELSE get_reg_val(s.r, srcA(i.icode, i.ra))
          valb == get_reg_val(s.r, srcB(i.icode, i.rb))
          fun == alufun(i.icode, i.ifun)
          opA == aluA(i.icode, vala, i.valc)
          opB == aluB(i.icode, valb)
      IN  /\ W.vale = compute_alu(fun, opA, opB)
          /\ W.deste = IF i.icode = "RRMOVQ" /\ ~cnd THEN REG_NONE ELSE dstE(i.icode, i.rb)
          /\ W.destm = dstM(i.icode, i.ra)
          /\ W.valm = IF mem_read(i.icode) THEN get_word_val(s.m, addr) ELSE 0
          /\ W.status = IF (mem_read(i.icode) \/ mem_write(i.icode)) /\ ~WordOK(s.m, addr)
                        THEN "ADR" ELSE Ins(s).status
          /\ addr = mem_addr(i.icode, W.vale, vala)
          /\ NextPC(s) = new_pc(i.icode, cnd, i.valc, W.valm, i.next)
          /\ NextR(s) = set_reg_val(set_reg_val(s.r, W.deste, W.vale), W.destm, W.valm)
          /\ NextM(s) = IF mem_write(i.icode) THEN set_word_val(s.m, addr, vala) ELSE s.m
          /\ NextCC(s) = IF set_cc(i.icode) THEN compute_cc(fun, opA, opB) ELSE s.cc
  BY <1>3, SignalFields
<1>8. \A r, v : set_reg_val(r, REG_NONE, v) = r
  BY DEF set_reg_val, reg_valid, Registers, REG_NONE
<1>9. \A x, y : compute_alu("ADD", x, y) = Wrap(x + y)
  BY DEF compute_alu
<1>10. \A x \in Word : Wrap(x + 0) = x /\ Wrap(0 + x) = x
  <2>1. \A x \in Word : x \in Int /\ x + 0 = x /\ 0 + x = x
    BY WordInt
  <2> QED BY <2>1, WrapWord
<1>11. \A x \in Word : /\ Wrap(-WordBytes + x) = Wrap(x - WordBytes)
                       /\ Wrap(WordBytes + x) = Wrap(x + WordBytes)
  <2>1. \A x \in Word : x \in Int
    BY WordInt
  <2>2. WordBytes \in Int
    BY Sizes
  <2>3. \A x \in Word : -WordBytes + x = x - WordBytes /\ WordBytes + x = x + WordBytes
    BY <2>1, <2>2
  <2> QED BY <2>3
<1>12. i.icode \in {"NOP", "RRMOVQ", "IRMOVQ", "RMMOVQ", "MRMOVQ", "ALU", "IADDQ", "JMP", "CALL",
                   "RET", "PUSHQ", "POPQ"}
  <2>1. get_byte_val(s.m, s.pc) \in 0 .. 255
    BY <1>1, GetByteType DEF Byte
  <2>2. i.icode = NameIn(itype_t, HI4(get_byte_val(s.m, s.pc)))
    BY DEF FetchInstr
  <2>3. NameIn(itype_t, HI4(get_byte_val(s.m, s.pc))) \in
          {"HALT", "NOP", "RRMOVQ", "IRMOVQ", "RMMOVQ", "MRMOVQ", "ALU", "JMP", "CALL",
           "RET", "PUSHQ", "POPQ", "IADDQ", "POP2", "NONE"}
    BY <2>1, IcodeIn
  <2> QED BY ONLY <1>6, <2>2, <2>3
<1>13. WellFormed(s.pc, i, out.stat)
  OBVIOUS
<1>14. get_reg_val(s.r, i.ra) = A /\ get_reg_val(s.r, i.rb) = B /\ get_reg_val(s.r, REG_RSP) = rsp
  OBVIOUS
<1>15. out = Effect(s, i)
  OBVIOUS
<1> HIDE DEF W, rsp, A, B, addr, out
<1>20. ASSUME i.icode = "NOP" PROVE Goal
  <2>1. /\ W.status = "AOK"
        /\ W.deste = REG_NONE /\ W.destm = REG_NONE
        /\ NextPC(s) = i.next
        /\ NextM(s) = s.m /\ NextCC(s) = s.cc
    BY ONLY <1>20, <1>3, <1>7, <1>14 DEF srcA, srcB, dstE, dstM, aluA, aluB, alufun, mem_read, mem_write, mem_addr,
         set_cc, new_pc, instr_valid
  <2>2. /\ out.stat = "AOK"
        /\ out.s.pc = i.next
        /\ out.s.r = s.r
        /\ out.s.m = s.m
        /\ out.s.cc = s.cc
        /\ out.s = [pc |-> out.s.pc, r |-> out.s.r, m |-> out.s.m, cc |-> out.s.cc]
    BY ONLY <1>20, <1>1, <1>2, <1>14, <1>15 DEF cnd, Effect, Done, Refused, SetReg, Store
  <2> HIDE DEF cnd
  <2> QED BY ONLY <1>4, <1>5, <1>7, <1>8, <1>9, <1>10, <1>11, <2>1, <2>2 DEF Goal, Reported, Stopping
<1>21. ASSUME i.icode = "RRMOVQ" PROVE Goal
  <2>1. /\ W.status = "AOK"
        /\ W.vale = compute_alu("ADD", A, 0)
        /\ W.deste = (IF cnd THEN i.rb ELSE REG_NONE) /\ W.destm = REG_NONE
        /\ NextPC(s) = i.next
        /\ NextM(s) = s.m /\ NextCC(s) = s.cc
    BY ONLY <1>21, <1>3, <1>7, <1>14 DEF srcA, srcB, dstE, dstM, aluA, aluB, alufun, mem_read, mem_write, mem_addr,
         set_cc, new_pc, instr_valid
  <2>2. /\ out.stat = "AOK"
        /\ out.s.pc = i.next
        /\ out.s.r = IF cnd THEN set_reg_val(s.r, i.rb, A) ELSE s.r
        /\ out.s.m = s.m
        /\ out.s.cc = s.cc
        /\ out.s = [pc |-> out.s.pc, r |-> out.s.r, m |-> out.s.m, cc |-> out.s.cc]
    BY ONLY <1>21, <1>1, <1>2, <1>14, <1>15 DEF cnd, Effect, Done, Refused, SetReg, Store
  <2> HIDE DEF cnd
  <2> QED BY ONLY <1>4, <1>5, <1>7, <1>8, <1>9, <1>10, <1>11, <2>1, <2>2 DEF Goal, Reported, Stopping
<1>22. ASSUME i.icode = "IRMOVQ" PROVE Goal
  <2>1. /\ W.status = "AOK"
        /\ W.vale = compute_alu("ADD", i.valc, 0)
        /\ W.deste = i.rb /\ W.destm = REG_NONE
        /\ NextPC(s) = i.next
        /\ NextM(s) = s.m /\ NextCC(s) = s.cc
    BY ONLY <1>22, <1>3, <1>7, <1>14 DEF srcA, srcB, dstE, dstM, aluA, aluB, alufun, mem_read, mem_write, mem_addr,
         set_cc, new_pc, instr_valid
  <2>2. /\ out.stat = "AOK"
        /\ out.s.pc = i.next
        /\ out.s.r = set_reg_val(s.r, i.rb, i.valc)
        /\ out.s.m = s.m
        /\ out.s.cc = s.cc
        /\ out.s = [pc |-> out.s.pc, r |-> out.s.r, m |-> out.s.m, cc |-> out.s.cc]
    BY ONLY <1>22, <1>1, <1>2, <1>14, <1>15 DEF cnd, Effect, Done, Refused, SetReg, Store
  <2> HIDE DEF cnd
  <2> QED BY ONLY <1>4, <1>5, <1>7, <1>8, <1>9, <1>10, <1>11, <2>1, <2>2 DEF Goal, Reported, Stopping
<1>23. ASSUME i.icode = "RMMOVQ" PROVE Goal
  <2>1. /\ W.vale = compute_alu("ADD", i.valc, B) /\ addr = W.vale
        /\ W.status = IF ~WordOK(s.m, addr) THEN "ADR" ELSE "AOK"
        /\ W.deste = REG_NONE /\ W.destm = REG_NONE
        /\ NextPC(s) = i.next
        /\ NextM(s) = set_word_val(s.m, addr, A) /\ NextCC(s) = s.cc
    BY ONLY <1>23, <1>3, <1>7, <1>14 DEF srcA, srcB, dstE, dstM, aluA, aluB, alufun, mem_read, mem_write, mem_addr,
         set_cc, new_pc, instr_valid
  <2>2. /\ WordOK(s.m, Wrap(i.valc + B)) =>
             /\ out.stat = "AOK"
             /\ out.s.pc = i.next
             /\ out.s.r = s.r
             /\ out.s.m = set_word_val(s.m, Wrap(i.valc + B), A)
             /\ out.s.cc = s.cc
             /\ out.s = [pc |-> out.s.pc, r |-> out.s.r, m |-> out.s.m, cc |-> out.s.cc]
        /\ ~WordOK(s.m, Wrap(i.valc + B)) => out.stat = "ADR" /\ out.s = s
    BY ONLY <1>23, <1>1, <1>2, <1>14, <1>15 DEF cnd, Effect, Done, Refused, SetReg, Store
  <2> HIDE DEF cnd
  <2> QED BY ONLY <1>4, <1>5, <1>7, <1>8, <1>9, <1>10, <1>11, <2>1, <2>2 DEF Goal, Reported, Stopping
<1>24. ASSUME i.icode = "MRMOVQ" PROVE Goal
  <2>1. /\ W.vale = compute_alu("ADD", i.valc, B) /\ addr = W.vale
        /\ W.status = IF ~WordOK(s.m, addr) THEN "ADR" ELSE "AOK"
        /\ W.deste = REG_NONE /\ W.destm = i.ra /\ W.valm = get_word_val(s.m, addr)
        /\ NextPC(s) = i.next
        /\ NextM(s) = s.m /\ NextCC(s) = s.cc
    BY ONLY <1>24, <1>3, <1>7, <1>14 DEF srcA, srcB, dstE, dstM, aluA, aluB, alufun, mem_read, mem_write, mem_addr,
         set_cc, new_pc, instr_valid
  <2>2. /\ WordOK(s.m, Wrap(i.valc + B)) =>
             /\ out.stat = "AOK"
             /\ out.s.pc = i.next
             /\ out.s.r = set_reg_val(s.r, i.ra, get_word_val(s.m, Wrap(i.valc + B)))
             /\ out.s.m = s.m
             /\ out.s.cc = s.cc
             /\ out.s = [pc |-> out.s.pc, r |-> out.s.r, m |-> out.s.m, cc |-> out.s.cc]
        /\ ~WordOK(s.m, Wrap(i.valc + B)) => out.stat = "ADR" /\ out.s = s
    BY ONLY <1>24, <1>1, <1>2, <1>14, <1>15 DEF cnd, Effect, Done, Refused, SetReg, Store
  <2> HIDE DEF cnd
  <2> QED BY ONLY <1>4, <1>5, <1>7, <1>8, <1>9, <1>10, <1>11, <2>1, <2>2 DEF Goal, Reported, Stopping
<1>25. ASSUME i.icode = "ALU" PROVE Goal
  <2>1. /\ W.status = "AOK"
        /\ W.vale = compute_alu(NameIn(alu_t, i.ifun), A, B)
        /\ W.deste = i.rb /\ W.destm = REG_NONE
        /\ NextPC(s) = i.next
        /\ NextM(s) = s.m /\ NextCC(s) = compute_cc(NameIn(alu_t, i.ifun), A, B)
    BY ONLY <1>25, <1>3, <1>7, <1>14 DEF srcA, srcB, dstE, dstM, aluA, aluB, alufun, mem_read, mem_write, mem_addr,
         set_cc, new_pc, instr_valid
  <2>2. /\ out.stat = "AOK"
        /\ out.s.pc = i.next
        /\ out.s.r = set_reg_val(s.r, i.rb, compute_alu(NameIn(alu_t, i.ifun), A, B))
        /\ out.s.m = s.m
        /\ out.s.cc = compute_cc(NameIn(alu_t, i.ifun), A, B)
        /\ out.s = [pc |-> out.s.pc, r |-> out.s.r, m |-> out.s.m, cc |-> out.s.cc]
    BY ONLY <1>25, <1>1, <1>2, <1>14, <1>15 DEF cnd, Effect, Done, Refused, SetReg, Store
  <2> HIDE DEF cnd
  <2> QED BY ONLY <1>4, <1>5, <1>7, <1>8, <1>9, <1>10, <1>11, <2>1, <2>2 DEF Goal, Reported, Stopping
<1>26. ASSUME i.icode = "IADDQ" PROVE Goal
  <2>1. /\ W.status = "AOK"
        /\ W.vale = compute_alu("ADD", i.valc, B)
        /\ W.deste = i.rb /\ W.destm = REG_NONE
        /\ NextPC(s) = i.next
        /\ NextM(s) = s.m /\ NextCC(s) = compute_cc("ADD", i.valc, B)
    BY ONLY <1>26, <1>3, <1>7, <1>14 DEF srcA, srcB, dstE, dstM, aluA, aluB, alufun, mem_read, mem_write, mem_addr,
         set_cc, new_pc, instr_valid
  <2>2. /\ out.stat = "AOK"
        /\ out.s.pc = i.next
        /\ out.s.r = set_reg_val(s.r, i.rb, compute_alu("ADD", i.valc, B))
        /\ out.s.m = s.m
        /\ out.s.cc = compute_cc("ADD", i.valc, B)
        /\ out.s = [pc |-> out.s.pc, r |-> out.s.r, m |-> out.s.m, cc |-> out.s.cc]
    BY ONLY <1>26, <1>1, <1>2, <1>14, <1>15 DEF cnd, Effect, AddImmediate, Done, Refused, SetReg, Store
  <2> HIDE DEF cnd
  <2> QED BY ONLY <1>4, <1>5, <1>7, <1>8, <1>9, <1>10, <1>11, <2>1, <2>2 DEF Goal, Reported, Stopping
<1>27. ASSUME i.icode = "JMP" PROVE Goal
  <2>1. /\ W.status = "AOK"
        /\ W.deste = REG_NONE /\ W.destm = REG_NONE
        /\ NextPC(s) = IF cnd THEN i.valc ELSE i.next
        /\ NextM(s) = s.m /\ NextCC(s) = s.cc
    BY ONLY <1>27, <1>3, <1>7, <1>14 DEF srcA, srcB, dstE, dstM, aluA, aluB, alufun, mem_read, mem_write, mem_addr,
         set_cc, new_pc, instr_valid
  <2>2. /\ out.stat = "AOK"
        /\ out.s.pc = (IF cnd THEN i.valc ELSE i.next)
        /\ out.s.r = s.r
        /\ out.s.m = s.m
        /\ out.s.cc = s.cc
        /\ out.s = [pc |-> out.s.pc, r |-> out.s.r, m |-> out.s.m, cc |-> out.s.cc]
    BY ONLY <1>27, <1>1, <1>2, <1>14, <1>15 DEF cnd, Effect, Done, Refused, SetReg, Store
  <2> HIDE DEF cnd
  <2> QED BY ONLY <1>4, <1>5, <1>7, <1>8, <1>9, <1>10, <1>11, <2>1, <2>2 DEF Goal, Reported, Stopping
<1>28. ASSUME i.icode = "CALL" PROVE Goal
  <2>1. /\ W.vale = compute_alu("ADD", -WordBytes, rsp) /\ addr = W.vale
        /\ W.status = IF ~WordOK(s.m, addr) THEN "ADR" ELSE "AOK"
        /\ W.deste = REG_RSP /\ W.destm = REG_NONE
        /\ NextPC(s) = i.valc
        /\ NextM(s) = set_word_val(s.m, addr, i.next) /\ NextCC(s) = s.cc
    BY ONLY <1>28, <1>3, <1>7, <1>14 DEF srcA, srcB, dstE, dstM, aluA, aluB, alufun, mem_read, mem_write, mem_addr,
         set_cc, new_pc, instr_valid
  <2>2. /\ WordOK(s.m, Wrap(rsp - WordBytes)) =>
             /\ out.stat = "AOK"
             /\ out.s.pc = i.valc
             /\ out.s.r = set_reg_val(s.r, REG_RSP, Wrap(rsp - WordBytes))
             /\ out.s.m = set_word_val(s.m, Wrap(rsp - WordBytes), i.next)
             /\ out.s.cc = s.cc
             /\ out.s = [pc |-> out.s.pc, r |-> out.s.r, m |-> out.s.m, cc |-> out.s.cc]
        /\ ~WordOK(s.m, Wrap(rsp - WordBytes)) => out.stat = "ADR" /\ TRUE
    BY ONLY <1>28, <1>1, <1>2, <1>14, <1>15 DEF cnd, Effect, StackEffect, Done, Refused, SetReg, Store
  <2>3. out.stat # "ADR"
    BY ONLY <1>28, <1>13 DEF WellFormed
  <2> HIDE DEF cnd
  <2> QED BY ONLY <1>4, <1>5, <1>7, <1>8, <1>9, <1>10, <1>11, <2>1, <2>2, <2>3 DEF Goal, Reported, Stopping
<1>29. ASSUME i.icode = "PUSHQ" PROVE Goal
  <2>1. /\ W.vale = compute_alu("ADD", -WordBytes, rsp) /\ addr = W.vale
        /\ W.status = IF ~WordOK(s.m, addr) THEN "ADR" ELSE "AOK"
        /\ W.deste = REG_RSP /\ W.destm = REG_NONE
        /\ NextPC(s) = i.next
        /\ NextM(s) = set_word_val(s.m, addr, A) /\ NextCC(s) = s.cc
    BY ONLY <1>29, <1>3, <1>7, <1>14 DEF srcA, srcB, dstE, dstM, aluA, aluB, alufun, mem_read, mem_write, mem_addr,
         set_cc, new_pc, instr_valid
  <2>2. /\ WordOK(s.m, Wrap(rsp - WordBytes)) =>
             /\ out.stat = "AOK"
             /\ out.s.pc = i.next
             /\ out.s.r = set_reg_val(s.r, REG_RSP, Wrap(rsp - WordBytes))
             /\ out.s.m = set_word_val(s.m, Wrap(rsp - WordBytes), A)
             /\ out.s.cc = s.cc
             /\ out.s = [pc |-> out.s.pc, r |-> out.s.r, m |-> out.s.m, cc |-> out.s.cc]
        /\ ~WordOK(s.m, Wrap(rsp - WordBytes)) => out.stat = "ADR" /\ TRUE
    BY ONLY <1>29, <1>1, <1>2, <1>14, <1>15 DEF cnd, Effect, StackEffect, Done, Refused, SetReg, Store
  <2>3. out.stat # "ADR"
    BY ONLY <1>29, <1>13 DEF WellFormed
  <2> HIDE DEF cnd
  <2> QED BY ONLY <1>4, <1>5, <1>7, <1>8, <1>9, <1>10, <1>11, <2>1, <2>2, <2>3 DEF Goal, Reported, Stopping
<1>30. ASSUME i.icode = "RET" PROVE Goal
  <2>1. /\ W.vale = compute_alu("ADD", WordBytes, rsp) /\ addr = rsp
        /\ W.status = IF ~WordOK(s.m, addr) THEN "ADR" ELSE "AOK"
        /\ W.deste = REG_RSP /\ W.destm = REG_NONE /\ W.valm = get_word_val(s.m, addr)
        /\ NextPC(s) = W.valm
        /\ NextM(s) = s.m /\ NextCC(s) = s.cc
    BY ONLY <1>30, <1>3, <1>7, <1>14 DEF srcA, srcB, dstE, dstM, aluA, aluB, alufun, mem_read, mem_write, mem_addr,
         set_cc, new_pc, instr_valid
  <2>2. /\ WordOK(s.m, rsp) =>
             /\ out.stat = "AOK"
             /\ out.s.pc = get_word_val(s.m, rsp)
             /\ out.s.r = set_reg_val(s.r, REG_RSP, Wrap(rsp + WordBytes))
             /\ out.s.m = s.m
             /\ out.s.cc = s.cc
             /\ out.s = [pc |-> out.s.pc, r |-> out.s.r, m |-> out.s.m, cc |-> out.s.cc]
        /\ ~WordOK(s.m, rsp) => out.stat = "ADR" /\ out.s = s
    BY ONLY <1>30, <1>1, <1>2, <1>14, <1>15 DEF cnd, Effect, StackEffect, Done, Refused, SetReg, Store
  <2> HIDE DEF cnd
  <2> QED BY ONLY <1>4, <1>5, <1>7, <1>8, <1>9, <1>10, <1>11, <2>1, <2>2 DEF Goal, Reported, Stopping
<1>31. ASSUME i.icode = "POPQ" PROVE Goal
  <2>1. /\ W.vale = compute_alu("ADD", WordBytes, rsp) /\ addr = rsp
        /\ W.status = IF ~WordOK(s.m, addr) THEN "ADR" ELSE "AOK"
        /\ W.deste = REG_RSP /\ W.destm = i.ra /\ W.valm = get_word_val(s.m, addr)
        /\ NextPC(s) = i.next
        /\ NextM(s) = s.m /\ NextCC(s) = s.cc
    BY ONLY <1>31, <1>3, <1>7, <1>14 DEF srcA, srcB, dstE, dstM, aluA, aluB, alufun, mem_read, mem_write, mem_addr,
         set_cc, new_pc, instr_valid
  <2>2. /\ WordOK(s.m, rsp) =>
             /\ out.stat = "AOK"
             /\ out.s.pc = i.next
             /\ out.s.r = set_reg_val(set_reg_val(s.r, REG_RSP, Wrap(rsp + WordBytes)), i.ra, get_word_val(s.m, rsp))
             /\ out.s.m = s.m
             /\ out.s.cc = s.cc
             /\ out.s = [pc |-> out.s.pc, r |-> out.s.r, m |-> out.s.m, cc |-> out.s.cc]
        /\ ~WordOK(s.m, rsp) => out.stat = "ADR" /\ TRUE
    BY ONLY <1>31, <1>1, <1>2, <1>14, <1>15 DEF cnd, Effect, StackEffect, Done, Refused, SetReg, Store
  <2>3. out.stat # "ADR"
    BY ONLY <1>31, <1>13 DEF WellFormed
  <2> HIDE DEF cnd
  <2> QED BY ONLY <1>4, <1>5, <1>7, <1>8, <1>9, <1>10, <1>11, <2>1, <2>2, <2>3 DEF Goal, Reported, Stopping
<1> QED BY <1>20, <1>21, <1>22, <1>23, <1>24, <1>25, <1>26, <1>27, <1>28, <1>29, <1>30, <1>31, <1>12 DEF out, W

\* The state after the instruction in s, by its signals.
After(s) == [pc |-> NextPC(s), r |-> NextR(s), m |-> NextM(s), cc |-> NextCC(s)]

LEMMA SignalTypes ==
  ASSUME NEW s \in States
  PROVE  /\ DType(Ins(s)) /\ EType(Operands(s)) /\ MType(Executed(s)) /\ WType(Written(s))
         /\ Accessed(s).addr \in Word /\ Accessed(s).data \in Word
         /\ After(s) \in States
<1>1. s.pc \in Int /\ s.r \in RegFiles /\ s.m \in Memory /\ s.cc \in CCs
  BY StateFields
<1>2. DType(Ins(s))
  BY <1>1, FetchType DEF Ins
<1>3. EType(Operands(s))
  <2>1. \A id : get_reg_val(s.r, id) \in Word
    BY <1>1, GetRegType
  <2> QED BY <1>2, <2>1 DEF Operands, EType, DType
<1>4. MType(Executed(s))
  BY <1>3, ExecuteType DEF Executed
<1>5. WType(Written(s)) /\ Accessed(s).addr \in Word /\ Accessed(s).data \in Word
  BY <1>1, <1>4, MemStageType DEF Accessed, Written
<1>6. NextPC(s) \in Int
  BY <1>2, <1>5, WordInt DEF NextPC, new_pc, DType, WType
<1>7. NextR(s) \in RegFiles
  BY <1>1, <1>5, WriteBackType DEF NextR, WType
<1>8. NextM(s) \in Memory
  <2>1. Accessed(s).addr \in Int /\ Accessed(s).data \in Int
    BY <1>5, WordInt
  <2> QED BY <1>1, <2>1, SetWordType DEF NextM
<1>9. NextCC(s) \in CCs
  BY <1>1, CcType DEF NextCC
<1>10. After(s) \in States
  BY <1>6, <1>7, <1>8, <1>9 DEF After, States
<1> QED BY <1>2, <1>3, <1>4, <1>5, <1>10

\* The instruction set and the signals say the same of a well-formed instruction.
LEMMA IsaBySignals ==
  ASSUME NEW s \in States, WellFormed(s.pc, FetchInstr(s.m, s.pc), step_state(s).stat)
  PROVE  LET out == step_state(s)
         IN  /\ out.stat = Written(s).status /\ out.stat \in Reported
             /\ out.stat = "AOK" => out.s = After(s)
             /\ out.stat # "AOK" => out.s = s
<1> DEFINE i == FetchInstr(s.m, s.pc)
           stat == FetchStatus(s.m, s.pc, i)
           out == step_state(s)
           Goal == /\ out.stat = Written(s).status /\ out.stat \in Reported
                   /\ out.stat = "AOK" => out.s = After(s)
                   /\ out.stat # "AOK" => out.s = s
<1>1. out = IF stat = "AOK" THEN Effect(s, i) ELSE [s |-> s, stat |-> stat]
  BY DEF step_state
<1>2. WellFormed(s.pc, i, out.stat)
  OBVIOUS
<1>3. 0 <= s.pc /\ s.pc < MemLen => i.okc /\ s.pc + FetchReach < MemLen
  BY <1>2 DEF WellFormed
<1>4. /\ ~ByteOK(s.m, s.pc) => Ins(s).icode = "NOP" /\ Ins(s).status = "ADR"
      /\ ByteOK(s.m, s.pc) =>
           /\ Ins(s).icode = i.icode /\ i.ok1
           /\ Ins(s).status = IF ~instr_valid(i.icode) THEN "INS"
                              ELSE IF i.icode = "HALT" THEN "HLT" ELSE "AOK"
  BY <1>3, FetchesAgree
<1>5. Written(s).status = IF (mem_read(Ins(s).icode) \/ mem_write(Ins(s).icode))
                              /\ ~WordOK(s.m, Accessed(s).addr)
                          THEN "ADR" ELSE Ins(s).status
  BY SignalFields
<1>6. i = FetchInstr(s.m, s.pc) /\ stat = FetchStatus(s.m, s.pc, i)
  OBVIOUS
<1> HIDE DEF i, stat, out
<1>7. ASSUME ~ByteOK(s.m, s.pc) PROVE Goal
  <2>1. stat = "ADR"
    BY <1>6, <1>7 DEF FetchStatus
  <2>2. Written(s).status = "ADR"
    BY <1>4, <1>5, <1>7 DEF mem_read, mem_write
  <2> QED BY <1>1, <2>1, <2>2 DEF Reported, Stopping
<1>8. ASSUME ByteOK(s.m, s.pc), i.icode \in {"NONE", "POP2"} PROVE Goal
  <2>1. stat = "INS"
    BY <1>4, <1>6, <1>8 DEF FetchStatus
  <2>2. Written(s).status = "INS"
    BY <1>4, <1>5, <1>8 DEF mem_read, mem_write, instr_valid
  <2> QED BY <1>1, <2>1, <2>2 DEF Reported, Stopping
<1>9. ASSUME ByteOK(s.m, s.pc), i.icode = "HALT" PROVE Goal
  <2>1. i.okc
    BY <1>3, <1>9 DEF ByteOK
  <2>2. RegsOK(i)
    BY <1>9 DEF RegsOK
  <2>3. stat = "HLT"
    BY <1>4, <1>6, <1>9, <2>1, <2>2 DEF FetchStatus
  <2>4. Written(s).status = "HLT"
    BY <1>4, <1>5, <1>9 DEF mem_read, mem_write, instr_valid
  <2> QED BY <1>1, <2>3, <2>4 DEF Reported, Stopping
<1>10. ASSUME ByteOK(s.m, s.pc), i.icode \notin {"NONE", "POP2", "HALT"} PROVE Goal
  <2>1. i.okc /\ i.ok1
    BY <1>3, <1>4, <1>10 DEF ByteOK
  <2>2. RegsOK(i)
    <3> SUFFICES ASSUME ~RegsOK(i) PROVE FALSE
      OBVIOUS
    <3>1. stat = "INS"
      BY <1>6, <1>10, <2>1 DEF FetchStatus
    <3>2. out.stat = "INS"
      BY <1>1, <3>1
    <3>3. instr_valid(i.icode)
      BY DEF RegsOK, instr_valid
    <3> QED BY <1>2, <3>2, <3>3 DEF WellFormed
  <2>3. stat = "AOK"
    BY <1>6, <1>10, <2>1, <2>2 DEF FetchStatus
  <2>4. out = Effect(s, i)
    BY <1>1, <2>3
  <2>5. /\ out.stat = Written(s).status /\ out.stat \in Reported
        /\ out.stat = "AOK" => /\ out.s.pc = NextPC(s) /\ out.s.r = NextR(s)
                               /\ out.s.m = NextM(s) /\ out.s.cc = NextCC(s)
                               /\ out.s = [pc |-> out.s.pc, r |-> out.s.r, m |-> out.s.m, cc |-> out.s.cc]
        /\ out.stat # "AOK" => out.s = s
    BY ONLY s \in States, <1>2, <1>6, <1>10, <2>3, <2>4, EffectBySignals
  <2>6. out.stat = "AOK" => out.s = After(s)
    BY <2>5 DEF After
  <2> QED BY <2>5, <2>6
<1> QED BY <1>7, <1>8, <1>9, <1>10 DEF out

----------------------------------------------------------------------------
(* Every program: types, and the orders to the pipe registers.             *)

ProgramsLoad == \A src \in Programs : Loaded(src).m \in Memory

ProcessorsTyped ==
  /\ phase \in {"seq", "pipe", "done"}
  /\ icount \in 0 .. InstrLimit
  /\ SeqType(seq) /\ PipeType(pipe)

LEMMA InitTyped ==
  ASSUME ProgramsLoad, Init
  PROVE  ProcessorsTyped
<1>1. Loaded(source).m \in Memory
  BY DEF ProgramsLoad, Init
<1>2. /\ phase = "seq" /\ icount = 0
      /\ seq = SeqReset(Loaded(source).m) /\ pipe = PipeReset(Loaded(source).m)
  BY DEF Init, Start
<1>3. SeqType(seq) /\ PipeType(pipe)
  BY <1>1, <1>2, SeqResetType, PipeResetType
<1> QED BY <1>2, <1>3, InstrLimitAssumption DEF ProcessorsTyped

LEMMA NextTyped ==
  ASSUME ProcessorsTyped, [Next]_vars
  PROVE  ProcessorsTyped'
<1>1. InstrLimit \in Nat
  BY InstrLimitAssumption
<1>2. CASE SeqStep
  <2>1. SeqType(seq')
    BY <1>2, SeqStepType DEF SeqStep, ProcessorsTyped
  <2> QED BY <1>1, <1>2, <2>1 DEF SeqStep, ProcessorsTyped
<1>3. CASE SeqEnds
  BY <1>1, <1>3 DEF SeqEnds, ProcessorsTyped
<1>4. CASE PipeStep
  <2>1. PipeType(pipe')
    BY <1>4, PipeStepType DEF PipeStep, ProcessorsTyped
  <2> QED BY <1>1, <1>4, <2>1 DEF PipeStep, ProcessorsTyped
<1>5. CASE PipeEnds
  BY <1>5 DEF PipeEnds, ProcessorsTyped
<1>6. CASE UNCHANGED vars
  BY <1>6 DEF vars, ProcessorsTyped
<1> QED BY <1>2, <1>3, <1>4, <1>5, <1>6 DEF Next

\* At most one of a stall and a bubble is asked of a pipe register, and both
\* processors keep words in their registers and bytes in their memory, whatever
\* program is loaded.
THEOREM NeverStalledAndBubbled ==
  ASSUME ProgramsLoad
  PROVE  Spec => []NoConflict
<1>1. Init => ProcessorsTyped
  BY InitTyped
<1>2. ProcessorsTyped /\ [Next]_vars => ProcessorsTyped'
  BY NextTyped
<1>3. ProcessorsTyped => NoConflict
  BY DEF ProcessorsTyped, NoConflict, TypeOK, SeqType, PipeType, CurType, NxtType, Orders, RegFiles,
         Reported
<1> QED BY <1>1, <1>2, <1>3, PTL DEF Spec

----------------------------------------------------------------------------
(* The run of a program by the instruction set.                            *)

First(mem) ==
  [s |-> [new_state EXCEPT !.m = mem], e |-> "AOK", steps |-> 0,
   bubbles |-> 0, behind |-> 0, loaded |-> REG_NONE,
   code |-> {}, data |-> {}, ok |-> TRUE]

Onward(t) == IF t.e = "AOK" THEN Follow(t) ELSE t

\* The function that IsaSteps defines by recursion exists.
LEMMA StepsExist ==
  ASSUME NEW mem
  PROVE  \E f : f = [n \in 0 .. InstrLimit |-> IF n = 0 THEN First(mem) ELSE Onward(f[n - 1])]
<1> DEFINE L == InstrLimit
           Eq(g, k) == g = [n \in 0 .. k |-> IF n = 0 THEN First(mem) ELSE Onward(g[n - 1])]
           U == {k \in 0 .. L : ~ \E g : Eq(g, k)}
<1>1. L \in Nat
  BY InstrLimitAssumption
<1>2. SUFFICES ASSUME U # {} PROVE FALSE
  <2>1. ASSUME U = {} PROVE \E g : Eq(g, L)
    <3>1. L \in 0 .. L
      BY <1>1
    <3> HIDE DEF Eq
    <3> QED BY <2>1, <3>1
  <2> QED BY <2>1
<1>3. PICK k \in U : \A n \in U : k <= n
  <2>1. U \in SUBSET Nat
    BY <1>1
  <2> HIDE DEF U
  <2> QED BY <1>2, <2>1, Least
<1>4. k # 0
  <2> SUFFICES ASSUME k = 0 PROVE FALSE
    OBVIOUS
  <2> DEFINE g == [n \in 0 .. 0 |-> First(mem)]
  <2>1. Eq(g, 0)
    <3> HIDE DEF First
    <3> QED OBVIOUS
  <2> QED BY <1>3, <2>1
<1>5. k \in 1 .. L /\ k - 1 \in 0 .. L /\ ~(k <= k - 1)
  BY <1>1, <1>3, <1>4
<1>6. PICK g : Eq(g, k - 1)
  BY <1>3, <1>5
<1> DEFINE h == [n \in 0 .. k |-> IF n = k THEN Onward(g[k - 1]) ELSE g[n]]
<1>7. \A n \in 0 .. k : h[n] = IF n = 0 THEN First(mem) ELSE Onward(h[n - 1])
  <2> HIDE DEF First, Onward
  <2> TAKE n \in 0 .. k
  <2>1. CASE n = 0
    <3>1. 0 \in 0 .. k - 1 /\ n # k
      BY <1>5, <2>1
    <3> QED BY <1>6, <2>1, <3>1
  <2>2. CASE n \in 1 .. k - 1
    <3>1. n \in 0 .. k - 1 /\ n - 1 \in 0 .. k /\ n # k /\ n - 1 # k /\ n # 0
      BY <1>5, <2>2
    <3>2. h[n] = g[n] /\ h[n - 1] = g[n - 1]
      BY <3>1
    <3>3. g[n] = Onward(g[n - 1])
      BY <1>6, <3>1
    <3> QED BY <3>1, <3>2, <3>3
  <2>3. CASE n = k
    <3>1. n - 1 \in 0 .. k /\ n - 1 # k /\ n # 0
      BY <1>5, <2>3
    <3>2. h[n] = Onward(g[k - 1]) /\ h[n - 1] = g[n - 1]
      BY <2>3, <3>1
    <3> QED BY <2>3, <3>1, <3>2
  <2> QED BY <1>5, <2>1, <2>2, <2>3
<1>8. Eq(h, k)
  <2>1. h = [n \in 0 .. k |-> h[n]]
    OBVIOUS
  <2> HIDE DEF h, First, Onward
  <2> QED BY ONLY <1>7, <2>1, Zenon
<1> QED BY <1>3, <1>8

LEMMA StepsAre ==
  ASSUME NEW mem
  PROVE  LET f == IsaSteps(mem)
         IN  f = [n \in 0 .. InstrLimit |-> IF n = 0 THEN First(mem) ELSE Onward(f[n - 1])]
<1> DEFINE Is(f) == f = [n \in 0 .. InstrLimit |-> IF n = 0 THEN First(mem) ELSE Onward(f[n - 1])]
<1>1. \E f : Is(f)
  BY StepsExist
<1>2. IsaSteps(mem) = CHOOSE f : Is(f)
  BY DEF IsaSteps, First, Onward
<1> HIDE DEF Is
<1>3. Is(IsaSteps(mem))
  BY <1>1, <1>2
<1> QED BY <1>3 DEF Is

\* A run that ends has executed N instructions and stays as the last one left it.
LEMMA RunEnds ==
  ASSUME NEW mem, IsaRun(mem).e # "AOK"
  PROVE  LET f == IsaSteps(mem)
             N == IsaRun(mem).steps
         IN  /\ N \in 1 .. InstrLimit
             /\ f[0] = First(mem)
             /\ \A n \in 0 .. N - 1 : f[n].e = "AOK" /\ f[n + 1] = Follow(f[n])
             /\ \A n \in 0 .. N : f[n].steps = n
             /\ \A n \in N .. InstrLimit : f[n] = IsaRun(mem)
<1> DEFINE f == IsaSteps(mem)
           L == InstrLimit
           U == {n \in 0 .. L : f[n].e # "AOK"}
<1>1. L \in Nat
  BY InstrLimitAssumption
<1>2. /\ f[0] = First(mem)
      /\ \A n \in 1 .. L : f[n] = Onward(f[n - 1])
  <2>1. \A g : g = [n \in 0 .. L |-> IF n = 0 THEN First(mem) ELSE Onward(g[n - 1])]
               => g[0] = First(mem) /\ \A n \in 1 .. L : g[n] = Onward(g[n - 1])
    <3> HIDE DEF First, Onward
    <3> QED BY <1>1
  <2> HIDE DEF f
  <2>2. f = [n \in 0 .. L |-> IF n = 0 THEN First(mem) ELSE Onward(f[n - 1])]
    BY StepsAre DEF f
  <2> QED BY ONLY <2>1, <2>2, Zenon
<1>3. IsaRun(mem) = f[L]
  BY DEF IsaRun
<1> HIDE DEF f
<1>4. PICK K \in U : \A n \in U : K <= n
  <2>1. U \in SUBSET Nat /\ L \in U
    BY <1>1, <1>3
  <2> HIDE DEF U
  <2> QED BY <2>1, Least
<1>5. K \in 1 .. L /\ f[K].e # "AOK"
  BY <1>1, <1>2, <1>4 DEF First
<1>6. \A n \in 0 .. K - 1 : f[n].e = "AOK" /\ f[n + 1] = Follow(f[n])
  <2> TAKE n \in 0 .. K - 1
  <2>1. n \in 0 .. L /\ n + 1 \in 1 .. L /\ n + 1 - 1 = n /\ ~(K <= n)
    BY <1>1, <1>5
  <2>2. f[n].e = "AOK"
    BY <1>4, <2>1
  <2>3. f[n + 1] = Onward(f[n])
    BY ONLY <1>2, <2>1
  <2> QED BY <2>2, <2>3 DEF Onward
<1>7. \A n \in 0 .. K : f[n].steps = n
  <2> DEFINE T == {n \in 0 .. K : f[n].steps = n}
  <2>1. 0 \in T
    BY <1>2, <1>5 DEF First
  <2>2. \A n \in 1 .. K : n - 1 \in T => n \in T
    <3> TAKE n \in 1 .. K
    <3>1. n - 1 \in 0 .. K - 1 /\ n - 1 + 1 = n
      BY <1>5
    <3>2. f[n] = Follow(f[n - 1])
      BY ONLY <1>6, <3>1
    <3>3. f[n].steps = f[n - 1].steps + 1
      BY <3>2 DEF Follow
    <3> QED BY <3>1, <3>3
  <2>3. T \in SUBSET (0 .. K) /\ K \in Nat
    BY <1>5
  <2>4. T = 0 .. K
    <3> HIDE DEF T
    <3> QED BY ONLY <2>1, <2>2, <2>3, UpTo
  <2> QED BY <2>4
<1>8. \A n \in K .. L : f[n] = f[K]
  <2> DEFINE T == {d \in 0 .. L - K : f[K + d] = f[K]}
  <2>1. 0 \in T
    <3>1. K + 0 = K /\ 0 \in 0 .. L - K
      BY <1>1, <1>5
    <3> QED BY <3>1
  <2>2. \A d \in 1 .. L - K : d - 1 \in T => d \in T
    <3> SUFFICES ASSUME NEW d \in 1 .. L - K, f[K + (d - 1)] = f[K] PROVE f[K + d] = f[K]
      OBVIOUS
    <3>1. K + d \in 1 .. L /\ K + (d - 1) = (K + d) - 1
      BY <1>1, <1>5
    <3>2. f[K + d] = Onward(f[(K + d) - 1])
      BY ONLY <1>2, <3>1
    <3>3. f[K + d] = Onward(f[K])
      BY ONLY <3>1, <3>2, f[K + (d - 1)] = f[K]
    <3> QED BY <1>5, <3>3 DEF Onward
  <2>3. T \in SUBSET (0 .. L - K) /\ L - K \in Nat
    BY <1>1, <1>5
  <2>4. T = 0 .. L - K
    <3> HIDE DEF T
    <3> QED BY ONLY <2>1, <2>2, <2>3, UpTo
  <2>5. \A n \in K .. L : n - K \in 0 .. L - K /\ K + (n - K) = n
    BY <1>1, <1>5
  <2> QED BY <2>4, <2>5
<1>9. f[L] = f[K] /\ f[L].steps = K
  BY <1>1, <1>5, <1>7, <1>8
<1> QED BY <1>1, <1>2, <1>3, <1>5, <1>6, <1>7, <1>8, <1>9 DEF f

\* The fetch stage reads no byte but those of the instruction.
LEMMA FetchKept ==
  ASSUME NEW m1 \in Memory, NEW m2 \in Memory, NEW pc \in Int,
         ByteOK(m1, pc) => FetchInstr(m1, pc).okc,
         \A a \in 0 .. MemLen - 1 : a \in pc .. FetchInstr(m1, pc).next - 1 => m1[a] = m2[a]
  PROVE  do_if_stage(m1, pc) = do_if_stage(m2, pc)
<1> DEFINE i == FetchInstr(m1, pc)
           bad == ~(0 <= pc /\ pc < MemLen) \/ ~(0 <= pc + FetchReach /\ pc + FetchReach < MemLen)
<1>1. WordBytes \in Nat \ {0} /\ MemLen \in Nat
  BY Sizes
<1>2. CASE bad
  <2>1. \A m : ~ByteOK(m, pc) \/ ~ByteOK(m, pc + FetchReach)
    BY <1>2 DEF ByteOK
  <2>2. ~need_regids("NOP") /\ ~need_valC("NOP")
    BY DEF need_regids, need_valC
  <2> HIDE DEF bad
  <2>3. \A m : LET t == do_if_stage(m, pc) IN
          t = [F |-> [pc |-> pc + 1 + 0 + 0, status |-> "BUB"],
               D |-> [icode |-> "NOP", ifun |-> 0, ra |-> REG_NONE, rb |-> REG_NONE,
                      valc |-> 0, valp |-> pc + 1 + 0 + 0, status |-> "ADR", stage_pc |-> pc]]
    BY <2>1, <2>2 DEF do_if_stage
  <2> QED BY <2>3
<1>3. CASE ~bad
  <2>1. \A m : ByteOK(m, pc)
    BY <1>3 DEF ByteOK
  <2>2. i.icode = NameIn(itype_t, HI4(get_byte_val(m1, pc)))
    BY DEF FetchInstr
  <2> DEFINE ic == i.icode
             regs == IF need_regids(ic) THEN 1 ELSE 0
             imm == need_valC(ic)
  <2>3. /\ i.next = pc + 1 + regs + (IF imm THEN WordBytes ELSE 0)
        /\ i.okc = (imm => WordOK(m1, pc + 1 + regs))
    BY DEF FetchInstr, NeedRegids, NeedImm, need_regids, need_valC
  <2>4. i.okc
    BY <2>1
  <2>5. \A a \in 0 .. MemLen - 1 : a \in pc .. i.next - 1 => m1[a] = m2[a]
    OBVIOUS
  <2>6. regs \in {0, 1} /\ imm \in BOOLEAN /\ (regs = 1) = need_regids(ic)
    BY DEF need_regids, need_valC
  <2> HIDE DEF i, bad
  <2>7. get_byte_val(m2, pc) = get_byte_val(m1, pc)
    <3>1. pc \in 0 .. MemLen - 1 /\ pc \in pc .. i.next - 1
      BY <1>1, <1>3, <2>3, <2>6 DEF bad
    <3> QED BY <2>1, <2>5, <3>1 DEF get_byte_val
  <2> HIDE DEF regs, imm
  <2>8. regs = 1 /\ ByteOK(m1, pc + 1) => m1[pc + 1] = m2[pc + 1]
    <3> SUFFICES ASSUME regs = 1, ByteOK(m1, pc + 1) PROVE m1[pc + 1] = m2[pc + 1]
      OBVIOUS
    <3>1. pc + 1 \in 0 .. MemLen - 1 /\ pc + 1 \in pc .. i.next - 1
      BY <1>1, <2>3, <2>6 DEF ByteOK
    <3> QED BY <2>5, <3>1
  <2>9. imm => get_word_val(m2, pc + 1 + regs) = get_word_val(m1, pc + 1 + regs)
    <3> SUFFICES ASSUME imm PROVE get_word_val(m2, pc + 1 + regs) = get_word_val(m1, pc + 1 + regs)
      OBVIOUS
    <3>1. WordOK(m1, pc + 1 + regs) /\ WordOK(m2, pc + 1 + regs)
      BY <2>3, <2>4 DEF WordOK
    <3>2. \A n \in 0 .. WordBytes - 1 : m1[pc + 1 + regs + n] = m2[pc + 1 + regs + n]
      <4> TAKE n \in 0 .. WordBytes - 1
      <4>1. /\ pc + 1 + regs + n \in 0 .. MemLen - 1
            /\ pc + 1 + regs + n \in pc .. i.next - 1
        BY <1>1, <2>3, <2>6, <3>1 DEF WordOK
      <4> QED BY <2>5, <4>1
    <3>3. [n \in 0 .. WordBytes - 1 |-> m1[pc + 1 + regs + n]]
          = [n \in 0 .. WordBytes - 1 |-> m2[pc + 1 + regs + n]]
      BY ONLY <3>2, Zenon
    <3> QED BY <3>1, <3>3 DEF get_word_val
  <2>10. \A m \in {m1, m2} :
           LET t == do_if_stage(m, pc)
               read == regs = 1 /\ ByteOK(m1, pc + 1)
               valc == IF imm THEN get_word_val(m1, pc + 1 + regs) ELSE 0
               valp == pc + 1 + regs + (IF imm THEN WordBytes ELSE 0)
               status == IF ~instr_valid(ic) THEN "INS"
                         ELSE IF ic = "HALT" THEN "HLT" ELSE "AOK"
           IN  t = [F |-> [pc |-> IF ic \in {"JMP", "CALL"} THEN valc ELSE valp,
                           status |-> IF status = "AOK" THEN "AOK" ELSE "BUB"],
                    D |-> [icode |-> ic, ifun |-> LO4(get_byte_val(m1, pc)),
                           ra |-> IF read THEN HI4(m1[pc + 1]) ELSE REG_NONE,
                           rb |-> IF read THEN LO4(m1[pc + 1]) ELSE REG_NONE,
                           valc |-> valc, valp |-> valp, status |-> status, stage_pc |-> pc]]
    <3> TAKE m \in {m1, m2}
    <3>1. /\ ByteOK(m, pc) /\ ByteOK(m, pc + FetchReach)
          /\ ByteOK(m, pc + 1) = ByteOK(m1, pc + 1)
      BY <1>3 DEF ByteOK, bad
    <3>2. get_byte_val(m, pc) = get_byte_val(m1, pc)
      BY <2>7
    <3>3. ic = NameIn(itype_t, HI4(get_byte_val(m, pc)))
      BY <2>2, <3>2
    <3>4. regs = 1 /\ ByteOK(m, pc + 1) => m[pc + 1] = m1[pc + 1]
      BY <2>8, <3>1
    <3>5. imm => get_word_val(m, pc + 1 + regs) = get_word_val(m1, pc + 1 + regs)
      BY <2>9
    <3>6. regs = (IF need_regids(ic) THEN 1 ELSE 0) /\ imm = need_valC(ic)
      BY DEF regs, imm
    <3> HIDE DEF ic
    <3> QED BY ONLY <3>1, <3>2, <3>3, <3>4, <3>5, <3>6 DEF do_if_stage
  <2> QED BY <2>10
<1> QED BY <1>2, <1>3

LEMMA FirstState ==
  ASSUME NEW mem \in Memory
  PROVE  /\ First(mem).s \in States
         /\ First(mem).s.pc = 0 /\ First(mem).s.r = init_reg /\ First(mem).s.m = mem
         /\ First(mem).s.cc = DEFAULT_CC
<1>1. First(mem).s = [pc |-> 0, r |-> init_reg, m |-> mem, cc |-> DEFAULT_CC]
  BY DEF First, new_state
<1>2. init_reg \in RegFiles
  BY WordInt DEF init_reg, RegFiles
<1>3. DEFAULT_CC \in CCs
  BY DEF DEFAULT_CC, CCs
<1> HIDE DEF First
<1> QED BY <1>1, <1>2, <1>3 DEF States

\* What the proofs use of a run f of N instructions, each well formed: the
\* states before them, and the last of them, which its fault leaves alone.
RunOf(f, N) ==
  /\ N \in Nat \ {0}
  /\ \A n \in 0 .. N : f[n].s \in States
  /\ \A n \in 0 .. N - 1 :
       /\ f[n].e = "AOK"
       /\ f[n + 1] = Follow(f[n])
       /\ WellFormed(f[n].s.pc, FetchInstr(f[n].s.m, f[n].s.pc), f[n + 1].e)
       /\ f[n + 1].e = Written(f[n].s).status /\ f[n + 1].e \in Reported
       /\ f[n + 1].e = "AOK" => f[n + 1].s = After(f[n].s)
       /\ f[n + 1].e # "AOK" => f[n + 1].s = f[n].s
  /\ f[N].e # "AOK"

LEMMA RunIsSound ==
  ASSUME NEW mem \in Memory, IsaRun(mem).e # "AOK", IsaRun(mem).ok
  PROVE  RunOf(IsaSteps(mem), IsaRun(mem).steps)
<1> DEFINE f == IsaSteps(mem)
           N == IsaRun(mem).steps
<1>1. /\ N \in 1 .. InstrLimit /\ f[0] = First(mem)
      /\ \A n \in 0 .. N - 1 : f[n].e = "AOK" /\ f[n + 1] = Follow(f[n])
      /\ f[N] = IsaRun(mem)
  <2>1. N \in 1 .. InstrLimit
    BY RunEnds
  <2>2. N \in N .. InstrLimit
    BY <2>1, InstrLimitAssumption
  <2> QED BY <2>2, RunEnds
<1> HIDE DEF f, N
<1>2. N \in Nat \ {0} /\ N \in Nat
  BY <1>1, InstrLimitAssumption
<1>3. \A n \in 0 .. N - 1 :
        /\ f[n + 1].e = step_state(f[n].s).stat /\ f[n + 1].s = step_state(f[n].s).s
        /\ f[n + 1].ok = (f[n].ok /\ WellFormed(f[n].s.pc, FetchInstr(f[n].s.m, f[n].s.pc),
                                                f[n + 1].e))
  <2> TAKE n \in 0 .. N - 1
  <2>1. f[n + 1] = Follow(f[n])
    BY <1>1
  <2> QED BY <2>1 DEF Follow
<1>4. \A n \in 0 .. N - 1 :
        WellFormed(f[n].s.pc, FetchInstr(f[n].s.m, f[n].s.pc), f[n + 1].e)
  <2> DEFINE T == {d \in 0 .. N : f[N - d].ok}
  <2>1. 0 \in T
    <3>1. N - 0 = N /\ 0 \in 0 .. N
      BY <1>2
    <3> QED BY <1>1, <3>1
  <2>2. \A d \in 1 .. N : d - 1 \in T => d \in T
    <3> SUFFICES ASSUME NEW d \in 1 .. N, f[N - (d - 1)].ok PROVE f[N - d].ok
      OBVIOUS
    <3>1. N - d \in 0 .. N - 1 /\ (N - d) + 1 = N - (d - 1)
      BY <1>2
    <3> QED BY <1>3, <3>1
  <2>3. T \in SUBSET (0 .. N)
    OBVIOUS
  <2>4. T = 0 .. N
    <3> HIDE DEF T
    <3> QED BY ONLY <1>2, <2>1, <2>2, <2>3, UpTo
  <2> TAKE n \in 0 .. N - 1
  <2>5. N - (n + 1) \in 0 .. N /\ N - (N - (n + 1)) = n + 1
    BY <1>2
  <2>6. f[n + 1].ok
    BY <2>4, <2>5
  <2> QED BY <1>3, <2>6
<1>5. \A n \in 0 .. N - 1 : f[n].s \in States =>
        /\ f[n + 1].e = Written(f[n].s).status /\ f[n + 1].e \in Reported
        /\ f[n + 1].e = "AOK" => f[n + 1].s = After(f[n].s)
        /\ f[n + 1].e # "AOK" => f[n + 1].s = f[n].s
  <2> SUFFICES ASSUME NEW n \in 0 .. N - 1, f[n].s \in States
               PROVE  /\ f[n + 1].e = Written(f[n].s).status /\ f[n + 1].e \in Reported
                      /\ f[n + 1].e = "AOK" => f[n + 1].s = After(f[n].s)
                      /\ f[n + 1].e # "AOK" => f[n + 1].s = f[n].s
    OBVIOUS
  <2>1. WellFormed(f[n].s.pc, FetchInstr(f[n].s.m, f[n].s.pc), step_state(f[n].s).stat)
    BY <1>3, <1>4
  <2> QED BY <1>3, <2>1, IsaBySignals
<1>6. \A n \in 0 .. N : f[n].s \in States
  <2> DEFINE T == {n \in 0 .. N : f[n].s \in States}
  <2>1. 0 \in T
    BY <1>1, <1>2, FirstState
  <2>2. \A n \in 1 .. N : n - 1 \in T => n \in T
    <3> SUFFICES ASSUME NEW n \in 1 .. N, f[n - 1].s \in States PROVE f[n].s \in States
      OBVIOUS
    <3>1. n - 1 \in 0 .. N - 1 /\ (n - 1) + 1 = n
      BY <1>2
    <3>2. f[n].s \in {After(f[n - 1].s), f[n - 1].s}
      BY <1>5, <3>1
    <3> QED BY <3>2, SignalTypes
  <2>3. T \in SUBSET (0 .. N)
    OBVIOUS
  <2>4. T = 0 .. N
    <3> HIDE DEF T
    <3> QED BY ONLY <1>2, <2>1, <2>2, <2>3, UpTo
  <2> QED BY <2>4
<1>7. \A n \in 0 .. N - 1 : n \in 0 .. N
  BY <1>2
<1>8. f[N].e # "AOK"
  BY <1>1
<1>9. RunOf(f, N)
  BY <1>1, <1>2, <1>4, <1>5, <1>6, <1>7, <1>8 DEF RunOf
<1> QED BY <1>9 DEF f, N

LEMMA Grows ==
  ASSUME NEW N \in Nat, NEW G, \A n \in 0 .. N - 1 : G[n] \subseteq G[n + 1], NEW i \in 0 .. N
  PROVE  \A j \in i .. N : G[i] \subseteq G[j]
<1> DEFINE T == {d \in 0 .. N - i : G[i] \subseteq G[i + d]}
<1>1. 0 \in T
  <2>1. i + 0 = i /\ 0 \in 0 .. N - i
    OBVIOUS
  <2> QED BY <2>1
<1>2. \A d \in 1 .. N - i : d - 1 \in T => d \in T
  <2> SUFFICES ASSUME NEW d \in 1 .. N - i, G[i] \subseteq G[i + (d - 1)]
               PROVE  G[i] \subseteq G[i + d]
    OBVIOUS
  <2>1. i + (d - 1) \in 0 .. N - 1 /\ (i + (d - 1)) + 1 = i + d
    OBVIOUS
  <2>2. G[i + (d - 1)] \subseteq G[(i + (d - 1)) + 1]
    BY <2>1
  <2> QED BY <2>1, <2>2
<1>3. T \in SUBSET (0 .. N - i) /\ N - i \in Nat
  OBVIOUS
<1>4. T = 0 .. N - i
  <2> HIDE DEF T
  <2> QED BY ONLY <1>1, <1>2, <1>3, UpTo
<1>5. \A j \in i .. N : j - i \in 0 .. N - i /\ i + (j - i) = j
  OBVIOUS
<1> QED BY <1>4, <1>5

\* A run that changes none of the bytes it fetches finds each instruction in
\* every memory of the run.
LEMMA CodeIsKept ==
  ASSUME NEW f, NEW N, RunOf(f, N), f[N].code \cap f[N].data = {}
  PROVE  \A n \in 0 .. N - 1 : \A k \in 0 .. N :
            do_if_stage(f[k].s.m, f[n].s.pc) = do_if_stage(f[n].s.m, f[n].s.pc)
<1>1. N \in Nat /\ N > 0
  BY DEF RunOf
<1>2. \A n \in 0 .. N : f[n].s.pc \in Int /\ f[n].s.m \in Memory
  BY StateFields DEF RunOf
<1>3. \A n \in 0 .. N - 1 :
        LET i == FetchInstr(f[n].s.m, f[n].s.pc)
        IN  /\ f[n + 1].code = f[n].code \cup (f[n].s.pc .. i.next - 1)
            /\ f[n + 1].data = f[n].data \cup {a \in DOMAIN f[n].s.m :
                                                  step_state(f[n].s).s.m[a] # f[n].s.m[a]}
            /\ f[n + 1].s = step_state(f[n].s).s
            /\ ByteOK(f[n].s.m, f[n].s.pc) => i.okc
  <2> TAKE n \in 0 .. N - 1
  <2>1. f[n + 1] = Follow(f[n])
    BY DEF RunOf
  <2>2. WellFormed(f[n].s.pc, FetchInstr(f[n].s.m, f[n].s.pc), f[n + 1].e)
    BY DEF RunOf
  <2>3. ByteOK(f[n].s.m, f[n].s.pc) => FetchInstr(f[n].s.m, f[n].s.pc).okc
    BY <2>2 DEF WellFormed, ByteOK
  <2> QED BY <2>1, <2>3 DEF Follow
<1>4. \A n \in 0 .. N : f[n].code \subseteq f[N].code /\ f[n].data \subseteq f[N].data
  <2> TAKE n \in 0 .. N
  <2> DEFINE C == [k \in 0 .. N |-> f[k].code]
             D == [k \in 0 .. N |-> f[k].data]
  <2>1. \A k \in 0 .. N - 1 : k \in 0 .. N /\ k + 1 \in 0 .. N
    BY <1>1
  <2>2. \A k \in 0 .. N - 1 : C[k] \subseteq C[k + 1] /\ D[k] \subseteq D[k + 1]
    BY <1>3, <2>1
  <2>3. C[N] = f[N].code /\ D[N] = f[N].data /\ C[n] = f[n].code /\ D[n] = f[n].data
    BY <1>1
  <2> HIDE DEF C, D
  <2>4. (\A j \in n .. N : C[n] \subseteq C[j]) /\ (\A j \in n .. N : D[n] \subseteq D[j])
    BY <1>1, <2>2, Grows
  <2>5. N \in n .. N
    BY <1>1
  <2> QED BY <2>3, <2>4, <2>5
<1> TAKE n \in 0 .. N - 1
<1> DEFINE pc == f[n].s.pc
           i == FetchInstr(f[n].s.m, pc)
<1>5. \A a \in 0 .. MemLen - 1 : a \in pc .. i.next - 1 =>
         \A k \in 0 .. N : f[k].s.m[a] = f[0].s.m[a]
  <2> SUFFICES ASSUME NEW a \in 0 .. MemLen - 1, a \in pc .. i.next - 1
               PROVE  \A k \in 0 .. N : f[k].s.m[a] = f[0].s.m[a]
    OBVIOUS
  <2>1. a \in f[N].code
    <3>1. n + 1 \in 0 .. N
      BY <1>1
    <3>2. a \in f[n + 1].code
      BY <1>3
    <3> QED BY <1>4, <3>1, <3>2
  <2>2. a \notin f[N].data
    BY <2>1
  <2>3. \A k \in 0 .. N - 1 : f[k + 1].s.m[a] = f[k].s.m[a]
    <3> TAKE k \in 0 .. N - 1
    <3>1. k \in 0 .. N /\ k + 1 \in 0 .. N
      BY <1>1
    <3>2. a \notin f[k + 1].data
      BY <1>4, <2>2, <3>1
    <3>3. a \in DOMAIN f[k].s.m
      BY <1>2, <3>1 DEF Memory
    <3> QED BY <1>3, <3>2, <3>3
  <2> DEFINE T == {k \in 0 .. N : f[k].s.m[a] = f[0].s.m[a]}
  <2>4. 0 \in T
    BY <1>1
  <2>5. \A k \in 1 .. N : k - 1 \in T => k \in T
    <3> SUFFICES ASSUME NEW k \in 1 .. N, f[k - 1].s.m[a] = f[0].s.m[a]
                 PROVE  f[k].s.m[a] = f[0].s.m[a]
      OBVIOUS
    <3>1. k - 1 \in 0 .. N - 1 /\ (k - 1) + 1 = k
      BY <1>1
    <3> QED BY <2>3, <3>1
  <2>6. T \in SUBSET (0 .. N)
    OBVIOUS
  <2>7. T = 0 .. N
    <3> HIDE DEF T
    <3> QED BY ONLY <1>1, <2>4, <2>5, <2>6, UpTo
  <2> QED BY <2>7
<1> TAKE k \in 0 .. N
<1>6. n \in 0 .. N
  BY <1>1
<1>7. \A a \in 0 .. MemLen - 1 : a \in pc .. i.next - 1 => f[n].s.m[a] = f[k].s.m[a]
  BY <1>5, <1>6
<1>8. ByteOK(f[n].s.m, pc) => i.okc
  BY <1>3
<1>9. f[n].s.m \in Memory /\ f[k].s.m \in Memory /\ pc \in Int
  BY <1>2, <1>6
<1>10. do_if_stage(f[n].s.m, pc) = do_if_stage(f[k].s.m, pc)
  BY <1>7, <1>8, <1>9, FetchKept
<1> QED BY <1>10

----------------------------------------------------------------------------
(* SEQ.                                                                    *)

\* SEQ and PIPE fetch the same.
LEMMA SeqFetches ==
  ASSUME NEW s \in States, 0 <= s.pc /\ s.pc < MemLen => s.pc + FetchReach < MemLen
  PROVE  LET q == SeqFetch(s.m, s.pc)
             D == Ins(s)
         IN  /\ q.icode = D.icode /\ q.ifun = D.ifun /\ q.ra = D.ra /\ q.rb = D.rb
             /\ q.valc = D.valc /\ q.valp = D.valp
             /\ D.status = IF q.imem_error THEN "ADR" ELSE IF ~instr_valid(D.icode) THEN "INS"
                           ELSE IF D.icode = "HALT" THEN "HLT" ELSE "AOK"
<1>1. MemLen \in Nat /\ s.pc \in Int /\ WordBytes \in Nat
  BY Sizes, StateFields
<1>2. FetchReach \in Nat /\ FetchReach >= 1
  BY <1>1 DEF FetchReach
<1>3. ByteOK(s.m, s.pc) => ByteOK(s.m, s.pc + FetchReach)
  BY <1>1, <1>2 DEF ByteOK
<1> QED BY <1>3 DEF Ins, do_if_stage, SeqFetch

\* SEQ executes a well-formed instruction as its signals say.
LEMMA SeqBySignals ==
  ASSUME NEW s, SeqType(s), NEW u, u = update_state(s),
         0 <= u.pc /\ u.pc < MemLen => u.pc + FetchReach < MemLen
  PROVE  LET t == sim_step(s)
         IN  /\ t.status = Written(u).status
             /\ t.status = "AOK" => SeqView(t) = After(u)
             /\ t.status # "AOK" => SeqView(t) = u
<1> DEFINE q == SeqFetch(u.m, u.pc)
           D == Ins(u)
           t == sim_step(s)
           ic == D.icode
           vala == get_reg_val(u.r, srcA(ic, D.ra))
           valb == get_reg_val(u.r, srcB(ic, D.rb))
           cnd == cond_holds(u.cc, NameIn(cond_t, D.ifun))
           fun == alufun(ic, D.ifun)
           opA == aluA(ic, vala, D.valc)
           opB == aluB(ic, valb)
           vale == compute_alu(fun, opA, opB)
           addr == mem_addr(ic, vale, vala)
           valm == IF mem_read(ic) THEN get_word_val(u.m, addr) ELSE 0
           error == (mem_read(ic) \/ mem_write(ic)) /\ ~WordOK(u.m, addr)
<1>1. u \in States
  BY UpdateType
<1>2. /\ q.icode = ic /\ q.ifun = D.ifun /\ q.ra = D.ra /\ q.rb = D.rb
      /\ q.valc = D.valc /\ q.valp = D.valp
      /\ D.status = IF q.imem_error THEN "ADR" ELSE IF ~instr_valid(ic) THEN "INS"
                    ELSE IF ic = "HALT" THEN "HLT" ELSE "AOK"
  BY <1>1, SeqFetches
<1>3. /\ t.pc = u.pc /\ t.r = u.r /\ t.m = u.m /\ t.cc = u.cc
      /\ t.cc_in = IF set_cc(q.icode) THEN compute_cc(fun, opA, opB) ELSE u.cc
      /\ t.destE = IF q.icode = "RRMOVQ" /\ ~cnd THEN REG_NONE ELSE dstE(ic, q.rb)
      /\ t.destM = dstM(ic, q.ra) /\ t.vale = vale /\ t.valm = valm
      /\ t.mem_write = mem_write(ic) /\ t.mem_addr = addr
      /\ t.mem_data = IF ic \in {"RMMOVQ", "PUSHQ"} THEN vala ELSE IF ic = "CALL" THEN D.valp ELSE 0
      /\ t.status = Stat(ic, q.imem_error, error)
      /\ t.pc_in = new_pc(ic, cnd, D.valc, valm, D.valp)
  BY <1>2 DEF sim_step
<1>4. /\ Written(u).vale = vale /\ Written(u).valm = valm
      /\ Written(u).deste = IF ic = "RRMOVQ" /\ ~cnd THEN REG_NONE ELSE dstE(ic, D.rb)
      /\ Written(u).destm = dstM(ic, D.ra)
      /\ Written(u).status = IF error THEN "ADR" ELSE D.status
      /\ NextPC(u) = new_pc(ic, cnd, D.valc, valm, D.valp)
      /\ NextR(u) = write_back(u.r, Written(u).deste, vale, Written(u).destm, valm)
      /\ NextM(u) = IF mem_write(ic) THEN set_word_val(u.m, addr, t.mem_data) ELSE u.m
      /\ NextCC(u) = IF set_cc(ic) THEN compute_cc(fun, opA, opB) ELSE u.cc
  <2> DEFINE va == IF ic \in {"CALL", "JMP"} THEN D.valp ELSE vala
  <2>1. aluA(ic, va, D.valc) = opA
    BY DEF aluA
  <2>2. mem_addr(ic, vale, va) = addr
    BY DEF mem_addr
  <2>3. mem_write(ic) => t.mem_data = va
    BY <1>3 DEF mem_write
  <2>4. /\ Written(u).vale = compute_alu(fun, aluA(ic, va, D.valc), opB)
        /\ Accessed(u).addr = mem_addr(ic, Written(u).vale, va)
        /\ Written(u).valm = IF mem_read(ic) THEN get_word_val(u.m, Accessed(u).addr) ELSE 0
        /\ Written(u).deste = IF ic = "RRMOVQ" /\ ~cnd THEN REG_NONE ELSE dstE(ic, D.rb)
        /\ Written(u).destm = dstM(ic, D.ra)
        /\ Written(u).status = IF (mem_read(ic) \/ mem_write(ic)) /\ ~WordOK(u.m, Accessed(u).addr)
                               THEN "ADR" ELSE D.status
        /\ NextPC(u) = new_pc(ic, cnd, D.valc, Written(u).valm, D.valp)
        /\ NextR(u) = set_reg_val(set_reg_val(u.r, Written(u).deste, Written(u).vale),
                                  Written(u).destm, Written(u).valm)
        /\ NextM(u) = IF mem_write(ic) THEN set_word_val(u.m, Accessed(u).addr, va) ELSE u.m
        /\ NextCC(u) = IF set_cc(ic) THEN compute_cc(fun, aluA(ic, va, D.valc), opB) ELSE u.cc
    BY SignalFields
  <2> HIDE DEF t, vala, valb, cnd, fun, opA, opB, va, ic, D
  <2>5. Written(u).vale = vale
    BY <2>1, <2>4
  <2>6. Accessed(u).addr = addr
    BY <2>2, <2>4, <2>5
  <2>7. Written(u).valm = valm
    BY <2>4, <2>6
  <2>8. write_back(u.r, Written(u).deste, vale, Written(u).destm, valm)
        = set_reg_val(set_reg_val(u.r, Written(u).deste, vale), Written(u).destm, valm)
    BY DEF write_back
  <2> HIDE DEF vale, addr, valm
  <2> QED BY <2>1, <2>3, <2>4, <2>5, <2>6, <2>7, <2>8
<1> HIDE DEF vala, valb, cnd, fun, opA, opB, vale, addr, valm, error
<1>5. t.status = Written(u).status
  <2> HIDE DEF t, q, D
  <2> QED BY <1>2, <1>3, <1>4 DEF Stat
<1>6. update_state(t) = After(u)
  <2>1. /\ t.destE = Written(u).deste /\ t.destM = Written(u).destm
        /\ t.pc_in = NextPC(u) /\ t.cc_in = NextCC(u)
    BY <1>2, <1>3, <1>4
  <2>2. write_back(t.r, t.destE, t.vale, t.destM, t.valm) = NextR(u)
    BY <1>3, <1>4, <2>1
  <2>3. (IF t.mem_write THEN set_word_val(t.m, t.mem_addr, t.mem_data) ELSE t.m) = NextM(u)
    BY <1>3, <1>4
  <2> HIDE DEF t
  <2> QED BY <2>1, <2>2, <2>3 DEF update_state, After
<1>7. [pc |-> t.pc, r |-> t.r, m |-> t.m, cc |-> t.cc] = u
  BY <1>1, <1>3 DEF States
<1> HIDE DEF t
<1>8. /\ t.status = "AOK" => SeqView(t) = After(u)
      /\ t.status # "AOK" => SeqView(t) = u
  BY <1>6, <1>7 DEF SeqView
<1> QED BY <1>5, <1>8 DEF t

----------------------------------------------------------------------------
(* Programs the simulators promise to agree on.                            *)

ProgramsComparable == \A src \in Programs : Comparable(src)

Mem == Loaded(source).m
Run == IsaSteps(Mem)
Steps == IsaRun(Mem).steps

\* Every run of the specification has one source file.
RunFacts ==
  /\ Mem \in Memory
  /\ RunOf(Run, Steps)
  /\ Steps \in 1 .. InstrLimit
  /\ Run[0] = First(Mem)
  /\ Run[Steps] = IsaRun(Mem)
  /\ Run[Steps].code \cap Run[Steps].data = {}
  /\ Steps + Run[Steps].bubbles + 6 <= InstrLimit

LEMMA ComparableRun ==
  ASSUME ProgramsComparable, source \in Programs
  PROVE  RunFacts
<1>1. Comparable(source)
  BY DEF ProgramsComparable
<1>2. /\ Mem \in Memory /\ IsaRun(Mem).ok /\ IsaRun(Mem).e # "AOK"
      /\ IsaRun(Mem).code \cap IsaRun(Mem).data = {}
      /\ Steps + IsaRun(Mem).bubbles + 6 <= InstrLimit
  BY <1>1 DEF Comparable, Mem, Steps
<1> HIDE DEF Mem
<1>3. /\ Steps \in 1 .. InstrLimit /\ Run[0] = First(Mem)
      /\ \A n \in Steps .. InstrLimit : Run[n] = IsaRun(Mem)
  BY <1>2, RunEnds DEF Run, Steps
<1>4. RunOf(Run, Steps)
  BY <1>2, RunIsSound DEF Run, Steps
<1>5. Steps \in Steps .. InstrLimit
  BY <1>3, InstrLimitAssumption
<1>6. Run[Steps] = IsaRun(Mem)
  BY <1>3, <1>5
<1> QED BY <1>2, <1>3, <1>4, <1>6 DEF RunFacts

\* SEQ stands at the state of the run that it has counted up to, or at its end.
SeqFollows ==
  LET n == IF phase = "seq" THEN icount ELSE Steps
  IN  /\ source \in Programs
      /\ ProcessorsTyped
      /\ n \in 0 .. Steps
      /\ SeqView(seq) = Run[n].s
      /\ seq.status = Run[n].e

LEMMA SeqFollowsInit ==
  ASSUME ProgramsComparable, Init
  PROVE  SeqFollows
<1>1. source \in Programs /\ RunFacts
  BY ComparableRun DEF Init
<1>2. ProcessorsTyped
  <2>1. ProgramsLoad
    BY DEF ProgramsLoad, ProgramsComparable, Comparable
  <2> QED BY <2>1, InitTyped
<1>3. phase = "seq" /\ icount = 0 /\ seq = SeqReset(Mem)
  BY DEF Init, Start, Mem
<1>4. Mem \in Memory /\ Run[0] = First(Mem) /\ Steps \in Nat
  BY <1>1, InstrLimitAssumption DEF RunFacts
<1>5. seq.status = "AOK" /\ First(Mem).e = "AOK"
  BY <1>3 DEF SeqReset, First
<1>6. SeqView(seq) = First(Mem).s
  <2>1. update_state(seq) = [pc |-> 0, r |-> write_back(init_reg, REG_NONE, 0, REG_NONE, 0),
                             m |-> Mem, cc |-> DEFAULT_CC]
    BY <1>3 DEF SeqReset, update_state
  <2>2. write_back(init_reg, REG_NONE, 0, REG_NONE, 0) = init_reg
    BY DEF write_back, set_reg_val, reg_valid, Registers, REG_NONE
  <2>3. First(Mem).s = [pc |-> 0, r |-> init_reg, m |-> Mem, cc |-> DEFAULT_CC]
    BY DEF First, new_state
  <2> QED BY <1>5, <2>1, <2>2, <2>3 DEF SeqView
<1> QED BY <1>1, <1>2, <1>3, <1>4, <1>5, <1>6 DEF SeqFollows

\* A step of SEQ is the next step of the run.
LEMMA SeqStepFollows ==
  ASSUME RunFacts, SeqFollows, SeqStep
  PROVE  /\ icount \in 0 .. Steps - 1 /\ icount' = icount + 1
         /\ SeqView(seq') = Run[icount + 1].s
         /\ seq'.status = Run[icount + 1].e
<1>1. phase = "seq" /\ seq.status = "AOK" /\ seq' = sim_step(seq) /\ icount' = icount + 1
  BY DEF SeqStep
<1>2. /\ SeqType(seq) /\ icount \in 0 .. Steps
      /\ SeqView(seq) = Run[icount].s /\ seq.status = Run[icount].e
  BY <1>1 DEF SeqFollows, ProcessorsTyped
<1>3. RunOf(Run, Steps) /\ Steps \in Nat
  BY InstrLimitAssumption DEF RunFacts
<1>4. icount \in 0 .. Steps - 1
  <2>1. icount # Steps
    BY <1>1, <1>2, <1>3 DEF RunOf
  <2> QED BY <1>2, <1>3, <2>1
<1> DEFINE u == update_state(seq)
<1>5. u = Run[icount].s
  BY <1>1, <1>2 DEF SeqView
<1>6. /\ WellFormed(u.pc, FetchInstr(u.m, u.pc), Run[icount + 1].e)
      /\ Run[icount + 1].e = Written(u).status
      /\ Run[icount + 1].e = "AOK" => Run[icount + 1].s = After(u)
      /\ Run[icount + 1].e # "AOK" => Run[icount + 1].s = u
  <2> HIDE DEF u
  <2> QED BY <1>3, <1>4, <1>5 DEF RunOf
<1>7. 0 <= u.pc /\ u.pc < MemLen => u.pc + FetchReach < MemLen
  <2> HIDE DEF u
  <2> QED BY <1>6 DEF WellFormed
<1>8. LET t == sim_step(seq)
      IN  /\ t.status = Written(u).status
          /\ t.status = "AOK" => SeqView(t) = After(u)
          /\ t.status # "AOK" => SeqView(t) = u
  <2>1. u = update_state(seq)
    OBVIOUS
  <2> HIDE DEF u
  <2> QED BY <1>2, <1>7, <2>1, SeqBySignals
<1> HIDE DEF u
<1> QED BY <1>1, <1>4, <1>6, <1>8

LEMMA SeqFollowsNext ==
  ASSUME ProgramsComparable, SeqFollows, [Next]_vars
  PROVE  SeqFollows'
<1>1. RunFacts
  BY ComparableRun DEF SeqFollows
<1>2. ProcessorsTyped'
  BY NextTyped DEF SeqFollows
<1>3. source' = source /\ Mem' = Mem /\ Run' = Run /\ Steps' = Steps
  BY DEF Next, SeqStep, SeqEnds, PipeStep, PipeEnds, vars, Mem, Run, Steps
<1>4. Steps \in Nat
  BY <1>1, InstrLimitAssumption DEF RunFacts
<1>5. CASE SeqStep
  <2>1. phase = "seq" /\ phase' = "seq"
    BY <1>5 DEF SeqStep
  <2>2. icount' \in 0 .. Steps
    BY <1>1, <1>4, <1>5, SeqStepFollows
  <2> QED BY <1>1, <1>2, <1>3, <1>5, <2>1, <2>2, SeqStepFollows DEF SeqFollows
<1>6. CASE SeqEnds
  <2>1. phase = "seq" /\ phase' = "pipe" /\ seq' = seq /\ (icount = InstrLimit \/ seq.status # "AOK")
    BY <1>6 DEF SeqEnds
  <2>2. /\ icount \in 0 .. Steps
        /\ SeqView(seq) = Run[icount].s /\ seq.status = Run[icount].e
    BY <2>1 DEF SeqFollows
  <2>3. icount = Steps
    <3>1. icount \in 0 .. Steps - 1 => Run[icount].e = "AOK"
      BY <1>1 DEF RunFacts, RunOf
    <3>2. Steps + Run[Steps].bubbles + 6 <= InstrLimit /\ Steps \in 1 .. InstrLimit
      BY <1>1 DEF RunFacts
    <3> QED BY <1>4, <2>1, <2>2, <3>1, <3>2, InstrLimitAssumption
  <2> QED BY <1>2, <1>3, <1>4, <2>1, <2>2, <2>3 DEF SeqFollows
<1>7. CASE PipeStep \/ PipeEnds \/ UNCHANGED vars
  <2>1. seq' = seq /\ (phase = "seq" => phase' = phase /\ icount' = icount) /\ (phase # "seq" => phase' # "seq")
    BY <1>7 DEF PipeStep, PipeEnds, vars
  <2> QED BY <1>2, <1>3, <1>4, <2>1 DEF SeqFollows
<1> QED BY <1>5, <1>6, <1>7 DEF Next

\* The instruction set as SEQ implements it is the one the models use.
LEMMA SeqIsaSteps == \A s : SeqIsa!step_state(s) = step_state(s)
<1>1. SeqIsa!Pow2 = Pow2 /\ \A x : SeqIsa!Wrap(x) = Wrap(x)
  BY DEF SeqIsa!Pow2, Pow2, SeqIsa!Wrap, Wrap
<1>2. /\ \A x, y : SeqIsa!NameIn(x, y) = NameIn(x, y)
      /\ \A x : SeqIsa!HI4(x) = HI4(x) /\ SeqIsa!LO4(x) = LO4(x) /\ SeqIsa!reg_valid(x) = reg_valid(x)
      /\ SeqIsa!itype_t = itype_t /\ SeqIsa!alu_t = alu_t /\ SeqIsa!cond_t = cond_t
      /\ SeqIsa!REG_NONE = REG_NONE /\ SeqIsa!REG_RSP = REG_RSP
  BY DEF SeqIsa!NameIn, NameIn, SeqIsa!HI4, HI4, SeqIsa!LO4, LO4, SeqIsa!reg_valid, reg_valid, SeqIsa!Registers, Registers, SeqIsa!itype_t, itype_t, SeqIsa!alu_t, alu_t, SeqIsa!cond_t, cond_t, SeqIsa!REG_NONE, REG_NONE, SeqIsa!REG_RSP, REG_RSP
<1>3. /\ \A m, a : SeqIsa!ByteOK(m, a) = ByteOK(m, a) /\ SeqIsa!WordOK(m, a) = WordOK(m, a)
      /\ \A m, a : SeqIsa!get_byte_val(m, a) = get_byte_val(m, a)
  BY DEF SeqIsa!ByteOK, ByteOK, SeqIsa!WordOK, WordOK, SeqIsa!get_byte_val, get_byte_val
<1>4. \A b : SeqIsa!FromBytes(b) = FromBytes(b) /\ SeqIsa!FromBits(b) = FromBits(b)
  BY <1>1 DEF SeqIsa!FromBytes, FromBytes, SeqIsa!FromBits, FromBits
<1>5. /\ \A m, a : SeqIsa!get_word_val(m, a) = get_word_val(m, a)
      /\ \A m, a, v : SeqIsa!set_word_val(m, a, v) = set_word_val(m, a, v)
      /\ \A r, i : SeqIsa!get_reg_val(r, i) = get_reg_val(r, i)
      /\ \A r, i, v : SeqIsa!set_reg_val(r, i, v) = set_reg_val(r, i, v)
  <2>1. \A m, a : SeqIsa!get_word_val(m, a) = get_word_val(m, a)
    BY <1>3, <1>4 DEF SeqIsa!get_word_val, get_word_val
  <2>2. \A m, a, v : SeqIsa!set_word_val(m, a, v) = set_word_val(m, a, v)
    BY <1>1, <1>3 DEF SeqIsa!set_word_val, set_word_val
  <2>3. \A r, i : SeqIsa!get_reg_val(r, i) = get_reg_val(r, i)
    BY <1>2 DEF SeqIsa!get_reg_val, get_reg_val
  <2>4. \A r, i, v : SeqIsa!set_reg_val(r, i, v) = set_reg_val(r, i, v)
    BY <1>2 DEF SeqIsa!set_reg_val, set_reg_val
  <2> QED BY <2>1, <2>2, <2>3, <2>4
<1>6. SeqIsa!Bits = Bits /\ \A x, i : SeqIsa!Bit(x, i) = Bit(x, i)
  BY <1>1 DEF SeqIsa!Bits, Bits, SeqIsa!Bit, Bit
<1>7. \A op, x, y : SeqIsa!compute_alu(op, x, y) = compute_alu(op, x, y)
  BY <1>1, <1>4, <1>6 DEF SeqIsa!compute_alu, compute_alu
<1>8. /\ \A op, x, y : SeqIsa!compute_cc(op, x, y) = compute_cc(op, x, y)
      /\ \A cc, x : SeqIsa!cond_holds(cc, x) = cond_holds(cc, x)
  <2>1. \A op, x, y : SeqIsa!compute_cc(op, x, y) = compute_cc(op, x, y)
    <3> TAKE op, x, y
    <3>1. SeqIsa!compute_alu(op, x, y) = compute_alu(op, x, y)
      BY <1>7
    <3> QED BY <3>1, Zenon DEF SeqIsa!compute_cc, compute_cc
  <2>2. \A cc, x : SeqIsa!cond_holds(cc, x) = cond_holds(cc, x)
    BY DEF SeqIsa!cond_holds, cond_holds
  <2> QED BY <2>1, <2>2
<1>9. \A m, a : SeqIsa!FetchInstr(m, a) = FetchInstr(m, a)
  BY <1>2, <1>3, <1>5 DEF SeqIsa!FetchInstr, FetchInstr, SeqIsa!NeedRegids, NeedRegids, SeqIsa!NeedImm, NeedImm
<1>10. \A m, a, i : SeqIsa!FetchStatus(m, a, i) = FetchStatus(m, a, i)
  BY <1>2, <1>3 DEF SeqIsa!FetchStatus, FetchStatus, SeqIsa!RegsOK, RegsOK
<1>11. /\ \A t : SeqIsa!Done(t) = Done(t) /\ SeqIsa!Refused(t) = Refused(t)
      /\ \A t, x, y : SeqIsa!SetReg(t, x, y) = SetReg(t, x, y) /\ SeqIsa!Store(t, x, y) = Store(t, x, y)
  BY <1>5 DEF SeqIsa!Done, Done, SeqIsa!Refused, Refused, SeqIsa!SetReg, SetReg, SeqIsa!Store, Store
<1>12. /\ \A s, i : SeqIsa!StackEffect(s, i) = StackEffect(s, i)
      /\ \A s, x, y : SeqIsa!AddImmediate(s, x, y) = AddImmediate(s, x, y)
  BY <1>1, <1>2, <1>3, <1>5, <1>7, <1>8, <1>11 DEF SeqIsa!StackEffect, StackEffect, SeqIsa!AddImmediate, AddImmediate
<1>13. \A s, i : SeqIsa!Effect(s, i) = Effect(s, i)
  BY <1>1, <1>2, <1>3, <1>5, <1>7, <1>8, <1>11, <1>12 DEF SeqIsa!Effect, Effect
<1> QED BY <1>9, <1>10, <1>13 DEF SeqIsa!step_state, step_state

\* SEQ runs every program as the instruction set says: a step of sim_step is one
\* step of step_state, whether the instruction completes or ends the program.
THEOREM SeqImplements ==
  ASSUME ProgramsComparable
  PROVE  Spec => SeqImplementsIsa
<1>1. Init => SeqFollows
  BY SeqFollowsInit
<1>2. SeqFollows /\ [Next]_vars => SeqFollows'
  BY SeqFollowsNext
<1>3. Init => SeqIsa!Init
  <2> SUFFICES ASSUME Init PROVE SeqIsa!Init
    OBVIOUS
  <2>1. SeqFollows /\ phase = "seq" /\ icount = 0
    BY SeqFollowsInit DEF Init, Start
  <2>2. RunFacts
    BY <2>1, ComparableRun DEF SeqFollows
  <2>3. SeqView(seq) = First(Mem).s /\ seq.status = First(Mem).e /\ Mem \in Memory
    BY <2>1, <2>2 DEF SeqFollows, RunFacts
  <2>4. First(Mem).s = [pc |-> 0, r |-> init_reg, m |-> Mem, cc |-> DEFAULT_CC]
        /\ First(Mem).e = "AOK"
    BY DEF First, new_state
  <2>5. /\ SeqIsa!new_state.pc = 0 /\ SeqIsa!new_state.r = init_reg
        /\ SeqIsa!new_state.cc = DEFAULT_CC /\ SeqIsa!Memory = Memory
    BY DEF SeqIsa!new_state, SeqIsa!init_reg, SeqIsa!DEFAULT_CC, SeqIsa!Memory, SeqIsa!Byte,
           SeqIsa!Registers, SeqIsa!REG_NONE, init_reg, DEFAULT_CC, Memory, Byte, Registers, REG_NONE
  <2> QED BY <2>3, <2>4, <2>5 DEF SeqIsa!Init
<1>4. SeqFollows /\ [Next]_vars => [SeqIsa!Step]_(SeqIsa!vars)
  <2> SUFFICES ASSUME SeqFollows, [Next]_vars PROVE [SeqIsa!Step]_(SeqIsa!vars)
    OBVIOUS
  <2>1. CASE SeqStep
    <3>1. RunFacts
      BY ComparableRun DEF SeqFollows
    <3>2. /\ icount \in 0 .. Steps - 1
          /\ SeqView(seq') = Run[icount + 1].s /\ seq'.status = Run[icount + 1].e
      BY <2>1, <3>1, SeqStepFollows
    <3>3. SeqView(seq) = Run[icount].s /\ seq.status = Run[icount].e
      BY <2>1 DEF SeqStep, SeqFollows
    <3>4. /\ RunOf(Run, Steps) /\ Steps \in Nat
          /\ icount \in 0 .. Steps
      BY <3>1, <3>2, InstrLimitAssumption DEF RunFacts
    <3>5. /\ Run[icount].s \in States /\ Run[icount].e = "AOK"
          /\ Run[icount + 1] = Follow(Run[icount])
      BY <3>2, <3>4 DEF RunOf
    <3> DEFINE s == Run[icount].s
               t == Run[icount + 1]
    <3>6. t.s = step_state(s).s /\ t.e = step_state(s).stat
      BY <3>5 DEF Follow
    <3>7. [pc |-> s.pc, r |-> s.r, m |-> s.m, cc |-> s.cc] = s
      BY <3>5 DEF States
    <3> HIDE DEF s, t
    <3>8. SeqIsa!step_state(s) = step_state(s)
      BY SeqIsaSteps
    <3>9. SeqView(seq) = s /\ seq.status = "AOK" /\ SeqView(seq') = t.s /\ seq'.status = t.e
      BY <3>2, <3>3, <3>5 DEF s, t
    <3>10. SeqView(seq)' = t.s /\ (seq.status)' = t.e
      BY <3>9 DEF SeqView, update_state
    <3>11. SeqIsa!Step
      BY <3>6, <3>7, <3>8, <3>9, <3>10 DEF SeqIsa!Step
    <3> QED BY <3>11
  <2>2. CASE SeqEnds \/ PipeStep \/ PipeEnds \/ UNCHANGED vars
    <3>1. seq' = seq
      BY <2>2 DEF SeqEnds, PipeStep, PipeEnds, vars
    <3> QED BY <3>1 DEF SeqIsa!vars, SeqView, update_state
  <2> QED BY <2>1, <2>2 DEF Next
<1> QED BY <1>1, <1>2, <1>3, <1>4, PTL DEF Spec, SeqImplementsIsa, SeqIsa!Spec

----------------------------------------------------------------------------
(* PIPE: what a run is for it.                                             *)

Ret(s) == Ins(s).icode = "RET"

\* A branch that is predicted taken and is not.
Missed(s) == Ins(s).icode = "JMP" /\ ~Executed(s).takebranch

\* The operands an instruction uses come from registers, a load goes to one, and
\* one that faults changes neither memory nor condition codes.
Sound(s) ==
  LET ic == Ins(s).icode
  IN  /\ ic \in {"RRMOVQ", "RMMOVQ", "ALU", "PUSHQ", "POPQ", "RET"} => Operands(s).srca \in Registers
      /\ ic \in {"ALU", "RMMOVQ", "MRMOVQ", "IADDQ", "PUSHQ", "POPQ", "CALL", "RET"}
           => Operands(s).srcb \in Registers
      /\ ic \in {"MRMOVQ", "POPQ"} => Ins(s).ra \in Registers
      /\ Operands(s).srca \in Registers \cup {REG_NONE}
      /\ Operands(s).srcb \in Registers \cup {REG_NONE}
      /\ Ins(s).status \in Reported /\ ic # "POP2"
      /\ Written(s).status # "AOK" => NextM(s) = s.m /\ NextCC(s) = s.cc

LEMMA WellFormedIsSound ==
  ASSUME NEW s \in States, WellFormed(s.pc, FetchInstr(s.m, s.pc), step_state(s).stat)
  PROVE  Sound(s)
<1> DEFINE i == FetchInstr(s.m, s.pc)
           ic == Ins(s).icode
<1>1. WellFormed(s.pc, i, step_state(s).stat)
  OBVIOUS
<1>2. 0 <= s.pc /\ s.pc < MemLen => i.okc /\ s.pc + FetchReach < MemLen
  BY <1>1 DEF WellFormed
<1>3. /\ ~ByteOK(s.m, s.pc) => ic = "NOP" /\ Ins(s).status = "ADR"
      /\ ByteOK(s.m, s.pc) =>
           /\ ic = i.icode /\ Ins(s).ra = i.ra /\ Ins(s).rb = i.rb /\ i.ok1
           /\ Ins(s).status = IF ~instr_valid(i.icode) THEN "INS"
                              ELSE IF i.icode = "HALT" THEN "HLT" ELSE "AOK"
  BY <1>2, FetchesAgree
<1>4. ByteOK(s.m, s.pc) /\ instr_valid(i.icode) => RegsOK(i)
  <2> SUFFICES ASSUME ByteOK(s.m, s.pc), instr_valid(i.icode), ~RegsOK(i) PROVE FALSE
    OBVIOUS
  <2>1. i.okc /\ i.ok1
    BY <1>2, <1>3 DEF ByteOK
  <2>2. i.icode \notin {"NONE", "POP2"}
    BY DEF instr_valid
  <2>3. FetchStatus(s.m, s.pc, i) = "INS"
    <3> HIDE DEF i
    <3> QED BY <2>1, <2>2 DEF FetchStatus
  <2>4. step_state(s).stat = "INS"
    BY <2>3 DEF step_state
  <2> QED BY <1>1, <2>4 DEF WellFormed
<1>5. /\ i.icode \in {"RMMOVQ", "MRMOVQ", "ALU"} => reg_valid(i.rb)
      /\ i.icode = "ALU" => reg_valid(i.ra)
      /\ i.icode # "POP2"
  BY <1>1 DEF WellFormed
<1>6. /\ Operands(s).srca = srcA(ic, Ins(s).ra) /\ Operands(s).srcb = srcB(ic, Ins(s).rb)
      /\ Operands(s).icode = ic
  BY DEF Operands
<1>7. REG_RSP \in Registers
  BY DEF REG_RSP, Registers, REG_NONE
<1> HIDE DEF i
<1>8. ByteOK(s.m, s.pc) /\ instr_valid(ic) =>
        /\ ic \in {"RRMOVQ", "RMMOVQ", "MRMOVQ", "ALU", "PUSHQ", "POPQ"} => Ins(s).ra \in Registers
        /\ ic \in {"RRMOVQ", "IRMOVQ", "IADDQ", "RMMOVQ", "MRMOVQ", "ALU"} => Ins(s).rb \in Registers
  BY <1>3, <1>4, <1>5 DEF RegsOK, reg_valid
<1>9. Ins(s).status \in Reported /\ (Ins(s).status = "AOK" => ic # "HALT" /\ (ByteOK(s.m, s.pc) => instr_valid(ic)))
  BY <1>3 DEF Reported, Stopping
<1>10. /\ Written(s).status = IF (mem_read(ic) \/ mem_write(ic)) /\ ~WordOK(s.m, Accessed(s).addr)
                              THEN "ADR" ELSE Ins(s).status
       /\ NextM(s) = IF mem_write(ic) THEN set_word_val(s.m, Accessed(s).addr, Accessed(s).data) ELSE s.m
       /\ set_cc(ic) \/ NextCC(s) = s.cc
  <2>1. Accessed(s).write = mem_write(ic)
    BY SignalFields
  <2> QED BY <2>1, SignalFields DEF NextM, NextCC
<1>11. Written(s).status # "AOK" => NextM(s) = s.m /\ NextCC(s) = s.cc
  <2>1. CASE (mem_read(ic) \/ mem_write(ic)) /\ ~WordOK(s.m, Accessed(s).addr)
    <3>1. ~set_cc(ic)
      BY <2>1 DEF mem_read, mem_write, set_cc
    <3> QED BY <1>10, <2>1, <3>1 DEF set_word_val
  <2>2. CASE ~((mem_read(ic) \/ mem_write(ic)) /\ ~WordOK(s.m, Accessed(s).addr))
    <3> SUFFICES ASSUME Ins(s).status # "AOK" PROVE NextM(s) = s.m /\ NextCC(s) = s.cc
      BY <1>10, <2>2
    <3>1. ~instr_valid(ic) \/ ic = "HALT" \/ ic = "NOP"
      BY <1>3
    <3>2. ~set_cc(ic) /\ ~mem_write(ic)
      BY <3>1 DEF instr_valid, set_cc, mem_write
    <3> QED BY <1>10, <3>2
  <2> QED BY <2>1, <2>2
<1>12. ic # "NOP" => ByteOK(s.m, s.pc)
  BY <1>3
<1> HIDE DEF ic
<1>13. /\ ic \in {"RRMOVQ", "RMMOVQ", "ALU", "PUSHQ", "POPQ", "RET"} => srcA(ic, Ins(s).ra) \in Registers
       /\ ic \in {"ALU", "RMMOVQ", "MRMOVQ", "IADDQ", "PUSHQ", "POPQ", "CALL", "RET"}
           => srcB(ic, Ins(s).rb) \in Registers
       /\ ic \in {"MRMOVQ", "POPQ"} => Ins(s).ra \in Registers
       /\ srcA(ic, Ins(s).ra) \in Registers \cup {REG_NONE}
       /\ srcB(ic, Ins(s).rb) \in Registers \cup {REG_NONE}
  BY <1>7, <1>8, <1>12 DEF instr_valid, srcA, srcB
<1>14. ic # "POP2"
  BY <1>3, <1>5
<1> QED BY <1>6, <1>9, <1>11, <1>13, <1>14 DEF Sound, ic

\* Cycles lost behind the instruction in s.
Loses(s) == IF Ret(s) THEN 3 ELSE IF Missed(s) THEN 2 ELSE 0

UsesLoad(f, k) == Uses(Ins(f[k].s), f[k].loaded)

\* The cycles in which instruction k comes to decode, and to leave it.
Enters(f, k) == 2 + k + f[k].bubbles + f[k].behind
Leaves(f, k) == Enters(f, k) + (IF UsesLoad(f, k) THEN 1 ELSE 0)

Flow(f, N) ==
  /\ N \in Nat \ {0}
  /\ \A k \in 0 .. N : f[k].s \in States
  /\ f[0].bubbles = 0 /\ f[0].behind = 0 /\ f[0].loaded = REG_NONE
  /\ \A k \in 0 .. N - 1 :
       /\ Sound(f[k].s)
       /\ f[k + 1].bubbles = f[k].bubbles + f[k].behind + (IF UsesLoad(f, k) THEN 1 ELSE 0)
       /\ f[k + 1].behind = Loses(f[k].s)
       /\ f[k + 1].loaded = dstM(Ins(f[k].s).icode, Ins(f[k].s).ra)
       /\ f[k + 1].s = IF k + 1 < N THEN After(f[k].s) ELSE f[k].s
       /\ f[k + 1].e = Written(f[k].s).status
       /\ IF k + 1 < N THEN Written(f[k].s).status = "AOK" ELSE Written(f[k].s).status \in Stopping
       /\ \A j \in 0 .. N : do_if_stage(f[j].s.m, f[k].s.pc) = do_if_stage(f[k].s.m, f[k].s.pc)

LEMMA RunFlows ==
  ASSUME RunFacts
  PROVE  Flow(Run, Steps)
<1> DEFINE f == Run
           N == Steps
<1>1. /\ RunOf(f, N) /\ f[0] = First(Mem) /\ f[N].code \cap f[N].data = {}
  BY DEF RunFacts
<1> HIDE DEF f, N
<1>2. N \in Nat \ {0} /\ N \in Nat
  BY <1>1 DEF RunOf
<1>3. f[0].bubbles = 0 /\ f[0].behind = 0 /\ f[0].loaded = REG_NONE
  BY <1>1 DEF First
<1>4. \A k \in 0 .. N : f[k].s \in States
  BY <1>1 DEF RunOf
<1>5. ASSUME NEW k \in 0 .. N - 1
      PROVE  /\ Sound(f[k].s)
             /\ f[k + 1].bubbles = f[k].bubbles + f[k].behind + (IF UsesLoad(f, k) THEN 1 ELSE 0)
             /\ f[k + 1].behind = Loses(f[k].s)
             /\ f[k + 1].loaded = dstM(Ins(f[k].s).icode, Ins(f[k].s).ra)
             /\ f[k + 1].s = IF k + 1 < N THEN After(f[k].s) ELSE f[k].s
             /\ f[k + 1].e = Written(f[k].s).status
             /\ IF k + 1 < N THEN Written(f[k].s).status = "AOK"
                ELSE Written(f[k].s).status \in Stopping
  <2> DEFINE s == f[k].s
             i == FetchInstr(s.m, s.pc)
             t == f[k + 1]
  <2>1. /\ t = Follow(f[k])
        /\ WellFormed(s.pc, i, t.e)
        /\ t.e = Written(s).status /\ t.e \in Reported
        /\ t.e = "AOK" => t.s = After(s)
        /\ t.e # "AOK" => t.s = s
    BY <1>1 DEF RunOf
  <2>2. s \in States
    BY <1>2, <1>4
  <2>3. /\ t.bubbles = f[k].bubbles + f[k].behind + (IF Uses(i, f[k].loaded) THEN 1 ELSE 0)
        /\ t.behind = Penalty(i, s.cc) /\ t.loaded = dstM(i.icode, i.ra)
        /\ t.e = step_state(s).stat
    BY <2>1 DEF Follow
  <2> HIDE DEF t
  <2>4. WellFormed(s.pc, FetchInstr(s.m, s.pc), step_state(s).stat)
    BY <2>1, <2>3
  <2>5. Sound(s)
    <3> HIDE DEF s
    <3> QED BY <2>2, <2>4, WellFormedIsSound
  <2>6. 0 <= s.pc /\ s.pc < MemLen => s.pc + FetchReach < MemLen
    BY <2>1 DEF WellFormed
  <2> HIDE DEF s
  <2>7. /\ ~ByteOK(s.m, s.pc) => Ins(s).icode = "NOP"
        /\ ByteOK(s.m, s.pc) => /\ Ins(s).icode = i.icode /\ Ins(s).ifun = i.ifun
                                /\ Ins(s).ra = i.ra /\ Ins(s).rb = i.rb
    BY <2>2, <2>6, FetchesAgree
  <2>8. ~ByteOK(s.m, s.pc) => i.icode = "HALT"
    <3> SUFFICES ASSUME ~ByteOK(s.m, s.pc) PROVE i.icode = "HALT"
      OBVIOUS
    <3>1. get_byte_val(s.m, s.pc) = 0
      BY DEF get_byte_val
    <3>2. HI4(0) = 0
      BY DEF HI4
    <3>3. NameIn(itype_t, 0) = "HALT"
      BY DEF NameIn, itype_t
    <3> QED BY <3>1, <3>2, <3>3 DEF FetchInstr
  <2>9. Executed(s).takebranch = cond_holds(s.cc, NameIn(cond_t, Ins(s).ifun))
    BY SignalFields
  <2>10. Penalty(i, s.cc) = Loses(s)
    <3> HIDE DEF i
    <3> QED BY <2>7, <2>8, <2>9 DEF Penalty, Loses, Ret, Missed
  <2>11. dstM(i.icode, i.ra) = dstM(Ins(s).icode, Ins(s).ra)
    <3> HIDE DEF i
    <3> QED BY <2>7, <2>8 DEF dstM
  <2>12. \A x : Uses(i, x) <=> Uses(Ins(s), x)
    <3> HIDE DEF i
    <3> QED BY <2>7, <2>8 DEF Uses, srcA, srcB
  <2>13. Uses(i, f[k].loaded) <=> UsesLoad(f, k)
    <3> HIDE DEF i
    <3> QED BY <2>12 DEF UsesLoad, s
  <2>14. k + 1 < N => t.e = "AOK"
    <3> SUFFICES ASSUME k + 1 < N PROVE t.e = "AOK"
      OBVIOUS
    <3>1. k + 1 \in 0 .. N - 1
      BY <1>2
    <3> QED BY <1>1, <3>1 DEF RunOf, t
  <2>15. ~(k + 1 < N) => t.e # "AOK"
    <3> SUFFICES ASSUME ~(k + 1 < N) PROVE t.e # "AOK"
      OBVIOUS
    <3>1. k + 1 = N
      BY <1>2
    <3> QED BY <1>1, <3>1 DEF RunOf, t
  <2> HIDE DEF i
  <2>16. /\ Sound(s)
         /\ t.bubbles = f[k].bubbles + f[k].behind + (IF UsesLoad(f, k) THEN 1 ELSE 0)
         /\ t.behind = Loses(s)
         /\ t.loaded = dstM(Ins(s).icode, Ins(s).ra)
         /\ t.s = IF k + 1 < N THEN After(s) ELSE s
         /\ t.e = Written(s).status
         /\ IF k + 1 < N THEN Written(s).status = "AOK" ELSE Written(s).status \in Stopping
    BY <2>1, <2>3, <2>5, <2>10, <2>11, <2>13, <2>14, <2>15 DEF Reported
  <2> QED BY <2>16 DEF s, t
<1>6. \A k \in 0 .. N - 1 : \A j \in 0 .. N :
        do_if_stage(f[j].s.m, f[k].s.pc) = do_if_stage(f[k].s.m, f[k].s.pc)
  BY <1>1, CodeIsKept
<1>7. Flow(f, N)
  BY <1>2, <1>3, <1>4, <1>5, <1>6 DEF Flow
<1> QED BY <1>7 DEF f, N

----------------------------------------------------------------------------
(* PIPE after a clock edge, as a window on the run f of N instructions: n   *)
(* instructions are through write-back or in it, the next ones are in the   *)
(* stages behind it that hold no bubble, and c clock edges have passed.     *)

\* A stage holds an instruction or a bubble.
Slots(X) == IF X.cur.status = "BUB" THEN 0 ELSE 1

\* The instructions in the stages E, D and F.
AtE(q, n) == n + Slots(q.M)
AtD(q, n) == AtE(q, n) + Slots(q.E)
AtF(q, n) == AtD(q, n) + Slots(q.D)

\* A bubble writes no register.
Empty(x) == x.icode = "NOP" /\ x.deste = REG_NONE /\ x.destm = REG_NONE

\* E holds the operands O, up to one that the instruction does not use.
SameE(E, O) ==
  /\ E.icode = O.icode /\ E.ifun = O.ifun /\ E.valc = O.valc
  /\ E.srca = O.srca /\ E.srcb = O.srcb
  /\ E.deste = O.deste /\ E.destm = O.destm
  /\ E.status = O.status /\ E.stage_pc = O.stage_pc
  /\ O.srca \in Registers \/ O.icode \in {"CALL", "JMP"} => E.vala = O.vala
  /\ O.srcb \in Registers => E.valb = O.valb

\* M holds what the instruction in s has executed, up to the same.
SameM(M, s) ==
  LET O == Executed(s)
  IN  /\ M.icode = O.icode /\ M.ifun = O.ifun /\ M.takebranch = O.takebranch
      /\ M.vale = O.vale /\ M.deste = O.deste /\ M.destm = O.destm
      /\ M.status = O.status /\ M.stage_pc = O.stage_pc
      /\ Operands(s).srca \in Registers \/ O.icode \in {"CALL", "JMP"} => M.vala = O.vala

\* Each stage holds the next instruction of the run, or a bubble.
HoldsW(q, f, n) ==
  IF Slots(q.W) = 1 THEN n > 0 /\ q.W.cur = Written(f[n - 1].s) ELSE Empty(q.W.cur)

HoldsM(q, f, N, n) ==
  IF Slots(q.M) = 1 THEN n < N /\ SameM(q.M.cur, f[n].s) ELSE Empty(q.M.cur)

\* Behind the last instruction there may be anything.
HoldsE(q, f, N, n) ==
  LET k == AtE(q, n)
  IN  IF Slots(q.E) = 1 THEN k < N => SameE(q.E.cur, Operands(f[k].s)) ELSE Empty(q.E.cur)

\* So there may be in D behind a branch that is predicted taken and is not.
Astray(q, f, n) == Slots(q.E) = 1 /\ Missed(f[AtE(q, n)].s)

HoldsD(q, f, N, n) ==
  LET k == AtD(q, n)
  IN  IF Slots(q.D) = 1 THEN k < N /\ ~Astray(q, f, n) => q.D.cur = Ins(f[k].s)
      ELSE q.D.cur = bubble_if_id

\* The prediction is right unless a ret or a missed branch comes before it.
HoldsF(q, f, N, n) ==
  LET k == AtD(q, n)
  IN  /\ AtF(q, n) < N
      /\ ~Astray(q, f, n)
      /\ IF Slots(q.D) = 1 THEN ~Ret(f[k].s) /\ ~Missed(f[k].s) ELSE k = 0
      => q.F.cur.pc = f[AtF(q, n)].s.pc

\* Only bubbles follow a ret, or a branch that has turned out to be missed, and
\* D holds a bubble for no other reason, except in the first cycle.
Shape(q, f, N, n) ==
  /\ Slots(q.W) = 1 /\ n < N /\ Ret(f[n - 1].s) => Slots(q.M) + Slots(q.E) + Slots(q.D) = 0
  /\ Slots(q.M) = 1 /\ (Ret(f[n].s) \/ Missed(f[n].s)) => Slots(q.E) + Slots(q.D) = 0
  /\ Slots(q.E) = 1 /\ AtE(q, n) < N /\ Ret(f[AtE(q, n)].s) => Slots(q.D) = 0
  /\ Slots(q.D) = 0 /\ AtD(q, n) < N =>
       \/ AtD(q, n) = 0
       \/ Ret(f[AtD(q, n) - 1].s) /\ Slots(q.W) + Slots(q.M) + Slots(q.E) > 0
       \/ Missed(f[AtD(q, n) - 1].s) /\ Slots(q.E) = 0 /\ Slots(q.M) = 1

\* Each stage holds its instruction in the cycle that the run foretells.
Timing(q, f, N, n, c) ==
  /\ Slots(q.W) = 1 => c = Leaves(f, n - 1) + 3
  /\ Slots(q.M) = 1 => c = Leaves(f, n) + 2
  /\ Slots(q.E) = 1 /\ AtE(q, n) < N => c = Leaves(f, AtE(q, n)) + 1
  /\ Slots(q.D) = 1 /\ AtD(q, n) < N /\ ~Astray(q, f, n) =>
       c = IF Slots(q.E) = 1 THEN Enters(f, AtD(q, n)) ELSE Leaves(f, AtD(q, n))
  /\ AtF(q, n) = 0 => c = 1

\* Registers are written one cycle after memory, and the condition codes one
\* cycle before.
Data(q, f, N, n) ==
  /\ q.r = f[n - Slots(q.W)].s.r
  /\ q.m = f[n].s.m
  /\ q.cc = f[IF AtE(q, n) < N THEN AtE(q, n) ELSE N].s.cc
  /\ q.cc_was = f[n].s.cc /\ q.cc_in = q.cc

\* The window: what every stage holds, and when.
InPipe(q, f, N, n, c) ==
  /\ n \in 0 .. N /\ (n = N => Slots(q.W) = 1) /\ AtE(q, n) <= N
  /\ CurType(q)
  /\ HoldsW(q, f, n) /\ HoldsM(q, f, N, n) /\ HoldsE(q, f, N, n) /\ HoldsD(q, f, N, n)
  /\ HoldsF(q, f, N, n)
  /\ Shape(q, f, N, n) /\ Timing(q, f, N, n, c) /\ Data(q, f, N, n)

\* What the stages compute of q for the registers behind them.
ExM(q) == Execute(q.E.cur, q.cc)
MemW(q) == do_mem_stage(q.m, q.M.cur).W
IdE(q) == do_id_wb_stages(q, ExM(q), MemW(q))
Fetched(q) == do_if_stage(q.m, f_pc(q))

\* The next clock edge, when memory and condition codes may change.
Turn(q) == Edge(Stages(q), TRUE, TRUE)

\* A stall of D for a load and a bubble for a branch exclude each other.
LEMMA ControlSignals ==
  ASSUME NEW p, NEW d, NEW e, NEW w
  PROVE  /\ loadUse(p, d) \in BOOLEAN /\ retInPipe(p) \in BOOLEAN
         /\ mispredicted(p, e) \in BOOLEAN
         /\ (mispredicted(p, e) => ~loadUse(p, d))
  BY DEF loadUse, retInPipe, mispredicted

\* What the next clock edge leaves, while W does not stop the processor.
LEMMA TurnFields ==
  ASSUME NEW q, q.W.cur.status \notin Stopping
  PROVE  LET t == Turn(q)
             use == loadUse(q, IdE(q))
             mem == do_mem_stage(q.m, q.M.cur)
             A == Alu(q.E.cur)
         IN  /\ t.W.cur = MemW(q)
             /\ t.M.cur = IF MemW(q).status \in Stopping THEN bubble_ex_mem ELSE ExM(q)
             /\ t.E.cur = IF mispredicted(q, ExM(q)) \/ use THEN bubble_id_ex ELSE IdE(q)
             /\ t.D.cur = IF use THEN q.D.cur
                          ELSE IF mispredicted(q, ExM(q)) \/ retInPipe(q) THEN bubble_if_id
                          ELSE Fetched(q).D
             /\ t.F.cur = IF use \/ retInPipe(q) THEN q.F.cur ELSE Fetched(q).F
             /\ t.r = write_back(q.r, q.W.cur.deste, q.W.cur.vale, q.W.cur.destm, q.W.cur.valm)
             /\ t.m = IF mem.write THEN set_word_val(q.m, mem.addr, mem.data) ELSE q.m
             /\ t.cc = IF set_cc(q.E.cur.icode) /\ MemW(q).status \notin Stopping
                       THEN compute_cc(A.fun, A.a, A.b) ELSE q.cc_in
             /\ t.cc_was = q.cc /\ t.cc_in = t.cc
             /\ t.starting_up = Stages(q).starting_up /\ t.cycles = Stages(q).cycles
             /\ t.instructions = Stages(q).instructions
             /\ DOMAIN t = PipeFields
<1> DEFINE p == Stages(q)
           t == Turn(q)
           mem == do_mem_stage(q.m, q.M.cur)
           use == loadUse(q, IdE(q))
           ret == retInPipe(q)
           mis == mispredicted(q, ExM(q))
           bub == mis \/ (ret /\ ~use)
           halt == MemW(q).status \in Stopping
           ex == do_ex_stage(q, MemW(q).status)
           op == do_stall_check(q, IdE(q), ExM(q), MemW(q))
<1>1. /\ ex.M = ExM(q)
      /\ ex.cc_in = IF set_cc(q.E.cur.icode) /\ ~halt
                    THEN compute_cc(Alu(q.E.cur).fun, Alu(q.E.cur).a, Alu(q.E.cur).b) ELSE q.cc_in
  BY DEF do_ex_stage, ExM
<1>2. /\ op.F = IF use \/ ret THEN "STALL" ELSE "LOAD"
      /\ op.D = IF use THEN "STALL" ELSE IF mis \/ ret THEN "BUBBLE" ELSE "LOAD"
      /\ op.E = IF mis \/ use THEN "BUBBLE" ELSE "LOAD"
      /\ op.M = IF halt THEN "BUBBLE" ELSE "LOAD"
      /\ op.W = "LOAD"
  <2>1. /\ use \in BOOLEAN /\ ret \in BOOLEAN /\ mis \in BOOLEAN /\ (mis => ~use)
    BY ControlSignals
  <2>2. halt \in BOOLEAN /\ (q.W.cur.status \in Stopping) = FALSE
    BY DEF Stopping
  <2>3. /\ op.F = pipe_cntl(use \/ ret, FALSE)
        /\ op.D = pipe_cntl(use, bub)
        /\ op.E = pipe_cntl(FALSE, mis \/ use)
        /\ op.M = pipe_cntl(FALSE, halt \/ (q.W.cur.status \in Stopping))
        /\ op.W = pipe_cntl(q.W.cur.status \in Stopping, FALSE)
    BY DEF do_stall_check, D_bubble
  <2> HIDE DEF use, ret, mis, halt, op
  <2> QED BY ONLY <2>1, <2>2, <2>3 DEF pipe_cntl, bub
<1>3. /\ DOMAIN p = PipeFields
      /\ p.r = q.r /\ p.m = q.m /\ p.cc = q.cc /\ p.cc_in = ex.cc_in
      /\ p.wb_destE = q.W.cur.deste /\ p.wb_valE = q.W.cur.vale
      /\ p.wb_destM = q.W.cur.destm /\ p.wb_valM = q.W.cur.valm
      /\ p.mem_addr = mem.addr /\ p.mem_data = mem.data /\ p.mem_write = mem.write
      /\ p.F.cur = q.F.cur /\ p.F.nxt = Fetched(q).F /\ p.F.op = op.F
      /\ p.D.cur = q.D.cur /\ p.D.nxt = Fetched(q).D /\ p.D.op = op.D
      /\ p.E.cur = q.E.cur /\ p.E.nxt = IdE(q) /\ p.E.op = op.E
      /\ p.M.cur = q.M.cur /\ p.M.nxt = ExM(q) /\ p.M.op = op.M
      /\ p.W.cur = q.W.cur /\ p.W.nxt = MemW(q) /\ p.W.op = op.W
  <2>1. /\ mem.W = MemW(q)
        /\ do_ex_stage(q, mem.W.status) = ex
        /\ do_id_wb_stages(q, ex.M, mem.W) = IdE(q)
        /\ do_stall_check(q, IdE(q), ex.M, mem.W) = op
        /\ do_if_stage(q.m, f_pc(q)) = Fetched(q)
    BY <1>1 DEF MemW, IdE, Fetched
  <2> DEFINE x == do_ex_stage(q, mem.W.status)
             d == do_id_wb_stages(q, x.M, mem.W)
             o == do_stall_check(q, d, x.M, mem.W)
             fetch == do_if_stage(q.m, f_pc(q))
  <2>2. /\ DOMAIN p = PipeFields
        /\ p.r = q.r /\ p.m = q.m /\ p.cc = q.cc /\ p.cc_in = x.cc_in
        /\ p.wb_destE = q.W.cur.deste /\ p.wb_valE = q.W.cur.vale
        /\ p.wb_destM = q.W.cur.destm /\ p.wb_valM = q.W.cur.valm
        /\ p.mem_addr = mem.addr /\ p.mem_data = mem.data /\ p.mem_write = mem.write
        /\ p.F.cur = q.F.cur /\ p.F.nxt = fetch.F /\ p.F.op = o.F
        /\ p.D.cur = q.D.cur /\ p.D.nxt = fetch.D /\ p.D.op = o.D
        /\ p.E.cur = q.E.cur /\ p.E.nxt = d /\ p.E.op = o.E
        /\ p.M.cur = q.M.cur /\ p.M.nxt = x.M /\ p.M.op = o.M
        /\ p.W.cur = q.W.cur /\ p.W.nxt = mem.W /\ p.W.op = o.W
    BY StagesFields
  <2>3. x = ex /\ d = IdE(q) /\ o = op /\ fetch = Fetched(q)
    BY <2>1
  <2> HIDE DEF p, ex, op, mem, x, d, o, fetch
  <2> QED BY ONLY <1>1, <2>1, <2>2, <2>3
<1> HIDE DEF p, ex, op, use, ret, mis, halt
<1>4. /\ DOMAIN t = PipeFields
      /\ t.r = write_back(p.r, p.wb_destE, p.wb_valE, p.wb_destM, p.wb_valM)
      /\ t.m = IF TRUE /\ p.mem_write THEN set_word_val(p.m, p.mem_addr, p.mem_data) ELSE p.m
      /\ t.cc = p.cc_in
      /\ t.cc_was = p.cc /\ t.cc_in = p.cc_in
      /\ t.F = Clocked(p.F, bubble_pc) /\ t.D = Clocked(p.D, bubble_if_id)
      /\ t.E = Clocked(p.E, bubble_id_ex) /\ t.M = Clocked(p.M, bubble_ex_mem)
      /\ t.W = Clocked(p.W, bubble_mem_wb)
      /\ t.starting_up = p.starting_up /\ t.cycles = p.cycles
      /\ t.instructions = p.instructions
  <2> DEFINE e == Edge(p, TRUE, TRUE)
  <2>1. t = e
    BY DEF Turn, p
  <2>2. DOMAIN p = PipeFields
    BY ONLY <1>3
  <2> HIDE DEF t
  <2>3. /\ DOMAIN e = PipeFields
        /\ e.r = write_back(p.r, p.wb_destE, p.wb_valE, p.wb_destM, p.wb_valM)
        /\ e.m = IF TRUE /\ p.mem_write THEN set_word_val(p.m, p.mem_addr, p.mem_data) ELSE p.m
        /\ e.cc = IF TRUE THEN p.cc_in ELSE p.cc
        /\ e.cc_was = p.cc /\ e.cc_in = p.cc_in
        /\ e.F = Clocked(p.F, bubble_pc) /\ e.D = Clocked(p.D, bubble_if_id)
        /\ e.E = Clocked(p.E, bubble_id_ex) /\ e.M = Clocked(p.M, bubble_ex_mem)
        /\ e.W = Clocked(p.W, bubble_mem_wb)
        /\ e.starting_up = p.starting_up /\ e.cycles = p.cycles
        /\ e.instructions = p.instructions
    BY ONLY <2>2, EdgeFields
  <2> HIDE DEF e
  <2> QED BY ONLY <2>1, <2>3
<1> HIDE DEF t
<1>5. \A X, b : X.op \in Orders => Clocked(X, b).cur = CASE X.op = "STALL" -> X.cur
                                                      [] X.op = "LOAD" -> X.nxt
                                                      [] X.op = "BUBBLE" -> b
  BY DEF Clocked, Orders
<1>6. /\ t.W.cur = MemW(q)
      /\ t.M.cur = IF halt THEN bubble_ex_mem ELSE ExM(q)
      /\ t.E.cur = IF mis \/ use THEN bubble_id_ex ELSE IdE(q)
      /\ t.D.cur = IF use THEN q.D.cur ELSE IF mis \/ ret THEN bubble_if_id ELSE Fetched(q).D
      /\ t.F.cur = IF use \/ ret THEN q.F.cur ELSE Fetched(q).F
  BY ONLY <1>2, <1>3, <1>4, <1>5 DEF Orders
<1> HIDE DEF mem
<1>7. /\ t.r = write_back(q.r, q.W.cur.deste, q.W.cur.vale, q.W.cur.destm, q.W.cur.valm)
      /\ t.m = IF mem.write THEN set_word_val(q.m, mem.addr, mem.data) ELSE q.m
      /\ t.cc = ex.cc_in /\ t.cc_in = t.cc /\ t.cc_was = q.cc
      /\ t.starting_up = p.starting_up /\ t.cycles = p.cycles /\ t.instructions = p.instructions
      /\ DOMAIN t = PipeFields
  BY ONLY <1>3, <1>4
<1> QED BY <1>1, <1>6, <1>7 DEF t, p, use, ret, mis, halt, mem

----------------------------------------------------------------------------
(* What instructions need of the operands they use.                        *)

\* The cycles a run has lost are counted, and never fewer further on.
LEMMA FlowCounts ==
  ASSUME NEW f, NEW N, Flow(f, N)
  PROVE  \A k \in 0 .. N : /\ f[k].bubbles \in Nat /\ f[k].behind \in Nat
                           /\ f[k].bubbles <= f[N].bubbles
<1>1. N \in Nat
  BY DEF Flow
<1>2. \A k \in 0 .. N - 1 :
        /\ f[k + 1].bubbles = f[k].bubbles + f[k].behind + (IF UsesLoad(f, k) THEN 1 ELSE 0)
        /\ f[k + 1].behind = Loses(f[k].s)
  BY DEF Flow
<1>3. \A k \in 0 .. N : f[k].bubbles \in Nat /\ f[k].behind \in Nat
  <2> DEFINE T == {k \in 0 .. N : f[k].bubbles \in Nat /\ f[k].behind \in Nat}
  <2>1. 0 \in T
    BY <1>1 DEF Flow
  <2>2. \A k \in 1 .. N : k - 1 \in T => k \in T
    <3> SUFFICES ASSUME NEW k \in 1 .. N, f[k - 1].bubbles \in Nat, f[k - 1].behind \in Nat
                 PROVE  f[k].bubbles \in Nat /\ f[k].behind \in Nat
      OBVIOUS
    <3>1. k - 1 \in 0 .. N - 1 /\ (k - 1) + 1 = k
      BY <1>1
    <3>2. /\ f[k].bubbles = f[k - 1].bubbles + f[k - 1].behind
                            + (IF UsesLoad(f, k - 1) THEN 1 ELSE 0)
          /\ f[k].behind = Loses(f[k - 1].s)
      BY <1>2, <3>1
    <3>3. Loses(f[k - 1].s) \in Nat
      BY DEF Loses
    <3> QED BY <3>2, <3>3
  <2>3. T \in SUBSET (0 .. N)
    OBVIOUS
  <2>4. T = 0 .. N
    <3> HIDE DEF T
    <3> QED BY ONLY <1>1, <2>1, <2>2, <2>3, UpTo
  <2> QED BY <2>4
<1>4. \A k \in 0 .. N : f[k].bubbles <= f[N].bubbles
  <2> DEFINE T == {d \in 0 .. N : f[N - d].bubbles <= f[N].bubbles}
  <2>1. 0 \in T
    <3>1. N - 0 = N /\ N \in 0 .. N /\ 0 \in 0 .. N
      BY <1>1
    <3> QED BY <1>3, <3>1
  <2>2. \A d \in 1 .. N : d - 1 \in T => d \in T
    <3> SUFFICES ASSUME NEW d \in 1 .. N, f[N - (d - 1)].bubbles <= f[N].bubbles
                 PROVE  f[N - d].bubbles <= f[N].bubbles
      OBVIOUS
    <3> DEFINE k == N - d
    <3>1. k \in 0 .. N - 1 /\ k + 1 = N - (d - 1) /\ k \in 0 .. N /\ k + 1 \in 0 .. N
          /\ N \in 0 .. N
      BY <1>1
    <3> HIDE DEF k
    <3>2. f[k + 1].bubbles = f[k].bubbles + f[k].behind + (IF UsesLoad(f, k) THEN 1 ELSE 0)
      BY <1>2, <3>1
    <3>3. f[k].bubbles \in Nat /\ f[k].behind \in Nat /\ f[k + 1].bubbles \in Nat
          /\ f[N].bubbles \in Nat
      BY <1>3, <3>1
    <3>4. f[k + 1].bubbles <= f[N].bubbles
      BY <3>1
    <3>5. f[k].bubbles <= f[N].bubbles
      BY ONLY <3>2, <3>3, <3>4
    <3> QED BY <3>5 DEF k
  <2>3. T \in SUBSET (0 .. N)
    OBVIOUS
  <2>4. T = 0 .. N
    <3> HIDE DEF T
    <3> QED BY ONLY <1>1, <2>1, <2>2, <2>3, UpTo
  <2> TAKE k \in 0 .. N
  <2>5. N - k \in 0 .. N /\ N - (N - k) = k
    BY <1>1
  <2> QED BY <2>4, <2>5
<1> QED BY <1>3, <1>4

\* One instruction of a run and the next.
LEMMA FlowStep ==
  ASSUME NEW f, NEW N, Flow(f, N), NEW k \in 0 .. N - 1
  PROVE  /\ f[k].s \in States /\ Sound(f[k].s)
         /\ f[k + 1].s.m = NextM(f[k].s) /\ f[k + 1].s.cc = NextCC(f[k].s)
         /\ k + 1 < N => /\ f[k + 1].s.r = NextR(f[k].s) /\ f[k + 1].s.pc = NextPC(f[k].s)
                         /\ Written(f[k].s).status = "AOK"
         /\ k + 1 = N => Written(f[k].s).status \in Stopping /\ f[N].s = f[k].s
         /\ f[k + 1].loaded = dstM(Ins(f[k].s).icode, Ins(f[k].s).ra)
         /\ Enters(f, k) \in Int
         /\ Leaves(f, k) = Enters(f, k) + (IF UsesLoad(f, k) THEN 1 ELSE 0)
         /\ Leaves(f, k) = 2 + k + f[k + 1].bubbles
         /\ Enters(f, k + 1) = Leaves(f, k) + 1 + Loses(f[k].s)
         /\ k + 1 \in 0 .. N
<1>1. N \in Nat /\ k \in 0 .. N /\ k + 1 \in 0 .. N /\ k \in Nat
  BY DEF Flow
<1>2. /\ f[k].s \in States /\ Sound(f[k].s)
      /\ f[k + 1].bubbles = f[k].bubbles + f[k].behind + (IF UsesLoad(f, k) THEN 1 ELSE 0)
      /\ f[k + 1].behind = Loses(f[k].s)
      /\ f[k + 1].loaded = dstM(Ins(f[k].s).icode, Ins(f[k].s).ra)
      /\ f[k + 1].s = IF k + 1 < N THEN After(f[k].s) ELSE f[k].s
      /\ IF k + 1 < N THEN Written(f[k].s).status = "AOK" ELSE Written(f[k].s).status \in Stopping
  BY <1>1 DEF Flow
<1>3. f[k].bubbles \in Nat /\ f[k].behind \in Nat /\ f[k + 1].bubbles \in Nat
  BY <1>1, FlowCounts
<1>4. Enters(f, k) = 2 + k + f[k].bubbles + f[k].behind
      /\ Leaves(f, k) = Enters(f, k) + (IF UsesLoad(f, k) THEN 1 ELSE 0)
      /\ Enters(f, k + 1) = 2 + (k + 1) + f[k + 1].bubbles + f[k + 1].behind
  BY DEF Enters, Leaves
<1>5. Loses(f[k].s) \in Nat
  BY DEF Loses
<1>6. /\ Enters(f, k) \in Int
      /\ Leaves(f, k) = 2 + k + f[k + 1].bubbles
      /\ Enters(f, k + 1) = Leaves(f, k) + 1 + Loses(f[k].s)
  BY ONLY <1>1, <1>2, <1>3, <1>4, <1>5
<1>7. f[k + 1].s.m = NextM(f[k].s) /\ f[k + 1].s.cc = NextCC(f[k].s)
  <2>1. CASE k + 1 < N
    BY <1>2, <2>1 DEF After
  <2>2. CASE ~(k + 1 < N)
    <3>1. Written(f[k].s).status # "AOK"
      BY <1>2, <2>2 DEF Stopping
    <3> QED BY <1>2, <2>2, <3>1 DEF Sound
  <2> QED BY <2>1, <2>2
<1>8. k + 1 < N => f[k + 1].s.r = NextR(f[k].s) /\ f[k + 1].s.pc = NextPC(f[k].s)
  BY <1>2 DEF After
<1>9. k + 1 = N => Written(f[k].s).status \in Stopping /\ f[N].s = f[k].s
  BY <1>1, <1>2
<1> QED BY <1>1, <1>2, <1>4, <1>6, <1>7, <1>8, <1>9

\* The operands that are not used do not matter to what is executed.
LEMMA SameExecutes ==
  ASSUME NEW s, Sound(s), NEW E, SameE(E, Operands(s))
  PROVE  /\ SameM(Execute(E, s.cc), s)
         /\ E.icode = Ins(s).icode /\ Alu(E) = Alu(Operands(s))
<1> DEFINE O == Operands(s)
           ic == Ins(s).icode
           M == Execute(E, s.cc)
<1>1. O.icode = ic
  BY DEF Operands
<1>2. /\ ic \in {"RRMOVQ", "ALU"} => O.srca \in Registers
      /\ ic \in {"RMMOVQ", "MRMOVQ", "ALU", "CALL", "PUSHQ", "RET", "POPQ", "IADDQ"}
           => O.srcb \in Registers
  BY DEF Sound
<1> HIDE DEF O, ic
<1>3. SameE(E, O)
  BY DEF O
<1>4. aluA(E.icode, E.vala, E.valc) = aluA(O.icode, O.vala, O.valc)
  BY <1>1, <1>2, <1>3 DEF SameE, aluA
<1>5. aluB(E.icode, E.valb) = aluB(O.icode, O.valb)
  BY <1>1, <1>2, <1>3 DEF SameE, aluB
<1>6. E.icode = O.icode /\ E.ifun = O.ifun
  BY <1>3 DEF SameE
<1>7. Alu(E) = Alu(O)
  BY <1>4, <1>5, <1>6 DEF Alu
<1> DEFINE X == Execute(O, s.cc)
<1>8. X = Executed(s)
  BY DEF Executed, O
<1>9. /\ M.icode = X.icode /\ M.ifun = X.ifun /\ M.takebranch = X.takebranch
      /\ M.vale = X.vale /\ M.deste = X.deste /\ M.destm = X.destm
      /\ M.status = X.status /\ M.stage_pc = X.stage_pc
      /\ X.icode = O.icode /\ M.vala = E.vala /\ X.vala = O.vala
  BY <1>3, <1>6, <1>7 DEF SameE, Execute
<1>10. O.srca \in Registers \/ X.icode \in {"CALL", "JMP"} => M.vala = X.vala
  BY <1>3, <1>9 DEF SameE
<1> HIDE DEF M, X
<1>11. SameM(M, s)
  BY <1>8, <1>9, <1>10 DEF SameM, O
<1> QED BY <1>1, <1>6, <1>7, <1>11 DEF M, O, ic

\* Nor do they to what it does to memory.
LEMMA SameAccesses ==
  ASSUME NEW s, Sound(s), NEW M, SameM(M, s)
  PROVE  LET A == do_mem_stage(s.m, M)
         IN  /\ A.W = Written(s)
             /\ A.write = Accessed(s).write /\ A.addr = Accessed(s).addr
             /\ A.write => A.data = Accessed(s).data
<1> DEFINE X == Executed(s)
           A == do_mem_stage(s.m, M)
           B == do_mem_stage(s.m, X)
<1>1. Accessed(s) = B /\ Written(s) = B.W
  BY DEF Accessed, Written
<1>2. X.icode = Ins(s).icode
  BY DEF Executed, Execute, Operands
<1>3. /\ X.icode \in {"RMMOVQ", "PUSHQ", "POPQ", "RET"} => Operands(s).srca \in Registers
  BY <1>2 DEF Sound
<1> HIDE DEF X
<1>4. SameM(M, s) /\ X = Executed(s)
  BY DEF X
<1>5. /\ M.icode = X.icode /\ M.ifun = X.ifun
      /\ M.vale = X.vale /\ M.deste = X.deste /\ M.destm = X.destm
      /\ M.status = X.status /\ M.stage_pc = X.stage_pc
      /\ X.icode \in {"RMMOVQ", "PUSHQ", "POPQ", "RET", "CALL"} => M.vala = X.vala
  BY <1>3, <1>4 DEF SameM
<1>6. mem_addr(M.icode, M.vale, M.vala) = mem_addr(X.icode, X.vale, X.vala)
  BY <1>5 DEF mem_addr
<1>7. A.W = B.W /\ A.write = B.write /\ A.addr = B.addr
  BY <1>5, <1>6 DEF do_mem_stage
<1>8. A.write => A.data = B.data
  BY <1>5 DEF do_mem_stage, mem_write
<1> QED BY <1>1, <1>7, <1>8

\* A bubble writes, reads and changes nothing on its way.
LEMMA EmptyStages ==
  ASSUME NEW x, Empty(x), NEW m, NEW cc
  PROVE  /\ Empty(Execute(x, cc)) /\ Execute(x, cc).status = x.status
         /\ Empty(do_mem_stage(m, x).W) /\ do_mem_stage(m, x).W.status = x.status
         /\ do_mem_stage(m, x).write = FALSE /\ ~set_cc(x.icode)
         /\ \A r, ve, vm : write_back(r, x.deste, ve, x.destm, vm) = r
<1>1. x.icode = "NOP" /\ x.deste = REG_NONE /\ x.destm = REG_NONE
  BY DEF Empty
<1>2. ~mem_read("NOP") /\ mem_write("NOP") = FALSE /\ ~set_cc("NOP")
  BY DEF mem_read, mem_write, set_cc
<1>3. \A r, v : set_reg_val(r, REG_NONE, v) = r
  BY DEF set_reg_val, reg_valid, Registers, REG_NONE
<1>4. \A r, ve, vm : write_back(r, x.deste, ve, x.destm, vm) = r
  BY <1>1, <1>3 DEF write_back
<1>5. Empty(Execute(x, cc)) /\ Execute(x, cc).status = x.status
  BY <1>1 DEF Execute, Empty
<1>6. /\ Empty(do_mem_stage(m, x).W) /\ do_mem_stage(m, x).W.status = x.status
      /\ do_mem_stage(m, x).write = FALSE
  BY <1>1, <1>2 DEF do_mem_stage, Empty
<1> QED BY <1>1, <1>2, <1>4, <1>5, <1>6

\* A register after an instruction is what it has written there, or as before.
LEMMA ReadAfter ==
  ASSUME NEW r \in RegFiles, NEW de, NEW ve \in Word, NEW dm, NEW vm \in Word,
         NEW src \in Registers
  PROVE  get_reg_val(write_back(r, de, ve, dm, vm), src)
         = IF src = dm THEN vm ELSE IF src = de THEN ve ELSE get_reg_val(r, src)
<1> DEFINE r1 == set_reg_val(r, de, ve)
           r2 == set_reg_val(r1, dm, vm)
<1>1. r1 \in RegFiles /\ r2 \in RegFiles
  BY SetRegType
<1>2. r1[src] = IF src = de THEN ve ELSE r[src]
  BY DEF set_reg_val, reg_valid, RegFiles
<1>3. r2[src] = IF src = dm THEN vm ELSE r1[src]
  <2> HIDE DEF r1
  <2> QED BY <1>1 DEF set_reg_val, reg_valid, RegFiles
<1> HIDE DEF r1
<1>4. \A x : get_reg_val(x, src) = x[src]
  BY DEF get_reg_val, reg_valid
<1>5. write_back(r, de, ve, dm, vm) = r2
  BY DEF write_back, r1
<1> HIDE DEF r2
<1> QED BY <1>2, <1>3, <1>4, <1>5

----------------------------------------------------------------------------
(* The stages of a window, and what they compute.                          *)

\* What Slots counts.
Slot == {0, 1}

\* A stage holds one instruction or none.
LEMMA SlotIs ==
  ASSUME NEW X
  PROVE  Slots(X) \in Slot /\ (Slots(X) = 0 <=> X.cur.status = "BUB")
BY DEF Slots, Slot

\* An instruction keeps its code and its address on the way to W.
LEMMA WrittenKeepsIcode ==
  ASSUME NEW s
  PROVE  Written(s).icode = Ins(s).icode /\ Written(s).stage_pc = Ins(s).stage_pc
BY DEF Written, Accessed, Executed, Operands, Execute, do_mem_stage

\* It keeps code, status and address on the way to M.
LEMMA ExecutedIs ==
  ASSUME NEW s
  PROVE  /\ Executed(s).icode = Ins(s).icode /\ Executed(s).status = Ins(s).status
         /\ Executed(s).stage_pc = Ins(s).stage_pc
         /\ (Ins(s).icode = "JMP" => Executed(s).vala = Ins(s).valp)
BY DEF Executed, Operands, Execute

\* What W and M make of the window.
Back(q, f, N, n) ==
  /\ N \in Nat /\ n \in 0 .. N - 1
  /\ Slots(q.W) \in Slot /\ Slots(q.M) \in Slot
  /\ Slots(q.W) = 0 => Empty(q.W.cur)
  /\ Slots(q.W) = 1 => /\ n - 1 \in 0 .. N - 1 /\ q.W.cur = Written(f[n - 1].s)
                       /\ q.W.cur.icode = Ins(f[n - 1].s).icode
  /\ Slots(q.M) = 0 => /\ Empty(q.M.cur) /\ Empty(MemW(q)) /\ MemW(q).status = "BUB"
                       /\ do_mem_stage(q.m, q.M.cur).write = FALSE
  /\ Slots(q.M) = 1 => /\ SameM(q.M.cur, f[n].s) /\ MemW(q) = Written(f[n].s)
                       /\ q.M.cur.icode = Ins(f[n].s).icode
                       /\ MemW(q).status # "BUB"
  /\ AtE(q, n) \in 0 .. N
  /\ (AtE(q, n) = N <=> MemW(q).status \in Stopping)
  /\ (AtE(q, n) = N => Slots(q.M) = 1 /\ n + 1 = N)

\* W and M, while W does not stop the processor.
LEMMA WindowBack ==
  ASSUME NEW f, NEW N, Flow(f, N), NEW q, NEW n, NEW c, InPipe(q, f, N, n, c),
         q.W.cur.status \notin Stopping
  PROVE  Back(q, f, N, n)
<1>1. N \in Nat \ {0} /\ n \in 0 .. N /\ (n = N => Slots(q.W) = 1) /\ AtE(q, n) <= N
  BY DEF Flow, InPipe
<1>2. /\ Slots(q.W) \in Slot /\ Slots(q.M) \in Slot
      /\ (Slots(q.M) = 0 => q.M.cur.status = "BUB")
  BY SlotIs
<1>3. Slots(q.W) = 1 => n > 0 /\ q.W.cur = Written(f[n - 1].s)
  BY DEF InPipe, HoldsW
<1>4. n # N
  <2> SUFFICES ASSUME n = N PROVE FALSE
    OBVIOUS
  <2>1. q.W.cur = Written(f[N - 1].s)
    BY <1>1, <1>3
  <2>2. N - 1 \in 0 .. N - 1 /\ (N - 1) + 1 = N
    BY <1>1
  <2>3. Written(f[N - 1].s).status \in Stopping
    BY ONLY Flow(f, N), <2>2, FlowStep
  <2> QED BY <2>1, <2>3
<1>5. n \in 0 .. N - 1 /\ N \in Nat
  BY <1>1, <1>4
<1>6. Slots(q.W) = 0 => Empty(q.W.cur)
  BY DEF InPipe, HoldsW
<1>7. Slots(q.W) = 1 => /\ n - 1 \in 0 .. N - 1 /\ q.W.cur = Written(f[n - 1].s)
                        /\ q.W.cur.icode = Ins(f[n - 1].s).icode
  BY <1>3, <1>5, WrittenKeepsIcode
<1>8. ASSUME Slots(q.M) = 0
      PROVE  /\ Empty(q.M.cur) /\ Empty(MemW(q)) /\ MemW(q).status = "BUB"
             /\ do_mem_stage(q.m, q.M.cur).write = FALSE
  <2>1. Empty(q.M.cur)
    BY <1>8 DEF InPipe, HoldsM
  <2> QED BY <1>2, <1>8, <2>1, EmptyStages DEF MemW
<1>9. ASSUME Slots(q.M) = 1
      PROVE  /\ SameM(q.M.cur, f[n].s) /\ MemW(q) = Written(f[n].s)
             /\ q.M.cur.icode = Ins(f[n].s).icode
             /\ MemW(q).status # "BUB"
             /\ n + 1 \in 0 .. N /\ (n + 1 = N <=> MemW(q).status \in Stopping)
  <2>1. SameM(q.M.cur, f[n].s)
    BY <1>9 DEF InPipe, HoldsM
  <2>2. /\ Sound(f[n].s)
        /\ n + 1 < N => Written(f[n].s).status = "AOK"
        /\ n + 1 = N => Written(f[n].s).status \in Stopping
    BY <1>5, FlowStep
  <2>3. q.m = f[n].s.m
    BY DEF InPipe, Data
  <2>4. MemW(q) = Written(f[n].s)
    <3>1. do_mem_stage(f[n].s.m, q.M.cur).W = Written(f[n].s)
      BY <2>1, <2>2, SameAccesses
    <3> QED BY <2>3, <3>1 DEF MemW
  <2>5. q.M.cur.icode = Ins(f[n].s).icode
    BY <2>1, ExecutedIs DEF SameM
  <2>6. n + 1 \in 0 .. N /\ (n + 1 < N \/ n + 1 = N)
    BY <1>5
  <2> QED BY <2>1, <2>2, <2>4, <2>5, <2>6 DEF Stopping
<1>10. AtE(q, n) = n + Slots(q.M) /\ n + 0 = n /\ (n + 0 # N)
  BY <1>1, <1>4 DEF AtE
<1>11. AtE(q, n) \in 0 .. N
  BY <1>1, <1>2, <1>10 DEF Slot
<1>12. /\ (AtE(q, n) = N <=> MemW(q).status \in Stopping)
       /\ (AtE(q, n) = N => Slots(q.M) = 1 /\ n + 1 = N)
  <2>1. CASE Slots(q.M) = 0
    BY <1>8, <1>10, <2>1 DEF Stopping
  <2>2. CASE Slots(q.M) = 1
    BY <1>9, <1>10, <2>2
  <2> QED BY <1>2, <2>1, <2>2 DEF Slot
<1> QED BY <1>2, <1>5, <1>6, <1>7, <1>8, <1>9, <1>11, <1>12 DEF Back

\* What E makes of it.
InE(q, f, N, n) ==
  LET k == AtE(q, n)
  IN  /\ Slots(q.E) \in Slot
      /\ Slots(q.E) = 0 => /\ Empty(q.E.cur) /\ Empty(ExM(q)) /\ ExM(q).status = "BUB"
                           /\ ~mispredicted(q, ExM(q)) /\ ~set_cc(q.E.cur.icode)
      /\ Slots(q.E) = 1 => ExM(q).status # "BUB"
      /\ Slots(q.E) = 1 /\ k < N =>
           /\ SameE(q.E.cur, Operands(f[k].s)) /\ SameM(ExM(q), f[k].s)
           /\ q.E.cur.icode = Ins(f[k].s).icode
           /\ Alu(q.E.cur) = Alu(Operands(f[k].s))
           /\ (mispredicted(q, ExM(q)) <=> Missed(f[k].s))

\* E.
LEMMA WindowE ==
  ASSUME NEW f, NEW N, Flow(f, N), NEW q, NEW n, NEW c, InPipe(q, f, N, n, c),
         q.W.cur.status \notin Stopping
  PROVE  InE(q, f, N, n)
<1> DEFINE k == AtE(q, n)
<1>1. k \in 0 .. N /\ N \in Nat
  BY WindowBack DEF Back
<1>2. Slots(q.E) \in Slot /\ (Slots(q.E) = 0 <=> q.E.cur.status = "BUB")
  BY SlotIs
<1>3. ExM(q).status = q.E.cur.status
  BY DEF ExM, Execute
<1>4. ASSUME Slots(q.E) = 0
      PROVE  /\ Empty(q.E.cur) /\ Empty(ExM(q)) /\ ExM(q).status = "BUB"
             /\ ~mispredicted(q, ExM(q)) /\ ~set_cc(q.E.cur.icode)
  <2>1. Empty(q.E.cur)
    BY <1>4 DEF InPipe, HoldsE
  <2>2. Empty(ExM(q)) /\ ~set_cc(q.E.cur.icode)
    BY <2>1, EmptyStages DEF ExM
  <2>3. ~mispredicted(q, ExM(q))
    BY <2>1 DEF mispredicted, Empty
  <2> QED BY <1>2, <1>3, <1>4, <2>1, <2>2, <2>3
<1>5. ASSUME Slots(q.E) = 1, k < N
      PROVE  /\ SameE(q.E.cur, Operands(f[k].s)) /\ SameM(ExM(q), f[k].s)
             /\ q.E.cur.icode = Ins(f[k].s).icode
             /\ Alu(q.E.cur) = Alu(Operands(f[k].s))
             /\ (mispredicted(q, ExM(q)) <=> Missed(f[k].s))
  <2>1. SameE(q.E.cur, Operands(f[k].s))
    BY <1>5 DEF InPipe, HoldsE
  <2>2. k \in 0 .. N - 1
    BY <1>1, <1>5
  <2>3. Sound(f[k].s)
    BY <2>2, FlowStep
  <2>4. q.cc = f[k].s.cc
    BY <1>5 DEF InPipe, Data
  <2> HIDE DEF k
  <2>5. /\ SameM(ExM(q), f[k].s)
        /\ q.E.cur.icode = Ins(f[k].s).icode /\ Alu(q.E.cur) = Alu(Operands(f[k].s))
    BY <2>1, <2>3, <2>4, SameExecutes DEF ExM
  <2>6. mispredicted(q, ExM(q)) <=> Missed(f[k].s)
    BY <2>5 DEF mispredicted, Missed, SameM
  <2> QED BY <2>1, <2>5, <2>6
<1> QED BY <1>2, <1>3, <1>4, <1>5 DEF InE

\* What is fetched is no bubble.
LEMMA FetchedStatus ==
  ASSUME NEW m, NEW pc
  PROVE  do_if_stage(m, pc).D.status # "BUB"
BY DEF do_if_stage

\* What D and F make of it.
InD(q, f, N, n) ==
  /\ Slots(q.D) \in Slot
  /\ Slots(q.D) = 0 => /\ Empty(IdE(q)) /\ IdE(q).status = "BUB"
                       /\ q.D.cur = bubble_if_id
  /\ (Slots(q.D) = 0 /\ AtE(q, n) < N => ~loadUse(q, IdE(q)))
  /\ Slots(q.D) = 1 => IdE(q).status # "BUB"
  /\ (AtE(q, n) < N /\ ~mispredicted(q, ExM(q)) => ~Astray(q, f, n))
  /\ Slots(q.D) = 1 /\ AtD(q, n) < N /\ ~mispredicted(q, ExM(q)) /\ AtE(q, n) < N
       => q.D.cur = Ins(f[AtD(q, n)].s)
  /\ Fetched(q).D.status # "BUB"

\* What the stages compute keeps its status, so bubbles stay bubbles.
LEMMA WindowD ==
  ASSUME NEW f, NEW N, Flow(f, N), NEW q, NEW n, NEW c, InPipe(q, f, N, n, c),
         q.W.cur.status \notin Stopping
  PROVE  InD(q, f, N, n)
<1>1. Slots(q.D) \in Slot /\ (Slots(q.D) = 0 <=> q.D.cur.status = "BUB")
  BY SlotIs
<1>2. IdE(q).status = q.D.cur.status
  BY DEF IdE, do_id_wb_stages
<1>3. ASSUME Slots(q.D) = 0
      PROVE  /\ Empty(IdE(q)) /\ IdE(q).status = "BUB" /\ q.D.cur = bubble_if_id
             /\ IdE(q).srca = REG_NONE /\ IdE(q).srcb = REG_NONE
  <2>1. q.D.cur = bubble_if_id
    BY <1>3 DEF InPipe, HoldsD
  <2>2. q.D.cur.icode = "NOP"
    BY <2>1 DEF bubble_if_id
  <2>3. /\ IdE(q).srca = REG_NONE /\ IdE(q).srcb = REG_NONE
        /\ Empty(IdE(q))
    BY <2>2 DEF IdE, do_id_wb_stages, srcA, srcB, dstE, dstM, Empty
  <2> QED BY <1>1, <1>2, <1>3, <2>1, <2>3
<1>7. ASSUME Slots(q.D) = 0, AtE(q, n) < N
      PROVE  ~loadUse(q, IdE(q))
  <2> SUFFICES ASSUME q.E.cur.icode \in {"MRMOVQ", "POPQ"}
               PROVE  q.E.cur.destm # REG_NONE
    BY <1>3, <1>7 DEF loadUse
  <2> DEFINE k == AtE(q, n)
             s == f[k].s
  <2>1. k \in 0 .. N /\ N \in Nat
    BY WindowBack DEF Back
  <2>2. k \in 0 .. N - 1 /\ k < N
    BY <1>7, <2>1
  <2>3. Slots(q.E) = 1
    BY WindowE DEF InE, Empty, Slot
  <2>4. SameE(q.E.cur, Operands(s)) /\ q.E.cur.icode = Ins(s).icode
    BY <2>2, <2>3, WindowE DEF InE
  <2>5. Sound(s)
    BY <2>2, FlowStep
  <2>6. Operands(s).destm = dstM(Ins(s).icode, Ins(s).ra)
    BY DEF Operands
  <2> HIDE DEF s, k
  <2>7. Ins(s).ra \in Registers /\ q.E.cur.destm = Ins(s).ra
    BY <2>4, <2>5, <2>6 DEF Sound, SameE, dstM
  <2> QED BY <2>7 DEF Registers, REG_NONE
<1>4. AtE(q, n) < N /\ ~mispredicted(q, ExM(q)) => ~Astray(q, f, n)
  BY WindowE DEF InE, Astray
<1>5. Slots(q.D) = 1 /\ AtD(q, n) < N /\ ~mispredicted(q, ExM(q)) /\ AtE(q, n) < N
        => q.D.cur = Ins(f[AtD(q, n)].s)
  BY <1>4 DEF InPipe, HoldsD
<1>6. Fetched(q).D.status # "BUB"
  BY FetchedStatus DEF Fetched
<1> QED BY <1>1, <1>2, <1>3, <1>4, <1>5, <1>6, <1>7 DEF InD

----------------------------------------------------------------------------
(* The clock edge: what W and M hold then, and the data.                   *)

\* The next clock edge keeps the types.
LEMMA TurnTyped ==
  ASSUME NEW q, CurType(q)
  PROVE  CurType(Turn(q))
BY StagesType, EdgeType DEF Turn

\* The clock edge moves M to W and E to M.
LEMMA TurnMoves ==
  ASSUME NEW f, NEW N, Flow(f, N), NEW q, NEW n, NEW c, InPipe(q, f, N, n, c),
         q.W.cur.status \notin Stopping
  PROVE  LET t == Turn(q)
             k == AtE(q, n)
         IN  /\ k \in 0 .. N /\ (k = N => Slots(t.W) = 1)
             /\ Slots(t.W) = Slots(q.M)
             /\ Slots(t.M) = IF k = N THEN 0 ELSE Slots(q.E)
             /\ AtE(t, k) = IF k = N THEN N ELSE AtD(q, n)
             /\ AtE(t, k) <= N
             /\ HoldsW(t, f, k) /\ HoldsM(t, f, N, k)
<1> DEFINE t == Turn(q)
           k == AtE(q, n)
<1>0. Back(q, f, N, n) /\ InE(q, f, N, n)
  BY WindowBack, WindowE
<1>1. /\ N \in Nat /\ n \in 0 .. N - 1
      /\ Slots(q.M) \in Slot
      /\ Slots(q.M) = 0 => Empty(MemW(q)) /\ MemW(q).status = "BUB"
      /\ Slots(q.M) = 1 => MemW(q) = Written(f[n].s) /\ MemW(q).status # "BUB"
      /\ k \in 0 .. N
      /\ (k = N <=> MemW(q).status \in Stopping)
      /\ (k = N => Slots(q.M) = 1)
  BY <1>0 DEF Back
<1>2. /\ Slots(q.E) \in Slot
      /\ Slots(q.E) = 0 => Empty(ExM(q)) /\ ExM(q).status = "BUB"
      /\ Slots(q.E) = 1 => ExM(q).status # "BUB"
      /\ Slots(q.E) = 1 /\ k < N => SameM(ExM(q), f[k].s)
  BY <1>0 DEF InE
<1>3. /\ t.W.cur = MemW(q)
      /\ t.M.cur = IF k = N THEN bubble_ex_mem ELSE ExM(q)
  BY <1>1, TurnFields
<1>4. k = n + Slots(q.M) /\ AtD(q, n) = k + Slots(q.E)
  BY DEF AtE, AtD
<1> HIDE DEF k, t
<1>5. Slots(t.W) = Slots(q.M)
  BY <1>1, <1>3 DEF Slots, Slot
<1>6. HoldsW(t, f, k)
  <2>1. CASE Slots(q.M) = 1
    <3>1. k > 0 /\ k - 1 = n
      BY <1>1, <1>4, <2>1
    <3> QED BY <1>1, <1>3, <1>5, <2>1, <3>1 DEF HoldsW
  <2>2. CASE Slots(q.M) = 0
    BY <1>1, <1>3, <1>5, <2>2 DEF HoldsW
  <2> QED BY <1>1, <2>1, <2>2 DEF Slot
<1>7. Slots(t.M) = IF k = N THEN 0 ELSE Slots(q.E)
  <2>1. bubble_ex_mem.status = "BUB"
    BY DEF bubble_ex_mem
  <2> QED BY <1>2, <1>3, <2>1 DEF Slots, Slot
<1>8. HoldsM(t, f, N, k)
  <2>1. CASE k = N
    <3>1. Empty(bubble_ex_mem)
      BY DEF Empty, bubble_ex_mem
    <3> QED BY <1>3, <1>7, <2>1, <3>1 DEF HoldsM
  <2>2. CASE k # N
    <3>1. k < N
      BY <1>1, <2>2
    <3> QED BY <1>2, <1>3, <1>7, <2>2, <3>1 DEF HoldsM, Slot
  <2> QED BY <2>1, <2>2
<1>9. AtE(t, k) = k + Slots(t.M)
  BY DEF AtE
<1>10. AtE(t, k) = IF k = N THEN N ELSE AtD(q, n)
  BY <1>1, <1>4, <1>7, <1>9
<1>11. AtE(t, k) <= N
  BY <1>1, <1>2, <1>4, <1>10 DEF Slot
<1>12. k = N => Slots(t.W) = 1
  BY <1>1, <1>5
<1> QED BY <1>1, <1>5, <1>6, <1>7, <1>8, <1>10, <1>11, <1>12 DEF t, k

\* It writes registers, memory and condition codes as the run does.
LEMMA TurnData ==
  ASSUME NEW f, NEW N, Flow(f, N), NEW q, NEW n, NEW c, InPipe(q, f, N, n, c),
         q.W.cur.status \notin Stopping
  PROVE  Data(Turn(q), f, N, AtE(q, n))
<1> DEFINE t == Turn(q)
           k == AtE(q, n)
           A == Alu(q.E.cur)
           mem == do_mem_stage(q.m, q.M.cur)
<1>0. Back(q, f, N, n) /\ InE(q, f, N, n)
  BY WindowBack, WindowE
<1>1. /\ N \in Nat /\ n \in 0 .. N - 1 /\ n + 1 \in 0 .. N
      /\ Slots(q.W) \in Slot /\ Slots(q.M) \in Slot
      /\ Slots(q.W) = 0 => Empty(q.W.cur)
      /\ Slots(q.W) = 1 => n - 1 \in 0 .. N - 1 /\ q.W.cur = Written(f[n - 1].s)
      /\ Slots(q.M) = 0 => mem.write = FALSE
      /\ Slots(q.M) = 1 => SameM(q.M.cur, f[n].s)
      /\ k \in 0 .. N
      /\ (k = N <=> MemW(q).status \in Stopping)
      /\ (k = N => Slots(q.M) = 1)
  BY <1>0 DEF Back
<1>2. k = n + Slots(q.M) /\ AtD(q, n) = k + Slots(q.E)
  BY DEF AtE, AtD
<1>3. /\ q.r = f[n - Slots(q.W)].s.r /\ q.m = f[n].s.m
      /\ q.cc = f[IF k < N THEN k ELSE N].s.cc /\ q.cc_in = q.cc
  BY DEF InPipe, Data
<1>4. /\ t.r = write_back(q.r, q.W.cur.deste, q.W.cur.vale, q.W.cur.destm, q.W.cur.valm)
      /\ t.m = IF mem.write THEN set_word_val(q.m, mem.addr, mem.data) ELSE q.m
      /\ t.cc = IF set_cc(q.E.cur.icode) /\ MemW(q).status \notin Stopping
                THEN compute_cc(A.fun, A.a, A.b) ELSE q.cc_in
      /\ t.cc_was = q.cc /\ t.cc_in = t.cc
  BY TurnFields
<1>5. t.r = f[n].s.r
  <2>1. CASE Slots(q.W) = 0
    <3>1. n - 0 = n
      BY <1>1
    <3>2. t.r = q.r
        <4>1. Empty(q.W.cur)
        BY <1>1, <2>1
      <4>2. \A r, ve, vm : write_back(r, q.W.cur.deste, ve, q.W.cur.destm, vm) = r
        BY <4>1, EmptyStages
      <4> QED BY <1>4, <4>2
    <3> QED BY <1>3, <2>1, <3>1, <3>2
  <2>2. CASE Slots(q.W) = 1
    <3>1. (n - 1) + 1 = n /\ n < N
      BY <1>1
    <3>2. f[(n - 1) + 1].s.r = NextR(f[n - 1].s)
      BY <1>1, <2>2, <3>1, FlowStep
    <3> QED BY <1>1, <1>3, <1>4, <2>2, <3>1, <3>2 DEF NextR
  <2> QED BY <1>1, <2>1, <2>2 DEF Slot
<1>6. t.m = f[k].s.m
  <2>1. CASE Slots(q.M) = 0
    <3>1. n + 0 = n
      BY <1>1
    <3> QED BY <1>1, <1>2, <1>3, <1>4, <2>1, <3>1
  <2>2. CASE Slots(q.M) = 1
    <3>1. Sound(f[n].s) /\ f[n + 1].s.m = NextM(f[n].s)
      BY <1>1, FlowStep
    <3>2. LET B == do_mem_stage(f[n].s.m, q.M.cur)
          IN  /\ B.write = Accessed(f[n].s).write /\ B.addr = Accessed(f[n].s).addr
              /\ B.write => B.data = Accessed(f[n].s).data
      BY <1>1, <2>2, <3>1, SameAccesses
    <3>3. mem = do_mem_stage(f[n].s.m, q.M.cur)
      BY <1>3
    <3> HIDE DEF mem
    <3>4. /\ mem.write = Accessed(f[n].s).write /\ mem.addr = Accessed(f[n].s).addr
          /\ mem.write => mem.data = Accessed(f[n].s).data
      BY ONLY <3>2, <3>3
    <3>5. t.m = NextM(f[n].s)
      BY <1>3, <1>4, <3>4 DEF NextM
    <3> QED BY <1>2, <2>2, <3>1, <3>5
  <2> QED BY <1>1, <2>1, <2>2 DEF Slot
<1>7. t.cc_was = f[k].s.cc
  <2>1. (IF k < N THEN k ELSE N) = k
    BY <1>1
  <2> QED BY <1>3, <1>4, <2>1
<1>8. /\ Slots(t.W) = Slots(q.M) /\ AtE(t, k) = IF k = N THEN N ELSE AtD(q, n)
  BY TurnMoves
<1>9. t.cc = f[IF AtE(t, k) < N THEN AtE(t, k) ELSE N].s.cc
  <2>1. CASE k = N
    <3>1. ~(N < N)
      BY <1>1
    <3> QED BY <1>1, <1>3, <1>4, <1>8, <2>1, <3>1
  <2>2. CASE k # N
    <3>1. k < N /\ k \in 0 .. N - 1 /\ k + 1 \in 0 .. N
      BY <1>1, <2>2
    <3>2. /\ Slots(q.E) \in Slot
          /\ Slots(q.E) = 0 => ~set_cc(q.E.cur.icode)
          /\ Slots(q.E) = 1 => /\ q.E.cur.icode = Ins(f[k].s).icode
                               /\ A = Alu(Operands(f[k].s))
      BY <1>0, <3>1 DEF InE
    <3>3. f[k + 1].s.cc = NextCC(f[k].s)
      BY <3>1, FlowStep
    <3>4. CASE Slots(q.E) = 0
      <4>1. AtE(t, k) = k
        BY <1>1, <1>2, <1>8, <2>2, <3>4
      <4> QED BY <1>3, <1>4, <3>1, <3>2, <3>4, <4>1
    <3>5. CASE Slots(q.E) = 1
      <4>1. AtE(t, k) = k + 1 /\ (IF k + 1 < N THEN k + 1 ELSE N) = k + 1
        BY <1>1, <1>2, <1>8, <2>2, <3>1, <3>5
      <4>2. t.cc = NextCC(f[k].s)
        <5>1. MemW(q).status \notin Stopping
          BY <1>1, <2>2
        <5>2. q.cc = f[k].s.cc
          BY <1>3, <3>1
        <5> HIDE DEF A, k
        <5> QED BY <1>3, <1>4, <3>2, <3>5, <5>1, <5>2 DEF NextCC
      <4> QED BY <3>3, <4>1, <4>2
    <3> QED BY <3>2, <3>4, <3>5 DEF Slot
  <2> QED BY <2>1, <2>2
<1>10. k - Slots(t.W) = n
  BY <1>1, <1>2, <1>8 DEF Slot
<1> HIDE DEF k, t
<1>11. Data(t, f, N, k)
  BY <1>4, <1>5, <1>6, <1>7, <1>9, <1>10 DEF Data
<1> QED BY <1>11 DEF t, k

----------------------------------------------------------------------------
(* Forwarding.                                                             *)

\* The register file after the instructions in W, M and E, by what the stages
\* hold and compute.
LEMMA RegistersAhead ==
  ASSUME NEW f, NEW N, Flow(f, N), NEW q, NEW n, NEW c, InPipe(q, f, N, n, c),
         q.W.cur.status \notin Stopping, AtD(q, n) < N
  PROVE  LET k == AtE(q, n)
             W == q.W.cur
             M == MemW(q)
             X == ExM(q)
         IN  /\ k \in 0 .. N - 1 /\ AtD(q, n) \in 0 .. N - 1
             /\ f[n].s.r = write_back(q.r, W.deste, W.vale, W.destm, W.valm)
             /\ f[k].s.r = write_back(f[n].s.r, M.deste, M.vale, M.destm, M.valm)
             /\ \E v \in Word :
                  f[AtD(q, n)].s.r = write_back(f[k].s.r, X.deste, X.vale, X.destm, v)
<1> DEFINE k == AtE(q, n)
           W == q.W.cur
           M == MemW(q)
           X == ExM(q)
<1>0. Back(q, f, N, n) /\ InE(q, f, N, n)
  BY WindowBack, WindowE
<1>1. /\ N \in Nat /\ n \in 0 .. N - 1
      /\ Slots(q.M) \in Slot
      /\ Slots(q.M) = 0 => Empty(M)
      /\ Slots(q.M) = 1 => M = Written(f[n].s)
      /\ k \in 0 .. N
  BY <1>0 DEF Back
<1>2. /\ Slots(q.E) \in Slot
      /\ Slots(q.E) = 0 => Empty(X)
      /\ Slots(q.E) = 1 /\ k < N => SameM(X, f[k].s)
  BY <1>0 DEF InE
<1>3. k = n + Slots(q.M) /\ AtD(q, n) = k + Slots(q.E)
  BY DEF AtE, AtD
<1>4. k \in 0 .. N - 1 /\ k < N
  BY <1>1, <1>2, <1>3 DEF Slot
<1>5. f[n].s.r = write_back(q.r, W.deste, W.vale, W.destm, W.valm)
  <2> DEFINE t == Turn(q)
  <2>1. t.r = write_back(q.r, W.deste, W.vale, W.destm, W.valm)
    BY TurnFields
  <2>2. Data(t, f, N, k) /\ Slots(t.W) = Slots(q.M)
    BY TurnData, TurnMoves
  <2> HIDE DEF t, k
  <2>3. t.r = f[k - Slots(t.W)].s.r
    BY <2>2 DEF Data
  <2>4. k - Slots(t.W) = n
    BY <1>1, <1>3, <2>2 DEF Slot
  <2> QED BY <2>1, <2>3, <2>4
<1> HIDE DEF k, M, X
<1>6. f[k].s.r = write_back(f[n].s.r, M.deste, M.vale, M.destm, M.valm)
  <2>1. CASE Slots(q.M) = 0
    <3>1. k = n
      BY <1>1, <1>3, <2>1
    <3>2. \A r, ve, vm : write_back(r, M.deste, ve, M.destm, vm) = r
      BY <1>1, <2>1, EmptyStages
    <3> QED BY <3>1, <3>2
  <2>2. CASE Slots(q.M) = 1
    <3>1. k = n + 1 /\ n + 1 < N
      BY <1>1, <1>3, <1>4, <2>2
    <3>2. f[n + 1].s.r = NextR(f[n].s)
      BY <1>1, <3>1, FlowStep
    <3> QED BY <1>1, <2>2, <3>1, <3>2 DEF NextR
  <2> QED BY <1>1, <2>1, <2>2 DEF Slot
<1>7. \E v \in Word : f[AtD(q, n)].s.r = write_back(f[k].s.r, X.deste, X.vale, X.destm, v)
  <2>1. CASE Slots(q.E) = 0
    <3>1. AtD(q, n) = k
      BY <1>1, <1>3, <2>1
    <3>2. \A r, ve, vm : write_back(r, X.deste, ve, X.destm, vm) = r
      BY <1>2, <2>1, EmptyStages
    <3> QED BY <3>1, <3>2, WordInt
  <2>2. CASE Slots(q.E) = 1
    <3>1. AtD(q, n) = k + 1 /\ k + 1 < N
      BY <1>1, <1>3, <2>2
    <3>2. f[k + 1].s.r = NextR(f[k].s) /\ f[k].s \in States
      BY <1>4, <3>1, FlowStep
    <3> DEFINE s == f[k].s
    <3>3. SameM(X, s)
      BY <1>2, <1>4, <2>2
    <3> HIDE DEF s
    <3>4. X.deste = Written(s).deste /\ X.vale = Written(s).vale /\ X.destm = Written(s).destm
      BY <3>3 DEF SameM, Written, Accessed, do_mem_stage
    <3>5. Written(s).valm \in Word
      BY <3>2, SignalTypes DEF s, WType
    <3>6. f[k + 1].s.r = write_back(s.r, X.deste, X.vale, X.destm, Written(s).valm)
      BY <3>2, <3>4 DEF s, NextR
    <3> QED BY <3>1, <3>5, <3>6 DEF s
  <2> QED BY <1>2, <2>1, <2>2 DEF Slot
<1>8. AtD(q, n) \in 0 .. N - 1
  BY <1>1, <1>2, <1>3, <1>4 DEF Slot
<1> QED BY <1>4, <1>5, <1>6, <1>7, <1>8 DEF k, M, X

\* An operand that does not wait for a load has its value when it leaves D.
LEMMA ForwardsRight ==
  ASSUME NEW f, NEW N, Flow(f, N), NEW q, NEW n, NEW c, InPipe(q, f, N, n, c),
         q.W.cur.status \notin Stopping, AtD(q, n) < N,
         NEW src \in Registers, src # q.E.cur.destm
  PROVE  Forward(q, ExM(q), MemW(q), src) = get_reg_val(f[AtD(q, n)].s.r, src)
<1> DEFINE k == AtE(q, n)
           d == AtD(q, n)
           W == q.W.cur
           M == MemW(q)
           X == ExM(q)
<1>1. /\ k \in 0 .. N - 1 /\ d \in 0 .. N - 1
      /\ f[n].s.r = write_back(q.r, W.deste, W.vale, W.destm, W.valm)
      /\ f[k].s.r = write_back(f[n].s.r, M.deste, M.vale, M.destm, M.valm)
      /\ \E v \in Word : f[d].s.r = write_back(f[k].s.r, X.deste, X.vale, X.destm, v)
  BY RegistersAhead
<1>2. M.deste = q.M.cur.deste /\ M.vale = q.M.cur.vale /\ M.destm = q.M.cur.destm
  BY DEF MemW, do_mem_stage
<1>3. X.destm = q.E.cur.destm
  BY DEF ExM, Execute
<1>4. CurType(q)
  BY DEF InPipe
<1>5. q.r \in RegFiles /\ W.vale \in Word /\ W.valm \in Word
  BY <1>4 DEF CurType, WType
<1>6. M.vale \in Word /\ M.valm \in Word
  BY <1>4, MemStageType DEF CurType, MemW, WType
<1>7. X.vale \in Word
  BY <1>4, ExecuteType DEF CurType, ExM, MType
<1>8. f[n].s.r \in RegFiles /\ f[k].s.r \in RegFiles
  <2>1. f[n].s \in States /\ f[k].s \in States
    <3>0. Back(q, f, N, n)
      BY WindowBack
    <3>1. N \in Nat /\ n \in 0 .. N /\ k \in 0 .. N
      BY <3>0 DEF Back
    <3> HIDE DEF k
    <3> QED BY <3>1 DEF Flow
  <2> QED BY <2>1, StateFields
<1> HIDE DEF k, d, W, M, X
<1>9. PICK v \in Word : f[d].s.r = write_back(f[k].s.r, X.deste, X.vale, X.destm, v)
  BY <1>1
<1>10. get_reg_val(f[n].s.r, src)
       = IF src = W.destm THEN W.valm ELSE IF src = W.deste THEN W.vale ELSE get_reg_val(q.r, src)
  BY <1>1, <1>5, ReadAfter
<1>11. get_reg_val(f[k].s.r, src)
       = IF src = M.destm THEN M.valm ELSE IF src = M.deste THEN M.vale
         ELSE get_reg_val(f[n].s.r, src)
  BY <1>1, <1>6, <1>8, ReadAfter
<1>12. get_reg_val(f[d].s.r, src)
       = IF src = X.destm THEN v ELSE IF src = X.deste THEN X.vale ELSE get_reg_val(f[k].s.r, src)
  BY <1>7, <1>8, <1>9, ReadAfter
<1>13. Forward(q, X, M, src)
       = IF src = X.deste THEN X.vale ELSE IF src = q.M.cur.destm THEN M.valm
         ELSE IF src = q.M.cur.deste THEN q.M.cur.vale ELSE IF src = W.destm THEN W.valm
         ELSE IF src = W.deste THEN W.vale ELSE get_reg_val(q.r, src)
  BY ONLY TRUE DEF Forward, W
<1>14. src # X.destm
  BY <1>3
<1>15. Forward(q, X, M, src) = get_reg_val(f[d].s.r, src)
  BY ONLY <1>2, <1>10, <1>11, <1>12, <1>13, <1>14
<1> QED BY <1>15 DEF X, M, d

\* What leaves D for E.
LEMMA OperandsRight ==
  ASSUME NEW f, NEW N, Flow(f, N), NEW q, NEW n, NEW c, InPipe(q, f, N, n, c),
         q.W.cur.status \notin Stopping, AtD(q, n) < N,
         q.D.cur = Ins(f[AtD(q, n)].s), ~loadUse(q, IdE(q))
  PROVE  SameE(IdE(q), Operands(f[AtD(q, n)].s))
<1> DEFINE s == f[AtD(q, n)].s
           E == IdE(q)
           O == Operands(s)
           D == Ins(s)
           val(src) == Forward(q, ExM(q), MemW(q), src)
<1>1. /\ E.icode = D.icode /\ E.ifun = D.ifun /\ E.valc = D.valc
      /\ E.vala = IF D.icode \in {"CALL", "JMP"} THEN D.valp ELSE val(E.srca)
      /\ E.valb = val(E.srcb)
      /\ E.srca = srcA(D.icode, D.ra) /\ E.srcb = srcB(D.icode, D.rb)
      /\ E.deste = dstE(D.icode, D.rb) /\ E.destm = dstM(D.icode, D.ra)
      /\ E.status = D.status /\ E.stage_pc = D.stage_pc
  BY DEF IdE, do_id_wb_stages
<1>2. /\ O.icode = D.icode /\ O.ifun = D.ifun /\ O.valc = D.valc
      /\ O.vala = IF D.icode \in {"CALL", "JMP"} THEN D.valp ELSE get_reg_val(s.r, O.srca)
      /\ O.valb = get_reg_val(s.r, O.srcb)
      /\ O.srca = srcA(D.icode, D.ra) /\ O.srcb = srcB(D.icode, D.rb)
      /\ O.deste = dstE(D.icode, D.rb) /\ O.destm = dstM(D.icode, D.ra)
      /\ O.status = D.status /\ O.stage_pc = D.stage_pc
  BY DEF Operands
<1>3. \A src \in {E.srca, E.srcb} : src \in Registers => src # q.E.cur.destm
  <2> SUFFICES ASSUME NEW src \in {E.srca, E.srcb}, src \in Registers, src = q.E.cur.destm
               PROVE  FALSE
    OBVIOUS
  <2>1. q.E.cur.icode \notin {"MRMOVQ", "POPQ"}
    BY DEF loadUse
  <2> DEFINE k == AtE(q, n)
  <2>2. k \in 0 .. N - 1 /\ k < N
    <3>1. k \in 0 .. N - 1 /\ N \in Nat
      BY RegistersAhead DEF Flow
    <3> QED BY <3>1
  <2>3. InE(q, f, N, n)
    BY WindowE
  <2>4. q.E.cur.destm = REG_NONE
    <3>1. CASE Slots(q.E) = 0
      BY <2>3, <3>1 DEF InE, Empty
    <3>2. CASE Slots(q.E) = 1
      <4>1. SameE(q.E.cur, Operands(f[k].s)) /\ q.E.cur.icode = Ins(f[k].s).icode
        BY <2>2, <2>3, <3>2 DEF InE
      <4>2. Operands(f[k].s).destm = dstM(Ins(f[k].s).icode, Ins(f[k].s).ra)
        BY DEF Operands
      <4> HIDE DEF k
      <4>3. q.E.cur.destm = dstM(q.E.cur.icode, Ins(f[k].s).ra)
        BY <4>1, <4>2 DEF SameE
      <4> QED BY <2>1, <4>3 DEF dstM
    <3> QED BY <2>3, <3>1, <3>2 DEF InE, Slot
  <2> QED BY <2>4 DEF Registers, REG_NONE
<1>4. \A src \in {E.srca, E.srcb} : src \in Registers => val(src) = get_reg_val(s.r, src)
  BY <1>3, ForwardsRight
<1> HIDE DEF s, E, O, D, val
<1>5. SameE(E, O)
  BY <1>1, <1>2, <1>4 DEF SameE
<1> QED BY <1>5 DEF E, O, s

----------------------------------------------------------------------------
(* The clock edge, and the hazards that hold it up.                        *)

\* The two hazards of the cycle.
Uses1(q) == loadUse(q, IdE(q))
Missed1(q) == mispredicted(q, ExM(q))

\* The clock edge, stage by stage.
Turned(q, f, N, n) ==
  LET t == Turn(q)
      k == AtE(q, n)
  IN  /\ t.E.cur = IF Missed1(q) \/ Uses1(q) THEN bubble_id_ex ELSE IdE(q)
      /\ t.D.cur = IF Uses1(q) THEN q.D.cur
                   ELSE IF Missed1(q) \/ retInPipe(q) THEN bubble_if_id ELSE Fetched(q).D
      /\ t.F.cur = IF Uses1(q) \/ retInPipe(q) THEN q.F.cur ELSE Fetched(q).F
      /\ Slots(t.W) = Slots(q.M) /\ Slots(t.M) = IF k = N THEN 0 ELSE Slots(q.E)
      /\ Slots(t.E) = IF Missed1(q) \/ Uses1(q) THEN 0 ELSE Slots(q.D)
      /\ Slots(t.D) = IF Uses1(q) THEN Slots(q.D)
                      ELSE IF Missed1(q) \/ retInPipe(q) THEN 0 ELSE 1
      /\ AtE(t, k) = IF k = N THEN N ELSE AtD(q, n)
      /\ AtD(t, k) = AtE(t, k) + Slots(t.E)
      /\ AtF(t, k) = AtD(t, k) + Slots(t.D)
      /\ Uses1(q) \in BOOLEAN /\ retInPipe(q) \in BOOLEAN /\ Missed1(q) \in BOOLEAN
      /\ Missed1(q) => ~Uses1(q) /\ Slots(q.E) = 1
      /\ Uses1(q) => Slots(q.E) = 1
      /\ Uses1(q) /\ k < N => Slots(q.D) = 1
      /\ Slots(t.E) = 0 => Empty(t.E.cur)
      /\ Slots(t.D) = 0 => t.D.cur = bubble_if_id
      /\ N \in Nat \ {0} /\ n \in 0 .. N - 1 /\ k \in 0 .. N
      /\ Slots(q.W) \in Slot /\ Slots(q.M) \in Slot /\ Slots(q.E) \in Slot /\ Slots(q.D) \in Slot
      /\ k = n + Slots(q.M) /\ AtD(q, n) = k + Slots(q.E) /\ AtF(q, n) = AtD(q, n) + Slots(q.D)

\* What the clock edge loads.
LEMMA TurnLoads ==
  ASSUME NEW f, NEW N, Flow(f, N), NEW q, NEW n, NEW c, InPipe(q, f, N, n, c),
         q.W.cur.status \notin Stopping
  PROVE  Turned(q, f, N, n)
<1> DEFINE t == Turn(q)
           k == AtE(q, n)
           use == Uses1(q)
           mis == Missed1(q)
           ret == retInPipe(q)
<1>1. Back(q, f, N, n) /\ InE(q, f, N, n) /\ InD(q, f, N, n)
  BY WindowBack, WindowE, WindowD
<1>2. /\ use \in BOOLEAN /\ ret \in BOOLEAN /\ mis \in BOOLEAN /\ (mis => ~use)
  BY ControlSignals DEF Uses1, Missed1
<1>3. /\ t.E.cur = IF mis \/ use THEN bubble_id_ex ELSE IdE(q)
      /\ t.D.cur = IF use THEN q.D.cur ELSE IF mis \/ ret THEN bubble_if_id ELSE Fetched(q).D
      /\ t.F.cur = IF use \/ ret THEN q.F.cur ELSE Fetched(q).F
  BY TurnFields DEF Uses1, Missed1
<1>4. /\ Slots(t.W) = Slots(q.M) /\ Slots(t.M) = IF k = N THEN 0 ELSE Slots(q.E)
      /\ AtE(t, k) = IF k = N THEN N ELSE AtD(q, n)
  BY TurnMoves
<1>5. /\ AtD(t, k) = AtE(t, k) + Slots(t.E) /\ AtF(t, k) = AtD(t, k) + Slots(t.D)
      /\ k = n + Slots(q.M) /\ AtD(q, n) = k + Slots(q.E) /\ AtF(q, n) = AtD(q, n) + Slots(q.D)
  BY DEF AtE, AtD, AtF
<1>6. /\ Slots(q.D) \in Slot
      /\ Slots(q.D) = 0 => Empty(IdE(q)) /\ IdE(q).status = "BUB" /\ q.D.cur = bubble_if_id
      /\ (Slots(q.D) = 0 /\ k < N => ~use)
      /\ Slots(q.D) = 1 => IdE(q).status # "BUB"
      /\ Fetched(q).D.status # "BUB"
  BY <1>1 DEF InD, Uses1
<1>7. /\ Slots(q.E) \in Slot
      /\ Slots(q.E) = 0 => Empty(q.E.cur) /\ ~mis
  BY <1>1 DEF InE, Missed1
<1>8. Slots(q.E) = 0 => ~use
  BY <1>7 DEF Uses1, loadUse, Empty
<1>9. N \in Nat /\ n \in 0 .. N - 1 /\ Slots(q.W) \in Slot /\ Slots(q.M) \in Slot /\ k \in 0 .. N
  BY <1>1 DEF Back
<1>10. N \in Nat \ {0}
  BY <1>9
<1>11. bubble_id_ex.status = "BUB" /\ Empty(bubble_id_ex) /\ bubble_if_id.status = "BUB"
  BY DEF bubble_id_ex, bubble_if_id, Empty
<1> HIDE DEF t, use, mis, ret, k
<1>12. Slots(t.E) = IF mis \/ use THEN 0 ELSE Slots(q.D)
  BY <1>3, <1>6, <1>11 DEF Slots, Slot
<1>13. Slots(t.D) = IF use THEN Slots(q.D) ELSE IF mis \/ ret THEN 0 ELSE 1
  BY <1>3, <1>6, <1>11 DEF Slots, Slot
<1>14. Slots(t.E) = 0 => Empty(t.E.cur)
  BY <1>3, <1>6, <1>11, <1>12 DEF Slot
<1>15. Slots(t.D) = 0 => t.D.cur = bubble_if_id
  BY <1>3, <1>6, <1>13
<1>16. /\ mis => ~use /\ Slots(q.E) = 1
       /\ use => Slots(q.E) = 1
       /\ use /\ k < N => Slots(q.D) = 1
  BY <1>2, <1>6, <1>7, <1>8 DEF Slot
<1> QED BY <1>2, <1>3, <1>4, <1>5, <1>6, <1>7, <1>9, <1>10, <1>12, <1>13, <1>14, <1>15, <1>16
        DEF Turned, t, use, mis, ret, k

\* The instruction in D waits for the one in E just when the run says so.
LEMMA WaitsForLoad ==
  ASSUME NEW f, NEW N, Flow(f, N), NEW q, NEW n, NEW c, InPipe(q, f, N, n, c),
         q.W.cur.status \notin Stopping, AtE(q, n) < N, AtD(q, n) < N,
         Slots(q.E) = 1, Slots(q.D) = 1, ~Missed1(q)
  PROVE  Uses1(q) <=> UsesLoad(f, AtD(q, n))
<1> DEFINE k == AtE(q, n)
           E == q.E.cur
<1>1. Back(q, f, N, n) /\ InE(q, f, N, n) /\ InD(q, f, N, n)
  BY WindowBack, WindowE, WindowD
<1>2. N \in Nat /\ k \in 0 .. N
  BY <1>1 DEF Back
<1>3. k \in 0 .. N - 1 /\ AtD(q, n) = k + 1
  <2>1. AtD(q, n) = k + 1
    BY DEF AtD
  <2> QED BY <1>2, <2>1
<1>4. SameE(E, Operands(f[k].s)) /\ E.icode = Ins(f[k].s).icode
  BY <1>1 DEF InE
<1>5. q.D.cur = Ins(f[k + 1].s)
  <2>1. q.D.cur = Ins(f[AtD(q, n)].s)
    BY <1>1 DEF InD, Missed1
  <2> QED BY <1>3, <2>1
<1>6. f[k + 1].loaded = dstM(Ins(f[k].s).icode, Ins(f[k].s).ra) /\ Sound(f[k].s)
  BY <1>3, FlowStep
<1> DEFINE i == Ins(f[k].s)
           j == Ins(f[k + 1].s)
<1>7. IdE(q).srca = srcA(j.icode, j.ra) /\ IdE(q).srcb = srcB(j.icode, j.rb)
  BY <1>5 DEF IdE, do_id_wb_stages
<1>8. E.destm = dstM(i.icode, i.ra) /\ E.icode = i.icode
  <2>1. Operands(f[k].s).destm = dstM(i.icode, i.ra)
    BY DEF Operands
  <2> QED BY <1>4, <2>1 DEF SameE
<1>9. i.icode \in {"MRMOVQ", "POPQ"} => i.ra \in Registers
  BY <1>6 DEF Sound
<1> HIDE DEF i
<1>10. f[k + 1].loaded = dstM(i.icode, i.ra)
  BY <1>6 DEF i
<1>11. Uses1(q) <=> i.icode \in {"MRMOVQ", "POPQ"} /\ dstM(i.icode, i.ra) \in {srcA(j.icode, j.ra), srcB(j.icode, j.rb)}
  BY <1>7, <1>8 DEF Uses1, loadUse
<1>12. UsesLoad(f, k + 1) <=> /\ dstM(i.icode, i.ra) # REG_NONE
                              /\ dstM(i.icode, i.ra) \in {srcA(j.icode, j.ra), srcB(j.icode, j.rb)}
  BY <1>10 DEF UsesLoad, Uses
<1>13. i.icode \in {"MRMOVQ", "POPQ"} <=> dstM(i.icode, i.ra) # REG_NONE
  BY <1>9 DEF dstM, Registers, REG_NONE
<1> HIDE DEF j, k
<1> QED BY <1>3, <1>11, <1>12, <1>13

\* Where the ret is that nothing may be fetched behind.
LEMMA RetIn ==
  ASSUME NEW f, NEW N, Flow(f, N), NEW q, NEW n, NEW c, InPipe(q, f, N, n, c),
         q.W.cur.status \notin Stopping, AtE(q, n) < N, retInPipe(q)
  PROVE  \/ Slots(q.D) = 1 /\ q.D.cur.icode = "RET"
         \/ Slots(q.E) = 1 /\ Slots(q.D) = 0 /\ Ret(f[AtE(q, n)].s)
         \/ Slots(q.M) = 1 /\ Slots(q.E) = 0 /\ Slots(q.D) = 0 /\ Ret(f[n].s)
<1> DEFINE k == AtE(q, n)
<1>1. Back(q, f, N, n) /\ InE(q, f, N, n) /\ InD(q, f, N, n)
  BY WindowBack, WindowE, WindowD
<1>2. Shape(q, f, N, n)
  BY DEF InPipe
<1>3. CASE q.D.cur.icode = "RET"
  BY <1>1, <1>3 DEF InD, Slot, bubble_if_id
<1>4. CASE q.E.cur.icode = "RET"
  <2>1. Slots(q.E) = 1
    BY <1>1, <1>4 DEF InE, Slot, Empty
  <2>2. Ret(f[k].s)
    BY <1>1, <1>4, <2>1 DEF InE, Ret
  <2>3. Slots(q.D) = 0
    BY <1>2, <2>1, <2>2 DEF Shape
  <2> QED BY <2>1, <2>2, <2>3
<1>5. CASE q.M.cur.icode = "RET"
  <2>1. Slots(q.M) = 1
    BY <1>1, <1>5 DEF Back, Slot, Empty
  <2>2. Ret(f[n].s)
    BY <1>1, <1>5, <2>1 DEF Back, Ret
  <2>3. Slots(q.E) + Slots(q.D) = 0
    BY <1>2, <2>1, <2>2 DEF Shape
  <2>4. Slots(q.E) \in Slot /\ Slots(q.D) \in Slot
    BY <1>1 DEF InE, InD
  <2>5. Slots(q.E) = 0 /\ Slots(q.D) = 0
    BY ONLY <2>3, <2>4 DEF Slot
  <2> QED BY <2>1, <2>2, <2>5
<1> QED BY <1>3, <1>4, <1>5 DEF retInPipe

----------------------------------------------------------------------------
(* Fetching.                                                               *)

\* Why D is empty when an instruction is fetched.
Resumed(q, f, n) ==
  \/ AtD(q, n) = 0
  \/ Slots(q.M) = 1 /\ AtD(q, n) = n + 1 /\ Missed(f[n].s) /\ ~Ret(f[n].s)
  \/ Slots(q.M) = 0 /\ Slots(q.W) = 1 /\ AtD(q, n) = n /\ n > 0 /\ Ret(f[n - 1].s)

\* It is a ret, a branch that has been missed, or the first cycle.
LEMMA FetchResumes ==
  ASSUME NEW f, NEW N, Flow(f, N), NEW q, NEW n, NEW c, InPipe(q, f, N, n, c),
         q.W.cur.status \notin Stopping, AtD(q, n) < N,
         Slots(q.D) = 0, ~retInPipe(q)
  PROVE  Resumed(q, f, n)
<1> DEFINE k == AtE(q, n)
           d == AtD(q, n)
<1>1. Back(q, f, N, n) /\ InE(q, f, N, n)
  BY WindowBack, WindowE
<1>2. /\ Slots(q.W) \in Slot /\ Slots(q.M) \in Slot /\ Slots(q.E) \in Slot
      /\ N \in Nat /\ n \in 0 .. N - 1 /\ k \in 0 .. N
  BY <1>1 DEF Back, InE
<1>3. k = n + Slots(q.M) /\ d = k + Slots(q.E)
  BY DEF AtE, AtD
<1>4. k < N
  BY <1>2, <1>3 DEF Slot
<1>5. /\ Slots(q.M) = 1 => ~Ret(f[n].s)
      /\ Slots(q.W) = 1 => n > 0
  <2>1. Slots(q.M) = 1 => q.M.cur.icode = Ins(f[n].s).icode
    BY <1>1 DEF Back
  <2>2. Slots(q.W) = 1 => n - 1 \in 0 .. N - 1
    BY <1>1 DEF Back
  <2> QED BY <1>2, <2>1, <2>2 DEF Ret, retInPipe
<1>6. Slots(q.E) = 1 => ~Ret(f[k].s)
  BY <1>1, <1>4 DEF InE, Ret, retInPipe
<1>7. \/ d = 0
      \/ Ret(f[d - 1].s) /\ Slots(q.W) + Slots(q.M) + Slots(q.E) > 0
      \/ Missed(f[d - 1].s) /\ Slots(q.E) = 0 /\ Slots(q.M) = 1
  BY DEF InPipe, Shape
<1>8. /\ Slots(q.E) = 1 => d - 1 = k
      /\ Slots(q.E) = 0 /\ Slots(q.M) = 1 => d - 1 = n /\ d = n + 1
      /\ Slots(q.E) = 0 /\ Slots(q.M) = 0 => d - 1 = n - 1 /\ d = n
  BY <1>2, <1>3 DEF Slot
<1> HIDE DEF d, k
<1>9. CASE Ret(f[d - 1].s) /\ Slots(q.W) + Slots(q.M) + Slots(q.E) > 0
  <2>1. Slots(q.E) = 0
    BY <1>2, <1>6, <1>8, <1>9 DEF Slot
  <2>2. Slots(q.M) = 0
    BY <1>2, <1>5, <1>8, <1>9, <2>1 DEF Slot
  <2>3. Slots(q.W) = 1
    BY <1>2, <1>9, <2>1, <2>2 DEF Slot
  <2> QED BY <1>5, <1>8, <1>9, <2>1, <2>2, <2>3 DEF Resumed, d
<1>10. CASE Missed(f[d - 1].s) /\ Slots(q.E) = 0 /\ Slots(q.M) = 1
  BY <1>5, <1>8, <1>10 DEF Resumed, d
<1>11. CASE d = 0
  BY <1>11 DEF Resumed, d
<1> QED BY <1>7, <1>9, <1>10, <1>11

\* The instruction fetched is the next one of the run.
LEMMA FetchesRight ==
  ASSUME NEW f, NEW N, Flow(f, N), NEW q, NEW n, NEW c, InPipe(q, f, N, n, c),
         q.W.cur.status \notin Stopping, AtF(q, n) < N,
         ~retInPipe(q), ~Missed1(q),
         Slots(q.D) = 1 => ~Missed(f[AtD(q, n)].s)
  PROVE  Fetched(q) = do_if_stage(f[AtF(q, n)].s.m, f[AtF(q, n)].s.pc)
<1> DEFINE k == AtE(q, n)
           d == AtD(q, n)
           i == AtF(q, n)
<1>1. Back(q, f, N, n) /\ InE(q, f, N, n) /\ InD(q, f, N, n)
  BY WindowBack, WindowE, WindowD
<1>2. /\ Slots(q.W) \in Slot /\ Slots(q.M) \in Slot /\ Slots(q.E) \in Slot /\ Slots(q.D) \in Slot
      /\ N \in Nat /\ n \in 0 .. N - 1 /\ k \in 0 .. N
  BY <1>1 DEF Back, InE, InD
<1>3. k = n + Slots(q.M) /\ d = k + Slots(q.E) /\ i = d + Slots(q.D)
  BY DEF AtE, AtD, AtF
<1>4. /\ k < N /\ d < N /\ i \in 0 .. N - 1 /\ (n < N) /\ n \in 0 .. N /\ n + 1 \in 0 .. N
      /\ (n - 1) + 1 = n
  BY <1>2, <1>3 DEF Slot
<1>5. Shape(q, f, N, n)
  BY DEF InPipe
<1>6. f_pc(q) = f[i].s.pc
  <2>1. CASE q.M.cur.icode = "JMP" /\ ~q.M.cur.takebranch
    <3>1. Slots(q.M) = 1
      BY <1>1, <2>1 DEF Back, Slot, Empty
    <3>2. SameM(q.M.cur, f[n].s) /\ q.M.cur.icode = Ins(f[n].s).icode
      BY <1>1, <3>1 DEF Back
    <3>3. /\ Ins(f[n].s).icode = "JMP" /\ Executed(f[n].s).takebranch = q.M.cur.takebranch
          /\ q.M.cur.vala = Executed(f[n].s).vala
      BY <2>1, <3>2, ExecutedIs DEF SameM
    <3>4. Missed(f[n].s)
      BY <2>1, <3>3 DEF Missed
    <3>5. Slots(q.E) + Slots(q.D) = 0
      BY <1>5, <3>1, <3>4 DEF Shape
    <3>6. i = n + 1
      BY <1>2, <1>3, <3>1, <3>5 DEF Slot
    <3>7. f[n + 1].s.pc = NextPC(f[n].s)
      BY <1>2, <1>4, <3>6, FlowStep
    <3>8. NextPC(f[n].s) = Ins(f[n].s).valp
      BY <2>1, <3>3 DEF NextPC, new_pc
    <3>9. q.M.cur.vala = Ins(f[n].s).valp
      BY <3>3, ExecutedIs
    <3>10. f_pc(q) = q.M.cur.vala
      BY <2>1 DEF f_pc
    <3> QED BY <3>6, <3>7, <3>8, <3>9, <3>10
  <2>2. CASE ~(q.M.cur.icode = "JMP" /\ ~q.M.cur.takebranch) /\ q.W.cur.icode = "RET"
    <3>1. Slots(q.W) = 1
      BY <1>1, <2>2 DEF Back, Slot, Empty
    <3>2. q.W.cur = Written(f[n - 1].s) /\ Ins(f[n - 1].s).icode = "RET" /\ n - 1 \in 0 .. N - 1
      BY <1>1, <2>2, <3>1 DEF Back
    <3>3. Slots(q.M) + Slots(q.E) + Slots(q.D) = 0
      BY <1>4, <1>5, <3>1, <3>2 DEF Shape, Ret
    <3>4. i = n
      BY <1>2, <1>3, <3>3 DEF Slot
    <3>5. f[(n - 1) + 1].s.pc = NextPC(f[n - 1].s)
      BY <1>4, <3>2, FlowStep
    <3>6. NextPC(f[n - 1].s) = Written(f[n - 1].s).valm
      BY <3>2 DEF NextPC, new_pc
    <3>7. f_pc(q) = q.W.cur.valm
      BY <2>2 DEF f_pc
    <3> QED BY <1>4, <3>2, <3>4, <3>5, <3>6, <3>7
  <2>3. CASE ~(q.M.cur.icode = "JMP" /\ ~q.M.cur.takebranch) /\ q.W.cur.icode # "RET"
    <3>1. f_pc(q) = q.F.cur.pc
      BY <2>3 DEF f_pc
    <3>2. ~Astray(q, f, n)
      BY <1>1, <1>4 DEF InD, Missed1
    <3>3. Slots(q.D) = 1 => ~Ret(f[d].s) /\ ~Missed(f[d].s)
      <4> SUFFICES ASSUME Slots(q.D) = 1, Ret(f[d].s) PROVE FALSE
        OBVIOUS
      <4>1. q.D.cur = Ins(f[d].s)
        BY <1>1, <1>4 DEF InD, Missed1
      <4> QED BY <4>1 DEF Ret, retInPipe
    <3>4. ASSUME Slots(q.D) = 0 PROVE d = 0
      <4>1. Resumed(q, f, n)
        BY <1>4, <3>4, FetchResumes
      <4>2. ~(Slots(q.M) = 1 /\ Missed(f[n].s))
        <5> SUFFICES ASSUME Slots(q.M) = 1, Missed(f[n].s) PROVE FALSE
          OBVIOUS
        <5>1. SameM(q.M.cur, f[n].s) /\ q.M.cur.icode = Ins(f[n].s).icode
          BY <1>1 DEF Back
        <5> QED BY <2>3, <5>1 DEF Missed, SameM
      <4>3. ~(Slots(q.W) = 1 /\ Ret(f[n - 1].s))
        <5>1. Slots(q.W) = 1 => q.W.cur.icode = Ins(f[n - 1].s).icode
          BY <1>1 DEF Back
        <5> QED BY <2>3, <5>1 DEF Ret
      <4> QED BY <4>1, <4>2, <4>3 DEF Resumed
    <3>5. HoldsF(q, f, N, n)
      BY DEF InPipe
    <3>6. IF Slots(q.D) = 1 THEN ~Ret(f[d].s) /\ ~Missed(f[d].s) ELSE d = 0
      BY <1>2, <3>3, <3>4 DEF Slot
    <3>7. q.F.cur.pc = f[i].s.pc
      BY <3>2, <3>5, <3>6 DEF HoldsF
    <3> QED BY <3>1, <3>7
  <2> QED BY <2>1, <2>2, <2>3
<1>7. q.m = f[n].s.m
  BY DEF InPipe, Data
<1> HIDE DEF i
<1>8. do_if_stage(f[n].s.m, f[i].s.pc) = do_if_stage(f[i].s.m, f[i].s.pc)
  BY <1>4 DEF Flow
<1> QED BY <1>6, <1>7, <1>8 DEF Fetched, i

\* The pc that is predicted behind an instruction.
LEMMA Predicts ==
  ASSUME NEW s
  PROVE  ~Ret(s) /\ ~Missed(s) => do_if_stage(s.m, s.pc).F.pc = NextPC(s)
<1>1. do_if_stage(s.m, s.pc).F.pc = IF Ins(s).icode \in {"JMP", "CALL"} THEN Ins(s).valc ELSE Ins(s).valp
  BY DEF do_if_stage, Ins
<1> DEFINE D == Ins(s)
<1>2. do_if_stage(s.m, s.pc).F.pc = IF D.icode \in {"JMP", "CALL"} THEN D.valc ELSE D.valp
  BY <1>1
<1> HIDE DEF D
<1>3. NextPC(s) = IF D.icode = "CALL" \/ (D.icode = "JMP" /\ Executed(s).takebranch) THEN D.valc
                  ELSE IF D.icode = "RET" THEN Written(s).valm ELSE D.valp
  <2>1. NextPC(s) = new_pc(D.icode, Executed(s).takebranch, D.valc, Written(s).valm, D.valp)
    BY DEF NextPC, D
  <2> QED BY <2>1 DEF new_pc
<1> QED BY <1>2, <1>3 DEF Ret, Missed, D

----------------------------------------------------------------------------
(* The clock edge keeps the window.                                        *)

\* After the clock edge, E, D and F hold what they should.
LEMMA TurnHolds ==
  ASSUME NEW f, NEW N, Flow(f, N), NEW q, NEW n, NEW c, InPipe(q, f, N, n, c),
         q.W.cur.status \notin Stopping
  PROVE  /\ HoldsE(Turn(q), f, N, AtE(q, n)) /\ HoldsD(Turn(q), f, N, AtE(q, n))
         /\ HoldsF(Turn(q), f, N, AtE(q, n))
<1> DEFINE t == Turn(q)
           k == AtE(q, n)
           d == AtD(q, n)
           i == AtF(q, n)
<1>0. Turned(q, f, N, n)
  BY TurnLoads
<1>1. InE(q, f, N, n) /\ InD(q, f, N, n) /\ Back(q, f, N, n)
  BY WindowBack, WindowE, WindowD
<1>2. /\ t.E.cur = IF Missed1(q) \/ Uses1(q) THEN bubble_id_ex ELSE IdE(q)
      /\ t.D.cur = IF Uses1(q) THEN q.D.cur
                   ELSE IF Missed1(q) \/ retInPipe(q) THEN bubble_if_id ELSE Fetched(q).D
      /\ t.F.cur = IF Uses1(q) \/ retInPipe(q) THEN q.F.cur ELSE Fetched(q).F
      /\ Slots(t.E) = IF Missed1(q) \/ Uses1(q) THEN 0 ELSE Slots(q.D)
      /\ Slots(t.D) = IF Uses1(q) THEN Slots(q.D)
                      ELSE IF Missed1(q) \/ retInPipe(q) THEN 0 ELSE 1
      /\ Slots(t.E) = 0 => Empty(t.E.cur)
      /\ Slots(t.D) = 0 => t.D.cur = bubble_if_id
  BY <1>0 DEF Turned
<1>3. /\ AtE(t, k) = IF k = N THEN N ELSE d
      /\ AtD(t, k) = AtE(t, k) + Slots(t.E)
      /\ AtF(t, k) = AtD(t, k) + Slots(t.D)
      /\ Uses1(q) \in BOOLEAN /\ retInPipe(q) \in BOOLEAN /\ Missed1(q) \in BOOLEAN
      /\ Missed1(q) => ~Uses1(q) /\ Slots(q.E) = 1
      /\ Uses1(q) => Slots(q.E) = 1
      /\ Uses1(q) /\ k < N => Slots(q.D) = 1
      /\ N \in Nat \ {0} /\ n \in 0 .. N - 1 /\ k \in 0 .. N
      /\ Slots(q.W) \in Slot /\ Slots(q.M) \in Slot /\ Slots(q.E) \in Slot /\ Slots(q.D) \in Slot
      /\ k = n + Slots(q.M) /\ d = k + Slots(q.E) /\ i = d + Slots(q.D)
  BY <1>0 DEF Turned
<1>4. /\ Slots(t.E) \in Slot /\ Slots(t.D) \in Slot
      /\ N \in Nat /\ k \in Nat /\ d \in Nat /\ i \in Nat /\ n \in Nat
      /\ AtE(t, k) \in Nat /\ AtD(t, k) \in Nat /\ AtF(t, k) \in Nat
  BY <1>2, <1>3 DEF Slot
<1>9. AtD(t, k) < N \/ AtF(t, k) < N => k < N /\ AtE(t, k) = d
  <2> HIDE DEF t, k, d, i
  <2> SUFFICES ASSUME k = N PROVE AtD(t, k) >= N /\ AtF(t, k) >= N
    BY <1>3, <1>4
  <2>1. AtE(t, k) = N
    BY <1>3
  <2> QED BY <1>3, <1>4, <2>1 DEF Slot
<1>5. HoldsE(t, f, N, k)
  <2>1. ASSUME Slots(t.E) = 1, AtE(t, k) < N
        PROVE  SameE(t.E.cur, Operands(f[AtE(t, k)].s))
    <3>1. k < N /\ AtE(t, k) = d /\ d < N
      BY <1>3, <1>4, <2>1
    <3>2. ~Missed1(q) /\ ~Uses1(q) /\ Slots(q.D) = 1 /\ t.E.cur = IdE(q)
      BY <1>2, <1>3, <2>1
    <3>3. q.D.cur = Ins(f[d].s)
      BY <1>1, <3>1, <3>2 DEF InD, Missed1
    <3>4. SameE(IdE(q), Operands(f[d].s))
      BY <3>1, <3>2, <3>3, OperandsRight DEF Uses1
    <3> QED BY <3>1, <3>2, <3>4
  <2> HIDE DEF t, k
  <2> QED BY <1>2, <1>4, <2>1 DEF HoldsE, Slot
<1>6. ASSUME ~Missed1(q), ~Uses1(q), ~retInPipe(q), AtD(t, k) < N, ~Astray(t, f, k)
      PROVE  /\ AtD(t, k) = i /\ i \in 0 .. N - 1
             /\ Fetched(q) = do_if_stage(f[i].s.m, f[i].s.pc)
  <2>1. k < N /\ AtE(t, k) = d /\ AtD(t, k) = i /\ Slots(t.E) = Slots(q.D)
    BY <1>2, <1>3, <1>6, <1>9
  <2>2. Slots(q.D) = 1 => ~Missed(f[d].s)
    BY <1>6, <2>1 DEF Astray
  <2>3. i < N /\ i \in 0 .. N - 1
    BY <1>4, <1>6, <2>1
  <2> HIDE DEF t
  <2>4. Fetched(q) = do_if_stage(f[i].s.m, f[i].s.pc)
    BY <1>6, <2>2, <2>3, FetchesRight
  <2> QED BY <2>1, <2>3, <2>4
<1>7. HoldsD(t, f, N, k)
  <2>1. ASSUME Slots(t.D) = 1, AtD(t, k) < N, ~Astray(t, f, k)
        PROVE  t.D.cur = Ins(f[AtD(t, k)].s)
    <3>1. CASE Uses1(q)
      <4>1. k < N /\ Slots(q.D) = 1 /\ ~Missed1(q) /\ Slots(t.E) = 0
        BY <1>2, <1>3, <1>4, <2>1, <3>1
      <4>2. AtD(t, k) = d /\ t.D.cur = q.D.cur
        BY <1>2, <1>3, <1>4, <3>1, <4>1
      <4> QED BY <1>1, <2>1, <4>1, <4>2 DEF InD, Missed1
    <3>2. CASE ~Uses1(q)
      <4>1. ~Missed1(q) /\ ~retInPipe(q) /\ t.D.cur = Fetched(q).D
        BY <1>2, <2>1, <3>2
      <4> QED BY <1>6, <2>1, <3>2, <4>1 DEF Ins
    <3> QED BY <3>1, <3>2
  <2> HIDE DEF t, k
  <2> QED BY <1>2, <1>4, <2>1 DEF HoldsD, Slot
<1>8. HoldsF(t, f, N, k)
  <2> SUFFICES ASSUME AtF(t, k) < N, ~Astray(t, f, k),
                      IF Slots(t.D) = 1 THEN ~Ret(f[AtD(t, k)].s) /\ ~Missed(f[AtD(t, k)].s)
                      ELSE AtD(t, k) = 0
               PROVE  t.F.cur.pc = f[AtF(t, k)].s.pc
    BY DEF HoldsF
  <2>1. k < N /\ AtE(t, k) = d
    BY <1>9
  <2>2. CASE Uses1(q)
    <3>1. /\ ~Missed1(q) /\ Slots(q.D) = 1 /\ Slots(t.D) = 1 /\ Slots(t.E) = 0
          /\ AtD(t, k) = d /\ AtF(t, k) = i /\ t.F.cur = q.F.cur
      BY <1>2, <1>3, <1>4, <2>1, <2>2
    <3>2. ~Astray(q, f, n)
      BY <1>1, <2>1, <3>1 DEF InD, Missed1
    <3>3. i < N /\ ~Ret(f[d].s) /\ ~Missed(f[d].s)
      BY <3>1
    <3>4. HoldsF(q, f, N, n)
      BY DEF InPipe
    <3>5. q.F.cur.pc = f[i].s.pc
      <4> HIDE DEF t
      <4> QED BY <3>1, <3>2, <3>3, <3>4 DEF HoldsF
    <3> QED BY <3>1, <3>5
  <2>3. CASE ~Uses1(q) /\ (Missed1(q) \/ retInPipe(q))
    <3>1. Slots(t.D) = 0 /\ AtD(t, k) = 0
      BY <1>2, <2>3
    <3>2. d = 0 /\ k = 0 /\ n = 0 /\ Slots(q.E) = 0 /\ Slots(q.M) = 0 /\ ~Missed1(q)
      BY <1>2, <1>3, <1>4, <2>1, <3>1 DEF Slot
    <3>3. Slots(q.D) = 0
      BY <1>2, <1>3, <1>4, <2>1, <2>3, <3>1, <3>2 DEF Slot
    <3>4. FALSE
      BY <2>1, <2>3, <3>2, <3>3, RetIn
    <3> QED BY <3>4
  <2>4. CASE ~Uses1(q) /\ ~Missed1(q) /\ ~retInPipe(q)
    <3>1. Slots(t.D) = 1 /\ t.F.cur = Fetched(q).F
      BY <1>2, <2>4
    <3>2. AtD(t, k) < N /\ AtF(t, k) = AtD(t, k) + 1
      BY <1>3, <1>4, <3>1
    <3>3. AtD(t, k) = i /\ i \in 0 .. N - 1 /\ Fetched(q) = do_if_stage(f[i].s.m, f[i].s.pc)
      BY <1>6, <2>4, <3>2
    <3>4. ~Ret(f[i].s) /\ ~Missed(f[i].s) /\ i + 1 < N
      BY <3>1, <3>2, <3>3
    <3> HIDE DEF i
    <3>5. f[i + 1].s.pc = NextPC(f[i].s)
      BY <3>3, <3>4, FlowStep
    <3>6. do_if_stage(f[i].s.m, f[i].s.pc).F.pc = NextPC(f[i].s)
      BY <3>4, Predicts
    <3> QED BY <3>1, <3>2, <3>3, <3>5, <3>6
  <2> QED BY <2>2, <2>3, <2>4
<1> QED BY <1>5, <1>7, <1>8

\* Bubbles are where they should be after the clock edge.
LEMMA TurnShape ==
  ASSUME NEW f, NEW N, Flow(f, N), NEW q, NEW n, NEW c, InPipe(q, f, N, n, c),
         q.W.cur.status \notin Stopping
  PROVE  Shape(Turn(q), f, N, AtE(q, n))
<1> DEFINE t == Turn(q)
           k == AtE(q, n)
           d == AtD(q, n)
<1>0. Turned(q, f, N, n)
  BY TurnLoads
<1>1. InE(q, f, N, n) /\ InD(q, f, N, n) /\ Back(q, f, N, n)
  BY WindowBack, WindowE, WindowD
<1>2. /\ Slots(t.E) = IF Missed1(q) \/ Uses1(q) THEN 0 ELSE Slots(q.D)
      /\ Slots(t.D) = IF Uses1(q) THEN Slots(q.D)
                      ELSE IF Missed1(q) \/ retInPipe(q) THEN 0 ELSE 1
      /\ Slots(t.W) = Slots(q.M) /\ Slots(t.M) = IF k = N THEN 0 ELSE Slots(q.E)
  BY <1>0 DEF Turned
<1>3. /\ AtE(t, k) = IF k = N THEN N ELSE d
      /\ AtD(t, k) = AtE(t, k) + Slots(t.E)
      /\ Uses1(q) \in BOOLEAN /\ retInPipe(q) \in BOOLEAN /\ Missed1(q) \in BOOLEAN
      /\ Missed1(q) => ~Uses1(q) /\ Slots(q.E) = 1
      /\ Uses1(q) => Slots(q.E) = 1
      /\ Uses1(q) /\ k < N => Slots(q.D) = 1
      /\ N \in Nat /\ n \in 0 .. N - 1 /\ k \in 0 .. N
      /\ Slots(q.W) \in Slot /\ Slots(q.M) \in Slot /\ Slots(q.E) \in Slot /\ Slots(q.D) \in Slot
      /\ k = n + Slots(q.M) /\ d = k + Slots(q.E)
  BY <1>0 DEF Turned
<1>4. Slots(t.E) \in Slot /\ Slots(t.D) \in Slot
  BY <1>2, <1>3 DEF Slot
<1>5. Shape(q, f, N, n)
  BY DEF InPipe
<1>6. Uses1(q) => q.E.cur.icode \in {"MRMOVQ", "POPQ"}
  BY DEF Uses1, loadUse
<1>7. ASSUME Slots(q.M) = 1, Ret(f[n].s)
      PROVE  /\ Slots(t.E) = 0 /\ Slots(t.D) = 0 /\ Slots(t.M) = 0
  <2>1. Slots(q.E) + Slots(q.D) = 0
    BY <1>5, <1>7 DEF Shape
  <2>2. Slots(q.E) = 0 /\ Slots(q.D) = 0
    BY ONLY <1>3, <2>1 DEF Slot
  <2>3. q.M.cur.icode = "RET"
    BY <1>1, <1>7 DEF Back, Ret
  <2>4. retInPipe(q)
    BY <2>3 DEF retInPipe
  <2> QED BY <1>2, <1>3, <2>2, <2>4
<1>8. ASSUME Slots(q.E) = 1, k < N, Ret(f[k].s)
      PROVE  /\ retInPipe(q) /\ ~Uses1(q) /\ Slots(t.E) = 0 /\ Slots(t.D) = 0
  <2>1. Slots(q.D) = 0
    BY <1>5, <1>8 DEF Shape
  <2>2. q.E.cur.icode = "RET"
    BY <1>1, <1>8 DEF InE, Ret
  <2>3. retInPipe(q) /\ ~Uses1(q)
    BY <1>6, <2>2 DEF retInPipe
  <2> QED BY <1>2, <2>1, <2>3
<1>9. ASSUME Slots(q.E) = 1, k < N, Missed(f[k].s)
      PROVE  Slots(t.E) = 0 /\ Slots(t.D) = 0
  <2>1. Missed1(q)
    BY <1>1, <1>9 DEF InE, Missed1
  <2> QED BY <1>2, <1>3, <2>1
<1>10. ASSUME Slots(q.D) = 1, k < N, d < N, ~Missed1(q), Ret(f[d].s)
       PROVE  retInPipe(q)
  <2>1. q.D.cur = Ins(f[d].s)
    BY <1>1, <1>10 DEF InD, Missed1
  <2> QED BY <1>10, <2>1 DEF Ret, retInPipe
<1> HIDE DEF t, k, d
<1>11. Slots(t.W) = 1 /\ k < N /\ Ret(f[k - 1].s) => Slots(t.M) + Slots(t.E) + Slots(t.D) = 0
  <2> SUFFICES ASSUME Slots(t.W) = 1, Ret(f[k - 1].s)
               PROVE  Slots(t.M) + Slots(t.E) + Slots(t.D) = 0
    OBVIOUS
  <2>1. Slots(q.M) = 1 /\ k - 1 = n
    BY <1>2, <1>3
  <2> QED BY <1>7, <2>1
<1>12. Slots(t.M) = 1 /\ (Ret(f[k].s) \/ Missed(f[k].s)) => Slots(t.E) + Slots(t.D) = 0
  <2> SUFFICES ASSUME Slots(t.M) = 1, Ret(f[k].s) \/ Missed(f[k].s)
               PROVE  Slots(t.E) + Slots(t.D) = 0
    OBVIOUS
  <2>1. Slots(q.E) = 1 /\ k # N
    BY <1>2
  <2>2. k < N
    BY <1>3, <2>1
  <2>3. Slots(t.E) = 0 /\ Slots(t.D) = 0
    BY <1>8, <1>9, <2>1, <2>2
  <2> QED BY <2>3
<1>13. Slots(t.E) = 1 /\ AtE(t, k) < N /\ Ret(f[AtE(t, k)].s) => Slots(t.D) = 0
  <2> SUFFICES ASSUME Slots(t.E) = 1, AtE(t, k) < N, Ret(f[AtE(t, k)].s)
               PROVE  Slots(t.D) = 0
    OBVIOUS
  <2>1. ~Missed1(q) /\ ~Uses1(q) /\ Slots(q.D) = 1
    BY <1>2
  <2>2. k # N /\ AtE(t, k) = d
    BY <1>3
  <2>3. k < N /\ d < N
    BY <1>3, <2>2
  <2>4. retInPipe(q)
    BY <1>10, <2>1, <2>2, <2>3
  <2> QED BY <1>2, <2>1, <2>4
<1>14. Slots(t.D) = 0 /\ AtD(t, k) < N =>
         \/ AtD(t, k) = 0
         \/ Ret(f[AtD(t, k) - 1].s) /\ Slots(t.W) + Slots(t.M) + Slots(t.E) > 0
         \/ Missed(f[AtD(t, k) - 1].s) /\ Slots(t.E) = 0 /\ Slots(t.M) = 1
  <2> DEFINE a == AtD(t, k)
  <2> SUFFICES ASSUME Slots(t.D) = 0, a < N
               PROVE  \/ Ret(f[a - 1].s) /\ Slots(t.W) + Slots(t.M) + Slots(t.E) > 0
                      \/ Missed(f[a - 1].s) /\ Slots(t.E) = 0 /\ Slots(t.M) = 1
    OBVIOUS
  <2> HIDE DEF a
  <2>1. a = AtE(t, k) + Slots(t.E)
    BY <1>3 DEF a
  <2>2. k # N
    BY <1>3, <1>4, <2>1 DEF Slot
  <2>3. k < N /\ AtE(t, k) = d /\ Slots(t.M) = Slots(q.E) /\ Slots(t.W) = Slots(q.M)
    BY <1>2, <1>3, <2>2
  <2>4. CASE Missed1(q)
    <3>1. Slots(q.E) = 1 /\ Slots(t.E) = 0
      BY <1>2, <1>3, <2>4
    <3>2. a - 1 = k
      BY <1>3, <2>1, <2>3, <3>1
    <3>3. Missed(f[k].s)
      BY <1>1, <2>3, <2>4, <3>1 DEF InE, Missed1, k
    <3> QED BY <2>3, <3>1, <3>2, <3>3
  <2>5. CASE ~Missed1(q)
    <3>1. ~Uses1(q)
      BY <1>2, <1>3, <2>3
    <3>2. retInPipe(q) /\ Slots(t.E) = Slots(q.D)
      BY <1>2, <2>5, <3>1
    <3>3. CASE Slots(q.D) = 1 /\ q.D.cur.icode = "RET"
      <4>1. a - 1 = d /\ d < N
        BY <1>3, <2>1, <2>3, <3>2, <3>3
      <4>2. q.D.cur = Ins(f[d].s)
        BY <1>1, <2>3, <2>5, <3>3, <4>1 DEF InD, Missed1, k, d
      <4>3. Slots(t.W) + Slots(t.M) + Slots(t.E) > 0
        BY <1>3, <2>3, <3>2, <3>3 DEF Slot
      <4> QED BY <3>3, <4>1, <4>2, <4>3 DEF Ret
    <3>4. CASE Slots(q.E) = 1 /\ Slots(q.D) = 0 /\ Ret(f[k].s)
      <4>1. a - 1 = k
        BY <1>3, <2>1, <2>3, <3>2, <3>4
      <4>2. Slots(t.W) + Slots(t.M) + Slots(t.E) > 0
        BY <1>3, <2>3, <3>2, <3>4 DEF Slot
      <4> QED BY <3>4, <4>1, <4>2
    <3>5. CASE Slots(q.M) = 1 /\ Slots(q.E) = 0 /\ Slots(q.D) = 0 /\ Ret(f[n].s)
      <4>1. a - 1 = n
        BY <1>3, <2>1, <2>3, <3>2, <3>5
      <4>2. Slots(t.W) + Slots(t.M) + Slots(t.E) > 0
        BY <1>3, <2>3, <3>2, <3>5 DEF Slot
      <4> QED BY <3>5, <4>1, <4>2
    <3>6. \/ Slots(q.D) = 1 /\ q.D.cur.icode = "RET"
          \/ Slots(q.E) = 1 /\ Slots(q.D) = 0 /\ Ret(f[k].s)
          \/ Slots(q.M) = 1 /\ Slots(q.E) = 0 /\ Slots(q.D) = 0 /\ Ret(f[n].s)
      BY <2>3, <3>2, RetIn DEF k
    <3> QED BY <3>3, <3>4, <3>5, <3>6
  <2> QED BY <2>4, <2>5 DEF a
<1>15. Shape(t, f, N, k)
  BY <1>11, <1>12, <1>13, <1>14 DEF Shape
<1> QED BY <1>15 DEF t, k

\* The instructions are where the run foretells after it.
LEMMA TurnTiming ==
  ASSUME NEW f, NEW N, Flow(f, N), NEW q, NEW n, NEW c \in Nat, InPipe(q, f, N, n, c),
         q.W.cur.status \notin Stopping
  PROVE  Timing(Turn(q), f, N, AtE(q, n), c + 1)
<1> DEFINE t == Turn(q)
           k == AtE(q, n)
           d == AtD(q, n)
           i == AtF(q, n)
<1>0. Turned(q, f, N, n)
  BY TurnLoads
<1>1. InE(q, f, N, n) /\ InD(q, f, N, n) /\ Back(q, f, N, n)
  BY WindowBack, WindowE, WindowD
<1>2. /\ Slots(t.E) = IF Missed1(q) \/ Uses1(q) THEN 0 ELSE Slots(q.D)
      /\ Slots(t.D) = IF Uses1(q) THEN Slots(q.D)
                      ELSE IF Missed1(q) \/ retInPipe(q) THEN 0 ELSE 1
      /\ Slots(t.W) = Slots(q.M) /\ Slots(t.M) = IF k = N THEN 0 ELSE Slots(q.E)
  BY <1>0 DEF Turned
<1>3. /\ AtE(t, k) = IF k = N THEN N ELSE d
      /\ AtD(t, k) = AtE(t, k) + Slots(t.E)
      /\ AtF(t, k) = AtD(t, k) + Slots(t.D)
      /\ Uses1(q) \in BOOLEAN /\ retInPipe(q) \in BOOLEAN /\ Missed1(q) \in BOOLEAN
      /\ Missed1(q) => ~Uses1(q) /\ Slots(q.E) = 1
      /\ Uses1(q) => Slots(q.E) = 1
      /\ Uses1(q) /\ k < N => Slots(q.D) = 1
      /\ N \in Nat /\ n \in 0 .. N - 1 /\ k \in 0 .. N
      /\ Slots(q.W) \in Slot /\ Slots(q.M) \in Slot /\ Slots(q.E) \in Slot /\ Slots(q.D) \in Slot
      /\ k = n + Slots(q.M) /\ d = k + Slots(q.E) /\ i = d + Slots(q.D)
  BY <1>0 DEF Turned
<1>4. Slots(t.E) \in Slot /\ Slots(t.D) \in Slot
  BY <1>2, <1>3 DEF Slot
<1>5. /\ Slots(q.M) = 1 => c = Leaves(f, n) + 2
      /\ Slots(q.W) = 1 => c = Leaves(f, n - 1) + 3
      /\ Slots(q.E) = 1 /\ k < N => c = Leaves(f, k) + 1
      /\ Slots(q.D) = 1 /\ d < N /\ ~Astray(q, f, n) =>
           c = IF Slots(q.E) = 1 THEN Enters(f, d) ELSE Leaves(f, d)
      /\ i = 0 => c = 1
  BY DEF InPipe, Timing
<1>6. ~Missed1(q) /\ k < N => ~Astray(q, f, n)
  BY <1>1 DEF InD, Missed1
<1>7. \A j \in 0 .. N - 1 :
        /\ Enters(f, j) \in Int
        /\ Leaves(f, j) = Enters(f, j) + (IF UsesLoad(f, j) THEN 1 ELSE 0)
        /\ Enters(f, j + 1) = Leaves(f, j) + 1 + Loses(f[j].s)
        /\ Leaves(f, j) \in Int
        /\ f[j + 1].loaded = dstM(Ins(f[j].s).icode, Ins(f[j].s).ra)
  <2> SUFFICES ASSUME NEW j \in 0 .. N - 1
               PROVE  /\ Enters(f, j) \in Int
                      /\ Leaves(f, j) = Enters(f, j) + (IF UsesLoad(f, j) THEN 1 ELSE 0)
                      /\ Enters(f, j + 1) = Leaves(f, j) + 1 + Loses(f[j].s)
                      /\ Leaves(f, j) \in Int
                      /\ f[j + 1].loaded = dstM(Ins(f[j].s).icode, Ins(f[j].s).ra)
    OBVIOUS
  <2>1. /\ Enters(f, j) \in Int
        /\ Leaves(f, j) = Enters(f, j) + (IF UsesLoad(f, j) THEN 1 ELSE 0)
        /\ Enters(f, j + 1) = Leaves(f, j) + 1 + Loses(f[j].s)
        /\ f[j + 1].loaded = dstM(Ins(f[j].s).icode, Ins(f[j].s).ra)
    BY FlowStep
  <2>2. Leaves(f, j) \in Int
    BY <2>1
  <2> QED BY <2>1, <2>2
<1>8. ASSUME Slots(q.E) = 1, k < N, d < N, Slots(q.D) = 1, ~Missed1(q)
      PROVE  Uses1(q) <=> UsesLoad(f, d)
  BY <1>8, WaitsForLoad
<1>9. ASSUME k < N, d < N, ~Missed1(q), ~retInPipe(q), Slots(q.D) = 0
      PROVE  c + 1 = Leaves(f, d)
  <2>1. Resumed(q, f, n)
    BY <1>9, FetchResumes
  <2>2. CASE d = 0
    <3>1. c = 1
      BY <1>3, <1>5, <1>9, <2>2
    <3>2. ~UsesLoad(f, 0) /\ f[0].bubbles = 0 /\ f[0].behind = 0
      BY DEF Flow, UsesLoad, Uses
    <3>3. Leaves(f, 0) = 2
      BY <3>2 DEF Leaves, Enters
    <3> QED BY <2>2, <3>1, <3>3
  <2>3. ASSUME NEW j \in 0 .. N - 1, d = j + 1, Ret(f[j].s) \/ Missed(f[j].s)
        PROVE  Leaves(f, d) = Leaves(f, j) + 1 + Loses(f[j].s)
    <3>1. f[d].loaded = REG_NONE
      <4>1. Ins(f[j].s).icode \in {"RET", "JMP"}
        BY <2>3 DEF Ret, Missed
      <4> QED BY <1>7, <2>3, <4>1 DEF dstM
    <3>2. ~UsesLoad(f, d)
      BY <3>1 DEF UsesLoad, Uses
    <3>3. d \in 0 .. N - 1
      BY <1>3, <1>9, <2>3
    <3>4. Leaves(f, d) = Enters(f, d)
      BY <1>7, <3>2, <3>3
    <3> QED BY <1>7, <2>3, <3>4
  <2>4. CASE Slots(q.M) = 1 /\ d = n + 1 /\ Missed(f[n].s) /\ ~Ret(f[n].s)
    <3>1. Leaves(f, d) = Leaves(f, n) + 1 + 2 /\ Leaves(f, n) \in Int
      BY <1>3, <1>7, <2>3, <2>4 DEF Loses
    <3> HIDE DEF d
    <3> QED BY <1>5, <2>4, <3>1
  <2>5. CASE Slots(q.M) = 0 /\ Slots(q.W) = 1 /\ d = n /\ n > 0 /\ Ret(f[n - 1].s)
    <3>1. n - 1 \in 0 .. N - 1 /\ (n - 1) + 1 = n
      BY <1>3, <2>5
    <3>2. Leaves(f, d) = Leaves(f, n - 1) + 1 + 3 /\ Leaves(f, n - 1) \in Int
      BY <1>7, <2>3, <2>5, <3>1 DEF Loses
    <3> HIDE DEF d
    <3> QED BY <1>5, <2>5, <3>2
  <2> QED BY <2>1, <2>2, <2>4, <2>5 DEF Resumed
<1>10. ASSUME Slots(q.D) = 1, d < N, ~Missed1(q), k < N, ~retInPipe(q)
       PROVE  ~Ret(f[d].s)
  <2>1. q.D.cur = Ins(f[d].s)
    BY <1>1, <1>10 DEF InD, Missed1
  <2> QED BY <1>10, <2>1 DEF Ret, retInPipe
<1>11. ASSUME Slots(q.D) = 0, ~Missed1(q), retInPipe(q), k < N
       PROVE  d > 0
  <2>1. Slots(q.E) = 1 \/ Slots(q.M) = 1
    BY <1>11, RetIn
  <2> QED BY <1>3, <2>1 DEF Slot
<1>12. Missed(f[d].s) /\ Slots(t.E) = 1 /\ k < N => Astray(t, f, k)
  <2> HIDE DEF t, k, d
  <2> QED BY <1>3 DEF Astray
<1> HIDE DEF t, k, d, i
<1>13. AtD(t, k) < N \/ AtE(t, k) < N \/ AtF(t, k) < N => k < N /\ AtE(t, k) = d
  <2> SUFFICES ASSUME k = N PROVE AtD(t, k) >= N /\ AtF(t, k) >= N /\ AtE(t, k) >= N
    BY <1>3, <1>4 DEF Slot
  <2>1. AtE(t, k) = N
    BY <1>3
  <2> QED BY <1>3, <1>4, <2>1 DEF Slot
<1>14. Slots(t.W) = 1 => c + 1 = Leaves(f, k - 1) + 3
  <2> SUFFICES ASSUME Slots(q.M) = 1 PROVE c + 1 = Leaves(f, k - 1) + 3
    BY <1>2
  <2>1. k - 1 = n /\ c = Leaves(f, n) + 2 /\ Leaves(f, n) \in Int
    BY <1>3, <1>5, <1>7
  <2> QED BY <2>1
<1>15. Slots(t.M) = 1 => c + 1 = Leaves(f, k) + 2
  <2> SUFFICES ASSUME Slots(q.E) = 1, k # N PROVE c + 1 = Leaves(f, k) + 2
    BY <1>2
  <2>1. k < N /\ k \in 0 .. N - 1
    BY <1>3
  <2>2. c = Leaves(f, k) + 1 /\ Leaves(f, k) \in Int
    BY <1>5, <1>7, <2>1
  <2> QED BY <2>2
<1>16. Slots(t.E) = 1 /\ AtE(t, k) < N => c + 1 = Leaves(f, AtE(t, k)) + 1
  <2> SUFFICES ASSUME Slots(t.E) = 1, AtE(t, k) < N PROVE c + 1 = Leaves(f, AtE(t, k)) + 1
    OBVIOUS
  <2>1. ~Missed1(q) /\ ~Uses1(q) /\ Slots(q.D) = 1
    BY <1>2
  <2>2. k < N /\ AtE(t, k) = d /\ d < N /\ d \in 0 .. N - 1
    BY <1>3, <1>13 DEF Slot
  <2>3. c = IF Slots(q.E) = 1 THEN Enters(f, d) ELSE Leaves(f, d)
    BY <1>5, <1>6, <2>1, <2>2
  <2>4. c = Leaves(f, d)
    <3>1. CASE Slots(q.E) = 1
      <4>1. ~UsesLoad(f, d)
        BY <1>8, <2>1, <2>2, <3>1
      <4> QED BY <1>7, <2>2, <2>3, <3>1, <4>1
    <3>2. CASE Slots(q.E) # 1
      BY <2>3, <3>2
    <3> QED BY <3>1, <3>2
  <2> QED BY <2>2, <2>4
<1>17. Slots(t.D) = 1 /\ AtD(t, k) < N /\ ~Astray(t, f, k) =>
         c + 1 = IF Slots(t.E) = 1 THEN Enters(f, AtD(t, k)) ELSE Leaves(f, AtD(t, k))
  <2> SUFFICES ASSUME Slots(t.D) = 1, AtD(t, k) < N, ~Astray(t, f, k)
               PROVE  c + 1 = IF Slots(t.E) = 1 THEN Enters(f, AtD(t, k)) ELSE Leaves(f, AtD(t, k))
    OBVIOUS
  <2>1. k < N /\ AtE(t, k) = d /\ AtD(t, k) = d + Slots(t.E)
    BY <1>3, <1>13
  <2>2. d < N /\ d \in 0 .. N - 1
    BY <1>3, <1>4, <2>1 DEF Slot
  <2>3. CASE Uses1(q)
    <3>1. Slots(q.E) = 1 /\ Slots(q.D) = 1 /\ ~Missed1(q) /\ Slots(t.E) = 0
      BY <1>2, <1>3, <2>1, <2>3
    <3>2. AtD(t, k) = d
      BY <1>3, <2>1, <3>1
    <3>3. c = Enters(f, d) /\ UsesLoad(f, d)
      BY <1>5, <1>6, <1>8, <2>1, <2>2, <2>3, <3>1
    <3>4. c + 1 = Leaves(f, d)
      BY <1>7, <2>2, <3>3
    <3> QED BY <3>1, <3>2, <3>4
  <2>4. CASE ~Uses1(q)
    <3>1. ~Missed1(q) /\ ~retInPipe(q) /\ Slots(t.E) = Slots(q.D)
      BY <1>2, <2>4
    <3>2. CASE Slots(q.D) = 0
      <4>1. AtD(t, k) = d /\ Slots(t.E) # 1
        BY <1>3, <2>1, <3>1, <3>2
      <4> QED BY <1>9, <2>1, <2>2, <3>1, <3>2, <4>1
    <3>3. CASE Slots(q.D) = 1
      <4>1. AtD(t, k) = d + 1 /\ Slots(t.E) = 1
        BY <2>1, <3>1, <3>3
      <4>2. ~Ret(f[d].s) /\ ~Missed(f[d].s)
        BY <1>10, <1>12, <2>1, <2>2, <3>1, <3>3, <4>1
      <4>3. c + 1 = Leaves(f, d) + 1
        BY <1>16, <2>1, <2>2, <4>1
      <4>4. Enters(f, d + 1) = Leaves(f, d) + 1 /\ Leaves(f, d) \in Int
        BY <1>7, <2>2, <4>2 DEF Loses
      <4> QED BY <4>1, <4>3, <4>4
    <3> QED BY <1>3, <3>2, <3>3 DEF Slot
  <2> QED BY <2>3, <2>4
<1>18. AtF(t, k) # 0
  <2> SUFFICES ASSUME AtF(t, k) = 0 PROVE FALSE
    OBVIOUS
  <2>1. k < N /\ AtE(t, k) = d
    BY <1>3, <1>13
  <2>2. d = 0 /\ Slots(t.D) = 0 /\ Slots(t.E) = 0
    BY <1>3, <1>4, <2>1 DEF Slot
  <2>3. Slots(q.E) = 0
    BY <1>3, <2>2 DEF Slot
  <2>4. ~Missed1(q) /\ ~Uses1(q)
    BY <1>3, <2>3
  <2>5. retInPipe(q) /\ Slots(q.D) = 0
    BY <1>2, <2>2, <2>4
  <2> QED BY <1>11, <2>1, <2>2, <2>4, <2>5
<1>19. Timing(t, f, N, k, c + 1)
  BY <1>14, <1>15, <1>16, <1>17, <1>18 DEF Timing
<1> QED BY <1>19 DEF t, k

\* The next clock edge keeps the window.
LEMMA EdgeKeeps ==
  ASSUME NEW f, NEW N, Flow(f, N), NEW q, NEW n, NEW c \in Nat, InPipe(q, f, N, n, c),
         q.W.cur.status \notin Stopping
  PROVE  InPipe(Turn(q), f, N, AtE(q, n), c + 1)
<1> DEFINE t == Turn(q)
           k == AtE(q, n)
<1>1. /\ k \in 0 .. N /\ (k = N => Slots(t.W) = 1) /\ AtE(t, k) <= N
      /\ HoldsW(t, f, k) /\ HoldsM(t, f, N, k)
  BY TurnMoves
<1>2. HoldsE(t, f, N, k) /\ HoldsD(t, f, N, k) /\ HoldsF(t, f, N, k)
  BY TurnHolds
<1>3. Shape(t, f, N, k)
  BY TurnShape
<1>4. Timing(t, f, N, k, c + 1)
  BY TurnTiming
<1>5. Data(t, f, N, k)
  BY TurnData
<1>6. CurType(t)
  BY TurnTyped DEF InPipe
<1> HIDE DEF t, k
<1>7. InPipe(t, f, N, k, c + 1)
  BY <1>1, <1>2, <1>3, <1>4, <1>5, <1>6 DEF InPipe
<1> QED BY <1>7 DEF t, k

----------------------------------------------------------------------------
(* The first clock edge, and the counters.                                 *)

\* The first clock edge.
LEMMA FirstEdge ==
  ASSUME NEW f, NEW N, Flow(f, N), NEW mem \in Memory, f[0] = First(mem), NEW um, NEW uc
  PROVE  LET q == Edge(PipeReset(mem), um, uc)
         IN  /\ InPipe(q, f, N, 0, 1)
             /\ q.starting_up = TRUE /\ q.cycles = 0 /\ q.instructions = 0 /\ Slots(q.W) = 0
<1> DEFINE p == PipeReset(mem)
           q == Edge(p, um, uc)
<1>1. PipeType(p)
  BY PipeResetType
<1>2. CurType(q)
  BY <1>1, EdgeType
<1>3. /\ p.r = init_reg /\ p.wb_destE = REG_NONE /\ p.wb_destM = REG_NONE /\ p.mem_write = FALSE
      /\ p.m = mem /\ p.cc = DEFAULT_CC /\ p.cc_in = DEFAULT_CC
      /\ p.F = new_pipe(bubble_pc) /\ p.D = new_pipe(bubble_if_id) /\ p.E = new_pipe(bubble_id_ex)
      /\ p.M = new_pipe(bubble_ex_mem) /\ p.W = new_pipe(bubble_mem_wb)
      /\ p.starting_up = TRUE /\ p.cycles = 0 /\ p.instructions = 0
  BY DEF PipeReset
<1> HIDE DEF p
<1>4. /\ q.r = write_back(p.r, p.wb_destE, p.wb_valE, p.wb_destM, p.wb_valM)
      /\ q.m = IF um /\ p.mem_write THEN set_word_val(p.m, p.mem_addr, p.mem_data) ELSE p.m
      /\ q.cc = IF uc THEN p.cc_in ELSE p.cc
      /\ q.cc_was = p.cc /\ q.cc_in = p.cc_in
      /\ q.F = Clocked(p.F, bubble_pc) /\ q.D = Clocked(p.D, bubble_if_id)
      /\ q.E = Clocked(p.E, bubble_id_ex) /\ q.M = Clocked(p.M, bubble_ex_mem)
      /\ q.W = Clocked(p.W, bubble_mem_wb)
      /\ q.starting_up = p.starting_up /\ q.cycles = p.cycles
      /\ q.instructions = p.instructions
  BY <1>1, EdgeFields DEF PipeType
<1> HIDE DEF q
<1>5. \A b : Clocked(new_pipe(b), b).cur = b
  BY DEF Clocked, new_pipe
<1>6. /\ q.F.cur = bubble_pc /\ q.D.cur = bubble_if_id /\ q.E.cur = bubble_id_ex
      /\ q.M.cur = bubble_ex_mem /\ q.W.cur = bubble_mem_wb
  BY <1>3, <1>4, <1>5
<1>7. q.r = init_reg
  BY <1>3, <1>4 DEF write_back, set_reg_val, reg_valid, Registers, REG_NONE
<1>8. q.m = mem /\ q.cc = DEFAULT_CC /\ q.cc_was = DEFAULT_CC /\ q.cc_in = DEFAULT_CC
  BY <1>3, <1>4
<1>9. /\ Slots(q.D) = 0 /\ Slots(q.E) = 0 /\ Slots(q.M) = 0 /\ Slots(q.W) = 0
      /\ Empty(q.W.cur) /\ Empty(q.M.cur) /\ Empty(q.E.cur) /\ q.F.cur.pc = 0
  BY <1>6 DEF Slots, Empty, bubble_pc, bubble_if_id, bubble_id_ex, bubble_ex_mem, bubble_mem_wb
<1>10. AtE(q, 0) = 0 /\ AtD(q, 0) = 0 /\ AtF(q, 0) = 0
  BY <1>9 DEF AtE, AtD, AtF
<1>11. /\ f[0].s.pc = 0 /\ f[0].s.r = init_reg /\ f[0].s.m = mem /\ f[0].s.cc = DEFAULT_CC
  BY DEF First, new_state
<1>12. N \in Nat \ {0}
  BY DEF Flow
<1>13. /\ HoldsW(q, f, 0) /\ HoldsM(q, f, N, 0) /\ HoldsE(q, f, N, 0) /\ HoldsD(q, f, N, 0)
       /\ HoldsF(q, f, N, 0)
  BY <1>6, <1>9, <1>10, <1>11 DEF HoldsW, HoldsM, HoldsE, HoldsD, HoldsF
<1>14. Shape(q, f, N, 0) /\ Timing(q, f, N, 0, 1)
  BY <1>9, <1>10 DEF Shape, Timing
<1>15. Data(q, f, N, 0)
  <2>1. 0 < N /\ 0 - 0 = 0
    BY <1>12
  <2> QED BY <1>7, <1>8, <1>9, <1>10, <1>11, <2>1 DEF Data
<1>16. InPipe(q, f, N, 0, 1)
  BY <1>2, <1>10, <1>12, <1>13, <1>14, <1>15 DEF InPipe
<1> QED BY <1>3, <1>4, <1>9, <1>16 DEF q, p

\* W stops the processor with the last instruction of the run, and only then.
LEMMA StopsAtEnd ==
  ASSUME NEW f, NEW N, Flow(f, N), NEW q, NEW n, NEW c, InPipe(q, f, N, n, c)
  PROVE  /\ q.W.cur.status \in Stopping <=> n = N
         /\ N \in Nat /\ n \in 0 .. N /\ Slots(q.W) \in Slot
         /\ Slots(q.W) = 1 => /\ n - 1 \in 0 .. N - 1 /\ n - 1 + 1 = n
                              /\ q.W.cur = Written(f[n - 1].s)
                              /\ q.W.cur.status = f[n].e
<1>1. N \in Nat /\ n \in 0 .. N /\ (n = N => Slots(q.W) = 1)
  BY DEF InPipe, Flow
<1>2. Slots(q.W) \in Slot /\ (Slots(q.W) = 0 <=> q.W.cur.status = "BUB")
  BY SlotIs
<1>3. ASSUME Slots(q.W) = 1
      PROVE  /\ n - 1 \in 0 .. N - 1 /\ n - 1 + 1 = n
             /\ q.W.cur = Written(f[n - 1].s) /\ q.W.cur.status = f[n].e
             /\ q.W.cur.status \in Stopping <=> n = N
  <2>1. n > 0 /\ q.W.cur = Written(f[n - 1].s)
    BY <1>3 DEF InPipe, HoldsW
  <2>2. n - 1 \in 0 .. N - 1 /\ n - 1 + 1 = n /\ (n < N \/ n = N)
    BY <1>1, <2>1
  <2>3. /\ f[n - 1 + 1].e = Written(f[n - 1].s).status
        /\ IF n - 1 + 1 < N THEN Written(f[n - 1].s).status = "AOK"
           ELSE Written(f[n - 1].s).status \in Stopping
    BY <2>2 DEF Flow
  <2> QED BY <1>1, <2>1, <2>2, <2>3 DEF Stopping
<1>4. Slots(q.W) = 0 => (q.W.cur.status \in Stopping <=> n = N)
  BY <1>1, <1>2 DEF Stopping
<1> QED BY <1>1, <1>2, <1>3, <1>4 DEF Slot

\* The counters before the stages count the instruction in W.
Count(q, n, c) ==
  LET before == n - Slots(q.W)
  IN  /\ q.instructions = before /\ q.starting_up = (before = 0)
      /\ q.cycles = IF before = 0 THEN 0 ELSE c - 5

\* The counters behind the stages count it too.
LEMMA StagesCount ==
  ASSUME NEW f, NEW N, Flow(f, N), NEW q, NEW n, NEW c \in Nat, InPipe(q, f, N, n, c),
         Count(q, n, c)
  PROVE  /\ Stages(q).instructions = n /\ Stages(q).starting_up = (n = 0)
         /\ Stages(q).cycles = IF n = 0 THEN 0 ELSE c - 4
<1>1. /\ N \in Nat /\ n \in 0 .. N /\ Slots(q.W) \in Slot
      /\ Slots(q.W) = 1 => n - 1 \in 0 .. N - 1 /\ n - 1 + 1 = n /\ q.W.cur = Written(f[n - 1].s)
  BY StopsAtEnd
<1>2. Slots(q.W) = 0 <=> q.W.cur.status = "BUB"
  BY SlotIs
<1>3. Slots(q.W) = 1 => q.W.cur.icode # "POP2"
  <2> SUFFICES ASSUME Slots(q.W) = 1 PROVE q.W.cur.icode # "POP2"
    OBVIOUS
  <2>1. Sound(f[n - 1].s)
    BY <1>1, FlowStep
  <2> QED BY <1>1, <2>1, WrittenKeepsIcode DEF Sound
<1>4. Retires(q) <=> Slots(q.W) = 1
  BY <1>1, <1>2, <1>3 DEF Retires, Slot
<1>5. /\ Stages(q).starting_up = (q.starting_up /\ ~Retires(q))
      /\ Stages(q).cycles = IF Retires(q) \/ ~q.starting_up THEN q.cycles + 1 ELSE q.cycles
      /\ Stages(q).instructions = IF Retires(q) THEN q.instructions + 1 ELSE q.instructions
  BY StagesFields
<1>6. Slots(q.W) = 1 /\ n = 1 => c = 5
  <2> SUFFICES ASSUME Slots(q.W) = 1, n = 1 PROVE c = 5
    OBVIOUS
  <2>1. c = Leaves(f, 0) + 3
    BY DEF InPipe, Timing
  <2>2. ~UsesLoad(f, 0) /\ f[0].bubbles = 0 /\ f[0].behind = 0
    BY DEF Flow, UsesLoad, Uses
  <2> QED BY <2>1, <2>2 DEF Leaves, Enters
<1>7. /\ q.instructions = n - Slots(q.W) /\ q.starting_up = (n - Slots(q.W) = 0)
      /\ q.cycles = IF n - Slots(q.W) = 0 THEN 0 ELSE c - 5
  BY DEF Count
<1> HIDE DEF Count
<1>8. CASE Slots(q.W) = 0
  <2>1. n - 0 = n /\ n \in Nat
    BY <1>1
  <2>2. q.instructions = n /\ q.starting_up = (n = 0) /\ q.cycles = IF n = 0 THEN 0 ELSE c - 5
    BY <1>7, <1>8, <2>1
  <2>3. Retires(q) = FALSE
    BY <1>4, <1>8 DEF Retires
  <2>4. CASE n = 0
    <3>1. q.starting_up = TRUE
      BY <2>2, <2>4
    <3> QED BY ONLY <1>5, <2>2, <2>3, <2>4, <3>1
  <2>5. CASE n # 0
    <3>1. q.starting_up = FALSE
      BY <2>2, <2>5
    <3>2. (c - 5) + 1 = c - 4
      OBVIOUS
    <3> QED BY ONLY <1>5, <2>2, <2>3, <2>5, <3>1, <3>2
  <2> QED BY <2>4, <2>5
<1>9. CASE Slots(q.W) = 1
  <2>1. n \in Nat /\ n # 0 /\ n - 1 \in Nat /\ (n - 1 = 0 <=> n = 1)
    BY <1>1, <1>9
  <2>2. Stages(q).instructions = n
    BY <1>4, <1>5, <1>7, <1>9, <2>1
  <2>3. Stages(q).starting_up = FALSE /\ (n = 0) = FALSE
    BY <1>4, <1>5, <1>9, <2>1
  <2>4. Stages(q).cycles = q.cycles + 1
    BY <1>4, <1>5, <1>9
  <2>5. q.cycles = IF n = 1 THEN 0 ELSE c - 5
    BY <1>7, <1>9, <2>1
  <2>6. q.cycles + 1 = c - 4
    BY <1>6, <1>9, <2>5
  <2> QED BY <2>1, <2>2, <2>3, <2>4, <2>6
<1> QED BY <1>1, <1>8, <1>9 DEF Slot

\* The clock edge keeps the counters.
LEMMA CountKept ==
  ASSUME NEW f, NEW N, Flow(f, N), NEW q, NEW n, NEW c \in Nat, InPipe(q, f, N, n, c),
         q.W.cur.status \notin Stopping, Count(q, n, c)
  PROVE  Count(Turn(q), AtE(q, n), c + 1)
<1> DEFINE t == Turn(q)
           k == AtE(q, n)
<1>1. /\ t.starting_up = Stages(q).starting_up /\ t.cycles = Stages(q).cycles
      /\ t.instructions = Stages(q).instructions
  BY TurnFields
<1>2. /\ Stages(q).instructions = n /\ Stages(q).starting_up = (n = 0)
      /\ Stages(q).cycles = IF n = 0 THEN 0 ELSE c - 4
  BY StagesCount
<1>3. Slots(t.W) = Slots(q.M) /\ k = n + Slots(q.M) /\ Slots(q.M) \in Slot /\ n \in Nat
  <2>1. Turned(q, f, N, n)
    BY TurnLoads
  <2> QED BY <2>1 DEF Turned
<1> HIDE DEF t, k
<1>4. k - Slots(t.W) = n /\ (c + 1) - 5 = c - 4
  BY <1>3 DEF Slot
<1>5. Count(t, k, c + 1)
  BY <1>1, <1>2, <1>4 DEF Count
<1> QED BY <1>5 DEF t, k

----------------------------------------------------------------------------
(* The limit, and the state a window stands for.                           *)

\* While W has not stopped the processor, the last instruction is yet to come
\* there, so the cycles so far are bounded by the run.
LEMMA CyclesBounded ==
  ASSUME NEW f, NEW N, Flow(f, N), NEW q, NEW n, NEW c \in Nat, InPipe(q, f, N, n, c),
         q.W.cur.status \notin Stopping
  PROVE  c <= N + f[N].bubbles + 3
<1> DEFINE k == AtE(q, n)
           d == AtD(q, n)
           B == f[N].bubbles
<1>0. Turned(q, f, N, n) /\ InE(q, f, N, n)
  BY TurnLoads, WindowE
<1>1. /\ N \in Nat \ {0} /\ n \in 0 .. N - 1 /\ k \in 0 .. N
      /\ Slots(q.W) \in Slot /\ Slots(q.M) \in Slot /\ Slots(q.E) \in Slot /\ Slots(q.D) \in Slot
      /\ k = n + Slots(q.M) /\ d = k + Slots(q.E) /\ AtF(q, n) = d + Slots(q.D)
  BY <1>0 DEF Turned
<1>2. \A j \in 0 .. N - 1 : Leaves(f, j) <= 1 + N + B /\ Leaves(f, j) \in Int
  <2> SUFFICES ASSUME NEW j \in 0 .. N - 1
               PROVE  Leaves(f, j) <= 1 + N + B /\ Leaves(f, j) \in Int
    OBVIOUS
  <2>1. Leaves(f, j) = 2 + j + f[j + 1].bubbles /\ j + 1 \in 0 .. N
    BY FlowStep
  <2>2. f[j + 1].bubbles \in Nat /\ f[j + 1].bubbles <= B
    BY <2>1, FlowCounts
  <2>3. B \in Nat
    <3>1. N \in 0 .. N
      BY <1>1
    <3> QED BY <3>1, FlowCounts
  <2> HIDE DEF B
  <2>4. j + 1 <= N /\ N \in Nat
    BY <1>1
  <2> QED BY ONLY j \in 0 .. N - 1, <2>1, <2>2, <2>3, <2>4
<1>3. B \in Nat
  <2>1. N \in 0 .. N
    BY <1>1
  <2> QED BY <2>1, FlowCounts
<1>4. /\ Slots(q.W) = 1 => c = Leaves(f, n - 1) + 3
      /\ Slots(q.M) = 1 => c = Leaves(f, n) + 2
      /\ Slots(q.E) = 1 /\ k < N => c = Leaves(f, k) + 1
      /\ Slots(q.D) = 1 /\ d < N /\ ~Astray(q, f, n) =>
           c = IF Slots(q.E) = 1 THEN Enters(f, d) ELSE Leaves(f, d)
      /\ AtF(q, n) = 0 => c = 1
  BY DEF InPipe, Timing
<1>5. Slots(q.E) = 0 => ~Astray(q, f, n)
  BY DEF Astray
<1>6. /\ Slots(q.D) = 0 /\ d < N =>
           d = 0 \/ Slots(q.W) + Slots(q.M) + Slots(q.E) > 0 \/ Slots(q.M) = 1
  BY DEF InPipe, Shape
<1> HIDE DEF k, d, B
<1>7. CASE Slots(q.M) = 1
  <2>1. n \in 0 .. N - 1
    BY <1>1
  <2>2. c = Leaves(f, n) + 2 /\ Leaves(f, n) <= 1 + N + B /\ Leaves(f, n) \in Int
    BY <1>2, <1>4, <1>7, <2>1
  <2> QED BY <1>1, <1>3, <2>2 DEF B
<1>8. CASE Slots(q.M) = 0 /\ Slots(q.W) = 1
  <2>1. Slots(q.W) = 1 => n > 0
    BY DEF InPipe, HoldsW
  <2>2. n - 1 \in 0 .. N - 1 /\ n < N /\ n - 1 + 1 = n
    BY <1>1, <1>8, <2>1
  <2>3. c = Leaves(f, n - 1) + 3
    BY <1>4, <1>8
  <2>4. Leaves(f, n - 1) = 2 + (n - 1) + f[n].bubbles
    <3>1. Leaves(f, n - 1) = 2 + (n - 1) + f[n - 1 + 1].bubbles
      BY <2>2, FlowStep
    <3> QED BY <2>2, <3>1
  <2>5. f[n].bubbles \in Nat /\ f[n].bubbles <= B
    <3>1. n \in 0 .. N
      BY <1>1
    <3> QED BY <3>1, FlowCounts DEF B
  <2>6. n + 1 <= N /\ n \in Nat /\ N \in Nat
    BY <1>1
  <2> QED BY ONLY <1>3, <2>3, <2>4, <2>5, <2>6 DEF B
<1>9. CASE Slots(q.M) = 0 /\ Slots(q.W) = 0
  <2>1. k < N /\ k = n /\ k \in 0 .. N - 1
    BY <1>1, <1>9
  <2>2. CASE Slots(q.E) = 1
    <3>1. c = Leaves(f, k) + 1 /\ Leaves(f, k) <= 1 + N + B /\ Leaves(f, k) \in Int
      BY <1>2, <1>4, <2>1, <2>2
    <3> QED BY <1>1, <1>3, <3>1 DEF B
  <2>3. CASE Slots(q.E) = 0
    <3>1. d = k /\ d < N /\ d \in 0 .. N - 1
      BY <1>1, <2>1, <2>3
    <3>2. CASE Slots(q.D) = 1
      <4>1. c = Leaves(f, d) /\ Leaves(f, d) <= 1 + N + B /\ Leaves(f, d) \in Int
        BY <1>2, <1>4, <1>5, <2>3, <3>1, <3>2
      <4> QED BY <1>1, <1>3, <4>1 DEF B
    <3>3. CASE Slots(q.D) = 0
      <4>1. d = 0
        BY <1>6, <1>9, <2>3, <3>1, <3>3
      <4>2. c = 1
        BY <1>1, <1>4, <3>3, <4>1
      <4> QED BY <1>1, <1>3, <4>2 DEF B
    <3> QED BY <1>1, <3>2, <3>3 DEF Slot
  <2> QED BY <1>1, <2>2, <2>3 DEF Slot
<1> QED BY <1>1, <1>7, <1>8, <1>9 DEF Slot, B

\* A fetched instruction carries its address.
LEMMA FetchedPc ==
  ASSUME NEW m, NEW pc
  PROVE  do_if_stage(m, pc).D.stage_pc = pc
BY DEF do_if_stage

\* The state PIPE stands for, behind the instruction in W.
LEMMA ViewPc ==
  ASSUME NEW f, NEW N, Flow(f, N), NEW q, NEW n, NEW c, InPipe(q, f, N, n, c),
         q.W.cur.status \notin Stopping
  PROVE  f[n].s.pc = IF Slots(q.M) = 1 THEN q.M.cur.stage_pc
                     ELSE IF Slots(q.E) = 1 THEN q.E.cur.stage_pc
                     ELSE IF Slots(q.D) = 1 THEN q.D.cur.stage_pc
                     ELSE f_pc(q)
<1> DEFINE k == AtE(q, n)
           d == AtD(q, n)
           i == AtF(q, n)
           s == f[n].s
<1>0. Turned(q, f, N, n) /\ Back(q, f, N, n) /\ InE(q, f, N, n) /\ InD(q, f, N, n)
  BY TurnLoads, WindowBack, WindowE, WindowD
<1>1. /\ N \in Nat /\ n \in 0 .. N - 1 /\ n < N
      /\ Slots(q.W) \in Slot /\ Slots(q.M) \in Slot /\ Slots(q.E) \in Slot /\ Slots(q.D) \in Slot
      /\ k = n + Slots(q.M) /\ d = k + Slots(q.E) /\ i = d + Slots(q.D)
  BY <1>0 DEF Turned
<1>2. Ins(s).stage_pc = s.pc
  BY FetchedPc DEF Ins
<1>3. CASE Slots(q.M) = 1
  <2>1. SameM(q.M.cur, s)
    BY <1>0, <1>3 DEF Back
  <2>2. q.M.cur.stage_pc = Ins(s).stage_pc
    BY <2>1, ExecutedIs DEF SameM
  <2> QED BY <1>2, <1>3, <2>2
<1>4. CASE Slots(q.M) = 0 /\ Slots(q.E) = 1
  <2>1. k = n /\ k < N
    BY <1>1, <1>4
  <2>2. SameE(q.E.cur, Operands(f[k].s))
    BY <1>0, <1>4, <2>1 DEF InE
  <2>3. q.E.cur.stage_pc = Operands(s).stage_pc
    BY <2>1, <2>2 DEF SameE
  <2>4. Operands(s).stage_pc = Ins(s).stage_pc
    BY DEF Operands
  <2> QED BY <1>2, <1>4, <2>3, <2>4
<1>5. CASE Slots(q.M) = 0 /\ Slots(q.E) = 0
  <2>1. k = n /\ d = n /\ k < N /\ d < N
    BY <1>1, <1>5
  <2>2. ~Missed1(q)
    BY <1>0, <1>5 DEF InE, Missed1
  <2>3. CASE Slots(q.D) = 1
    <3>1. q.D.cur = Ins(f[d].s)
      BY <1>0, <2>1, <2>2, <2>3 DEF InD, Missed1
    <3> QED BY <1>2, <1>5, <2>1, <2>3, <3>1
  <2>4. CASE Slots(q.D) = 0
    <3>1. i = n /\ i < N
      BY <1>1, <2>1, <2>4
    <3>2. ~retInPipe(q)
      BY <1>5, <2>1, <2>4, RetIn
    <3>3. Fetched(q) = do_if_stage(f[i].s.m, f[i].s.pc)
      BY <2>2, <2>4, <3>1, <3>2, FetchesRight
    <3>4. Fetched(q).D.stage_pc = f_pc(q)
      BY FetchedPc DEF Fetched
    <3> HIDE DEF i
    <3>5. f_pc(q) = s.pc
      BY <3>1, <3>3, <3>4, FetchedPc
    <3> QED BY <1>5, <2>4, <3>5
  <2> QED BY <1>1, <2>3, <2>4 DEF Slot
<1> QED BY <1>1, <1>3, <1>4, <1>5 DEF Slot

\* The stage nearest to W that holds no bubble.
LEMMA NearestStage ==
  ASSUME NEW a, NEW b, NEW c
  PROVE  LET stages == <<a, b, c>>
             busy == {i \in 1 .. 3 : stages[i].status # "BUB"}
         IN  /\ busy # {} <=> a.status # "BUB" \/ b.status # "BUB" \/ c.status # "BUB"
             /\ busy # {} => stages[Min(busy)] = IF a.status # "BUB" THEN a
                                                ELSE IF b.status # "BUB" THEN b ELSE c
<1> DEFINE stages == <<a, b, c>>
           busy == {i \in 1 .. 3 : stages[i].status # "BUB"}
<1>1. stages[1] = a /\ stages[2] = b /\ stages[3] = c
  OBVIOUS
<1> HIDE DEF stages
<1>2. busy # {} <=> a.status # "BUB" \/ b.status # "BUB" \/ c.status # "BUB"
  BY <1>1
<1>3. \A i \in busy : i \in 1 .. 3 /\ stages[i].status # "BUB"
  OBVIOUS
<1>4. ASSUME a.status # "BUB" PROVE Min(busy) = 1
  BY <1>1, <1>4 DEF Min
<1>5. ASSUME a.status = "BUB", b.status # "BUB" PROVE Min(busy) = 2
  BY <1>1, <1>5 DEF Min
<1>6. ASSUME a.status = "BUB", b.status = "BUB", c.status # "BUB" PROVE Min(busy) = 3
  BY <1>1, <1>6 DEF Min
<1> HIDE DEF busy
<1> QED BY <1>1, <1>2, <1>4, <1>5, <1>6 DEF stages, busy

\* The state PIPE stands for, field by field.
LEMMA ViewFields ==
  ASSUME NEW q
  PROVE  LET v == PipeView(Stages(q))
             W == q.W.cur
         IN  /\ v.pc = IF W.status \in Stopping THEN W.stage_pc
                       ELSE IF Slots(q.M) = 1 THEN q.M.cur.stage_pc
                       ELSE IF Slots(q.E) = 1 THEN q.E.cur.stage_pc
                       ELSE IF Slots(q.D) = 1 THEN q.D.cur.stage_pc
                       ELSE f_pc(q)
             /\ v.r = IF W.status \in Stopping THEN q.r
                      ELSE write_back(q.r, W.deste, W.vale, W.destm, W.valm)
             /\ v.m = q.m /\ v.cc = q.cc_was
             /\ v = [pc |-> v.pc, r |-> v.r, m |-> v.m, cc |-> v.cc]
<1> DEFINE p == Stages(q)
           a == q.M.cur
           b == q.E.cur
           d == q.D.cur
           W == q.W.cur
           stages == <<a, b, d>>
           busy == {i \in 1 .. 3 : stages[i].status # "BUB"}
           v == PipeView(p)
<1>1. /\ p.r = q.r /\ p.m = q.m /\ p.cc_was = q.cc_was /\ p.f_pc = f_pc(q)
      /\ p.D.cur = d /\ p.E.cur = b /\ p.M.cur = a /\ p.W.cur = W
  BY StagesFields
<1> HIDE DEF p
<1>2. /\ v.pc = IF W.status \in Stopping THEN W.stage_pc
                ELSE IF busy # {} THEN stages[Min(busy)].stage_pc ELSE f_pc(q)
      /\ v.r = IF W.status \in Stopping THEN q.r
               ELSE write_back(q.r, W.deste, W.vale, W.destm, W.valm)
      /\ v.m = q.m /\ v.cc = q.cc_was
  BY <1>1 DEF PipeView
<1>3. v = [pc |-> v.pc, r |-> v.r, m |-> v.m, cc |-> v.cc]
  BY DEF PipeView
<1>4. /\ busy # {} <=> a.status # "BUB" \/ b.status # "BUB" \/ d.status # "BUB"
      /\ busy # {} => stages[Min(busy)] = IF a.status # "BUB" THEN a
                                          ELSE IF b.status # "BUB" THEN b ELSE d
  BY NearestStage
<1>5. /\ Slots(q.M) = 1 <=> a.status # "BUB"
      /\ Slots(q.E) = 1 <=> b.status # "BUB"
      /\ Slots(q.D) = 1 <=> d.status # "BUB"
  BY DEF Slots
<1> HIDE DEF stages, busy, v, a, b, d, W
<1>6. v.pc = IF W.status \in Stopping THEN W.stage_pc
             ELSE IF Slots(q.M) = 1 THEN a.stage_pc
             ELSE IF Slots(q.E) = 1 THEN b.stage_pc
             ELSE IF Slots(q.D) = 1 THEN d.stage_pc
             ELSE f_pc(q)
  BY ONLY <1>2, <1>4, <1>5
<1> QED BY <1>2, <1>3, <1>6 DEF v, p, a, b, d, W

\* PIPE stands for the state of the run behind the instruction in W.
LEMMA StandsFor ==
  ASSUME NEW f, NEW N, Flow(f, N), f[0].e = "AOK", NEW q, NEW n, NEW c, InPipe(q, f, N, n, c)
  PROVE  PipeView(Stages(q)) = f[n].s /\ Stages(q).status = f[n].e
<1> DEFINE v == PipeView(Stages(q))
           W == q.W.cur
<1>1. /\ W.status \in Stopping <=> n = N
      /\ N \in Nat /\ n \in 0 .. N /\ Slots(q.W) \in Slot
      /\ Slots(q.W) = 1 => /\ n - 1 \in 0 .. N - 1 /\ n - 1 + 1 = n
                           /\ W = Written(f[n - 1].s) /\ W.status = f[n].e
      /\ n = N => Slots(q.W) = 1
  BY StopsAtEnd DEF InPipe
<1>2. /\ v.pc = IF W.status \in Stopping THEN W.stage_pc
                ELSE IF Slots(q.M) = 1 THEN q.M.cur.stage_pc
                ELSE IF Slots(q.E) = 1 THEN q.E.cur.stage_pc
                ELSE IF Slots(q.D) = 1 THEN q.D.cur.stage_pc
                ELSE f_pc(q)
      /\ v.r = IF W.status \in Stopping THEN q.r
               ELSE write_back(q.r, W.deste, W.vale, W.destm, W.valm)
      /\ v.m = q.m /\ v.cc = q.cc_was
      /\ v = [pc |-> v.pc, r |-> v.r, m |-> v.m, cc |-> v.cc]
  BY ViewFields
<1>3. /\ q.r = f[n - Slots(q.W)].s.r /\ q.m = f[n].s.m /\ q.cc_was = f[n].s.cc
  BY DEF InPipe, Data
<1>4. f[n].s \in States
  BY <1>1 DEF Flow
<1> HIDE DEF v
<1>5. v.pc = f[n].s.pc /\ v.r = f[n].s.r
  <2>1. CASE n = N
    <3>1. Slots(q.W) = 1 /\ W.status \in Stopping /\ n - 1 \in 0 .. N - 1 /\ n - 1 + 1 = N
          /\ W = Written(f[n - 1].s)
      BY <1>1, <2>1
    <3>2. f[N].s = f[n - 1].s
      BY <3>1, FlowStep
    <3>3. W.stage_pc = f[n - 1].s.pc
      <4>1. Ins(f[n - 1].s).stage_pc = f[n - 1].s.pc
        BY FetchedPc DEF Ins
      <4>2. Written(f[n - 1].s).stage_pc = Ins(f[n - 1].s).stage_pc
        BY WrittenKeepsIcode
      <4> QED BY ONLY <3>1, <4>1, <4>2
    <3>4. v.pc = W.stage_pc /\ v.r = q.r
      BY <1>2, <3>1
    <3> HIDE DEF W
    <3>5. q.r = f[n - 1].s.r
      BY <1>3, <3>1
    <3> QED BY <2>1, <3>2, <3>3, <3>4, <3>5
  <2>2. CASE n # N
    <3>1. W.status \notin Stopping /\ n \in 0 .. N - 1
      BY <1>1, <2>2
    <3>2. v.pc = f[n].s.pc
      BY <1>2, <3>1, ViewPc
    <3>3. f[n].s.r = write_back(q.r, W.deste, W.vale, W.destm, W.valm)
      <4> DEFINE t == Turn(q)
                 k == AtE(q, n)
      <4>1. t.r = write_back(q.r, W.deste, W.vale, W.destm, W.valm)
        BY <3>1, TurnFields
      <4>2. Data(t, f, N, k) /\ Turned(q, f, N, n)
        BY <3>1, TurnData, TurnLoads
      <4>3. Slots(t.W) = Slots(q.M) /\ k = n + Slots(q.M) /\ Slots(q.M) \in Slot
        BY <4>2 DEF Turned
      <4> HIDE DEF t, k
      <4>4. t.r = f[k - Slots(t.W)].s.r
        BY <4>2 DEF Data
      <4>5. k - Slots(t.W) = n
        BY <1>1, <4>3 DEF Slot
      <4> QED BY <4>1, <4>4, <4>5
    <3> QED BY <1>2, <3>1, <3>2, <3>3
  <2> QED BY <2>1, <2>2
<1>6. v = f[n].s
  <2>1. f[n].s = [pc |-> f[n].s.pc, r |-> f[n].s.r, m |-> f[n].s.m, cc |-> f[n].s.cc]
    BY <1>4 DEF States
  <2>2. v = [pc |-> f[n].s.pc, r |-> f[n].s.r, m |-> f[n].s.m, cc |-> f[n].s.cc]
    BY <1>2, <1>3, <1>5
  <2> QED BY <2>1, <2>2
<1>7. Stages(q).status = f[n].e
  <2>1. Stages(q).status = gen_Stat(W.status)
    BY StagesFields
  <2>2. CASE Slots(q.W) = 1
    <3>1. W.status # "BUB" /\ W.status = f[n].e
      BY <1>1, <2>2, SlotIs
    <3> QED BY <2>1, <3>1 DEF gen_Stat
  <2>3. CASE Slots(q.W) = 0
    <3>1. W.status = "BUB"
      BY <2>3, SlotIs
    <3>2. f[n].e = "AOK"
      <4>1. CASE n = 0
        BY <4>1
      <4>2. CASE n # 0
        <5>1. n # N
          BY <1>1, <2>3
        <5>2. n - 1 \in 0 .. N - 1 /\ n - 1 + 1 = n /\ n < N
          BY <1>1, <4>2, <5>1
        <5>3. f[n - 1 + 1].e = Written(f[n - 1].s).status /\ Written(f[n - 1].s).status = "AOK"
          BY <5>2 DEF Flow
        <5> QED BY <5>2, <5>3
      <4> QED BY <4>1, <4>2
    <3> QED BY <2>1, <3>1, <3>2 DEF gen_Stat
  <2> QED BY <1>1, <2>2, <2>3 DEF Slot
<1> QED BY <1>6, <1>7 DEF v

\* As long as the limit is far enough, a step is the clock edge with every write.
LEMMA StepIsTurn ==
  ASSUME NEW q, NEW room \in Int, room >= 3
  PROVE  sim_step_pipe(Stages(q), room) = Stages(Turn(q))
<1> DEFINE p == Stages(q)
           One(busy) == IF busy THEN 1 ELSE 0
           ahead_mem == One(p.W.cur.status # "BUB")
           ahead_ex == ahead_mem + One(p.W.nxt.status # "BUB")
<1>1. sim_step_pipe(p, room) = Stages(Edge(p, ahead_mem < room, ahead_ex < room))
  BY DEF sim_step_pipe, Edge
<1>2. ahead_mem \in 0 .. 1 /\ ahead_ex \in 0 .. 2
  OBVIOUS
<1>3. (ahead_mem < room) = TRUE /\ (ahead_ex < room) = TRUE
  <2> HIDE DEF ahead_mem, ahead_ex
  <2> QED BY <1>2
<1> HIDE DEF ahead_mem, ahead_ex
<1>4. sim_step_pipe(p, room) = Stages(Edge(p, TRUE, TRUE))
  BY <1>1, <1>3
<1> QED BY <1>4 DEF Turn

----------------------------------------------------------------------------
(* PIPE follows the run.                                                   *)

\* The run of every program the specification picks is one the window is about.
LEMMA RunBegins ==
  ASSUME RunFacts
  PROVE  /\ Flow(Run, Steps) /\ Run[0].e = "AOK" /\ Steps \in Nat \ {0} /\ InstrLimit \in Nat
         /\ Run[Steps].e # "AOK" /\ Run[Steps].bubbles \in Nat
         /\ Steps + Run[Steps].bubbles + 6 <= InstrLimit
<1>1. Flow(Run, Steps)
  BY RunFlows
<1>2. Run[0].e = "AOK"
  BY DEF RunFacts, First
<1>3. Steps \in Nat \ {0} /\ Run[Steps].e # "AOK"
  BY DEF RunFacts, RunOf
<1>4. Run[Steps].bubbles \in Nat
  <2>1. Steps \in 0 .. Steps
    BY <1>3
  <2> QED BY <1>1, <2>1, FlowCounts
<1> QED BY <1>1, <1>2, <1>3, <1>4, InstrLimitAssumption DEF RunFacts

\* While no fault is in W, PIPE takes another cycle, far from the limit.
LEMMA WindowTurns ==
  ASSUME RunFacts, NEW q, NEW n, NEW c \in Nat, InPipe(q, Run, Steps, n, c), Count(q, n, c),
         Stages(q).status = "AOK"
  PROVE  /\ n \in 0 .. Steps - 1 /\ c + 3 <= InstrLimit
         /\ sim_step_pipe(Stages(q), InstrLimit - c) = Stages(Turn(q))
         /\ InPipe(Turn(q), Run, Steps, AtE(q, n), c + 1) /\ Count(Turn(q), AtE(q, n), c + 1)
         /\ AtE(q, n) = n \/ AtE(q, n) = n + 1
<1> DEFINE N == Steps
           B == Run[Steps].bubbles
<1>1. /\ Flow(Run, N) /\ Run[0].e = "AOK" /\ N \in Nat \ {0} /\ InstrLimit \in Nat
      /\ Run[N].e # "AOK" /\ B \in Nat /\ N + B + 6 <= InstrLimit
  BY RunBegins
<1>2. Run[n].e = "AOK"
  BY <1>1, StandsFor
<1>3. q.W.cur.status \notin Stopping /\ n \in 0 .. N /\ n # N
  BY <1>1, <1>2, StopsAtEnd
<1>4. n \in 0 .. N - 1
  BY <1>1, <1>3
<1>5. c <= N + B + 3
  BY <1>1, <1>3, CyclesBounded
<1> HIDE DEF N, B
<1>6. c + 3 <= InstrLimit /\ InstrLimit - c \in Int /\ InstrLimit - c >= 3
  BY <1>1, <1>5
<1>7. sim_step_pipe(Stages(q), InstrLimit - c) = Stages(Turn(q))
  BY <1>6, StepIsTurn
<1>8. InPipe(Turn(q), Run, Steps, AtE(q, n), c + 1)
  BY <1>1, <1>3, EdgeKeeps DEF N
<1>9. Count(Turn(q), AtE(q, n), c + 1)
  BY <1>1, <1>3, CountKept DEF N
<1>10. AtE(q, n) = n \/ AtE(q, n) = n + 1
  BY <1>4 DEF AtE, Slots
<1> QED BY <1>4, <1>6, <1>7, <1>8, <1>9, <1>10 DEF N

\* PIPE has just been reset, or is a window on the run, closed once it is done.
Window(n) ==
  \E q : InPipe(q, Run, Steps, n, icount) /\ Count(q, n, icount) /\ pipe = Stages(q)

PipeFollows ==
  /\ SeqFollows
  /\ \/ pipe = PipeReset(Mem) /\ (phase = "seq" \/ (phase = "pipe" /\ icount = 0))
     \/ /\ phase \in {"pipe", "done"}
        /\ \E n \in 0 .. Steps : Window(n) /\ (phase = "done" => n = Steps)

\* The program has been loaded, and PIPE reset.
LEMMA PipeFollowsInit ==
  ASSUME ProgramsComparable, Init
  PROVE  PipeFollows
<1>1. SeqFollows
  BY SeqFollowsInit
<1>2. pipe = PipeReset(Mem) /\ phase = "seq"
  BY DEF Init, Start, Mem
<1> QED BY <1>1, <1>2 DEF PipeFollows

\* The first cycle opens the window.
LEMMA WindowOpens ==
  ASSUME RunFacts, PipeStep, pipe = PipeReset(Mem), icount = 0
  PROVE  \E q : /\ InPipe(q, Run, Steps, 0, 1) /\ Count(q, 0, 1) /\ pipe' = Stages(q)
                /\ icount' = 1
<1> DEFINE p == PipeReset(Mem)
<1>1. pipe' = sim_step_pipe(p, InstrLimit - icount) /\ icount' = 1
  BY DEF PipeStep
<1>2. PICK um, uc : sim_step_pipe(p, InstrLimit - icount) = Stages(Edge(p, um, uc))
  BY DEF sim_step_pipe, Edge
<1> DEFINE q == Edge(p, um, uc)
<1>3. Mem \in Memory /\ Run[0] = First(Mem) /\ Flow(Run, Steps)
  BY RunBegins DEF RunFacts
<1>4. /\ InPipe(q, Run, Steps, 0, 1)
      /\ q.starting_up = TRUE /\ q.cycles = 0 /\ q.instructions = 0 /\ Slots(q.W) = 0
  BY <1>3, FirstEdge
<1> HIDE DEF q
<1>5. Count(q, 0, 1)
  <2>1. 0 - Slots(q.W) = 0 /\ (0 - Slots(q.W) = 0) = TRUE
    BY <1>4
  <2> QED BY ONLY <1>4, <2>1 DEF Count
<1>6. pipe' = Stages(q)
  BY <1>1, <1>2 DEF q
<1> QED BY <1>1, <1>4, <1>5, <1>6

\* Every step of the specification keeps that.
LEMMA PipeFollowsNext ==
  ASSUME ProgramsComparable, PipeFollows, [Next]_vars
  PROVE  PipeFollows'
<1>1. SeqFollows /\ SeqFollows'
  BY SeqFollowsNext DEF PipeFollows
<1>2. RunFacts /\ icount \in 0 .. InstrLimit
  BY <1>1, ComparableRun DEF SeqFollows, ProcessorsTyped
<1>3. source' = source /\ Mem' = Mem /\ Run' = Run /\ Steps' = Steps
  BY DEF Next, SeqStep, SeqEnds, PipeStep, PipeEnds, vars, Mem, Run, Steps
<1>4. /\ Steps \in Nat \ {0} /\ InstrLimit \in Nat /\ Run[Steps].bubbles \in Nat
      /\ Steps + Run[Steps].bubbles + 6 <= InstrLimit
  BY <1>2, RunBegins
<1>5. CASE SeqStep \/ SeqEnds
  <2>1. /\ phase = "seq" /\ pipe' = pipe
        /\ phase' = "seq" \/ (phase' = "pipe" /\ icount' = 0)
    BY <1>5 DEF SeqStep, SeqEnds
  <2>2. pipe = PipeReset(Mem)
    BY <2>1 DEF PipeFollows
  <2> QED BY <1>1, <1>3, <2>1, <2>2 DEF PipeFollows
<1>6. CASE PipeStep
  <2>1. /\ phase = "pipe" /\ phase' = "pipe" /\ pipe.status = "AOK" /\ icount' = icount + 1
        /\ pipe' = sim_step_pipe(pipe, InstrLimit - icount)
    BY <1>6 DEF PipeStep
  <2>2. \E n \in 0 .. Steps :
          \E q : InPipe(q, Run, Steps, n, icount') /\ Count(q, n, icount') /\ pipe' = Stages(q)
    <3>1. CASE pipe = PipeReset(Mem) /\ icount = 0
      <4>1. 0 \in 0 .. Steps
        BY <1>4
      <4> QED BY <1>2, <1>6, <3>1, <4>1, WindowOpens
    <3>2. CASE \E n \in 0 .. Steps : Window(n)
      <4>0. PICK n \in 0 .. Steps : Window(n)
        BY <3>2
      <4>1. PICK q : InPipe(q, Run, Steps, n, icount) /\ Count(q, n, icount) /\ pipe = Stages(q)
        BY <4>0 DEF Window
      <4>2. icount \in Nat
        BY <1>2
      <4>3. /\ pipe' = Stages(Turn(q)) /\ n \in 0 .. Steps - 1
            /\ InPipe(Turn(q), Run, Steps, AtE(q, n), icount + 1)
            /\ Count(Turn(q), AtE(q, n), icount + 1)
            /\ AtE(q, n) = n \/ AtE(q, n) = n + 1
        BY <1>2, <2>1, <4>1, <4>2, WindowTurns
      <4>4. AtE(q, n) \in 0 .. Steps
        BY <1>4, <4>3
      <4> QED BY <2>1, <4>3, <4>4
    <3> QED BY <2>1, <3>1, <3>2 DEF PipeFollows
  <2>3. \E n \in 0 .. Steps' : Window(n)'
    BY <1>3, <2>2 DEF Window
  <2> QED BY <1>1, <2>1, <2>3 DEF PipeFollows
<1>7. CASE PipeEnds
  <2>1. /\ phase = "pipe" /\ phase' = "done" /\ pipe' = pipe /\ icount' = icount
        /\ icount = InstrLimit \/ pipe.status # "AOK"
    BY <1>7 DEF PipeEnds
  <2>2. ~(pipe = PipeReset(Mem) /\ icount = 0)
    BY <1>4, <2>1 DEF PipeReset
  <2>0. PICK n \in 0 .. Steps : Window(n)
    BY <2>1, <2>2 DEF PipeFollows
  <2>3. PICK q : InPipe(q, Run, Steps, n, icount) /\ Count(q, n, icount) /\ pipe = Stages(q)
    BY <2>0 DEF Window
  <2>4. pipe.status # "AOK"
    <3> SUFFICES ASSUME pipe.status = "AOK" PROVE FALSE
      OBVIOUS
    <3>1. icount \in Nat
      BY <1>2
    <3>2. icount + 3 <= InstrLimit
      BY <1>2, <2>3, <3>1, WindowTurns
    <3> QED BY <1>4, <2>1, <3>2
  <2>5. n = Steps
    <3>1. Flow(Run, Steps) /\ Run[0].e = "AOK"
      BY <1>2, RunBegins
    <3>2. Run[n].e # "AOK"
      BY <2>3, <2>4, <3>1, StandsFor
    <3>3. n \in 0 .. Steps - 1 => Run[n].e = "AOK"
      BY <1>2 DEF RunFacts, RunOf
    <3> QED BY <1>4, <3>2, <3>3
  <2>6. Window(Steps)'
    BY <1>3, <2>1, <2>3, <2>5 DEF Window
  <2>7. Steps' \in 0 .. Steps'
    BY <1>3, <1>4
  <2> QED BY <1>1, <1>3, <2>1, <2>6, <2>7 DEF PipeFollows
<1>8. CASE UNCHANGED vars
  <2>1. phase' = phase /\ pipe' = pipe /\ icount' = icount
    BY <1>8 DEF vars
  <2> QED BY <1>1, <1>3, <2>1 DEF PipeFollows, Window
<1> QED BY <1>5, <1>6, <1>7, <1>8 DEF Next

----------------------------------------------------------------------------
(* PIPE implements the instruction set.                                    *)

\* The instruction set as PIPE implements it is the one the models use.
LEMMA PipeIsaSteps == \A s : PipeIsa!step_state(s) = step_state(s)
<1>1. PipeIsa!Pow2 = Pow2 /\ \A x : PipeIsa!Wrap(x) = Wrap(x)
  BY DEF PipeIsa!Pow2, Pow2, PipeIsa!Wrap, Wrap
<1>2. /\ \A x, y : PipeIsa!NameIn(x, y) = NameIn(x, y)
      /\ \A x : PipeIsa!HI4(x) = HI4(x) /\ PipeIsa!LO4(x) = LO4(x) /\ PipeIsa!reg_valid(x) = reg_valid(x)
      /\ PipeIsa!itype_t = itype_t /\ PipeIsa!alu_t = alu_t /\ PipeIsa!cond_t = cond_t
      /\ PipeIsa!REG_NONE = REG_NONE /\ PipeIsa!REG_RSP = REG_RSP
  BY DEF PipeIsa!NameIn, NameIn, PipeIsa!HI4, HI4, PipeIsa!LO4, LO4, PipeIsa!reg_valid, reg_valid, PipeIsa!Registers, Registers, PipeIsa!itype_t, itype_t, PipeIsa!alu_t, alu_t, PipeIsa!cond_t, cond_t, PipeIsa!REG_NONE, REG_NONE, PipeIsa!REG_RSP, REG_RSP
<1>3. /\ \A m, a : PipeIsa!ByteOK(m, a) = ByteOK(m, a) /\ PipeIsa!WordOK(m, a) = WordOK(m, a)
      /\ \A m, a : PipeIsa!get_byte_val(m, a) = get_byte_val(m, a)
  BY DEF PipeIsa!ByteOK, ByteOK, PipeIsa!WordOK, WordOK, PipeIsa!get_byte_val, get_byte_val
<1>4. \A b : PipeIsa!FromBytes(b) = FromBytes(b) /\ PipeIsa!FromBits(b) = FromBits(b)
  BY <1>1 DEF PipeIsa!FromBytes, FromBytes, PipeIsa!FromBits, FromBits
<1>5. /\ \A m, a : PipeIsa!get_word_val(m, a) = get_word_val(m, a)
      /\ \A m, a, v : PipeIsa!set_word_val(m, a, v) = set_word_val(m, a, v)
      /\ \A r, i : PipeIsa!get_reg_val(r, i) = get_reg_val(r, i)
      /\ \A r, i, v : PipeIsa!set_reg_val(r, i, v) = set_reg_val(r, i, v)
  <2>1. \A m, a : PipeIsa!get_word_val(m, a) = get_word_val(m, a)
    BY <1>3, <1>4 DEF PipeIsa!get_word_val, get_word_val
  <2>2. \A m, a, v : PipeIsa!set_word_val(m, a, v) = set_word_val(m, a, v)
    BY <1>1, <1>3 DEF PipeIsa!set_word_val, set_word_val
  <2>3. \A r, i : PipeIsa!get_reg_val(r, i) = get_reg_val(r, i)
    BY <1>2 DEF PipeIsa!get_reg_val, get_reg_val
  <2>4. \A r, i, v : PipeIsa!set_reg_val(r, i, v) = set_reg_val(r, i, v)
    BY <1>2 DEF PipeIsa!set_reg_val, set_reg_val
  <2> QED BY <2>1, <2>2, <2>3, <2>4
<1>6. PipeIsa!Bits = Bits /\ \A x, i : PipeIsa!Bit(x, i) = Bit(x, i)
  BY <1>1 DEF PipeIsa!Bits, Bits, PipeIsa!Bit, Bit
<1>7. \A op, x, y : PipeIsa!compute_alu(op, x, y) = compute_alu(op, x, y)
  BY <1>1, <1>4, <1>6 DEF PipeIsa!compute_alu, compute_alu
<1>8. /\ \A op, x, y : PipeIsa!compute_cc(op, x, y) = compute_cc(op, x, y)
      /\ \A cc, x : PipeIsa!cond_holds(cc, x) = cond_holds(cc, x)
  <2>1. \A op, x, y : PipeIsa!compute_cc(op, x, y) = compute_cc(op, x, y)
    <3> TAKE op, x, y
    <3>1. PipeIsa!compute_alu(op, x, y) = compute_alu(op, x, y)
      BY <1>7
    <3> QED BY <3>1, Zenon DEF PipeIsa!compute_cc, compute_cc
  <2>2. \A cc, x : PipeIsa!cond_holds(cc, x) = cond_holds(cc, x)
    BY DEF PipeIsa!cond_holds, cond_holds
  <2> QED BY <2>1, <2>2
<1>9. \A m, a : PipeIsa!FetchInstr(m, a) = FetchInstr(m, a)
  BY <1>2, <1>3, <1>5 DEF PipeIsa!FetchInstr, FetchInstr, PipeIsa!NeedRegids, NeedRegids, PipeIsa!NeedImm, NeedImm
<1>10. \A m, a, i : PipeIsa!FetchStatus(m, a, i) = FetchStatus(m, a, i)
  BY <1>2, <1>3 DEF PipeIsa!FetchStatus, FetchStatus, PipeIsa!RegsOK, RegsOK
<1>11. /\ \A t : PipeIsa!Done(t) = Done(t) /\ PipeIsa!Refused(t) = Refused(t)
      /\ \A t, x, y : PipeIsa!SetReg(t, x, y) = SetReg(t, x, y) /\ PipeIsa!Store(t, x, y) = Store(t, x, y)
  BY <1>5 DEF PipeIsa!Done, Done, PipeIsa!Refused, Refused, PipeIsa!SetReg, SetReg, PipeIsa!Store, Store
<1>12. /\ \A s, i : PipeIsa!StackEffect(s, i) = StackEffect(s, i)
      /\ \A s, x, y : PipeIsa!AddImmediate(s, x, y) = AddImmediate(s, x, y)
  BY <1>1, <1>2, <1>3, <1>5, <1>7, <1>8, <1>11 DEF PipeIsa!StackEffect, StackEffect, PipeIsa!AddImmediate, AddImmediate
<1>13. \A s, i : PipeIsa!Effect(s, i) = Effect(s, i)
  BY <1>1, <1>2, <1>3, <1>5, <1>7, <1>8, <1>11, <1>12 DEF PipeIsa!Effect, Effect
<1> QED BY <1>9, <1>10, <1>13 DEF PipeIsa!step_state, step_state

\* After a reset PIPE stands for the first state of the run.
LEMMA ResetView ==
  ASSUME NEW mem \in Memory
  PROVE  PipeView(PipeReset(mem)) = First(mem).s /\ PipeReset(mem).status = "AOK"
<1> DEFINE p == PipeReset(mem)
           a == p.M.cur
           b == p.E.cur
           d == p.D.cur
           stages == <<a, b, d>>
           busy == {i \in 1 .. 3 : stages[i].status # "BUB"}
<1>1. /\ p.r = init_reg /\ p.m = mem /\ p.cc_was = DEFAULT_CC /\ p.f_pc = 0 /\ p.status = "AOK"
      /\ a.status = "BUB" /\ b.status = "BUB" /\ d.status = "BUB"
      /\ p.W.cur.status = "BUB" /\ p.W.cur.deste = REG_NONE /\ p.W.cur.destm = REG_NONE
  BY DEF PipeReset, new_pipe, bubble_if_id, bubble_id_ex, bubble_ex_mem, bubble_mem_wb
<1>2. busy = {}
  BY <1>1, NearestStage
<1>3. write_back(init_reg, REG_NONE, p.W.cur.vale, REG_NONE, p.W.cur.valm) = init_reg
  BY DEF write_back, set_reg_val, reg_valid, Registers, REG_NONE
<1>4. First(mem).s = [pc |-> 0, r |-> init_reg, m |-> mem, cc |-> DEFAULT_CC]
  BY DEF First, new_state
<1> HIDE DEF p
<1>5. PipeView(p) = [pc |-> 0, r |-> init_reg, m |-> mem, cc |-> DEFAULT_CC]
  BY <1>1, <1>2, <1>3 DEF PipeView, Stopping
<1> QED BY <1>1, <1>4, <1>5 DEF p

\* A cycle of PIPE takes the state it stands for one instruction further, or
\* leaves it alone.
LEMMA PipeStepFollows ==
  ASSUME RunFacts, PipeFollows, PipeStep
  PROVE  \E n \in 0 .. Steps :
           /\ PipeView(pipe) = Run[n].s /\ pipe.status = Run[n].e
           /\ \/ PipeView(pipe') = Run[n].s /\ pipe'.status = Run[n].e
              \/ /\ n \in 0 .. Steps - 1
                 /\ PipeView(pipe') = Run[n + 1].s /\ pipe'.status = Run[n + 1].e
<1>1. /\ phase = "pipe" /\ pipe.status = "AOK" /\ icount' = icount + 1
      /\ pipe' = sim_step_pipe(pipe, InstrLimit - icount)
  BY DEF PipeStep
<1>2. icount \in Nat
  BY InstrLimitAssumption DEF PipeFollows, SeqFollows, ProcessorsTyped
<1>3. Flow(Run, Steps) /\ Run[0].e = "AOK" /\ Steps \in Nat \ {0}
  BY RunBegins
<1>4. CASE pipe = PipeReset(Mem) /\ icount = 0
  <2>1. 0 \in 0 .. Steps
    BY <1>3
  <2>2. PipeView(pipe) = Run[0].s /\ pipe.status = Run[0].e
    BY <1>1, <1>3, <1>4, ResetView DEF RunFacts
  <2>3. PICK q : InPipe(q, Run, Steps, 0, 1) /\ Count(q, 0, 1) /\ pipe' = Stages(q)
    BY <1>4, WindowOpens
  <2>4. PipeView(pipe') = Run[0].s /\ pipe'.status = Run[0].e
    BY <1>3, <2>3, StandsFor
  <2> QED BY <2>1, <2>2, <2>4
<1>5. CASE \E n \in 0 .. Steps : Window(n)
  <2>1. PICK n \in 0 .. Steps : Window(n)
    BY <1>5
  <2>2. PICK q : InPipe(q, Run, Steps, n, icount) /\ Count(q, n, icount) /\ pipe = Stages(q)
    BY <2>1 DEF Window
  <2>3. /\ pipe' = Stages(Turn(q)) /\ n \in 0 .. Steps - 1
        /\ InPipe(Turn(q), Run, Steps, AtE(q, n), icount + 1)
        /\ AtE(q, n) = n \/ AtE(q, n) = n + 1
    BY <1>1, <1>2, <2>2, WindowTurns
  <2>4. PipeView(pipe) = Run[n].s /\ pipe.status = Run[n].e
    BY <1>3, <2>2, StandsFor
  <2>5. PipeView(pipe') = Run[AtE(q, n)].s /\ pipe'.status = Run[AtE(q, n)].e
    BY <1>3, <2>3, StandsFor
  <2> QED BY <2>3, <2>4, <2>5
<1> QED BY <1>1, <1>4, <1>5 DEF PipeFollows

\* PIPE runs every program as the instruction set says, through its forwarding,
\* stalls and bubbles: with every instruction that comes to write-back it takes
\* one step of step_state, and a cycle that brings none there changes nothing a
\* program can see.
THEOREM PipeImplements ==
  ASSUME ProgramsComparable
  PROVE  Spec => PipeImplementsIsa
<1>1. Init => PipeFollows
  BY PipeFollowsInit
<1>2. PipeFollows /\ [Next]_vars => PipeFollows'
  BY PipeFollowsNext
<1>3. Init => PipeIsa!Init
  <2> SUFFICES ASSUME Init PROVE PipeIsa!Init
    OBVIOUS
  <2>1. RunFacts /\ pipe = PipeReset(Mem)
    BY ComparableRun DEF Init, Start, Mem
  <2>2. PipeView(pipe) = First(Mem).s /\ pipe.status = "AOK" /\ Mem \in Memory
    BY <2>1, ResetView DEF RunFacts
  <2>3. First(Mem).s = [pc |-> 0, r |-> init_reg, m |-> Mem, cc |-> DEFAULT_CC]
    BY DEF First, new_state
  <2>4. /\ PipeIsa!new_state.pc = 0 /\ PipeIsa!new_state.r = init_reg
        /\ PipeIsa!new_state.cc = DEFAULT_CC /\ PipeIsa!Memory = Memory
    BY DEF PipeIsa!new_state, PipeIsa!init_reg, PipeIsa!DEFAULT_CC, PipeIsa!Memory, PipeIsa!Byte,
           PipeIsa!Registers, PipeIsa!REG_NONE, init_reg, DEFAULT_CC, Memory, Byte, Registers,
           REG_NONE
  <2> QED BY <2>2, <2>3, <2>4 DEF PipeIsa!Init
<1>4. PipeFollows /\ [Next]_vars => [PipeIsa!Step]_(PipeIsa!vars)
  <2> SUFFICES ASSUME PipeFollows, [Next]_vars PROVE [PipeIsa!Step]_(PipeIsa!vars)
    OBVIOUS
  <2>1. CASE PipeStep
    <3>1. RunFacts
      BY ComparableRun DEF PipeFollows, SeqFollows
    <3>2. PICK n \in 0 .. Steps :
            /\ PipeView(pipe) = Run[n].s /\ pipe.status = Run[n].e
            /\ \/ PipeView(pipe') = Run[n].s /\ pipe'.status = Run[n].e
               \/ /\ n \in 0 .. Steps - 1
                  /\ PipeView(pipe') = Run[n + 1].s /\ pipe'.status = Run[n + 1].e
      BY <2>1, <3>1, PipeStepFollows
    <3>3. PipeView(pipe)' = PipeView(pipe') /\ (pipe.status)' = pipe'.status
      BY DEF PipeView
    <3>4. CASE PipeView(pipe') = Run[n].s /\ pipe'.status = Run[n].e
      <4>1. PipeView(pipe)' = PipeView(pipe) /\ (pipe.status)' = pipe.status
        BY <3>2, <3>3, <3>4
      <4> QED BY <4>1 DEF PipeIsa!vars
    <3>5. CASE /\ n \in 0 .. Steps - 1
               /\ PipeView(pipe') = Run[n + 1].s /\ pipe'.status = Run[n + 1].e
      <4>1. /\ Run[n].s \in States /\ Run[n].e = "AOK"
            /\ Run[n + 1] = Follow(Run[n])
        BY <3>1, <3>5 DEF RunFacts, RunOf
      <4> DEFINE s == Run[n].s
                 t == Run[n + 1]
      <4>2. t.s = step_state(s).s /\ t.e = step_state(s).stat
        BY <4>1 DEF Follow
      <4>3. [pc |-> s.pc, r |-> s.r, m |-> s.m, cc |-> s.cc] = s
        BY <4>1 DEF States
      <4>4. /\ PipeView(pipe) = s /\ pipe.status = "AOK"
            /\ PipeView(pipe)' = t.s /\ (pipe.status)' = t.e
        BY <3>2, <3>3, <3>5, <4>1
      <4> HIDE DEF s, t
      <4>5. PipeIsa!step_state(s) = step_state(s)
        BY PipeIsaSteps
      <4>6. PipeIsa!Step
        BY <4>2, <4>3, <4>4, <4>5 DEF PipeIsa!Step
      <4> QED BY <4>6
    <3> QED BY <3>2, <3>4, <3>5
  <2>2. CASE SeqStep \/ SeqEnds \/ PipeEnds \/ UNCHANGED vars
    <3>1. pipe' = pipe
      BY <2>2 DEF SeqStep, SeqEnds, PipeEnds, vars
    <3> QED BY <3>1 DEF PipeIsa!vars, PipeView
  <2> QED BY <2>1, <2>2 DEF Next
<1> QED BY <1>1, <1>2, <1>3, <1>4, PTL DEF Spec, PipeImplementsIsa, PipeIsa!Spec

\* What PIPE keeps once the last instruction of the run is in W.
LEMMA WindowEnds ==
  ASSUME RunFacts, NEW q, NEW c \in Nat, InPipe(q, Run, Steps, Steps, c), Count(q, Steps, c)
  PROVE  LET p == Stages(q)
             t == Run[Steps]
         IN  /\ p.r = t.s.r /\ p.m = t.s.m /\ p.cc = t.s.cc /\ p.status = t.e
             /\ p.instructions = Steps /\ p.cycles = Steps + t.bubbles
<1> DEFINE N == Steps
           p == Stages(q)
<1>1. Flow(Run, N) /\ Run[0].e = "AOK" /\ N \in Nat \ {0} /\ Run[N].bubbles \in Nat
  BY RunBegins
<1>2. /\ p.status = Run[N].e
      /\ p.instructions = N /\ p.cycles = IF N = 0 THEN 0 ELSE c - 4
      /\ p.r = q.r /\ p.m = q.m /\ p.cc = q.cc
  BY <1>1, StandsFor, StagesCount, StagesFields
<1> HIDE DEF p
<1>3. /\ Slots(q.W) = 1 /\ AtE(q, N) <= N /\ Slots(q.M) \in {0, 1} /\ AtE(q, N) = N + Slots(q.M)
  BY DEF InPipe, AtE, Slots
<1>4. Data(q, Run, N, N) /\ Timing(q, Run, N, N, c)
  BY DEF InPipe
<1> HIDE DEF N
<1>5. AtE(q, N) = N /\ N - 1 \in 0 .. N - 1 /\ N - 1 + 1 = N /\ ~(N - 1 + 1 < N) /\ ~(N < N)
  BY <1>1, <1>3
<1>6. q.m = Run[N].s.m /\ q.cc = Run[N].s.cc /\ q.r = Run[N - 1].s.r
  BY <1>3, <1>4, <1>5 DEF Data
<1>7. Run[N].s = Run[N - 1].s
  BY <1>1, <1>5 DEF Flow
<1>8. c = Leaves(Run, N - 1) + 3
  BY <1>3, <1>4 DEF Timing
<1>9. Leaves(Run, N - 1) = 2 + (N - 1) + Run[N].bubbles
  BY <1>1, <1>5, FlowStep
<1>10. p.cycles = N + Run[N].bubbles
  BY <1>1, <1>2, <1>8, <1>9
<1> QED BY <1>2, <1>6, <1>7, <1>10 DEF N, p

\* What is printed at the end, for every program: the check of -t succeeds for both
\* processors, with the same status, and PIPE has retired each instruction
\* once and lost exactly the cycles that load/use hazards, mispredicted branches
\* and rets cost.
THEOREM SimulatorsAgree ==
  ASSUME ProgramsComparable
  PROVE  Spec => []RunsAgree
<1>1. Init => PipeFollows
  BY PipeFollowsInit
<1>2. PipeFollows /\ [Next]_vars => PipeFollows'
  BY PipeFollowsNext
<1>3. PipeFollows => RunsAgree
  <2> SUFFICES ASSUME PipeFollows, phase = "done" PROVE Agree(IsaRun(Mem))
    BY DEF RunsAgree, Mem
  <2> DEFINE t == Run[Steps]
  <2>1. RunFacts /\ icount \in Nat
    BY ComparableRun, InstrLimitAssumption DEF PipeFollows, SeqFollows, ProcessorsTyped
  <2>2. IsaRun(Mem) = t /\ t.steps = Steps
    BY <2>1 DEF RunFacts, Steps
  <2>3. seq.r = t.s.r /\ seq.m = t.s.m /\ seq.cc = t.s.cc /\ seq.status = t.e
    <3>1. SeqView(seq) = t.s /\ seq.status = t.e
      BY DEF PipeFollows, SeqFollows
    <3>2. t.e # "AOK"
      BY <2>1 DEF RunFacts, RunOf
    <3> HIDE DEF t
    <3> QED BY <3>1, <3>2 DEF SeqView
  <2>4. PICK q : InPipe(q, Run, Steps, Steps, icount) /\ Count(q, Steps, icount) /\ pipe = Stages(q)
    BY DEF PipeFollows, Window
  <2>5. /\ pipe.r = t.s.r /\ pipe.m = t.s.m /\ pipe.cc = t.s.cc /\ pipe.status = t.e
        /\ pipe.instructions = Steps /\ pipe.cycles = Steps + t.bubbles
    BY <2>1, <2>4, WindowEnds
  <2> HIDE DEF t
  <2>6. Agree(t)
    BY <2>2, <2>3, <2>5 DEF Agree, SeqSucceeds, PipeSucceeds, diff_reg, diff_mem
  <2> QED BY <2>2, <2>6
<1> QED BY <1>1, <1>2, <1>3, PTL DEF Spec
==============================================================================
