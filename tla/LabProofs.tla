----------------------------- MODULE LabProofs -----------------------------
(***************************************************************************)
(* Theorems about the data lab and the cache lab.  The integer puzzles of  *)
(* bits.c give what tests.c expects on every word of 32 bits, of which     *)
(* btest samples a few.  transpose_submit transposes matrices of every     *)
(* size, eval_perf counts its accesses and no others, and csim is, for     *)
(* every geometry and every trace, a cache with least-recently-used        *)
(* replacement.                                                            *)
(***************************************************************************)
EXTENDS BitTests, Cachelab, FiniteSetTheorems, WellFoundedInduction, TLAPS

\* A set of numbers that is not empty has a least element.
LEMMA Least ==
  ASSUME NEW S \in SUBSET Nat, S # {}
  PROVE  \E m \in S : \A n \in S : m <= n
<1> DEFINE R == OpToRel(<, Nat)
<1>1. IsWellFoundedOn(R, Nat)
  BY NatLessThanWellFounded
<1>2. PICK m \in S : \A n \in S : <<n, m>> \notin R
  <2> HIDE DEF R
  <2> QED BY <1>1, WFMin
<1>3. \A n \in S : ~(n < m)
  <2> TAKE n \in S
  <2>1. n \in Nat /\ m \in Nat
    OBVIOUS
  <2>2. n < m => <<n, m>> \in R
    BY <2>1 DEF OpToRel
  <2> QED BY <1>2, <2>2
<1> QED BY <1>3

----------------------------------------------------------------------------
(* The puzzles of bits.c *)

\* bits.c:145: the exclusive or, written with ~ and & only.
THEOREM BitXorExact == \A x, y \in Word : bitXor(x, y) = test_bitXor(x, y)
BY DEF bitXor, test_bitXor, Xor, Not, Word

\* ~x + 1 carries into bit i when all the bits below it are zeros of x.
LEMMA CarryOfNegate ==
  ASSUME NEW x \in Word, NEW i \in Bit
  PROVE  Carry(Not(x), {0}, i) <=> i > 0 /\ \A k \in 0 .. i - 1 : k \notin x
<1> i \in Int /\ 0 <= i /\ i <= 31
  BY DEF Bit
<1>1. ASSUME Carry(Not(x), {0}, i)
      PROVE  i > 0 /\ \A k \in 0 .. i - 1 : k \notin x
  <2>1. PICK j \in 0 .. i - 1 : /\ j \in Not(x) \cap {0}
                                /\ \A k \in j + 1 .. i - 1 : k \in Xor(Not(x), {0})
    BY <1>1 DEF Carry
  <2>2. j = 0 /\ 0 \notin x
    BY <2>1 DEF Not
  <2>3. \A k \in 1 .. i - 1 : k \notin x
    BY <2>1, <2>2 DEF Xor, Not
  <2> QED BY <2>1, <2>2, <2>3
<1>2. ASSUME i > 0, \A k \in 0 .. i - 1 : k \notin x
      PROVE  Carry(Not(x), {0}, i)
  <2>1. \A k \in 0 .. i - 1 : k \in Not(x)
    BY <1>2 DEF Not, Bit
  <2>2. 0 \in 0 .. i - 1 /\ 0 \in Not(x) \cap {0}
    BY <1>2, <2>1
  <2>3. \A k \in 0 + 1 .. i - 1 : k \in Xor(Not(x), {0})
    BY <2>1 DEF Xor
  <2> QED BY <2>2, <2>3 DEF Carry
<1> QED BY <1>1, <1>2

\* bits.c:189: ~x + 1 is -x, the most negative word included.
THEOREM NegateExact == \A x \in Word : negate(x) = test_negate(x)
<1> SUFFICES ASSUME NEW x \in Word PROVE negate(x) = test_negate(x)
  OBVIOUS
<1>1. ASSUME NEW i \in Bit PROVE i \in negate(x) <=> i \in test_negate(x)
  <2>1. i \in negate(x) <=> (i \in Xor(Not(x), {0}) <=> ~Carry(Not(x), {0}, i))
    BY DEF negate, Add
  <2>2. Carry(Not(x), {0}, i) <=> i > 0 /\ \A k \in 0 .. i - 1 : k \notin x
    BY CarryOfNegate
  <2>3. i \in Xor(Not(x), {0}) <=> IF i = 0 THEN i \in x ELSE i \notin x
    BY DEF Xor, Not
  <2>4. (\E j \in x : j < i) <=> \E k \in 0 .. i - 1 : k \in x
    BY DEF Word, Bit
  <2>5. i \in test_negate(x) <=> (i \in x <=> ~ \E j \in x : j < i)
    BY DEF test_negate
  <2>6. i = 0 => ~ \E k \in 0 .. i - 1 : k \in x
    OBVIOUS
  <2>7. i \in Int /\ i >= 0
    BY DEF Bit
  <2> QED BY <2>1, <2>2, <2>3, <2>4, <2>5, <2>6, <2>7
<1>2. negate(x) \subseteq Bit /\ test_negate(x) \subseteq Bit
  BY DEF negate, Add, test_negate
<1> QED BY <1>1, <1>2

\* bits.c:212: the mask ~(!x) + 1 is all ones or all zeros.
THEOREM ConditionalExact ==
  \A x, y, z \in Word : conditional(x, y, z) = test_conditional(x, y, z)
<1> SUFFICES ASSUME NEW x \in Word, NEW y \in Word, NEW z \in Word
             PROVE  conditional(x, y, z) = test_conditional(x, y, z)
  OBVIOUS
<1> DEFINE mask == Add(Not(LNot(x)), {0})
<1>1. LNot(x) \in Word
  BY DEF LNot, Word, Bit
<1>2. mask = test_negate(LNot(x))
  BY <1>1, NegateExact DEF negate
<1>3. conditional(x, y, z) = (mask \cap z) \cup (Not(mask) \cap y)
  BY DEF conditional
<1>4. CASE x = {}
  <2>1. \A i \in Bit : i = 0 \/ 0 < i
    BY DEF Bit
  <2>2. mask = Bit
    BY <1>2, <1>4, <2>1 DEF test_negate, LNot
  <2> QED BY <1>3, <1>4, <2>2 DEF test_conditional, Not, Word
<1>5. CASE x # {}
  <2>1. mask = {}
    BY <1>2, <1>5 DEF test_negate, LNot
  <2> QED BY <1>3, <1>5, <2>1 DEF test_conditional, Not, Word
<1> QED BY <1>4, <1>5

\* bits.c:176: the mask has exactly the odd bits.
THEOREM AllOddBitsExact == \A x \in Word : allOddBits(x) = test_allOddBits(x)
<1> SUFFICES ASSUME NEW x \in Word PROVE allOddBits(x) = test_allOddBits(x)
  OBVIOUS
<1> DEFINE byte == {1, 3, 5, 7}
           half == byte \cup Shl(byte, 8)
           mask == half \cup Shl(half, 16)
<1>1. half = {1, 3, 5, 7, 9, 11, 13, 15}
  BY DEF Shl, Bit
<1>2. mask = {i \in Bit : i % 2 = 1}
  BY <1>1 DEF Shl, Bit
<1>3. allOddBits(x) = LNot(Xor(x \cap mask, mask))
  BY DEF allOddBits
<1> HIDE DEF mask
<1>4. Xor(x \cap mask, mask) = {} <=> mask \subseteq x
  BY DEF Xor
<1> QED BY <1>2, <1>3, <1>4 DEF LNot, test_allOddBits, Truth

\* x >> 31 copies the sign to every bit.
LEMMA SignFill ==
  ASSUME NEW x \in Word
  PROVE  Sar(x, 31) = IF 31 \in x THEN Bit ELSE {}
<1>1. \A i \in Bit : i + 31 \in Bit => i + 31 = 31
  BY DEF Bit
<1> QED BY <1>1 DEF Sar

\* If the signs are equal, x + ~y, which is x - y - 1, does not overflow, and
\* it is negative unless y is below x: a carry out of bit 30 starts at the
\* highest bit in which they differ.
LEMMA DifferenceSign ==
  ASSUME NEW x \in Word, NEW y \in Word, 31 \in x <=> 31 \in y
  PROVE  31 \in Add(x, Not(y)) <=> ~Below(y, x)
<1>1. 31 \in Bit
  BY DEF Bit
<1>2. Carry(x, Not(y), 31) <=> Below(y, x)
  <2>1. \A k \in Bit : k \in Xor(x, Not(y)) <=> (k \in x <=> k \in y)
    BY DEF Xor, Not
  <2>2. ASSUME Carry(x, Not(y), 31) PROVE Below(y, x)
    <3>1. PICK j \in 0 .. 30 : /\ j \in x \cap Not(y)
                               /\ \A k \in j + 1 .. 30 : k \in Xor(x, Not(y))
      BY <2>2 DEF Carry
    <3>2. j \in x \ y
      BY <3>1 DEF Not
    <3>3. ASSUME NEW k \in j + 1 .. 31 PROVE k \in y <=> k \in x
      <4>1. k = 31 \/ k \in j + 1 .. 30
        OBVIOUS
      <4>2. k \in j + 1 .. 30 => k \in Bit
        BY DEF Bit
      <4> QED BY <3>1, <2>1, <4>1, <4>2
    <3> QED BY <3>2, <3>3 DEF Below
  <2>3. ASSUME Below(y, x) PROVE Carry(x, Not(y), 31)
    <3>1. PICK i \in x \ y : \A k \in i + 1 .. 31 : k \in y <=> k \in x
      BY <2>3 DEF Below
    <3>2. i \in 0 .. 30
      BY DEF Word, Bit
    <3>3. i \in x \cap Not(y)
      BY DEF Not, Word
    <3>4. \A k \in i + 1 .. 30 : k \in Bit /\ k \in i + 1 .. 31
      BY <3>2 DEF Bit
    <3>5. \A k \in i + 1 .. 30 : k \in Xor(x, Not(y))
      BY <2>1, <3>1, <3>4
    <3> QED BY <3>2, <3>3, <3>5 DEF Carry
  <2> QED BY <2>2, <2>3
<1>3. 31 \in Xor(x, Not(y))
  BY <1>1 DEF Xor, Not
<1> QED BY <1>1, <1>2, <1>3 DEF Add

\* bits.c:223: the comparison is right where the difference overflows, too.
THEOREM IsLessOrEqualExact ==
  \A x, y \in Word : isLessOrEqual(x, y) = test_isLessOrEqual(x, y)
<1> SUFFICES ASSUME NEW x \in Word, NEW y \in Word
             PROVE  isLessOrEqual(x, y) = test_isLessOrEqual(x, y)
  OBVIOUS
<1> DEFINE flip(w) == Xor(w, {31})
           diff == Add(x, Not(y))
<1>1. isLessOrEqual(x, y) = (Sar(x, 31) \cap LNot(Sar(y, 31)))
                              \cup (LNot(Xor(Sar(x, 31), Sar(y, 31))) \cap Sar(diff, 31))
  BY DEF isLessOrEqual
<1>2. test_isLessOrEqual(x, y) = Truth(~Below(flip(y), flip(x)))
  BY DEF test_isLessOrEqual
<1>3. 0 \in Bit /\ 31 \in Bit /\ \A k \in 32 .. 31 : FALSE
  BY DEF Bit
<1>4. \A w \in Word, k \in Bit : k \in flip(w) <=> IF k = 31 THEN k \notin w ELSE k \in w
  BY DEF Xor
<1>5. diff \in Word
  BY DEF Add, Word
<1>6. CASE 31 \in x /\ 31 \notin y
  <2>1. isLessOrEqual(x, y) = {0}
    BY <1>1, <1>3, <1>6, SignFill DEF LNot, Xor
  <2>2. ~Below(flip(y), flip(x))
    <3>1. ASSUME NEW i \in flip(x) \ flip(y), \A k \in i + 1 .. 31 : k \in flip(y) <=> k \in flip(x)
          PROVE  FALSE
      <4>1. i \in Bit
        BY DEF Xor, Word, Bit
      <4>2. 31 \in flip(y) /\ 31 \notin flip(x)
        BY <1>3, <1>4, <1>6
      <4>3. i = 31 \/ 31 \in i + 1 .. 31
        BY <4>1 DEF Bit
      <4> HIDE DEF flip
      <4> QED BY <3>1, <4>2, <4>3
    <3> QED BY <3>1 DEF Below
  <2> QED BY <1>2, <2>1, <2>2 DEF Truth
<1>7. CASE 31 \notin x /\ 31 \in y
  <2>1. isLessOrEqual(x, y) = {}
    BY <1>1, <1>3, <1>7, SignFill DEF LNot, Xor
  <2>2. 31 \in flip(x) \ flip(y)
    BY <1>3, <1>4, <1>7
  <2>3. Below(flip(y), flip(x))
    <3> HIDE DEF flip
    <3> QED BY <2>2, <1>3 DEF Below
  <2> QED BY <1>2, <2>1, <2>3 DEF Truth
<1>8. CASE 31 \in x <=> 31 \in y
  <2>1. isLessOrEqual(x, y) = {0} \cap Sar(diff, 31)
    BY <1>1, <1>3, <1>8, SignFill DEF LNot, Xor
  <2>2. isLessOrEqual(x, y) = Truth(31 \in diff)
    BY <2>1, <1>3, <1>5, SignFill DEF Truth
  <2>3. 31 \in diff <=> ~Below(y, x)
    BY <1>8, DifferenceSign
  <2>4. Below(flip(y), flip(x)) <=> Below(y, x)
    <3>1. \A k \in Bit : (k \in flip(y) <=> k \in flip(x)) <=> (k \in y <=> k \in x)
      BY <1>4, <1>8
    <3>2. \A i \in Bit : i \in flip(x) \ flip(y) <=> i \in x \ y
      BY <1>4, <1>8
    <3>3. flip(x) \subseteq Bit /\ x \subseteq Bit
      BY DEF Xor, Word, Bit
    <3>4. \A i \in Bit : \A k \in i + 1 .. 31 : k \in Bit
      BY DEF Bit
    <3> HIDE DEF flip
    <3> QED BY <3>1, <3>2, <3>3, <3>4 DEF Below
  <2> QED BY <1>2, <2>2, <2>3, <2>4 DEF Truth
<1> QED BY <1>6, <1>7, <1>8

\* bits.c:239: five folds leave the conjunction of all bits of ~x in bit 0.
THEOREM LogicalNegExact == \A x \in Word : logicalNeg(x) = test_logicalNeg(x)
<1> SUFFICES ASSUME NEW x \in Word PROVE logicalNeg(x) = test_logicalNeg(x)
  OBVIOUS
<1> DEFINE Fold(val, n) == val \cap Sar(val, n)
           v16 == Fold(Not(x), 16)
           v8 == Fold(v16, 8)
           v4 == Fold(v8, 4)
           v2 == Fold(v4, 2)
           v1 == Fold(v2, 1)
<1>1. ASSUME NEW val, NEW n \in 1 .. 16, NEW i \in 0 .. 15
      PROVE  i \in Fold(val, n) <=> i \in val /\ i + n \in val
  BY DEF Sar, Bit
<1>2. 0 \in v1 <=> {0, 1} \subseteq v2
  <2> HIDE DEF v2, Fold
  <2>1. 0 \in Fold(v2, 1) <=> 0 \in v2 /\ 0 + 1 \in v2
    BY <1>1
  <2> QED BY <2>1
<1>3. {0, 1} \subseteq v2 <=> {0, 1, 2, 3} \subseteq v4
  <2> HIDE DEF v4, Fold
  <2>1. \A i \in 0 .. 1 : i \in Fold(v4, 2) <=> i \in v4 /\ i + 2 \in v4
    BY <1>1
  <2> QED BY <2>1
<1>4. {0, 1, 2, 3} \subseteq v4 <=> 0 .. 7 \subseteq v8
  <2> HIDE DEF v8, Fold
  <2>1. \A i \in 0 .. 3 : i \in Fold(v8, 4) <=> i \in v8 /\ i + 4 \in v8
    BY <1>1
  <2> QED BY <2>1
<1>5. 0 .. 7 \subseteq v8 <=> 0 .. 15 \subseteq v16
  <2> HIDE DEF v16, Fold
  <2>1. \A i \in 0 .. 7 : i \in Fold(v16, 8) <=> i \in v16 /\ i + 8 \in v16
    BY <1>1
  <2>2. \A i \in 8 .. 15 : i - 8 \in 0 .. 7 /\ i = (i - 8) + 8
    OBVIOUS
  <2> QED BY <2>1, <2>2
<1>6. 0 .. 15 \subseteq v16 <=> Bit \subseteq Not(x)
  <2>1. \A i \in 0 .. 15 : i \in v16 <=> i \in Not(x) /\ i + 16 \in Not(x)
    BY <1>1
  <2>2. \A i \in Bit : i \in 0 .. 15 \/ (i - 16 \in 0 .. 15 /\ i = (i - 16) + 16)
    BY DEF Bit
  <2>3. \A i \in 0 .. 15 : i \in Bit /\ i + 16 \in Bit
    BY DEF Bit
  <2> HIDE DEF v16
  <2> QED BY <2>1, <2>2, <2>3
<1>7. Bit \subseteq Not(x) <=> x = {}
  BY DEF Not, Word
<1>8. logicalNeg(x) = v1 \cap {0}
  BY DEF logicalNeg
<1> HIDE DEF v1, v2, v4, v8, v16
<1> QED BY <1>2, <1>3, <1>4, <1>5, <1>6, <1>7, <1>8 DEF test_logicalNeg, Truth

\* A word that is not 0 has a highest bit.
LEMMA HighestBit ==
  ASSUME NEW a \in Word, a # {}
  PROVE  Max(a) \in a /\ \A k \in a : k <= Max(a)
<1> DEFINE S == {31 - k : k \in a}
<1>1. \A k \in a : k \in Int /\ 0 <= k /\ k <= 31
  BY DEF Word, Bit
<1>2. S \in SUBSET Nat /\ S # {}
  <2>1. \A k \in a : 31 - k \in Nat
    BY <1>1
  <2> QED BY <2>1
<1>3. PICK m \in S : \A n \in S : m <= n
  <2> HIDE DEF S
  <2> QED BY <1>2, Least
<1>4. PICK h \in a : m = 31 - h
  OBVIOUS
<1>5. \A k \in a : h >= k
  <2> TAKE k \in a
  <2>1. 31 - k \in S
    OBVIOUS
  <2> QED BY <1>1, <1>3, <1>4, <2>1
<1>6. Max(a) \in a /\ \A k \in a : Max(a) >= k
  BY <1>5 DEF Max
<1> QED BY <1>1, <1>6

\* One step of the binary search halves the interval in which the highest bit
\* lies.
LEMMA SearchStep ==
  ASSUME NEW val \in Word, NEW h \in Nat, h \in val, \A k \in val : k <= h,
         NEW ret \in Nat, NEW n \in Nat, ret <= h, h < ret + 2 * n,
         NEW next, next = IF Sar(val, ret + n) # {} THEN ret + n ELSE ret,
         31 \notin val
  PROVE  next \in Nat /\ next <= h /\ h < next + n
<1>1. \A k \in val : k \in Int /\ 0 <= k /\ k <= 31
  BY DEF Word, Bit
<1>2. Sar(val, ret + n) # {} <=> h >= ret + n
  <2>1. \A i \in Bit : i \in Sar(val, ret + n) <=> i + (ret + n) \in val
    BY <1>1 DEF Sar, Bit
  <2>2. ASSUME h >= ret + n PROVE Sar(val, ret + n) # {}
    <3>1. h - (ret + n) \in Bit /\ (h - (ret + n)) + (ret + n) = h
      BY <1>1, <2>2 DEF Bit
    <3> QED BY <2>1, <3>1
  <2>3. ASSUME NEW i \in Sar(val, ret + n) PROVE h >= ret + n
    <3>1. i \in Bit
      BY DEF Sar
    <3>2. i + (ret + n) <= h
      BY <2>1, <3>1
    <3> QED BY <3>1, <3>2 DEF Bit
  <2> QED BY <2>2, <2>3
<1>3. CASE h >= ret + n
  BY <1>2, <1>3
<1>4. CASE ~(h >= ret + n)
  BY <1>2, <1>4
<1> QED BY <1>3, <1>4

\* bits.c:261: the binary search finds the highest bit.
THEOREM HowManyBitsExact == \A x \in Word : howManyBits(x) = test_howManyBits(x)
<1> SUFFICES ASSUME NEW x \in Word PROVE howManyBits(x) = test_howManyBits(x)
  OBVIOUS
<1> DEFINE val == IF 31 \in x THEN Not(x) ELSE x
           Step(ret, n) == IF Sar(val, ret + n) # {} THEN ret + n ELSE ret
           r4 == Step(0, 16)
           r3 == Step(r4, 8)
           r2 == Step(r3, 4)
           r1 == Step(r2, 2)
           r0 == Step(r1, 1)
<1>1. howManyBits(x) = r0 + (IF val # {} THEN 1 ELSE 0) + 1
  BY DEF howManyBits
<1>2. test_howManyBits(x) = IF val = {} THEN 1 ELSE Max(val) + 2
  BY DEF test_howManyBits
<1>3. val \in Word /\ 31 \notin val
  BY DEF Word, Not, Bit
<1>4. CASE val = {}
  <2>1. \A n \in Nat : Sar(val, n) = {}
    BY <1>4 DEF Sar
  <2>2. r0 = 0
    BY <2>1
  <2> QED BY <1>1, <1>2, <1>4, <2>2
<1>5. CASE val # {}
  <2>1. Max(val) \in val /\ \A k \in val : k <= Max(val)
    <3> HIDE DEF val
    <3> QED BY <1>3, <1>5, HighestBit
  <2>2. PICK h \in Nat : h = Max(val)
    <3> HIDE DEF val
    <3>1. Max(val) \in Bit
      BY <1>3, <2>1 DEF Word
    <3> QED BY <3>1 DEF Bit
  <2>3. h \in val /\ \A k \in val : k <= h
    BY <2>1, <2>2
  <2> HIDE DEF val
  <2>4. r4 \in Nat /\ r4 <= h /\ h < r4 + 16
    <3>1. h \in Bit
      BY <1>3, <2>3 DEF Word
    <3>2. h < 0 + 2 * 16
      BY <3>1 DEF Bit
    <3> QED BY <1>3, <2>2, <2>3, <3>2, SearchStep, 0 \in Nat, 16 \in Nat, 0 <= h
  <2> HIDE DEF r4
  <2>5. r3 \in Nat /\ r3 <= h /\ h < r3 + 8
    BY <1>3, <2>3, <2>4, SearchStep, 8 \in Nat, h < r4 + 2 * 8
  <2> HIDE DEF r3
  <2>6. r2 \in Nat /\ r2 <= h /\ h < r2 + 4
    BY <1>3, <2>3, <2>5, SearchStep, 4 \in Nat, h < r3 + 2 * 4
  <2> HIDE DEF r2
  <2>7. r1 \in Nat /\ r1 <= h /\ h < r1 + 2
    BY <1>3, <2>3, <2>6, SearchStep, 2 \in Nat, h < r2 + 2 * 2
  <2> HIDE DEF r1
  <2>8. r0 \in Nat /\ r0 <= h /\ h < r0 + 1
    BY <1>3, <2>3, <2>7, SearchStep, 1 \in Nat, h < r1 + 2 * 1
  <2> HIDE DEF r0
  <2>9. r0 = Max(val)
    BY <2>2, <2>8
  <2>10. howManyBits(x) = Max(val) + 2
    BY <1>1, <1>5, <2>2, <2>9
  <2> QED BY <1>2, <1>5, <2>10
<1> QED BY <1>4, <1>5

----------------------------------------------------------------------------
(* Powers of two *)

\* There are 2^n subsets of n things, and at least one.
LEMMA PowType ==
  ASSUME NEW n \in Nat
  PROVE  2 ^ n \in Nat \ {0}
<1>1. IsFiniteSet(1 .. n) /\ Cardinality(1 .. n) = n
  BY FS_Interval
<1>2. IsFiniteSet(SUBSET (1 .. n)) /\ Cardinality(SUBSET (1 .. n)) = 2 ^ n
  BY <1>1, FS_SUBSET
<1>3. SUBSET (1 .. n) # {}
  OBVIOUS
<1> QED BY <1>2, <1>3, FS_EmptySet, FS_CardinalityType

\* A subset of m + n things is one of the first m and one of the last n.
LEMMA PowSum ==
  ASSUME NEW m \in Nat, NEW n \in Nat
  PROVE  2 ^ (m + n) = 2 ^ m * 2 ^ n
<1> DEFINE P == SUBSET (1 .. m)
           Q == SUBSET (m + 1 .. m + n)
           R == SUBSET (1 .. m + n)
           f == [z \in P \X Q |-> z[1] \cup z[2]]
<1>1. /\ IsFiniteSet(1 .. m) /\ Cardinality(1 .. m) = m
      /\ IsFiniteSet(m + 1 .. m + n) /\ Cardinality(m + 1 .. m + n) = n
      /\ IsFiniteSet(1 .. m + n) /\ Cardinality(1 .. m + n) = m + n
  <2>1. \A i, j \in Int : IsFiniteSet(i .. j) /\ Cardinality(i .. j) = IF i > j THEN 0 ELSE j - i + 1
    BY FS_Interval
  <2>2. IsFiniteSet(1 .. m) /\ Cardinality(1 .. m) = m
    BY <2>1
  <2>3. IsFiniteSet(m + 1 .. m + n) /\ Cardinality(m + 1 .. m + n) = n
    BY <2>1
  <2>4. IsFiniteSet(1 .. m + n) /\ Cardinality(1 .. m + n) = m + n
    <3> DEFINE k == m + n
    <3>1. k \in Nat
      OBVIOUS
    <3> HIDE DEF k
    <3>2. IsFiniteSet(1 .. k) /\ Cardinality(1 .. k) = k
      BY <3>1, <2>1
    <3> QED BY <3>2 DEF k
  <2> QED BY <2>2, <2>3, <2>4
<1>2. /\ IsFiniteSet(P) /\ Cardinality(P) = 2 ^ m
      /\ IsFiniteSet(Q) /\ Cardinality(Q) = 2 ^ n
      /\ IsFiniteSet(R) /\ Cardinality(R) = 2 ^ (m + n)
  BY <1>1, FS_SUBSET
<1>3. IsFiniteSet(P \X Q) /\ Cardinality(P \X Q) = 2 ^ m * 2 ^ n
  <2> HIDE DEF P, Q
  <2> QED BY <1>2, FS_Product
<1>4. f \in Bijection(P \X Q, R)
  <2>1. \A z \in P \X Q : z[1] \cup z[2] \in R
    OBVIOUS
  <2>2. \A z \in P \X Q : z[1] = (z[1] \cup z[2]) \cap 1 .. m
                       /\ z[2] = (z[1] \cup z[2]) \cap (m + 1 .. m + n)
    OBVIOUS
  <2>3. \A z, y \in P \X Q : f[z] = f[y] => z = y
    <3> TAKE z, y \in P \X Q
    <3> HAVE f[z] = f[y]
    <3>1. z[1] \cup z[2] = y[1] \cup y[2]
      OBVIOUS
    <3>2. z[1] = y[1] /\ z[2] = y[2]
      BY <3>1, <2>2
    <3> QED BY <3>2
  <2>4. \A x \in R : \E z \in P \X Q : f[z] = x
    <3> TAKE x \in R
    <3>1. <<x \cap 1 .. m, x \cap (m + 1 .. m + n)>> \in P \X Q
      OBVIOUS
    <3>2. 1 .. m + n = (1 .. m) \cup (m + 1 .. m + n)
      OBVIOUS
    <3>3. x = (x \cap 1 .. m) \cup (x \cap (m + 1 .. m + n))
      BY <3>2
    <3> QED BY <3>1, <3>3
  <2>5. f \in [P \X Q -> R]
    BY <2>1
  <2> HIDE DEF P, Q, R, f
  <2> QED BY <2>3, <2>4, <2>5 DEF Bijection, Injection, Surjection, IsInjective
<1> HIDE DEF P, Q, R, f
<1>5. ExistsBijection(P \X Q, R)
  BY <1>4 DEF ExistsBijection
<1> QED BY <1>2, <1>3, <1>5, FS_Bijection

----------------------------------------------------------------------------
(* Sets and tags *)

\* Divisions and remainders of a number of two digits.
LEMMA Digits ==
  ASSUME NEW P \in Nat \ {0}, NEW Q \in Nat \ {0}, NEW x \in Nat
  PROVE  /\ x % (P * Q) = P * ((x \div P) % Q) + (x % P)
         /\ x \div (P * Q) = (x \div P) \div Q
         /\ (x % (P * Q)) \div P = (x \div P) % Q
<1> DEFINE y == x \div P
           r == x % P
           z == y \div Q
           s == y % Q
<1>1. y \in Nat /\ r \in 0 .. P - 1 /\ x = P * y + r
  OBVIOUS
<1>2. z \in Nat /\ s \in 0 .. Q - 1 /\ y = Q * z + s
  BY <1>1
<1> HIDE DEF y, r, z, s
<1>3. x = (P * Q) * z + (P * s + r)
  <2>1. P * y = P * (Q * z) + P * s
    BY <1>1, <1>2
  <2>2. P * (Q * z) = (P * Q) * z
    BY <1>2
  <2> QED BY <1>1, <1>2, <2>1, <2>2
<1>4. P * s + r \in 0 .. P * Q - 1
  <2>1. s <= Q - 1
    BY <1>2
  <2>2. P * s <= P * (Q - 1)
    BY <2>1, <1>2
  <2>3. P * (Q - 1) = P * Q - P
    OBVIOUS
  <2>4. P * s \in Nat /\ P * Q \in Nat
    BY <1>2
  <2> QED BY <1>1, <2>2, <2>3, <2>4
<1>5. \A n \in Nat \ {0} : \A q \in Nat, t \in 0 .. n - 1, v \in Nat :
        v = n * q + t => v \div n = q /\ v % n = t
  OBVIOUS
<1>6. P * Q \in Nat \ {0}
  OBVIOUS
<1>7. x \div (P * Q) = z /\ x % (P * Q) = P * s + r
  BY <1>3, <1>4, <1>5, <1>6, <1>2
<1>8. (P * s + r) \div P = s
  BY <1>5, <1>1, <1>2
<1> QED BY <1>7, <1>8 DEF y, r, z, s

\* A number is known by its quotient and its remainder.
LEMMA DivideUnique ==
  ASSUME NEW n \in Nat \ {0}, NEW x \in Nat, NEW y \in Nat, x \div n = y \div n, x % n = y % n
  PROVE  x = y
<1>1. x = n * (x \div n) + (x % n) /\ y = n * (y \div n) + (y % n)
  OBVIOUS
<1> QED BY <1>1

\* What csim computes by shifts: the low bits of the block are its set, the
\* others are its tag.
LEMMA IdOfBlock ==
  ASSUME NEW conf \in Geometry, NEW addr \in Nat
  PROVE  LET block == addr \div 2 ^ conf.block_bits
         IN  compute_id(conf, addr) = [set_index |-> block % 2 ^ conf.set_bits,
                                       tag |-> block \div 2 ^ conf.set_bits]
<1> DEFINE m == conf.block_bits
           n == conf.set_bits
           t == AddrBits - m - n
           P == 2 ^ m
           Q == 2 ^ n
           T == 2 ^ t
<1>1. /\ AddrBits \in Nat \ {0} /\ m \in Nat /\ n \in Nat \ {0} /\ m + n < AddrBits
  BY AddrBitsAssumption DEF Geometry
<1>2. /\ t \in Nat \ {0} /\ t < AddrBits /\ t % AddrBits = t
      /\ AddrBits - t = m + n /\ m + n \in Nat /\ (m + n) % AddrBits = m + n
      /\ AddrBits - n \in Nat /\ (AddrBits - n) % AddrBits = AddrBits - n /\ AddrBits - n = m + t
  <2>1. \A k \in Nat : k < AddrBits => k % AddrBits = k
    BY <1>1
  <2>2. t \in Nat \ {0} /\ t < AddrBits /\ AddrBits - t = m + n /\ m + n \in Nat
    BY <1>1
  <2>3. AddrBits - n \in Nat /\ AddrBits - n < AddrBits /\ AddrBits - n = m + t
    BY <1>1
  <2> HIDE DEF m, n, t
  <2> QED BY <2>1, <2>2, <2>3, <1>1
<1>3. P \in Nat \ {0} /\ Q \in Nat \ {0} /\ T \in Nat \ {0}
  BY <1>1, <1>2, PowType
<1>4. 2 ^ (m + n) = P * Q /\ 2 ^ (m + t) = P * T
  BY <1>1, <1>2, PowSum
<1>5. ShiftLeft(addr, t) = (addr % (P * Q)) * T
  BY <1>2, <1>4 DEF ShiftLeft
<1>6. ShiftRight(ShiftLeft(addr, t), AddrBits - n) = ((addr % (P * Q)) * T) \div (P * T)
  BY <1>2, <1>4, <1>5 DEF ShiftRight
<1>7. ShiftRight(addr, AddrBits - t) = addr \div (P * Q)
  BY <1>2, <1>4 DEF ShiftRight
<1> HIDE DEF P, Q, T
<1>8. \A x \in Nat : (x * T) \div (P * T) = x \div P
  <2> TAKE x \in Nat
  <2>1. (T * P) \in Nat /\ x * T = T * x /\ P * T = T * P /\ T * x \in Nat
    BY <1>3
  <2>2. (T * x) \div (T * P) = ((T * x) \div T) \div P
    BY <1>3, <2>1, Digits
  <2>3. (T * x) \div T = x
    BY <1>3
  <2> QED BY <2>1, <2>2, <2>3
<1>9. addr % (P * Q) \in Nat
  BY <1>3
<1>10. /\ (addr % (P * Q)) \div P = (addr \div P) % Q
       /\ addr \div (P * Q) = (addr \div P) \div Q
  BY <1>3, Digits
<1>11. compute_id(conf, addr) = [set_index |-> (addr \div P) % Q, tag |-> (addr \div P) \div Q]
  BY <1>6, <1>7, <1>8, <1>9, <1>10 DEF compute_id
<1> QED BY <1>11 DEF P, Q

\* The length of a function on 1 .. n.
LEMMA LenOfFcn ==
  ASSUME NEW n \in Nat, NEW f, f = [k \in 1 .. n |-> f[k]]
  PROVE  Len(f) = n
OBVIOUS

\* It is a sequence over its values.
LEMMA SeqOfFcn ==
  ASSUME NEW S, NEW n \in Nat, NEW f \in [1 .. n -> S]
  PROVE  f \in Seq(S) /\ Len(f) = n
OBVIOUS

----------------------------------------------------------------------------
(* csim's array of lines *)

Entries == [addr : Nat, id : [set_index : Nat, tag : Nat], last_access : Nat]
Caches == [store : Seq(Entries), conf : Geometry, cap : Nat]
Totals == [hits : Nat, misses : Nat, evictions : Nat]

InSet(store, set) == {i \in DOMAIN store : store[i].id.set_index = set}

\* The simulator between two lines of a trace.
Fits(s) ==
  /\ s \in [cache : Caches, line_num : Nat, total : Totals]
  /\ Len(s.cache.store) <= s.cache.cap
  /\ \A i \in DOMAIN s.cache.store :
       /\ s.cache.store[i].id = compute_id(s.cache.conf, s.cache.store[i].addr)
       /\ s.cache.store[i].last_access < s.line_num
  /\ \A i, j \in DOMAIN s.cache.store :
       i # j => /\ s.cache.store[i].id # s.cache.store[j].id
                /\ s.cache.store[i].last_access # s.cache.store[j].last_access
  /\ \A set : Cardinality(InSet(s.cache.store, set)) <= s.cache.conf.associativity

\* Line i is now the one of id, accessed now; the other lines are untouched.
Touched(cache, new, i, id, now) ==
  /\ new \in Caches /\ new.conf = cache.conf /\ Len(new.store) <= new.cap
  /\ DOMAIN new.store = DOMAIN cache.store \cup {i}
  /\ new.store[i].id = id /\ new.store[i].last_access = now
  /\ id = compute_id(cache.conf, new.store[i].addr)
  /\ \A j \in DOMAIN cache.store : j # i => new.store[j] = cache.store[j]

\* The three ways an access takes.
Hit(store, i, id) == i \in DOMAIN store /\ store[i].id = id
Missed(store, id) == \A j \in DOMAIN store : store[j].id # id
Evict(cache, i, id) ==
  LET store == cache.store
  IN  /\ Missed(store, id)
      /\ Cardinality(InSet(store, id.set_index)) = cache.conf.associativity
      /\ i \in InSet(store, id.set_index)
      /\ \A j \in InSet(store, id.set_index) : store[i].last_access <= store[j].last_access
Extend(cache, i, id) ==
  /\ Missed(cache.store, id)
  /\ Cardinality(InSet(cache.store, id.set_index)) # cache.conf.associativity
  /\ i = Len(cache.store) + 1

\* The ids of entries are of their type.
LEMMA IdType ==
  ASSUME NEW conf \in Geometry, NEW addr \in Nat
  PROVE  compute_id(conf, addr) \in [set_index : Nat, tag : Nat]
<1> DEFINE P == 2 ^ conf.block_bits
           Q == 2 ^ conf.set_bits
<1>1. conf.block_bits \in Nat /\ conf.set_bits \in Nat
  BY AddrBitsAssumption DEF Geometry
<1>2. P \in Nat \ {0} /\ Q \in Nat \ {0}
  BY <1>1, PowType
<1>3. compute_id(conf, addr) = [set_index |-> (addr \div P) % Q, tag |-> (addr \div P) \div Q]
  BY IdOfBlock
<1> HIDE DEF P, Q
<1>4. (addr \div P) % Q \in Nat /\ (addr \div P) \div Q \in Nat
  BY <1>2
<1> QED BY <1>3, <1>4

\* The victim of a set with lines is one of them, and no other is older.
LEMMA Earliest ==
  ASSUME NEW store, NEW S \in SUBSET Nat, S # {}, \A i \in S : store[i].last_access \in Nat
  PROVE  /\ earliest(store, S) \in S
         /\ \A j \in S : store[earliest(store, S)].last_access <= store[j].last_access
<1> DEFINE old(i) == store[i].last_access
           T == {old(i) : i \in S}
<1>1. PICK m \in T : \A n \in T : m <= n
  BY Least
<1> DEFINE U == {i \in S : old(i) = m}
<1>2. PICK k \in U : \A i \in U : k <= i
  <2>1. U # {} /\ U \in SUBSET Nat
    BY <1>1
  <2> HIDE DEF U
  <2> QED BY <2>1, Least
<1> DEFINE First(i) == \A j \in S : \/ old(i) < old(j)
                                    \/ old(i) = old(j) /\ i <= j
<1>3. First(k) /\ k \in S
  BY <1>1, <1>2
<1>4. earliest(store, S) = CHOOSE i \in S : First(i)
  BY DEF earliest
<1> HIDE DEF First
<1>5. earliest(store, S) \in S /\ First(earliest(store, S))
  BY <1>3, <1>4
<1>6. \A i \in S : First(i) => \A j \in S : old(i) <= old(j)
  BY DEF First
<1> HIDE DEF old
<1>7. \A j \in S : old(earliest(store, S)) <= old(j)
  BY <1>5, <1>6
<1> QED BY <1>5, <1>7 DEF old

\* access_entry takes one of the three ways, and counts it.
LEMMA AccessEntry ==
  ASSUME NEW s, Fits(s), NEW addr \in Nat
  PROVE  LET id  == compute_id(s.cache.conf, addr)
             out == access_entry(s.cache, addr, s.line_num)
         IN  \E i \in 1 .. Len(s.cache.store) + 1 :
               /\ Touched(s.cache, out.cache, i, id, s.line_num)
               /\ \/ Hit(s.cache.store, i, id) /\ out.result = Result(1, 0, 0)
                  \/ Evict(s.cache, i, id) /\ out.result = Result(0, 1, 1)
                  \/ Extend(s.cache, i, id) /\ out.result = Result(0, 1, 0)
<1> DEFINE cache == s.cache
           store == cache.store
           now == s.line_num
           id == compute_id(cache.conf, addr)
           set == InSet(store, id.set_index)
           found == {i \in set : store[i].id.tag = id.tag}
           hit == CHOOSE i \in found : \A j \in found : i >= j
           entry == [addr |-> addr, id |-> id, last_access |-> now]
           out == access_entry(cache, addr, now)
<1>1. /\ cache \in Caches /\ store \in Seq(Entries) /\ cache.conf \in Geometry /\ cache.cap \in Nat
      /\ now \in Nat /\ Len(store) \in Nat /\ DOMAIN store = 1 .. Len(store) /\ Len(store) <= cache.cap
  BY DEF Fits, Caches
<1>2. id \in [set_index : Nat, tag : Nat] /\ entry \in Entries
  BY <1>1, IdType DEF Entries
<1>3. \A i \in DOMAIN store : /\ store[i] \in Entries /\ store[i].id \in [set_index : Nat, tag : Nat]
                              /\ store[i].id = compute_id(cache.conf, store[i].addr)
                              /\ i \in Nat /\ store[i].last_access \in Nat
  <2>1. \A i \in DOMAIN store : store[i] \in Entries /\ i \in Nat
    BY <1>1
  <2>2. \A e \in Entries : e.id \in [set_index : Nat, tag : Nat] /\ e.last_access \in Nat
    BY DEF Entries
  <2>3. \A i \in DOMAIN store : store[i].id = compute_id(cache.conf, store[i].addr)
    BY DEF Fits
  <2> QED BY <2>1, <2>2, <2>3
<1>4. found = {i \in DOMAIN store : store[i].id = id}
  <2>1. \A i \in DOMAIN store : store[i].id = id <=> /\ store[i].id.set_index = id.set_index
                                                     /\ store[i].id.tag = id.tag
    BY <1>2, <1>3
  <2> QED BY <2>1 DEF InSet
<1>5. out = IF found # {}
            THEN [cache |-> [cache EXCEPT !.store[hit].last_access = now], result |-> Result(1, 0, 0)]
            ELSE IF Cardinality(set) = cache.conf.associativity
            THEN [cache |-> [cache EXCEPT !.store[earliest(store, set)] = entry],
                  result |-> Result(0, 1, 1)]
            ELSE [cache |-> [cache EXCEPT !.cap = grow(cache), !.store = Append(@, entry)],
                  result |-> Result(0, 1, 0)]
  BY DEF access_entry, InSet
<1> SUFFICES \E i \in 1 .. Len(store) + 1 :
               /\ Touched(cache, out.cache, i, id, now)
               /\ \/ Hit(store, i, id) /\ out.result = Result(1, 0, 0)
                  \/ Evict(cache, i, id) /\ out.result = Result(0, 1, 1)
                  \/ Extend(cache, i, id) /\ out.result = Result(0, 1, 0)
  OBVIOUS
<1> HIDE DEF out
<1>6. CASE found # {}
  <2>1. \A i, j \in found : i = j
    BY <1>4 DEF Fits
  <2>2. PICK i \in found : TRUE
    BY <1>6
  <2>3. hit = i
    BY <2>1, <2>2, <1>3, <1>4
  <2>4. i \in DOMAIN store /\ store[i].id = id
    BY <1>4
  <2> HIDE DEF hit, found
  <2>5. /\ out.cache = [cache EXCEPT !.store = [store EXCEPT ![i].last_access = now]]
        /\ out.result = Result(1, 0, 0)
    BY <1>5, <1>6, <2>3
  <2> DEFINE new == [store EXCEPT ![i].last_access = now]
  <2>6. /\ DOMAIN new = DOMAIN store /\ new[i] = [store[i] EXCEPT !.last_access = now]
        /\ \A j \in DOMAIN store : j # i => new[j] = store[j]
    BY <2>4
  <2>7. /\ [store[i] EXCEPT !.last_access = now] \in Entries
        /\ [store[i] EXCEPT !.last_access = now].id = id
        /\ [store[i] EXCEPT !.last_access = now].addr = store[i].addr
        /\ [store[i] EXCEPT !.last_access = now].last_access = now
    BY <1>1, <1>3, <2>4 DEF Entries
  <2>8. new \in Seq(Entries) /\ Len(new) = Len(store)
    <3>1. new \in [1 .. Len(store) -> Entries]
      BY <2>6, <2>7, <1>1, <1>3
    <3> QED BY <3>1, <1>1, SeqOfFcn
  <2> HIDE DEF new
  <2>9. out.cache \in Caches /\ out.cache.store = new /\ out.cache.conf = cache.conf /\ out.cache.cap = cache.cap
    BY <2>5, <2>8, <1>1 DEF Caches, new
  <2>10. Touched(cache, out.cache, i, id, now)
    BY <2>9, <2>8, <2>7, <2>6, <2>4, <1>1, <1>3 DEF Touched
  <2> QED BY <2>10, <2>5, <2>4, <1>1 DEF Hit
<1>7. CASE found = {} /\ Cardinality(set) = cache.conf.associativity
  <2> DEFINE i == earliest(store, set)
  <2>1. set \in SUBSET Nat /\ set # {} /\ set \subseteq DOMAIN store
    <3>1. cache.conf.associativity # 0
      BY <1>1 DEF Geometry
    <3> QED BY <3>1, <1>7, <1>3, FS_EmptySet DEF InSet
  <2>2. i \in set /\ \A j \in set : store[i].last_access <= store[j].last_access
    BY <2>1, <1>3, Earliest
  <2>3. /\ out.cache = [cache EXCEPT !.store = [store EXCEPT ![i] = entry]]
        /\ out.result = Result(0, 1, 1)
    BY <1>5, <1>7
  <2> DEFINE new == [store EXCEPT ![i] = entry]
  <2>4. i \in DOMAIN store
    BY <2>1, <2>2
  <2> HIDE DEF i, found, set
  <2>5. /\ DOMAIN new = DOMAIN store /\ new[i] = entry
        /\ \A j \in DOMAIN store : j # i => new[j] = store[j]
    BY <2>4
  <2>6. new \in Seq(Entries) /\ Len(new) = Len(store)
    <3>1. new \in [1 .. Len(store) -> Entries]
      BY <2>5, <1>1, <1>2, <1>3
    <3> QED BY <3>1, <1>1, SeqOfFcn
  <2> HIDE DEF new
  <2>7. out.cache \in Caches /\ out.cache.store = new /\ out.cache.conf = cache.conf /\ out.cache.cap = cache.cap
    BY <2>3, <2>6, <1>1 DEF Caches, new
  <2>8. Touched(cache, out.cache, i, id, now)
    BY <2>7, <2>6, <2>5, <2>4, <1>1, <1>2 DEF Touched
  <2>9. Evict(cache, i, id)
    BY <1>4, <1>7, <2>2 DEF Evict, Missed, set
  <2> QED BY <2>8, <2>9, <2>3, <2>4, <1>1
<1>8. CASE found = {} /\ Cardinality(set) # cache.conf.associativity
  <2> DEFINE i == Len(store) + 1
             new == Append(store, entry)
  <2> HIDE DEF found, set
  <2>1. /\ out.cache = [cache EXCEPT !.cap = grow(cache), !.store = new]
        /\ out.result = Result(0, 1, 0)
    BY <1>5, <1>8
  <2>2. /\ new \in Seq(Entries) /\ Len(new) = i /\ new[i] = entry
        /\ DOMAIN new = DOMAIN store \cup {i}
        /\ \A j \in DOMAIN store : j # i => new[j] = store[j]
    BY <1>1, <1>2
  <2>3. grow(cache) \in Nat /\ i <= grow(cache)
    BY <1>1 DEF grow
  <2> HIDE DEF new
  <2>4. out.cache \in Caches /\ out.cache.store = new /\ out.cache.conf = cache.conf /\ out.cache.cap = grow(cache)
    BY <2>1, <2>2, <2>3, <1>1 DEF Caches
  <2>5. Touched(cache, out.cache, i, id, now)
    BY <2>4, <2>3, <2>2, <1>1, <1>2 DEF Touched
  <2>6. Extend(cache, i, id)
    BY <1>4, <1>8 DEF Extend, Missed, set
  <2> QED BY <2>5, <2>6, <2>1, <1>1
<1> QED BY <1>6, <1>7, <1>8

\* One of the three ways, for the line accessed and its position.
Way(s, i, id, result) ==
  \/ Hit(s.cache.store, i, id) /\ result = Result(1, 0, 0)
  \/ Evict(s.cache, i, id) /\ result = Result(0, 1, 1)
  \/ Extend(s.cache, i, id) /\ result = Result(0, 1, 0)

\* Only the set of the line accessed can change, and only get line i.
SetsTouched(store, after, i, id) ==
  /\ \A set : set # id.set_index => InSet(after, set) = InSet(store, set)
  /\ InSet(after, id.set_index) = InSet(store, id.set_index) \cup {i}
  /\ i \in DOMAIN store <=> i \in InSet(store, id.set_index)

\* An access touches one set.
LEMMA TouchedSets ==
  ASSUME NEW s, Fits(s), NEW new, NEW i \in 1 .. Len(s.cache.store) + 1,
         NEW id \in [set_index : Nat, tag : Nat], NEW result,
         Touched(s.cache, new, i, id, s.line_num), Way(s, i, id, result)
  PROVE  /\ SetsTouched(s.cache.store, new.store, i, id)
         /\ i \in DOMAIN s.cache.store <=> ~Extend(s.cache, i, id)
<1> DEFINE store == s.cache.store
<1>1. i \in DOMAIN store => store[i].id.set_index = id.set_index
  <2>1. Extend(s.cache, i, id) => i \notin DOMAIN store
    <3>1. store \in Seq(Entries)
      BY DEF Fits, Caches
    <3>2. DOMAIN store = 1 .. Len(store) /\ Len(store) \in Nat
      BY <3>1
    <3> QED BY <3>2 DEF Extend
  <2> QED BY <2>1 DEF Way, Hit, Evict, InSet
<1>2. /\ DOMAIN new.store = DOMAIN store \cup {i} /\ new.store[i].id.set_index = id.set_index
      /\ \A j \in DOMAIN store : j # i => new.store[j] = store[j]
  BY DEF Touched
<1>3. i \in DOMAIN store <=> ~Extend(s.cache, i, id)
  <2>1. store \in Seq(Entries)
    BY DEF Fits, Caches
  <2>2. DOMAIN store = 1 .. Len(store) /\ Len(store) \in Nat
    BY <2>1
  <2> QED BY <2>2 DEF Way, Hit, Evict, Extend, InSet
<1> HIDE DEF store
<1>4. \A set : set # id.set_index => InSet(new.store, set) = InSet(store, set)
  BY <1>1, <1>2 DEF InSet
<1>5. InSet(new.store, id.set_index) = InSet(store, id.set_index) \cup {i}
  BY <1>1, <1>2 DEF InSet
<1>6. i \in DOMAIN store <=> i \in InSet(store, id.set_index)
  BY <1>1 DEF InSet
<1>7. SetsTouched(store, new.store, i, id)
  BY <1>4, <1>5, <1>6 DEF SetsTouched
<1> QED BY <1>3, <1>7 DEF store

\* The lines of a set are finitely many.
LEMMA SetFinite ==
  ASSUME NEW store \in Seq(Entries), NEW set
  PROVE  IsFiniteSet(InSet(store, set)) /\ Cardinality(InSet(store, set)) \in Nat
<1>1. Len(store) \in Nat /\ DOMAIN store = 1 .. Len(store)
  OBVIOUS
<1>2. IsFiniteSet(1 .. Len(store))
  BY <1>1, FS_Interval
<1>3. InSet(store, set) \in SUBSET (1 .. Len(store))
  BY <1>1 DEF InSet
<1> QED BY <1>2, <1>3, FS_Subset, FS_CardinalityType

\* The array fits after an access, whatever way it took.
LEMMA TouchedFits ==
  ASSUME NEW s, Fits(s), NEW new, NEW i \in 1 .. Len(s.cache.store) + 1,
         NEW id \in [set_index : Nat, tag : Nat], NEW result,
         Touched(s.cache, new, i, id, s.line_num), Way(s, i, id, result),
         NEW total \in Totals
  PROVE  Fits([cache |-> new, line_num |-> s.line_num + 1, total |-> total])
<1> DEFINE store == s.cache.store
           conf == s.cache.conf
           now == s.line_num
           after == new.store
<1>0. /\ \A set : set # id.set_index => InSet(after, set) = InSet(store, set)
      /\ InSet(after, id.set_index) = InSet(store, id.set_index) \cup {i}
      /\ i \in DOMAIN store <=> i \in InSet(store, id.set_index)
      /\ i \in DOMAIN store <=> ~Extend(s.cache, i, id)
  <2>1. /\ SetsTouched(store, after, i, id)
        /\ i \in DOMAIN store <=> ~Extend(s.cache, i, id)
    BY TouchedSets
  <2> QED BY <2>1 DEF SetsTouched
<1>1. /\ store \in Seq(Entries) /\ conf \in Geometry /\ now \in Nat
      /\ after \in Seq(Entries) /\ new.conf = conf /\ Len(after) <= new.cap /\ new \in Caches
  BY DEF Fits, Caches, Touched
<1>2. /\ DOMAIN after = DOMAIN store \cup {i}
      /\ after[i].id = id /\ after[i].last_access = now /\ id = compute_id(conf, after[i].addr)
      /\ \A j \in DOMAIN store : j # i => after[j] = store[j]
  BY DEF Touched
<1>3. \A j \in DOMAIN store : j # i => store[j].id # id
  <2>1. CASE Hit(store, i, id)
    BY <2>1 DEF Fits, Hit
  <2>2. CASE Missed(store, id)
    BY <2>2 DEF Missed
  <2> QED BY <2>1, <2>2 DEF Way, Evict, Extend
<1>4. /\ \A j \in DOMAIN store : /\ store[j].id = compute_id(conf, store[j].addr)
                                 /\ store[j].last_access < now /\ store[j].last_access \in Nat
      /\ \A j, k \in DOMAIN store : j # k => /\ store[j].id # store[k].id
                                              /\ store[j].last_access # store[k].last_access
  <2>1. \A j \in DOMAIN store : store[j] \in Entries
    BY <1>1
  <2>2. \A e \in Entries : e.last_access \in Nat
    BY DEF Entries
  <2> QED BY <2>1, <2>2 DEF Fits
<1>5. \A set : Cardinality(InSet(after, set)) <= conf.associativity
  <2> TAKE set
  <2>1. Cardinality(InSet(store, set)) <= conf.associativity
    BY DEF Fits
  <2>2. CASE set # id.set_index
    BY <2>1, <2>2, <1>0
  <2>3. CASE set = id.set_index /\ i \in DOMAIN store
    <3>1. InSet(after, set) = InSet(store, set)
      BY <2>3, <1>0
    <3> QED BY <3>1, <2>1
  <2>4. CASE set = id.set_index /\ i \notin DOMAIN store
    <3>1. InSet(after, set) = InSet(store, set) \cup {i} /\ i \notin InSet(store, set)
      BY <2>4, <1>0
    <3>2. Cardinality(InSet(store, set)) # conf.associativity
      BY <2>4, <1>0 DEF Extend
    <3>3. IsFiniteSet(InSet(store, set)) /\ Cardinality(InSet(store, set)) \in Nat
      BY <1>1, SetFinite
    <3>4. Cardinality(InSet(after, set)) = Cardinality(InSet(store, set)) + 1
      BY <3>1, <3>3, FS_AddElement
    <3>5. conf.associativity \in Nat
      BY <1>1 DEF Geometry
    <3> QED BY <3>2, <3>3, <3>4, <3>5, <2>1
  <2> QED BY <2>2, <2>3, <2>4
<1>6. \A j \in DOMAIN after : /\ after[j].id = compute_id(conf, after[j].addr)
                              /\ after[j].last_access < now + 1
  <2> HIDE DEF store, conf, now, after
  <2>1. now < now + 1 /\ \A n \in Nat : n < now => n < now + 1
    BY <1>1
  <2> QED BY <1>2, <1>4, <2>1
<1>7. \A j, k \in DOMAIN after : j # k => /\ after[j].id # after[k].id
                                           /\ after[j].last_access # after[k].last_access
  <2> HIDE DEF store, conf, now, after
  <2>1. \A n \in Nat : n < now => n # now
    BY <1>1
  <2> QED BY <1>2, <1>3, <1>4, <2>1
<1> HIDE DEF store, conf, now, after
<1>8. now + 1 \in Nat
  BY <1>1
<1> DEFINE t == [cache |-> new, line_num |-> now + 1, total |-> total]
<1>9. /\ t \in [cache : Caches, line_num : Nat, total : Totals]
      /\ t.cache.store = after /\ t.cache.conf = conf /\ t.cache.cap = new.cap /\ t.line_num = now + 1
  BY <1>1, <1>8 DEF after
<1> HIDE DEF t
<1>10. Fits(t)
  BY <1>1, <1>5, <1>6, <1>7, <1>9 DEF Fits
<1> QED BY <1>10 DEF t, now

\* The lines of a trace that are accesses.
Line == [type : Types, addr : Nat]
Counted(line) == line.type \notin {"I", ""}

\* A line that is an access takes one of the ways, and a modify hits once more.
LEMMA RunLine ==
  ASSUME NEW s, Fits(s), NEW line \in Line, Counted(line)
  PROVE  LET id == compute_id(s.cache.conf, line.addr)
             t  == run(s, line)
         IN  \E i \in 1 .. Len(s.cache.store) + 1, result \in Totals :
               /\ Touched(s.cache, t.cache, i, id, s.line_num)
               /\ Way(s, i, id, result)
               /\ t = [cache |-> t.cache, line_num |-> s.line_num + 1,
                       total |-> [hits |-> s.total.hits + result.hits
                                             + (IF line.type = "M" THEN 1 ELSE 0),
                                  misses |-> s.total.misses + result.misses,
                                  evictions |-> s.total.evictions + result.evictions]]
               /\ t.total \in Totals
<1> DEFINE id == compute_id(s.cache.conf, line.addr)
           t == run(s, line)
           out == access_entry(s.cache, line.addr, s.line_num)
           more == IF line.type = "M" THEN 1 ELSE 0
<1>1. line.addr \in Nat
  BY DEF Line
<1>2. PICK i \in 1 .. Len(s.cache.store) + 1 :
        Touched(s.cache, out.cache, i, id, s.line_num) /\ Way(s, i, id, out.result)
  BY <1>1, AccessEntry DEF Way
<1>3. /\ out = [cache |-> out.cache, result |-> out.result]
      /\ out.result \in Totals
  <2>1. out.result \in {Result(1, 0, 0), Result(0, 1, 1), Result(0, 1, 0)}
    BY <1>2 DEF Way
  <2>2. out = [cache |-> out.cache, result |-> out.result]
    BY DEF access_entry
  <2> QED BY <2>1, <2>2 DEF Result, Totals
<1>4. s.total \in Totals /\ DOMAIN s.total = {"hits", "misses", "evictions"}
  BY DEF Fits, Totals
<1>5. process_line(s.cache, line, s.line_num) =
        [cache |-> out.cache, result |-> [out.result EXCEPT !.hits = @ + more]]
  <2> HIDE DEF out
  <2>1. CASE line.type = "M"
    BY <2>1, <1>3 DEF process_line, modify_entry, out
  <2>2. CASE line.type # "M"
    <3>1. process_line(s.cache, line, s.line_num) = out /\ more = 0
      BY <2>2 DEF process_line, out
    <3>2. [out.result EXCEPT !.hits = @ + 0] = out.result
      BY <1>3 DEF Totals
    <3> QED BY <3>1, <3>2, <1>3
  <2> QED BY <2>1, <2>2
<1> DEFINE result == out.result
           total == [hits |-> s.total.hits + result.hits + more,
                     misses |-> s.total.misses + result.misses,
                     evictions |-> s.total.evictions + result.evictions]
<1>6. t = [cache |-> out.cache, line_num |-> s.line_num + 1, total |-> total]
  <2> DEFINE r == [result EXCEPT !.hits = @ + more]
             p == process_line(s.cache, line, s.line_num)
  <2>1. /\ r.hits = result.hits + more /\ r.misses = result.misses /\ r.evictions = result.evictions
    BY <1>3 DEF Totals
  <2>2. p.cache = out.cache /\ p.result = r
    BY <1>5
  <2>3. t = [cache |-> p.cache, line_num |-> s.line_num + 1,
             total |-> [f \in DOMAIN s.total |-> s.total[f] + p.result[f]]]
    BY DEF run, Counted
  <2> HIDE DEF t, p, r, out, more
  <2>4. t = [cache |-> out.cache, line_num |-> s.line_num + 1,
             total |-> [f \in {"hits", "misses", "evictions"} |-> s.total[f] + r[f]]]
    BY <2>2, <2>3, <1>4
  <2>5. /\ result.hits \in Nat /\ s.total.hits \in Nat /\ more \in Nat
    BY <1>3, <1>4 DEF Totals, more
  <2>6. [f \in {"hits", "misses", "evictions"} |-> s.total[f] + r[f]] = total
    BY <2>1, <2>5
  <2> QED BY <2>4, <2>6
<1>7. total \in Totals
  BY <1>3, <1>4 DEF Totals
<1> HIDE DEF t, out, total
<1>8. t.cache = out.cache /\ t.total = total
  BY <1>6
<1> QED BY <1>2, <1>3, <1>6, <1>7, <1>8 DEF t, total

\* The array fits after every line.
LEMMA RunFits ==
  ASSUME NEW s, Fits(s), NEW line \in Line
  PROVE  Fits(run(s, line)) /\ run(s, line).cache.conf = s.cache.conf
<1>1. CASE Counted(line)
  <2> DEFINE t == run(s, line)
             id == compute_id(s.cache.conf, line.addr)
  <2>1. PICK i \in 1 .. Len(s.cache.store) + 1, result \in Totals :
               /\ Touched(s.cache, t.cache, i, id, s.line_num)
               /\ Way(s, i, id, result)
               /\ t = [cache |-> t.cache, line_num |-> s.line_num + 1, total |-> t.total]
               /\ t.total \in Totals
    <3>1. PICK i \in 1 .. Len(s.cache.store) + 1, result \in Totals :
               /\ Touched(s.cache, t.cache, i, id, s.line_num)
               /\ Way(s, i, id, result)
               /\ t = [cache |-> t.cache, line_num |-> s.line_num + 1,
                       total |-> [hits |-> s.total.hits + result.hits
                                             + (IF line.type = "M" THEN 1 ELSE 0),
                                  misses |-> s.total.misses + result.misses,
                                  evictions |-> s.total.evictions + result.evictions]]
               /\ t.total \in Totals
      BY <1>1, RunLine
    <3> HIDE DEF t, id
    <3>2. t = [cache |-> t.cache, line_num |-> s.line_num + 1, total |-> t.total]
      BY <3>1
    <3> QED BY <3>1, <3>2
  <2>2. id \in [set_index : Nat, tag : Nat]
    BY IdType DEF Fits, Caches, Line
  <2> HIDE DEF t, id
  <2>3. Fits([cache |-> t.cache, line_num |-> s.line_num + 1, total |-> t.total])
    BY <2>1, <2>2, TouchedFits
  <2> QED BY <2>1, <2>3 DEF t, Touched
<1>2. CASE ~Counted(line)
  BY <1>2 DEF run, Counted
<1> QED BY <1>1, <1>2

----------------------------------------------------------------------------
(* csim's sets, ordered by their last access *)

Later(store, S, i) == {j \in S : store[j].last_access > store[i].last_access}
Ith(store, S, k) == CHOOSE i \in S : Cardinality(Later(store, S, i)) = k - 1
Blocks(s, set) ==
  LET store == s.cache.store
      S == InSet(store, set)
  IN  [k \in 1 .. Cardinality(S) |-> store[Ith(store, S, k)].addr \div 2 ^ s.cache.conf.block_bits]

\* The ranks of the lines of a set are the positions from its front.
LEMMA Ranked ==
  ASSUME NEW store, NEW S, IsFiniteSet(S), \A i \in S : store[i].last_access \in Nat,
         \A i, j \in S : i # j => store[i].last_access # store[j].last_access
  PROVE  /\ \A i \in S : /\ Cardinality(Later(store, S, i)) \in Nat
                /\ Cardinality(Later(store, S, i)) + 1 \in 1 .. Cardinality(S)
                         /\ Ith(store, S, Cardinality(Later(store, S, i)) + 1) = i
         /\ \A k \in 1 .. Cardinality(S) : /\ Ith(store, S, k) \in S
                                           /\ Cardinality(Later(store, S, Ith(store, S, k))) = k - 1
         /\ \A i, j \in S : j \in Later(store, S, i) =>
              Cardinality(Later(store, S, j)) < Cardinality(Later(store, S, i))
<1> DEFINE n == Cardinality(S)
           later(i) == Later(store, S, i)
           rank(i) == Cardinality(later(i))
<1>1. n \in Nat
  BY FS_CardinalityType
<1>2. \A i \in S : IsFiniteSet(later(i)) /\ rank(i) \in 0 .. n - 1
  <2> TAKE i \in S
  <2>1. IsFiniteSet(S \ {i}) /\ Cardinality(S \ {i}) = n - 1
    BY FS_RemoveElement
  <2>2. later(i) \in SUBSET (S \ {i})
    BY DEF Later
  <2>3. IsFiniteSet(later(i)) /\ rank(i) <= n - 1
    BY <2>1, <2>2, FS_Subset
  <2>4. rank(i) \in Nat
    BY <2>3, FS_CardinalityType
  <2> QED BY <2>3, <2>4, <1>1
<1>3. \A i, j \in S : store[i].last_access < store[j].last_access => rank(j) < rank(i)
  <2> TAKE i, j \in S
  <2> HAVE store[i].last_access < store[j].last_access
  <2>1. later(j) \in SUBSET later(i) /\ j \in later(i) /\ j \notin later(j)
    BY DEF Later
  <2>2. rank(j) <= rank(i) /\ rank(i) # rank(j)
    BY <2>1, <1>2, FS_Subset
  <2> HIDE DEF rank
  <2> QED BY <2>2, <1>2, <1>1
<1>4. \A i, j \in S : rank(i) = rank(j) => i = j
  <2> HIDE DEF rank
  <2> TAKE i, j \in S
  <2> HAVE rank(i) = rank(j)
  <2>1. ~(store[i].last_access < store[j].last_access) /\ ~(store[j].last_access < store[i].last_access)
    BY <1>3, <1>2, <1>1
  <2> QED BY <2>1
<1> DEFINE f == [i \in S |-> rank(i)]
<1>5. \A k \in 0 .. n - 1 : \E i \in S : rank(i) = k
  <2>1. IsFiniteSet(0 .. n - 1) /\ Cardinality(0 .. n - 1) = n
    BY <1>1, FS_Interval
  <2>2. f \in Injection(S, 0 .. n - 1)
    <3> HIDE DEF rank, n
    <3>1. f \in [S -> 0 .. n - 1]
      BY <1>2
    <3> QED BY <3>1, <1>4 DEF Injection, IsInjective
  <2>3. f \in Surjection(S, 0 .. n - 1)
    <3> HIDE DEF f
    <3> QED BY <2>1, <2>2, FS_Injection
  <2> HIDE DEF rank, n
  <2> QED BY <2>3 DEF Surjection
<1>6. \A k : Ith(store, S, k) = CHOOSE i \in S : rank(i) = k - 1
  BY DEF Ith
<1> HIDE DEF rank, n, f
<1>7. \A k \in 1 .. n : Ith(store, S, k) \in S /\ rank(Ith(store, S, k)) = k - 1
  <2> TAKE k \in 1 .. n
  <2>1. k - 1 \in 0 .. n - 1
    BY <1>1
  <2>2. \E i \in S : rank(i) = k - 1
    BY <2>1, <1>5
  <2> QED BY <2>2, <1>6
<1>8. \A i \in S : rank(i) \in Nat /\ rank(i) + 1 \in 1 .. n /\ Ith(store, S, rank(i) + 1) = i
  <2> TAKE i \in S
  <2>1. rank(i) \in Nat /\ rank(i) + 1 \in 1 .. n /\ (rank(i) + 1) - 1 = rank(i)
    BY <1>1, <1>2
  <2> QED BY <2>1, <1>7, <1>4
<1>9. \A i, j \in S : j \in Later(store, S, i) => rank(j) < rank(i)
  BY <1>3 DEF Later
<1> QED BY <1>7, <1>8, <1>9 DEF rank, n

\* What Ranked needs of the sets of an array that fits.
LEMMA SetRanked ==
  ASSUME NEW s, Fits(s), NEW set
  PROVE  LET store == s.cache.store
             S == InSet(store, set)
         IN  /\ IsFiniteSet(S) /\ Cardinality(S) \in Nat /\ S \subseteq DOMAIN store
             /\ \A i \in S : store[i].last_access \in Nat /\ store[i].addr \in Nat
             /\ \A i, j \in S : i # j => store[i].last_access # store[j].last_access
             /\ \A i \in S : /\ Cardinality(Later(store, S, i)) \in Nat
                           /\ Cardinality(Later(store, S, i)) + 1 \in 1 .. Cardinality(S)
                             /\ Ith(store, S, Cardinality(Later(store, S, i)) + 1) = i
             /\ \A k \in 1 .. Cardinality(S) : /\ Ith(store, S, k) \in S
                                               /\ Cardinality(Later(store, S, Ith(store, S, k))) = k - 1
             /\ \A i, j \in S : j \in Later(store, S, i) =>
                  Cardinality(Later(store, S, j)) < Cardinality(Later(store, S, i))
<1> DEFINE store == s.cache.store
           S == InSet(store, set)
<1>1. store \in Seq(Entries) /\ S \subseteq DOMAIN store
  BY DEF Fits, Caches, InSet
<1>2. \A i \in S : store[i].last_access \in Nat /\ store[i].addr \in Nat
  <2>1. \A i \in DOMAIN store : store[i] \in Entries
    BY <1>1
  <2> QED BY <2>1, <1>1 DEF Entries
<1>3. \A i, j \in S : i # j => store[i].last_access # store[j].last_access
  BY <1>1 DEF Fits
<1>4. IsFiniteSet(S) /\ Cardinality(S) \in Nat
  BY <1>1, SetFinite
<1> HIDE DEF S, store
<1>5. /\ \A i \in S : /\ Cardinality(Later(store, S, i)) \in Nat
               /\ Cardinality(Later(store, S, i)) + 1 \in 1 .. Cardinality(S)
                      /\ Ith(store, S, Cardinality(Later(store, S, i)) + 1) = i
      /\ \A k \in 1 .. Cardinality(S) : /\ Ith(store, S, k) \in S
                                        /\ Cardinality(Later(store, S, Ith(store, S, k))) = k - 1
      /\ \A i, j \in S : j \in Later(store, S, i) =>
           Cardinality(Later(store, S, j)) < Cardinality(Later(store, S, i))
  BY <1>2, <1>3, <1>4, Ranked
<1> QED BY <1>1, <1>2, <1>3, <1>4, <1>5 DEF S, store

\* Lines of one id are of one block.
LEMMA SameBlock ==
  ASSUME NEW conf \in Geometry, NEW x \in Nat, NEW y \in Nat
  PROVE  compute_id(conf, x) = compute_id(conf, y)
           <=> x \div 2 ^ conf.block_bits = y \div 2 ^ conf.block_bits
<1> DEFINE P == 2 ^ conf.block_bits
           Q == 2 ^ conf.set_bits
<1>1. P \in Nat \ {0} /\ Q \in Nat \ {0}
  <2>1. conf.block_bits \in Nat /\ conf.set_bits \in Nat
    BY AddrBitsAssumption DEF Geometry
  <2> QED BY <2>1, PowType
<1>2. /\ compute_id(conf, x) = [set_index |-> (x \div P) % Q, tag |-> (x \div P) \div Q]
      /\ compute_id(conf, y) = [set_index |-> (y \div P) % Q, tag |-> (y \div P) \div Q]
  BY IdOfBlock
<1> HIDE DEF P, Q
<1>3. x \div P \in Nat /\ y \div P \in Nat
  BY <1>1
<1> DEFINE u == (x \div P) % Q
           v == (y \div P) % Q
           p == (x \div P) \div Q
           q == (y \div P) \div Q
<1>4. compute_id(conf, x) = compute_id(conf, y) => x \div P = y \div P
  <2> HAVE compute_id(conf, x) = compute_id(conf, y)
  <2>1. u = v /\ p = q
    <3>1. [set_index |-> u, tag |-> p] = [set_index |-> v, tag |-> q]
      BY <1>2
    <3> HIDE DEF u, v, p, q
    <3> QED BY <3>1
  <2> QED BY <2>1, <1>1, <1>3, DivideUnique
<1> QED BY <1>2, <1>4 DEF P

\* An access moves its block to the front of its set, from the place of the line
\* that it takes, and leaves the other sets as they are.
LEMMA BlocksMove ==
  ASSUME NEW s, Fits(s), NEW t, Fits(t), NEW i \in 1 .. Len(s.cache.store) + 1,
         NEW id \in [set_index : Nat, tag : Nat], NEW result,
         Touched(s.cache, t.cache, i, id, s.line_num), Way(s, i, id, result)
  PROVE  LET store == s.cache.store
             S == InSet(store, id.set_index)
             last == IF i \in S THEN Cardinality(Later(store, S, i)) + 1 ELSE Cardinality(S) + 1
             block == t.cache.store[i].addr \div 2 ^ s.cache.conf.block_bits
         IN  /\ Blocks(t, id.set_index) = Lru!ToFront(Blocks(s, id.set_index), block, last)
             /\ \A set : set # id.set_index => Blocks(t, set) = Blocks(s, set)
<1> DEFINE store == s.cache.store
           S == InSet(store, id.set_index)
           n == Cardinality(S)
           rank(j) == Cardinality(Later(store, S, j))
           last == IF i \in S THEN rank(i) + 1 ELSE n + 1
           bytes == 2 ^ s.cache.conf.block_bits
           after == t.cache.store
           block == after[i].addr \div bytes
           T == InSet(after, id.set_index)
           rankT(j) == Cardinality(Later(after, T, j))
<1>1. /\ \A set : set # id.set_index => InSet(after, set) = InSet(store, set)
      /\ T = S \cup {i}
      /\ i \in DOMAIN store <=> i \in S
  <2>1. SetsTouched(store, after, i, id)
    BY TouchedSets
  <2> QED BY <2>1 DEF SetsTouched
<1>2. /\ after[i].id = id /\ after[i].last_access = s.line_num
      /\ id = compute_id(s.cache.conf, after[i].addr)
      /\ \A j \in DOMAIN store : j # i => after[j] = store[j]
      /\ t.cache.conf = s.cache.conf
  BY DEF Touched
<1>3. /\ IsFiniteSet(S) /\ n \in Nat /\ S \subseteq DOMAIN store
      /\ \A j \in S : store[j].last_access \in Nat /\ store[j].last_access < s.line_num
      /\ \A j \in S : rank(j) \in Nat /\ rank(j) + 1 \in 1 .. n /\ Ith(store, S, rank(j) + 1) = j
      /\ \A k \in 1 .. n : Ith(store, S, k) \in S /\ rank(Ith(store, S, k)) = k - 1
  <2>1. \A j \in DOMAIN store : store[j].last_access < s.line_num
    BY DEF Fits
  <2> QED BY <2>1, SetRanked
<1>4. \A j, k \in S : k \in Later(store, S, j) => rank(k) < rank(j)
  BY SetRanked
<1>5. /\ Cardinality(T) \in Nat
      /\ \A j \in T : /\ rankT(j) + 1 \in 1 .. Cardinality(T)
                      /\ Ith(after, T, rankT(j) + 1) = j
                      /\ after[j].addr \in Nat
      /\ \A k \in 1 .. Cardinality(T) : Ith(after, T, k) \in T /\ rankT(Ith(after, T, k)) = k - 1
  BY SetRanked
<1>6. s.line_num \in Nat
  BY DEF Fits
<1> HIDE DEF store, after, bytes, block
<1>7. rankT(i) = 0
  <2>1. Later(after, T, i) = {}
    <3>1. \A j \in T : ~(after[j].last_access > after[i].last_access)
      BY <1>1, <1>2, <1>3, <1>6
    <3> QED BY <3>1 DEF Later
  <2> QED BY <2>1, FS_EmptySet
<1>8. \A j \in S : j # i =>
        rankT(j) = IF i \in Later(store, S, j) THEN rank(j) ELSE rank(j) + 1
  <2> TAKE j \in S
  <2> HAVE j # i
  <2>1. Later(after, T, j) = Later(store, S, j) \cup {i}
    <3>1. after[j] = store[j] /\ after[i].last_access > after[j].last_access
      BY <1>1, <1>2, <1>3, <1>6
    <3>2. \A k \in S : k # i => after[k] = store[k]
      BY <1>2, <1>3
    <3> QED BY <3>1, <3>2, <1>1 DEF Later
  <2>2. IsFiniteSet(Later(store, S, j))
    <3>1. Later(store, S, j) \in SUBSET S
      BY DEF Later
    <3> QED BY <3>1, <1>3, FS_Subset
  <2>3. Cardinality(Later(store, S, j) \cup {i})
          = IF i \in Later(store, S, j) THEN rank(j) ELSE rank(j) + 1
    BY <2>2, FS_AddElement
  <2> QED BY <2>1, <2>3
<1>9. Cardinality(T) = (IF i \in S THEN n ELSE n + 1) /\ last \in 1 .. Cardinality(T)
  <2>1. CASE i \in S
    <3>1. T = S
      BY <1>1, <2>1
    <3> QED BY <3>1, <2>1, <1>3
  <2>2. CASE i \notin S
    <3>1. Cardinality(S \cup {i}) = n + 1
      BY <2>2, <1>3, FS_AddElement
    <3> QED BY <3>1, <2>2, <1>1, <1>3
  <2> QED BY <2>1, <2>2
<1> DEFINE N == Cardinality(T)
           here == [k \in 1 .. n |-> store[Ith(store, S, k)].addr \div bytes]
           moved == [k \in 1 .. N |-> after[Ith(after, T, k)].addr \div bytes]
           front == [k \in 1 .. n \cup {last} |->
                       IF k = 1 THEN block ELSE IF k <= last THEN here[k - 1] ELSE here[k]]
<1>10. (1 .. n) \cup {last} = 1 .. N
  <2>1. CASE i \in S
    <3>1. N = n /\ last \in 1 .. n
      BY <2>1, <1>9
    <3> HIDE DEF n, last, N
    <3> QED BY <3>1
  <2>2. CASE i \notin S
    <3>1. N = n + 1 /\ last = n + 1 /\ n \in Nat
      BY <2>2, <1>9, <1>3
    <3> HIDE DEF n, last, N
    <3> QED BY <3>1
  <2> QED BY <2>1, <2>2
<1>11. \A k \in 1 .. N : moved[k] = IF k = 1 THEN block ELSE IF k <= last THEN here[k - 1] ELSE here[k]
  <2> TAKE k \in 1 .. N
  <2> DEFINE j == Ith(after, T, k)
  <2>1. j \in T /\ rankT(j) = k - 1 /\ k \in Nat
    BY <1>5
  <2>2. CASE k = 1
    <3>1. i \in T
      BY <1>1
    <3>2. Ith(after, T, 0 + 1) = i
      BY <3>1, <1>5, <1>7
    <3>3. j = i
      BY <3>2, <2>2
    <3> HIDE DEF j
    <3>4. moved[k] = after[j].addr \div bytes
      BY DEF j
    <3> QED BY <3>3, <3>4, <2>2 DEF block
  <2>3. CASE k # 1
    <3> HIDE DEF j
    <3>1. j # i /\ j \in S
      BY <2>1, <2>3, <1>7, <1>1
    <3>2. after[j] = store[j] /\ moved[k] = store[j].addr \div bytes
      BY <3>1, <1>2, <1>3 DEF j
    <3>3. rank(j) \in Nat /\ rank(j) + 1 \in 1 .. n /\ Ith(store, S, rank(j) + 1) = j
      <4>1. rank(j) + 1 \in 1 .. n /\ Ith(store, S, rank(j) + 1) = j
        BY <3>1, <1>3
      <4>2. rank(j) \in Nat
        BY <3>1, <1>3
      <4> QED BY <4>1, <4>2
    <3>4. here[rank(j) + 1] = moved[k]
      BY <3>2, <3>3
    <3>5. CASE i \in Later(store, S, j)
      <4>1. i \in S /\ rank(i) < rank(j)
        BY <3>5, <3>1, <1>4 DEF Later
      <4>2. rank(j) = k - 1 /\ last = rank(i) + 1
        BY <4>1, <3>1, <3>5, <1>8, <2>1
      <4>3. rank(i) \in Nat
        BY <4>1, <1>3
      <4> HIDE DEF rank, rankT, n, last, here, moved
      <4>4. rank(j) + 1 = k /\ ~(k <= last)
        BY <4>1, <4>2, <4>3, <3>3, <2>1
      <4> QED BY <4>4, <3>4, <2>3
    <3>6. CASE i \notin Later(store, S, j)
      <4>1. rank(j) = k - 2
        <5>1. rankT(j) = rank(j) + 1
          BY <3>6, <3>1, <1>8
        <5> HIDE DEF rank, rankT
        <5> QED BY <5>1, <2>1, <3>3
      <4>2. k <= last
        <5>1. CASE i \in S
          <6>1. ~(store[i].last_access > store[j].last_access)
            BY <5>1, <3>6 DEF Later
          <6>2. store[i].last_access # store[j].last_access
            BY <5>1, <3>1, SetRanked DEF store
          <6>3. j \in Later(store, S, i)
            BY <6>1, <6>2, <5>1, <3>1, <1>3 DEF Later
          <6>4. rank(j) < rank(i) /\ last = rank(i) + 1 /\ rank(i) \in Nat
            BY <6>3, <5>1, <3>1, <1>3, <1>4
          <6> HIDE DEF rank, rankT, n, last
          <6> QED BY <6>4, <4>1, <3>3, <2>1, <1>3
        <5>2. CASE i \notin S
          BY <5>2, <3>3, <4>1, <1>3
        <5> QED BY <5>1, <5>2
      <4>3. rank(j) + 1 = k - 1
        <5> HIDE DEF rank
        <5> QED BY <4>1, <2>1
      <4> QED BY <4>2, <4>3, <3>4, <2>3
    <3> QED BY <3>5, <3>6
  <2> QED BY <2>2, <2>3
<1>12. moved = front
  <2>1. DOMAIN front = 1 .. N
    BY <1>10
  <2>2. \A k \in 1 .. N : front[k] = IF k = 1 THEN block ELSE IF k <= last THEN here[k - 1] ELSE here[k]
    BY <1>10
  <2> HIDE DEF N, last, here, block
  <2>3. \A k \in 1 .. N : moved[k] = front[k]
    BY <2>2, <1>11
  <2> QED BY <2>1, <2>3
<1>13. Blocks(t, id.set_index) = moved /\ Blocks(s, id.set_index) = here
  BY <1>2 DEF Blocks, store, after, bytes
<1>14. Lru!ToFront(here, block, last) = front
  <2>1. DOMAIN here = 1 .. n
    OBVIOUS
  <2> HIDE DEF here, n, last, block
  <2> QED BY <2>1 DEF Lru!ToFront
<1>15. \A set : set # id.set_index => Blocks(t, set) = Blocks(s, set)
  <2> TAKE set
  <2> HAVE set # id.set_index
  <2> DEFINE U == InSet(store, set)
  <2>1. InSet(after, set) = U
    BY <1>1
  <2>2. i \notin U /\ U \subseteq DOMAIN store
    <3>1. U \subseteq DOMAIN store
      BY DEF InSet
    <3>2. i \in U => i \in S /\ set = id.set_index
      BY <3>1, <1>1 DEF InSet
    <3> QED BY <3>1, <3>2
  <2>3. \A j \in U : after[j] = store[j]
    BY <2>2, <1>2
  <2> HIDE DEF U
  <2>4. \A j \in U : Later(after, U, j) = Later(store, U, j)
    BY <2>3 DEF Later
  <2>5. \A k : Ith(after, U, k) = Ith(store, U, k)
    BY <2>4 DEF Ith
  <2>6. \A k \in 1 .. Cardinality(U) : after[Ith(after, U, k)] = store[Ith(store, U, k)]
    <3>1. \A k \in 1 .. Cardinality(U) : Ith(store, U, k) \in U
      BY SetRanked DEF U, store
    <3> QED BY <3>1, <2>3, <2>5
  <2> QED BY <2>1, <2>6, <1>2 DEF Blocks, U, store, after
<1> QED BY <1>12, <1>13, <1>14, <1>15 DEF store, bytes, block, after

AbsSets(s) == [k \in 0 .. (2 ^ s.cache.conf.set_bits - 1) |-> Blocks(s, k)]
Plus(x, y) == [hits |-> x.hits + y.hits, misses |-> x.misses + y.misses,
               evictions |-> x.evictions + y.evictions]

\* Where LruSets takes the block from is where csim has it or its victim.
Taken(s, i, id, block, result) ==
  LET S == InSet(s.cache.store, id.set_index)
      here == Blocks(s, id.set_index)
  IN  /\ Lru!Place(here, block) = IF i \in S THEN Cardinality(Later(s.cache.store, S, i)) + 1
                                  ELSE Cardinality(S) + 1
      /\ result = [hits |-> IF Lru!Holds(here, block) THEN 1 ELSE 0,
                   misses |-> IF Lru!Holds(here, block) THEN 0 ELSE 1,
                   evictions |-> IF ~Lru!Holds(here, block) /\ Lru!Full(here) THEN 1 ELSE 0]

\* The way csim takes is the one LruSets takes.
LEMMA TakenFrom ==
  ASSUME NEW s, Fits(s), NEW i \in 1 .. Len(s.cache.store) + 1, NEW addr \in Nat, NEW result,
         Way(s, i, compute_id(s.cache.conf, addr), result), job.conf = s.cache.conf
  PROVE  Taken(s, i, compute_id(s.cache.conf, addr), addr \div 2 ^ s.cache.conf.block_bits, result)
<1> DEFINE store == s.cache.store
           conf == s.cache.conf
           id == compute_id(conf, addr)
           S == InSet(store, id.set_index)
           n == Cardinality(S)
           rank(j) == Cardinality(Later(store, S, j))
           block == addr \div 2 ^ conf.block_bits
           here == Blocks(s, id.set_index)
<1>1. /\ n \in Nat /\ IsFiniteSet(S) /\ S \subseteq DOMAIN store
      /\ \A j \in S : store[j].addr \in Nat
      /\ \A j \in S : rank(j) \in Nat /\ rank(j) + 1 \in 1 .. n /\ Ith(store, S, rank(j) + 1) = j
      /\ \A k \in 1 .. n : Ith(store, S, k) \in S /\ rank(Ith(store, S, k)) = k - 1
  BY SetRanked
<1>2. conf \in Geometry
  BY DEF Fits, Caches
<1>3. DOMAIN here = 1 .. n
  BY DEF Blocks
<1>4. \A j \in S : store[j].addr \div 2 ^ conf.block_bits = block <=> store[j].id = id
  <2> TAKE j \in S
  <2>1. store[j].addr \in Nat /\ store[j].id = compute_id(conf, store[j].addr)
    BY <1>1 DEF Fits
  <2> HIDE DEF store, conf, S
  <2> QED BY <2>1, <1>2, SameBlock
<1>5. \A k \in 1 .. n : here[k] = block <=> store[Ith(store, S, k)].id = id
  <2>1. \A k \in 1 .. n : here[k] = store[Ith(store, S, k)].addr \div 2 ^ conf.block_bits
    BY DEF Blocks
  <2> HIDE DEF here, block, id, S, n, store, conf, rank
  <2> QED BY <2>1, <1>1, <1>4
<1>6. Len(here) = n
  <2> HIDE DEF here, n
  <2>1. here = [k \in 1 .. n |-> here[k]]
    BY <1>3 DEF here, n, Blocks
  <2> QED BY <2>1, <1>1, LenOfFcn
<1> DEFINE last == IF i \in S THEN rank(i) + 1 ELSE n + 1
           Goal == /\ Lru!Place(here, block) = last
                   /\ result = [hits |-> IF Lru!Holds(here, block) THEN 1 ELSE 0,
                                misses |-> IF Lru!Holds(here, block) THEN 0 ELSE 1,
                                evictions |-> IF ~Lru!Holds(here, block) /\ Lru!Full(here) THEN 1 ELSE 0]
<1>7. Lru!Full(here) <=> n = conf.associativity
  <2> HIDE DEF here, n, conf
  <2> QED BY <1>6 DEF Lru!Full, conf
<1> HIDE DEF here, block, n
<1>8. ASSUME Hit(store, i, id), result = Result(1, 0, 0) PROVE Goal
  <2>1. i \in S
    BY <1>8 DEF Hit, InSet
  <2>2. \A k \in 1 .. n : store[Ith(store, S, k)].id = id => k = rank(i) + 1
    <3> TAKE k \in 1 .. n
    <3> HAVE store[Ith(store, S, k)].id = id
    <3>1. Ith(store, S, k) \in S /\ rank(Ith(store, S, k)) = k - 1
      BY <1>1
    <3>2. Ith(store, S, k) = i
      BY <3>1, <2>1, <1>1, <1>8 DEF Fits, Hit
    <3> HIDE DEF rank
    <3> QED BY <3>1, <3>2, <1>1
  <2>3. rank(i) + 1 \in 1 .. n /\ store[Ith(store, S, rank(i) + 1)].id = id
    BY <2>1, <1>1, <1>8 DEF Hit
  <2> DEFINE r == rank(i) + 1
  <2>4. r \in DOMAIN here /\ here[r] = block /\ \A k \in DOMAIN here : here[k] = block => k = r
    BY <2>2, <2>3, <1>3, <1>5
  <2> HIDE DEF r
  <2>5. Lru!Holds(here, block)
    BY <2>4 DEF Lru!Holds
  <2>6. Lru!Place(here, block) = r
    <3>1. (CHOOSE k \in DOMAIN here : here[k] = block) = r
      BY <2>4
    <3> QED BY <3>1, <2>5 DEF Lru!Place
  <2> QED BY <2>1, <2>5, <2>6, <1>8 DEF Result, r
<1>9. ASSUME Missed(store, id) PROVE ~Lru!Holds(here, block)
  BY <1>1, <1>3, <1>5, <1>9 DEF Missed, Lru!Holds
<1>10. ASSUME Evict(s.cache, i, id), result = Result(0, 1, 1) PROVE Goal
  <2>1. i \in S /\ n = conf.associativity /\ \A j \in S : store[i].last_access <= store[j].last_access
    BY <1>10 DEF Evict, n
  <2>2. ~Lru!Holds(here, block)
    BY <1>9, <1>10 DEF Evict
  <2>3. Later(store, S, i) = S \ {i}
    <3>1. \A j \in S : store[j].last_access \in Nat
      BY SetRanked
    <3>2. \A j \in S : j # i => store[j].last_access # store[i].last_access
      BY <2>1, SetRanked
    <3>3. \A j \in S : j # i => store[j].last_access > store[i].last_access
      BY <2>1, <3>1, <3>2
    <3>4. ~(store[i].last_access > store[i].last_access)
      BY <2>1, <3>1
    <3> QED BY <3>3, <3>4 DEF Later
  <2>4. rank(i) = n - 1
    <3>1. Cardinality(S \ {i}) = Cardinality(S) - 1
      BY <2>1, <1>1, FS_RemoveElement
    <3> QED BY <3>1, <2>3 DEF n
  <2>5. rank(i) + 1 = n
    <3> HIDE DEF rank
    <3> QED BY <2>4, <1>1
  <2>6. Lru!Place(here, block) = n
    BY <2>1, <2>2, <1>6, <1>7 DEF Lru!Place
  <2> QED BY <2>1, <2>2, <2>5, <2>6, <1>7, <1>10 DEF Result
<1>11. ASSUME Extend(s.cache, i, id), result = Result(0, 1, 0) PROVE Goal
  <2>1. i \notin S
    <3>1. store \in Seq(Entries)
      BY DEF Fits, Caches
    <3>2. i \notin DOMAIN store
      BY <3>1, <1>11 DEF Extend
    <3> QED BY <3>2, <1>1
  <2>2. n # conf.associativity
    BY <1>11 DEF Extend, n
  <2>3. ~Lru!Holds(here, block)
    BY <1>9, <1>11 DEF Extend
  <2>4. Lru!Place(here, block) = n + 1
    BY <2>2, <2>3, <1>6, <1>7 DEF Lru!Place
  <2> QED BY <2>1, <2>2, <2>3, <2>4, <1>7, <1>11 DEF Result
<1>12. Goal
  BY <1>8, <1>10, <1>11 DEF Way
<1> QED BY <1>12 DEF Taken, here, block, n

\* An access of csim is an access to the sets of LruSets.
LEMMA TouchImplements ==
  ASSUME NEW s, Fits(s), NEW t, Fits(t), NEW i \in 1 .. Len(s.cache.store) + 1, NEW addr \in Nat,
         NEW result, Touched(s.cache, t.cache, i, compute_id(s.cache.conf, addr), s.line_num),
         Way(s, i, compute_id(s.cache.conf, addr), result),
         NEW total \in Totals, job.conf = s.cache.conf
  PROVE  Lru!Touch([sets |-> AbsSets(s), total |-> total], addr \div 2 ^ s.cache.conf.block_bits)
           = [sets |-> AbsSets(t), total |-> Plus(total, result)]
<1> DEFINE store == s.cache.store
           conf == s.cache.conf
           id == compute_id(conf, addr)
           set == id.set_index
           S == InSet(store, set)
           n == Cardinality(S)
           P == 2 ^ conf.block_bits
           Q == 2 ^ conf.set_bits
           block == addr \div P
           here == Blocks(s, set)
           last == IF i \in S THEN Cardinality(Later(store, S, i)) + 1 ELSE n + 1
<1>1. conf \in Geometry /\ id \in [set_index : Nat, tag : Nat]
  <2>1. conf \in Geometry
    BY DEF Fits, Caches
  <2> QED BY <2>1, IdType
<1>2. P \in Nat \ {0} /\ Q \in Nat \ {0}
  <2>1. conf.block_bits \in Nat /\ conf.set_bits \in Nat
    BY <1>1, AddrBitsAssumption DEF Geometry
  <2> HIDE DEF conf
  <2> QED BY <2>1, PowType
<1>3. set = block % Q
  <2> HIDE DEF conf, P, Q
  <2>1. id = [set_index |-> (addr \div P) % Q, tag |-> (addr \div P) \div Q]
    BY <1>1, IdOfBlock DEF P, Q
  <2> DEFINE u == (addr \div P) % Q
             v == (addr \div P) \div Q
  <2>2. id = [set_index |-> u, tag |-> v]
    BY <2>1
  <2> HIDE DEF id, u, v
  <2>3. id.set_index = u
    BY <2>2
  <2> QED BY <2>3 DEF u
<1>4. set \in 0 .. Q - 1
  <2> HIDE DEF P, Q, set
  <2>1. block \in Nat
    BY <1>2
  <2> HIDE DEF block
  <2> QED BY <2>1, <1>2, <1>3
<1>5. i \in DOMAIN t.cache.store /\ t.cache.store[i].addr \in Nat /\ t.cache.store[i].addr \div P = block
  <2>1. i \in DOMAIN t.cache.store /\ id = compute_id(conf, t.cache.store[i].addr)
    BY DEF Touched
  <2>2. t.cache.store[i].addr \in Nat
    <3>1. t.cache.store \in Seq(Entries)
      BY DEF Fits, Caches
    <3>2. t.cache.store[i] \in Entries
      BY <2>1, <3>1
    <3> QED BY <3>2 DEF Entries
  <2> QED BY <2>1, <2>2, <1>1, SameBlock
<1>6. /\ Blocks(t, set) = Lru!ToFront(here, block, last)
      /\ \A k : k # set => Blocks(t, k) = Blocks(s, k)
  <2>1. /\ Touched(s.cache, t.cache, i, id, s.line_num) /\ Way(s, i, id, result)
    OBVIOUS
  <2> HIDE DEF id
  <2>2. /\ Blocks(t, set) = Lru!ToFront(here, t.cache.store[i].addr \div P, last)
        /\ \A k : k # set => Blocks(t, k) = Blocks(s, k)
    BY <2>1, <1>1, BlocksMove
  <2> QED BY <2>2, <1>5
<1> DEFINE hit == Lru!Holds(here, block)
           full == Lru!Full(here)
<1>7. Taken(s, i, id, block, result)
  BY TakenFrom
<1>8. /\ Lru!Place(here, block) = last
      /\ result = [hits |-> IF hit THEN 1 ELSE 0, misses |-> IF hit THEN 0 ELSE 1,
                   evictions |-> IF ~hit /\ full THEN 1 ELSE 0]
  <2> HIDE DEF id, block
  <2> QED BY <1>7 DEF Taken
<1> DEFINE x == [sets |-> AbsSets(s), total |-> total]
<1>9. /\ DOMAIN AbsSets(s) = 0 .. Q - 1 /\ AbsSets(s)[set] = here
      /\ \A k \in 0 .. Q - 1 : AbsSets(s)[k] = Blocks(s, k)
  BY <1>4 DEF AbsSets
<1>10. Lru!Touch(x, block) =
         [sets |-> [AbsSets(s) EXCEPT ![set] = Lru!ToFront(here, block, Lru!Place(here, block))],
          total |-> [hits |-> total.hits + (IF hit THEN 1 ELSE 0),
                     misses |-> total.misses + (IF hit THEN 0 ELSE 1),
                     evictions |-> total.evictions + (IF ~hit /\ full THEN 1 ELSE 0)]]
  <2> DEFINE a == AbsSets(s)
  <2>1. x.sets = a /\ x.total = total /\ block % 2 ^ job.conf.set_bits = set
    BY <1>3
  <2>2. a[set] = here
    BY <1>9
  <2> HIDE DEF a, x, here, block, set
  <2> QED BY <2>1, <2>2 DEF Lru!Touch, a
<1> HIDE DEF here, block, n, set, Q
<1>11. [AbsSets(s) EXCEPT ![set] = Lru!ToFront(here, block, last)] = AbsSets(t)
  <2>1. t.cache.conf = conf
    BY DEF Touched
  <2>2. AbsSets(t) = [k \in 0 .. Q - 1 |-> Blocks(t, k)]
    BY <2>1 DEF AbsSets, Q
  <2> DEFINE new == Lru!ToFront(here, block, last)
  <2> HIDE DEF new, last
  <2>3. Blocks(t, set) = new /\ \A k : k # set => Blocks(t, k) = Blocks(s, k)
    BY <1>6 DEF new
  <2>4. AbsSets(s) = [k \in 0 .. Q - 1 |-> Blocks(s, k)]
    BY DEF AbsSets, Q
  <2> HIDE DEF AbsSets
  <2>5. [AbsSets(s) EXCEPT ![set] = new] = [k \in 0 .. Q - 1 |-> Blocks(t, k)]
    BY <2>3, <2>4, <1>4
  <2> QED BY <2>2, <2>5 DEF new
<1>12. Plus(total, result) = [hits |-> total.hits + (IF hit THEN 1 ELSE 0),
                              misses |-> total.misses + (IF hit THEN 0 ELSE 1),
                              evictions |-> total.evictions + (IF ~hit /\ full THEN 1 ELSE 0)]
  <2> HIDE DEF hit, full
  <2> QED BY <1>8 DEF Plus
<1> QED BY <1>8, <1>10, <1>11, <1>12 DEF block

\* A block at the front stays there: the store of a modify.
LEMMA TouchAgain ==
  ASSUME NEW t, Fits(t), NEW i \in DOMAIN t.cache.store, NEW addr \in Nat,
         t.cache.store[i].id = compute_id(t.cache.conf, addr),
         \A j \in DOMAIN t.cache.store : t.cache.store[j].last_access <= t.cache.store[i].last_access,
         NEW total \in Totals, job.conf = t.cache.conf
  PROVE  Lru!Touch([sets |-> AbsSets(t), total |-> total], addr \div 2 ^ t.cache.conf.block_bits)
           = [sets |-> AbsSets(t), total |-> [total EXCEPT !.hits = @ + 1]]
<1> DEFINE store == t.cache.store
           conf == t.cache.conf
           id == compute_id(conf, addr)
           set == id.set_index
           S == InSet(store, set)
           P == 2 ^ conf.block_bits
           Q == 2 ^ conf.set_bits
           block == addr \div P
           here == Blocks(t, set)
<1>1. conf \in Geometry
  BY DEF Fits, Caches
<1>2. P \in Nat \ {0} /\ Q \in Nat \ {0}
  <2>1. conf.block_bits \in Nat /\ conf.set_bits \in Nat
    BY <1>1, AddrBitsAssumption DEF Geometry
  <2> HIDE DEF conf
  <2> QED BY <2>1, PowType
<1>3. set = block % Q
  <2> HIDE DEF conf, P, Q
  <2>1. id = [set_index |-> (addr \div P) % Q, tag |-> (addr \div P) \div Q]
    BY <1>1, IdOfBlock DEF P, Q
  <2> DEFINE u == (addr \div P) % Q
             v == (addr \div P) \div Q
  <2>2. id = [set_index |-> u, tag |-> v]
    BY <2>1
  <2> HIDE DEF id, u, v
  <2>3. id.set_index = u
    BY <2>2
  <2> QED BY <2>3 DEF u
<1>4. set \in 0 .. Q - 1
  <2> HIDE DEF P, Q, set
  <2>1. block \in Nat
    BY <1>2
  <2> HIDE DEF block
  <2> QED BY <2>1, <1>2, <1>3
<1>5. Taken(t, i, id, block, Result(1, 0, 0))
  <2>1. store \in Seq(Entries)
    BY DEF Fits, Caches
  <2>2. i \in 1 .. Len(store) + 1
    BY <2>1
  <2>3. Way(t, i, id, Result(1, 0, 0))
    BY DEF Way, Hit
  <2> QED BY <2>2, <2>3, TakenFrom
<1>6. i \in S /\ Later(store, S, i) = {}
  <2>1. i \in S
    BY DEF InSet
  <2>2. \A j \in S : store[j].last_access \in Nat /\ j \in DOMAIN store
    BY SetRanked
  <2>3. \A j \in S : ~(store[j].last_access > store[i].last_access)
    BY <2>1, <2>2
  <2> QED BY <2>1, <2>3 DEF Later
<1>7. Lru!Place(here, block) = 1 /\ Lru!Holds(here, block)
  <2>1. Lru!Place(here, block) = Cardinality(Later(store, S, i)) + 1
    BY <1>5, <1>6 DEF Taken
  <2>2. Lru!Holds(here, block)
    <3>1. [hits |-> 1, misses |-> 0, evictions |-> 0].hits =
             (IF Lru!Holds(here, block) THEN 1 ELSE 0)
      BY <1>5 DEF Taken, Result
    <3> HIDE DEF here, block
    <3> QED BY <3>1
  <2>3. Cardinality(Later(store, S, i)) = 0
    BY <1>6, FS_EmptySet
  <2> QED BY <2>1, <2>2, <2>3
<1>8. 1 \in DOMAIN here /\ here[1] = block /\ here = [k \in DOMAIN here |-> here[k]]
      /\ DOMAIN here \subseteq Nat \ {0}
  <2> DEFINE n == Cardinality(S)
  <2>0. n \in Nat /\ here = [k \in 1 .. n |-> here[k]] /\ DOMAIN here = 1 .. n
    BY SetRanked DEF Blocks
  <2> HIDE DEF here, block, n
  <2>1. Lru!Place(here, block) = CHOOSE k \in DOMAIN here : here[k] = block
    BY <1>7 DEF Lru!Place
  <2>2. Lru!Place(here, block) \in DOMAIN here /\ here[Lru!Place(here, block)] = block
    BY <1>7, <2>1 DEF Lru!Holds
  <2> QED BY <2>0, <2>2, <1>7
<1>9. Lru!ToFront(here, block, 1) = here
  <2> HIDE DEF here, block
  <2>1. DOMAIN here \cup {1} = DOMAIN here
    BY <1>8
  <2>2. \A k \in DOMAIN here :
          (IF k = 1 THEN block ELSE IF k <= 1 THEN here[k - 1] ELSE here[k]) = here[k]
    BY <1>8
  <2>3. Lru!ToFront(here, block, 1) =
          [k \in DOMAIN here |-> IF k = 1 THEN block ELSE IF k <= 1 THEN here[k - 1] ELSE here[k]]
    BY <2>1 DEF Lru!ToFront
  <2> QED BY <1>8, <2>2, <2>3
<1>10. [AbsSets(t) EXCEPT ![set] = here] = AbsSets(t)
  BY <1>4 DEF AbsSets
<1>11. AbsSets(t)[set] = here
  BY <1>4 DEF AbsSets
<1> DEFINE a == AbsSets(t)
           x == [sets |-> a, total |-> total]
<1>12. x.sets = a /\ x.total = total /\ block % 2 ^ job.conf.set_bits = set
  BY <1>3
<1>13. Lru!Touch(x, block) = [sets |-> a, total |-> [hits |-> total.hits + 1, misses |-> total.misses + 0,
                                                     evictions |-> total.evictions + 0]]
  <2> HIDE DEF a, x, here, block, set
  <2> QED BY <1>7, <1>9, <1>10, <1>11, <1>12 DEF Lru!Touch, a
<1>14. [total EXCEPT !.hits = @ + 1] = [hits |-> total.hits + 1, misses |-> total.misses + 0,
                                        evictions |-> total.evictions + 0]
  BY DEF Totals
<1> QED BY <1>13, <1>14

\* The line that is touched was accessed last.
LEMMA TouchedLast ==
  ASSUME NEW s, Fits(s), NEW new, NEW i, NEW id, Touched(s.cache, new, i, id, s.line_num)
  PROVE  \A j \in DOMAIN new.store : new.store[j].last_access <= new.store[i].last_access
<1>1. s.line_num \in Nat
  BY DEF Fits
<1>2. \A j \in DOMAIN s.cache.store : /\ s.cache.store[j].last_access < s.line_num
                                      /\ s.cache.store[j].last_access \in Nat
  <2>1. s.cache.store \in Seq(Entries)
    BY DEF Fits, Caches
  <2>2. \A j \in DOMAIN s.cache.store : s.cache.store[j] \in Entries
    BY <2>1
  <2> QED BY <2>2 DEF Fits, Entries
<1>3. /\ DOMAIN new.store = DOMAIN s.cache.store \cup {i}
      /\ new.store[i].last_access = s.line_num
      /\ \A j \in DOMAIN s.cache.store : j # i => new.store[j] = s.cache.store[j]
  BY DEF Touched
<1>4. \A j \in DOMAIN new.store :
        new.store[j].last_access \in Nat /\ new.store[j].last_access <= s.line_num
  BY <1>1, <1>2, <1>3
<1> QED BY <1>3, <1>4

\* A line of the trace does to csim what it does to the sets of LruSets.
LEMMA RunImplements ==
  ASSUME NEW s, Fits(s), NEW line \in Line, job.conf = s.cache.conf
  PROVE  Lru!Line([sets |-> AbsSets(s), total |-> s.total], line)
           = [sets |-> AbsSets(run(s, line)), total |-> run(s, line).total]
<1> DEFINE t == run(s, line)
           conf == s.cache.conf
           addr == line.addr
           id == compute_id(conf, addr)
           block == addr \div 2 ^ conf.block_bits
           x == [sets |-> AbsSets(s), total |-> s.total]
<1>1. Fits(t) /\ t.cache.conf = conf /\ addr \in Nat /\ s.total \in Totals
  BY RunFits DEF Line, Fits
<1>2. Lru!Line(x, line) = IF line.type \in {"L", "S"} THEN Lru!Touch(x, block)
                          ELSE IF line.type = "M" THEN Lru!Touch(Lru!Touch(x, block), block)
                          ELSE x
  BY DEF Lru!Line
<1>3. CASE ~Counted(line)
  <2>1. t = s /\ line.type \notin {"L", "S"} /\ line.type # "M"
    BY <1>3 DEF run, Counted
  <2> HIDE DEF t
  <2> QED BY <1>2, <2>1 DEF t
<1>4. CASE Counted(line)
  <2>1. PICK i \in 1 .. Len(s.cache.store) + 1, result \in Totals :
               /\ Touched(s.cache, t.cache, i, id, s.line_num)
               /\ Way(s, i, id, result)
               /\ t = [cache |-> t.cache, line_num |-> s.line_num + 1,
                       total |-> [hits |-> s.total.hits + result.hits
                                             + (IF line.type = "M" THEN 1 ELSE 0),
                                  misses |-> s.total.misses + result.misses,
                                  evictions |-> s.total.evictions + result.evictions]]
               /\ t.total \in Totals
    BY <1>4, RunLine
  <2> HIDE DEF t
  <2>2. t.total = [hits |-> s.total.hits + result.hits + (IF line.type = "M" THEN 1 ELSE 0),
                   misses |-> s.total.misses + result.misses,
                   evictions |-> s.total.evictions + result.evictions]
    BY <2>1
  <2>3. Lru!Touch(x, block) = [sets |-> AbsSets(t), total |-> Plus(s.total, result)]
    BY <2>1, <1>1, TouchImplements
  <2>4. /\ result.hits \in Nat /\ s.total.hits \in Nat
        /\ Plus(s.total, result) \in Totals
    <3>1. result \in Totals /\ s.total \in Totals
      BY <1>1
    <3>2. \A z \in Totals : z.hits \in Nat /\ z.misses \in Nat /\ z.evictions \in Nat
      BY DEF Totals
    <3>3. \A z, y \in Totals : Plus(z, y) \in Totals
      BY <3>2 DEF Totals, Plus
    <3> QED BY <3>1, <3>2, <3>3
  <2>5. CASE line.type \in {"L", "S"}
    <3>1. t.total = Plus(s.total, result)
      BY <2>2, <2>4, <2>5 DEF Plus
    <3> QED BY <3>1, <2>3, <2>5, <1>2 DEF t
  <2>6. CASE line.type = "M"
    <3> DEFINE p == Plus(s.total, result)
    <3>1. i \in DOMAIN t.cache.store /\ t.cache.store[i].id = id
      BY <2>1 DEF Touched
    <3>2. \A j \in DOMAIN t.cache.store : t.cache.store[j].last_access <= t.cache.store[i].last_access
      BY <2>1, TouchedLast
    <3>3. job.conf = t.cache.conf
      BY <1>1
    <3>4. Lru!Touch([sets |-> AbsSets(t), total |-> p], block)
            = [sets |-> AbsSets(t), total |-> [p EXCEPT !.hits = @ + 1]]
      <4> HIDE DEF p
      <4> QED BY <3>1, <3>2, <3>3, <2>4, <1>1, TouchAgain DEF p
    <3>5. t.total = [p EXCEPT !.hits = @ + 1]
      BY <2>2, <2>4, <2>6 DEF Plus
    <3>6. line.type \notin {"L", "S"}
      BY <2>6
    <3> QED BY <3>4, <3>5, <3>6, <2>3, <2>6, <1>2 DEF t
  <2> QED BY <2>5, <2>6, <1>4 DEF Counted, Line, Types
<1> QED BY <1>3, <1>4

----------------------------------------------------------------------------
(* The loops of transpose_submit *)

Size == 1 .. MAXN

\* Whether an iteration gathers in temporaries, and its number of accesses.
Gathering(M, N, p) == IF Colliding(M, N) THEN p.i < 8 ELSE p.col + 8 <= M \/ p.row + 8 <= N
Width(M, N, p) == IF Gathering(M, N, p) THEN 16 ELSE IF Colliding(M, N) THEN 8 ELSE 2 * (M - p.col)

Position(M, N) ==
  {p \in [row : Nat, col : Nat, i : Nat, k : Nat] :
     /\ p.row % 8 = 0 /\ p.col % 8 = 0
     /\ p.row < N => /\ p.col < M
                     /\ p.i < Iterations(M, N, p.row, p.col)
                     /\ p.k \in 1 .. Width(M, N, p)
     /\ p.row >= N => p.row < N + 8 /\ p.col = 0 /\ p.i = 0 /\ p.k = 1}

\* The element of A that slot j of the iteration moves.
Fetching(M, N, p) == Colliding(M, N) /\ p.i >= 8
Item(M, N, p, j) ==
  IF Fetching(M, N, p) THEN [r |-> p.row + p.i - 8, c |-> p.col + 4 + j]
  ELSE IF ~Colliding(M, N) /\ p.col + 8 > M /\ p.row + 8 <= N
  THEN [r |-> p.row + j, c |-> p.col + p.i]
  ELSE [r |-> p.row + p.i, c |-> p.col + j]

\* What the access at p is about.
Slot(M, N, p) ==
  IF Gathering(M, N, p) THEN IF p.k <= 8 THEN p.k - 1 ELSE p.k - 9 ELSE (p.k - 1) \div 2
Moved(M, N, p) == Item(M, N, p, Slot(M, N, p))
Loads(M, N, p) == IF Gathering(M, N, p) THEN p.k <= 8 ELSE p.k % 2 = 1
Temp(M, N, p) == IF Gathering(M, N, p) THEN Slot(M, N, p) + 1 ELSE 1
Parking(M, N, p) == Colliding(M, N) /\ p.i < 8 /\ Slot(M, N, p) >= 4
SpareCell(M, N, p, r, c) ==
  B(N, 64 + (c - p.col - 4), p.row + Spare(p.row, p.col) + (r - p.row))

\* The length of an iteration, and the access at p.
LEMMA IterationAt ==
  ASSUME NEW M \in Size, NEW N \in Size, NEW p \in Position(M, N), p.row < N
  PROVE  LET ops == Iteration(M, N, p.row, p.col, p.i)
             it == Moved(M, N, p)
         IN  /\ Len(ops) = Width(M, N, p)
             /\ ops[p.k] = IF Loads(M, N, p)
                           THEN Ld(IF Fetching(M, N, p) THEN SpareCell(M, N, p, it.r, it.c)
                                   ELSE A(M, it.r, it.c), Temp(M, N, p))
                           ELSE St(IF Parking(M, N, p) THEN SpareCell(M, N, p, it.r, it.c)
                                   ELSE B(N, it.c, it.r), Temp(M, N, p))
<1> DEFINE ops == Iteration(M, N, p.row, p.col, p.i)
           it == Moved(M, N, p)
           row == p.row
           col == p.col
           i == p.i
           k == p.k
<1>1. /\ M \in Nat /\ N \in Nat /\ row \in Nat /\ col \in Nat /\ i \in Nat /\ k \in Nat
      /\ col < M /\ k \in 1 .. Width(M, N, p)
  BY DEF Size, MAXN, Position
<1> HIDE DEF row, col, i, k
<1> USE DEF row, col, i, k
<1>2. CASE Colliding(M, N) /\ i < 8
  <2>1. ops = Gather([j \in 0 .. 7 |-> A(M, row + i, col + j)],
                     [j \in 0 .. 7 |-> IF j < 4 THEN B(N, col + j, row + i)
                                       ELSE B(N, 64 + j - 4, row + Spare(row, col) + i)])
    BY <1>2 DEF Iteration, CollidingBlock
  <2>2. Gathering(M, N, p) /\ Width(M, N, p) = 16 /\ ~Fetching(M, N, p)
    BY <1>1, <1>2 DEF Gathering, Width, Fetching
  <2>3. Len(ops) = 16
    BY <2>1 DEF Gather
  <2>4. k \in 1 .. 16
    BY <2>2, <1>1
  <2>5. \A j : Item(M, N, p, j) = [r |-> row + i, c |-> col + j]
    BY <1>2, <2>2 DEF Item
  <2>6. CASE k <= 8
    <3>1. ops[k] = Ld(A(M, row + i, col + (k - 1)), k)
      BY <2>1, <2>4, <2>6 DEF Gather
    <3>2. Slot(M, N, p) = k - 1 /\ Temp(M, N, p) = k /\ Loads(M, N, p)
      BY <2>2, <2>4, <2>6 DEF Slot, Temp, Loads
    <3> QED BY <3>1, <3>2, <2>2, <2>3, <2>5 DEF Moved
  <2>7. CASE k > 8
    <3>1. ops[k] = St(IF k - 9 < 4 THEN B(N, col + (k - 9), row + i)
                      ELSE B(N, 64 + (k - 9) - 4, row + Spare(row, col) + i), k - 8)
      BY <2>1, <2>4, <2>7 DEF Gather
    <3>2. Slot(M, N, p) = k - 9 /\ Temp(M, N, p) = k - 8 /\ ~Loads(M, N, p)
      BY <2>2, <2>4, <2>7 DEF Slot, Temp, Loads
    <3>3. it.r = row + i /\ it.c = col + (k - 9)
      BY <3>2, <2>5 DEF Moved
    <3>4. Parking(M, N, p) <=> ~(k - 9 < 4)
      BY <1>2, <3>2, <2>4 DEF Parking
    <3>5. SpareCell(M, N, p, it.r, it.c) = B(N, 64 + (k - 9) - 4, row + Spare(row, col) + i)
      <4>1. 64 + (it.c - col - 4) = 64 + (k - 9) - 4 /\ it.r - row = i
        BY <3>3, <1>1
      <4> QED BY <4>1 DEF SpareCell
    <3> QED BY <3>1, <3>2, <3>3, <3>4, <3>5, <2>2, <2>3
  <2> QED BY <2>6, <2>7, <1>1
<1>3. CASE Fetching(M, N, p)
  <2>1. ops = Direct(4, [j \in 0 .. 3 |-> B(N, 64 + j, row + Spare(row, col) + i - 8)],
                        [j \in 0 .. 3 |-> B(N, col + 4 + j, row + i - 8)])
    BY <1>3, <1>1 DEF Iteration, CollidingBlock, Fetching
  <2>2. ~Gathering(M, N, p) /\ Width(M, N, p) = 8 /\ ~Parking(M, N, p)
    BY <1>3, <1>1 DEF Gathering, Width, Fetching, Parking
  <2>3. Len(ops) = 8
    BY <2>1 DEF Direct
  <2>4. k \in 1 .. 8
    BY <2>2, <1>1
  <2> DEFINE j == (k - 1) \div 2
  <2>5. Slot(M, N, p) = j /\ Temp(M, N, p) = 1 /\ (Loads(M, N, p) <=> k % 2 = 1)
    BY <2>2 DEF Slot, Temp, Loads
  <2>6. it.r = row + i - 8 /\ it.c = col + 4 + j
    BY <1>3, <2>5 DEF Moved, Item
  <2>7. j \in 0 .. 3 /\ (k % 2 = 1 => k \div 2 = j) /\ (k % 2 # 1 => k \div 2 - 1 = j)
    BY <2>4
  <2> HIDE DEF j, it
  <2>8. CASE k % 2 = 1
    <3>1. ops[k] = Ld(B(N, 64 + j, row + Spare(row, col) + i - 8), 1)
      BY <2>1, <2>4, <2>7, <2>8 DEF Direct
    <3>2. SpareCell(M, N, p, it.r, it.c) = B(N, 64 + j, row + Spare(row, col) + i - 8)
      <4>1. 64 + (it.c - col - 4) = 64 + j
        BY <2>6, <2>7, <1>1
      <4>2. row + Spare(row, col) + (it.r - row) = row + Spare(row, col) + i - 8
        BY <2>6, <1>1 DEF Spare
      <4> QED BY <4>1, <4>2 DEF SpareCell
    <3> QED BY <3>1, <3>2, <2>2, <2>3, <2>5, <2>8, <1>3 DEF it
  <2>9. CASE k % 2 # 1
    <3>1. ops[k] = St(B(N, col + 4 + j, row + i - 8), 1)
      BY <2>1, <2>4, <2>7, <2>9 DEF Direct
    <3> QED BY <3>1, <2>2, <2>3, <2>5, <2>6, <2>9 DEF it
  <2> QED BY <2>8, <2>9
<1>4. CASE ~Colliding(M, N) /\ col + 8 <= M
  <2>1. ops = Gather([j \in 0 .. 7 |-> A(M, row + i, col + j)],
                     [j \in 0 .. 7 |-> B(N, col + j, row + i)])
    BY <1>4 DEF Iteration, RowWise
  <2>2. /\ Gathering(M, N, p) /\ Width(M, N, p) = 16
        /\ ~Fetching(M, N, p) /\ ~Parking(M, N, p)
    BY <1>4 DEF Gathering, Width, Fetching, Parking
  <2>3. Len(ops) = 16
    BY <2>1 DEF Gather
  <2>4. k \in 1 .. 16
    BY <2>2, <1>1
  <2>5. \A j : Item(M, N, p, j) = [r |-> row + i, c |-> col + j]
    BY <1>4, <1>1, <2>2 DEF Item
  <2>6. CASE k <= 8
    <3>1. ops[k] = Ld(A(M, row + i, col + (k - 1)), k)
      BY <2>1, <2>4, <2>6 DEF Gather
    <3>2. Slot(M, N, p) = k - 1 /\ Temp(M, N, p) = k /\ Loads(M, N, p)
      BY <2>2, <2>4, <2>6 DEF Slot, Temp, Loads
    <3> QED BY <3>1, <3>2, <2>2, <2>3, <2>5 DEF Moved
  <2>7. CASE k > 8
    <3>1. ops[k] = St(B(N, col + (k - 9), row + i), k - 8)
      BY <2>1, <2>4, <2>7 DEF Gather
    <3>2. Slot(M, N, p) = k - 9 /\ Temp(M, N, p) = k - 8 /\ ~Loads(M, N, p)
      BY <2>2, <2>4, <2>7 DEF Slot, Temp, Loads
    <3> QED BY <3>1, <3>2, <2>2, <2>3, <2>5 DEF Moved
  <2> QED BY <2>6, <2>7, <1>1
<1>5. CASE ~Colliding(M, N) /\ col + 8 > M /\ row + 8 <= N
  <2>1. ops = Gather([j \in 0 .. 7 |-> A(M, row + j, col + i)],
                     [j \in 0 .. 7 |-> B(N, col + i, row + j)])
    BY <1>5, <1>1 DEF Iteration, ColumnWise
  <2>2. /\ Gathering(M, N, p) /\ Width(M, N, p) = 16
        /\ ~Fetching(M, N, p) /\ ~Parking(M, N, p)
    BY <1>5 DEF Gathering, Width, Fetching, Parking
  <2>3. Len(ops) = 16
    BY <2>1 DEF Gather
  <2>4. k \in 1 .. 16
    BY <2>2, <1>1
  <2>5. \A j : Item(M, N, p, j) = [r |-> row + j, c |-> col + i]
    BY <1>5, <2>2 DEF Item
  <2>6. CASE k <= 8
    <3>1. ops[k] = Ld(A(M, row + (k - 1), col + i), k)
      BY <2>1, <2>4, <2>6 DEF Gather
    <3>2. Slot(M, N, p) = k - 1 /\ Temp(M, N, p) = k /\ Loads(M, N, p)
      BY <2>2, <2>4, <2>6 DEF Slot, Temp, Loads
    <3> QED BY <3>1, <3>2, <2>2, <2>3, <2>5 DEF Moved
  <2>7. CASE k > 8
    <3>1. ops[k] = St(B(N, col + i, row + (k - 9)), k - 8)
      BY <2>1, <2>4, <2>7 DEF Gather
    <3>2. Slot(M, N, p) = k - 9 /\ Temp(M, N, p) = k - 8 /\ ~Loads(M, N, p)
      BY <2>2, <2>4, <2>7 DEF Slot, Temp, Loads
    <3> QED BY <3>1, <3>2, <2>2, <2>3, <2>5 DEF Moved
  <2> QED BY <2>6, <2>7, <1>1
<1>6. CASE ~Colliding(M, N) /\ col + 8 > M /\ row + 8 > N
  <2> DEFINE n == M - col
  <2>1. ops = Direct(n, [j \in 0 .. (n - 1) |-> A(M, row + i, col + j)],
                        [j \in 0 .. (n - 1) |-> B(N, col + j, row + i)])
    BY <1>6, <1>1 DEF Iteration, CornerBlock
  <2>2. /\ ~Gathering(M, N, p) /\ Width(M, N, p) = 2 * n
        /\ ~Fetching(M, N, p) /\ ~Parking(M, N, p)
    BY <1>6, <1>1 DEF Gathering, Width, Fetching, Parking
  <2>3. n \in Nat /\ 2 * n \in Nat
    BY <1>1
  <2> HIDE DEF n
  <2>4. Len(ops) = 2 * n
    BY <2>1, <2>3 DEF Direct
  <2>5. k \in 1 .. 2 * n
    BY <2>2, <1>1
  <2> DEFINE j == (k - 1) \div 2
  <2>6. Slot(M, N, p) = j /\ Temp(M, N, p) = 1 /\ (Loads(M, N, p) <=> k % 2 = 1)
    BY <2>2 DEF Slot, Temp, Loads
  <2>7. it.r = row + i /\ it.c = col + j
    BY <1>6, <1>1, <2>2, <2>6 DEF Moved, Item
  <2>8. j \in 0 .. (n - 1) /\ (k % 2 = 1 => k \div 2 = j) /\ (k % 2 # 1 => k \div 2 - 1 = j)
    BY <2>3, <2>5
  <2> HIDE DEF j, it
  <2>9. CASE k % 2 = 1
    <3>1. ops[k] = Ld(A(M, row + i, col + j), 1)
      BY <2>1, <2>5, <2>8, <2>9 DEF Direct
    <3> QED BY <3>1, <2>2, <2>4, <2>6, <2>7, <2>9 DEF it
  <2>10. CASE k % 2 # 1
    <3>1. ops[k] = St(B(N, col + j, row + i), 1)
      BY <2>1, <2>5, <2>8, <2>10 DEF Direct
    <3> QED BY <3>1, <2>2, <2>4, <2>6, <2>7, <2>10 DEF it
  <2> QED BY <2>9, <2>10
<1> QED BY <1>2, <1>3, <1>4, <1>5, <1>6, <1>1 DEF Fetching

\* From one access to the next: in the iteration, to the next iteration, block
\* or row of blocks.
LEMMA AdvanceCases ==
  ASSUME NEW M \in Size, NEW N \in Size, NEW p \in Position(M, N), p.row < N
  PROVE  LET q == Advance(M, N, p)
         IN  \/ /\ p.k < Width(M, N, p)
                /\ q = [row |-> p.row, col |-> p.col, i |-> p.i, k |-> p.k + 1]
             \/ /\ p.k = Width(M, N, p) /\ p.i + 1 < Iterations(M, N, p.row, p.col)
                /\ q = [row |-> p.row, col |-> p.col, i |-> p.i + 1, k |-> 1]
             \/ /\ p.k = Width(M, N, p) /\ p.i + 1 = Iterations(M, N, p.row, p.col) /\ p.col + 8 < M
                /\ q = [row |-> p.row, col |-> p.col + 8, i |-> 0, k |-> 1]
             \/ /\ p.k = Width(M, N, p) /\ p.i + 1 = Iterations(M, N, p.row, p.col) /\ p.col + 8 >= M
                /\ q = [row |-> p.row + 8, col |-> 0, i |-> 0, k |-> 1]
<1> DEFINE w == Width(M, N, p)
           n == Iterations(M, N, p.row, p.col)
<1>1. /\ p \in [row : Nat, col : Nat, i : Nat, k : Nat] /\ p.i < n /\ p.k \in 1 .. w
      /\ M \in Nat /\ N \in Nat /\ p.col < M
  BY DEF Position, Size, MAXN
<1>2. w \in Nat /\ n \in Nat
  BY <1>1 DEF Width, Iterations
<1>3. Len(Iteration(M, N, p.row, p.col, p.i)) = w
  BY IterationAt
<1> HIDE DEF w, n
<1>5. CASE p.k < w
  BY <1>3, <1>5 DEF Advance, At, w
<1>6. CASE p.k = w /\ p.i + 1 < n
  BY <1>1, <1>2, <1>3, <1>6 DEF Advance, At, w, n
<1>7. CASE p.k = w /\ p.i + 1 = n /\ p.col + 8 < M
  BY <1>1, <1>2, <1>3, <1>7 DEF Advance, At, w, n
<1>8. CASE p.k = w /\ p.i + 1 = n /\ p.col + 8 >= M
  BY <1>1, <1>2, <1>3, <1>8 DEF Advance, At, w, n
<1> QED BY <1>1, <1>2, <1>5, <1>6, <1>7, <1>8 DEF w, n

\* Every access is within the loops.
LEMMA AdvancePosition ==
  ASSUME NEW M \in Size, NEW N \in Size, NEW p \in Position(M, N), p.row < N
  PROVE  Advance(M, N, p) \in Position(M, N)
<1> DEFINE q == Advance(M, N, p)
           w == Width(M, N, p)
           n == Iterations(M, N, p.row, p.col)
<1>1. /\ p \in [row : Nat, col : Nat, i : Nat, k : Nat] /\ p.i < n /\ p.k \in 1 .. w
      /\ M \in Nat \ {0} /\ N \in Nat \ {0} /\ p.col < M /\ p.row % 8 = 0 /\ p.col % 8 = 0
  BY DEF Position, Size, MAXN
<1>2. CASE p.k < w /\ q = [row |-> p.row, col |-> p.col, i |-> p.i, k |-> p.k + 1]
  <2>1. Width(M, N, q) = w
    BY <1>2 DEF Width, Gathering
  <2>2. p.k + 1 \in 1 .. w
    BY <1>1, <1>2 DEF Width
  <2> HIDE DEF w
  <2> QED BY <1>1, <1>2, <2>1, <2>2 DEF Position
<1>3. ASSUME NEW i \in Nat, NEW row \in Nat, NEW col \in Nat, row % 8 = 0, col % 8 = 0,
             row < N => col < M /\ i < Iterations(M, N, row, col),
             row >= N => row < N + 8 /\ col = 0 /\ i = 0
      PROVE  [row |-> row, col |-> col, i |-> i, k |-> 1] \in Position(M, N)
  <2> DEFINE z == [row |-> row, col |-> col, i |-> i, k |-> 1]
  <2>1. row < N => 1 \in 1 .. Width(M, N, z)
    BY <1>1, <1>3 DEF Width, Gathering
  <2>2. z.row = row /\ z.col = col /\ z.i = i /\ z.k = 1 /\ z \in [row : Nat, col : Nat, i : Nat, k : Nat]
    OBVIOUS
  <2> HIDE DEF z
  <2>3. z \in Position(M, N)
    BY <1>3, <2>1, <2>2 DEF Position
  <2> QED BY <2>3 DEF z
<1>4. CASE p.i + 1 < n /\ q = [row |-> p.row, col |-> p.col, i |-> p.i + 1, k |-> 1]
  BY <1>1, <1>3, <1>4
<1>5. CASE p.col + 8 < M /\ q = [row |-> p.row, col |-> p.col + 8, i |-> 0, k |-> 1]
  <2>1. 0 < Iterations(M, N, p.row, p.col + 8)
    BY <1>1, <1>5 DEF Iterations
  <2>2. (p.col + 8) % 8 = 0 /\ p.col + 8 \in Nat
    BY <1>1
  <2> QED BY <1>1, <1>3, <1>5, <2>1, <2>2
<1>6. CASE q = [row |-> p.row + 8, col |-> 0, i |-> 0, k |-> 1]
  <2>1. p.row + 8 < N => 0 < Iterations(M, N, p.row + 8, 0)
    BY <1>1 DEF Iterations
  <2>2. (p.row + 8) % 8 = 0 /\ p.row + 8 \in Nat /\ 0 % 8 = 0 /\ p.row + 8 < N + 8
    BY <1>1
  <2> QED BY <1>1, <1>3, <1>6, <2>1, <2>2
<1> QED BY <1>2, <1>4, <1>5, <1>6, AdvanceCases

\* A load is followed by another access of its iteration.
LEMMA LoadAdvance ==
  ASSUME NEW M \in Size, NEW N \in Size, NEW p \in Position(M, N), p.row < N, Loads(M, N, p)
  PROVE  Advance(M, N, p) = [row |-> p.row, col |-> p.col, i |-> p.i, k |-> p.k + 1]
<1>1. /\ p.k \in 1 .. Width(M, N, p) /\ p.k \in Nat /\ p.col \in Nat /\ M \in Nat
  BY DEF Position, Size, MAXN
<1>2. p.k # Width(M, N, p)
  BY <1>1 DEF Loads, Width
<1> QED BY <1>2, AdvanceCases

\* The item of an access is an element of the matrix, in the block.
LEMMA MovedRange ==
  ASSUME NEW M \in Size, NEW N \in Size, NEW p \in Position(M, N), p.row < N
  PROVE  LET it == Moved(M, N, p)
         IN  /\ it.r \in p.row .. p.row + 7 /\ it.r < N
             /\ it.c \in p.col .. p.col + 7 /\ it.c < M
             /\ Slot(M, N, p) \in Nat /\ Temp(M, N, p) \in 1 .. 8
<1>1. /\ p \in [row : Nat, col : Nat, i : Nat, k : Nat]
      /\ p.i < Iterations(M, N, p.row, p.col) /\ p.k \in 1 .. Width(M, N, p)
      /\ M \in Nat /\ N \in Nat /\ p.col < M /\ p.row % 8 = 0 /\ p.col % 8 = 0
  BY DEF Position, Size, MAXN
<1>10. /\ p.row \in Nat /\ p.col \in Nat /\ p.i \in Nat /\ p.k \in Nat
  BY <1>1
<1>11. Colliding(M, N) => p.row + 8 <= 64 /\ p.col + 8 <= 64 /\ M = 64 /\ N = 64
  BY <1>1, <1>10 DEF Colliding
<1>2. CASE Colliding(M, N) /\ p.i < 8
  <2>1. Gathering(M, N, p) /\ ~Fetching(M, N, p) /\ Width(M, N, p) = 16
    BY <1>2, <1>10 DEF Gathering, Fetching, Width
  <2>2. p.k \in 1 .. 16
    BY <1>1, <2>1
  <2>3. Slot(M, N, p) \in 0 .. 7 /\ Temp(M, N, p) = Slot(M, N, p) + 1
    BY <2>1, <2>2 DEF Slot, Temp
  <2>4. Moved(M, N, p).r = p.row + p.i /\ Moved(M, N, p).c = p.col + Slot(M, N, p)
    BY <1>2, <2>1 DEF Moved, Item
  <2> QED BY <1>10, <1>11, <1>2, <2>3, <2>4
<1>3. CASE Colliding(M, N) /\ p.i >= 8
  <2>1. ~Gathering(M, N, p) /\ Fetching(M, N, p) /\ Width(M, N, p) = 8
    BY <1>3, <1>10 DEF Gathering, Fetching, Width
  <2>2. p.k \in 1 .. 8 /\ p.i < 16
    BY <1>1, <1>3, <2>1 DEF Iterations
  <2>3. Slot(M, N, p) \in 0 .. 3 /\ Temp(M, N, p) = 1
    BY <2>1, <2>2 DEF Slot, Temp
  <2>4. Moved(M, N, p).r = p.row + p.i - 8 /\ Moved(M, N, p).c = p.col + 4 + Slot(M, N, p)
    BY <1>3, <2>1 DEF Moved, Item
  <2> QED BY <1>10, <1>11, <1>3, <2>2, <2>3, <2>4
<1>4. CASE ~Colliding(M, N) /\ p.col + 8 <= M
  <2>1. Gathering(M, N, p) /\ ~Fetching(M, N, p) /\ Width(M, N, p) = 16
    BY <1>4, <1>10 DEF Gathering, Fetching, Width
  <2>2. p.row + p.i < N /\ p.i < 8
    BY <1>1, <1>4, <1>10 DEF Iterations
  <2>3. Slot(M, N, p) \in 0 .. 7 /\ Temp(M, N, p) = Slot(M, N, p) + 1
    BY <1>1, <2>1 DEF Slot, Temp
  <2>4. Moved(M, N, p).r = p.row + p.i /\ Moved(M, N, p).c = p.col + Slot(M, N, p)
    BY <1>1, <1>4, <2>1 DEF Moved, Item
  <2>5. M \in Nat /\ N \in Nat
    BY <1>1
  <2> QED BY <1>10, <1>4, <2>2, <2>3, <2>4, <2>5
<1>5. CASE ~Colliding(M, N) /\ p.col + 8 > M /\ p.row + 8 <= N
  <2>1. Gathering(M, N, p) /\ ~Fetching(M, N, p) /\ Width(M, N, p) = 16
    BY <1>5 DEF Gathering, Fetching, Width
  <2>2. Iterations(M, N, p.row, p.col) = M - p.col
    BY <1>1, <1>5 DEF Iterations
  <2>3. Slot(M, N, p) \in 0 .. 7 /\ Temp(M, N, p) = Slot(M, N, p) + 1
    BY <1>1, <2>1 DEF Slot, Temp
  <2>4. Moved(M, N, p).r = p.row + Slot(M, N, p) /\ Moved(M, N, p).c = p.col + p.i
    BY <1>5, <2>1 DEF Moved, Item
  <2>5. /\ Moved(M, N, p).r \in p.row .. p.row + 7 /\ Moved(M, N, p).r < N
        /\ Moved(M, N, p).c \in p.col .. p.col + 7 /\ Moved(M, N, p).c < M
    <3>1. p.i < M - p.col
      BY <1>1, <2>2
    <3>2. p.col + 8 > M /\ p.row + 8 <= N /\ p.col < M /\ M \in Nat /\ N \in Nat
      BY <1>1, <1>5
    <3> QED BY <1>10, <3>1, <3>2, <2>3, <2>4
  <2> QED BY <2>3, <2>5
<1>6. CASE ~Colliding(M, N) /\ p.col + 8 > M /\ p.row + 8 > N
  <2>1. ~Gathering(M, N, p) /\ ~Fetching(M, N, p) /\ Width(M, N, p) = 2 * (M - p.col)
    BY <1>1, <1>6 DEF Gathering, Fetching, Width
  <2>2. Iterations(M, N, p.row, p.col) = N - p.row
    BY <1>1, <1>6 DEF Iterations
  <2>3. Slot(M, N, p) \in 0 .. M - p.col - 1 /\ Temp(M, N, p) = 1
    BY <1>1, <2>1 DEF Slot, Temp
  <2>4. Moved(M, N, p).r = p.row + p.i /\ Moved(M, N, p).c = p.col + Slot(M, N, p)
    BY <1>1, <1>6, <2>1 DEF Moved, Item
  <2>5. /\ Moved(M, N, p).r \in p.row .. p.row + 7 /\ Moved(M, N, p).r < N
        /\ Moved(M, N, p).c \in p.col .. p.col + 7 /\ Moved(M, N, p).c < M
    <3>1. p.i < N - p.row
      BY <1>1, <2>2
    <3>2. p.col + 8 > M /\ p.row + 8 > N /\ p.col < M /\ M \in Nat /\ N \in Nat
      BY <1>1, <1>6
    <3> QED BY <1>10, <3>1, <3>2, <2>3, <2>4
  <2> QED BY <1>1, <1>10, <2>3, <2>5
<1> QED BY <1>1, <1>10, <1>2, <1>3, <1>4, <1>5, <1>6

----------------------------------------------------------------------------
(* What has been copied *)

\* The slots of iterations before the access at p.
Slots(M, N, p) == IF Gathering(M, N, p) THEN p.k - 9 ELSE (p.k - 1) \div 2
Before(M, N, p, i, j) == i < p.i \/ (i = p.i /\ j < Slots(M, N, p))

\* Element x, y of the block is in its place.
Placed(M, N, p, x, y) ==
  IF Fetching(M, N, p) THEN y < 4 \/ Before(M, N, p, x + 8, y - 4)
  ELSE IF Colliding(M, N) THEN y < 4 /\ Before(M, N, p, x, y)
  ELSE IF p.col + 8 > M /\ p.row + 8 <= N THEN Before(M, N, p, y, x)
  ELSE Before(M, N, p, x, y)

InBlock(p, r, c) == r \in p.row .. p.row + 7 /\ c \in p.col .. p.col + 7

\* The elements of A that are in their place in B, and those in a spare cell.
Stored(M, N, p, r, c) ==
  \/ r < p.row
  \/ r < p.row + 8 /\ c < p.col
  \/ InBlock(p, r, c) /\ Placed(M, N, p, r - p.row, c - p.col)
Parked(M, N, p, r, c) ==
  /\ Colliding(M, N) /\ InBlock(p, r, c) /\ c - p.col >= 4
  /\ Fetching(M, N, p) \/ Before(M, N, p, r - p.row, c - p.col)

Value(M, it) == ValueOfA(it.r * M + it.c)

Copied(M, N, p, from, to) ==
  /\ \A r \in 0 .. N - 1, c \in 0 .. M - 1 :
       /\ Stored(M, N, p, r, c) => to[c * N + r] = ValueOfA(r * M + c)
       /\ Parked(M, N, p, r, c) => to[SpareCell(M, N, p, r, c).at] = ValueOfA(r * M + c)
  /\ p.row < N =>
       IF Gathering(M, N, p)
       THEN \A j \in 0 .. 7 : j + 1 < p.k => from[j + 1] = Value(M, Item(M, N, p, j))
       ELSE ~Loads(M, N, p) => from[1] = Value(M, Moved(M, N, p))

\* Accesses of the transpose before the one at p.
Smaller(x, y) == IF x <= y THEN x ELSE y
Accesses(M, N, p) ==
  IF Colliding(M, N)
  THEN 192 * p.row + 24 * p.col + (IF p.i < 8 THEN 16 * p.i ELSE 128 + 8 * (p.i - 8)) + p.k - 1
  ELSE 2 * (Smaller(p.row, N) * M + Smaller(8, N - p.row) * p.col) + p.i * Width(M, N, p) + p.k - 1

\* The numbers behind a position.
LEMMA PositionType ==
  ASSUME NEW M \in Size, NEW N \in Size, NEW p \in Position(M, N), p.row < N
  PROVE  /\ p.row \in Nat /\ p.col \in Nat /\ p.i \in Nat /\ p.k \in Nat /\ M \in Nat /\ N \in Nat
         /\ p.k >= 1 /\ p.k <= Width(M, N, p) /\ p.i < Iterations(M, N, p.row, p.col)
         /\ p.col < M /\ Width(M, N, p) \in Nat
         /\ Colliding(M, N) => p.row + 8 <= 64 /\ p.col + 8 <= 64 /\ M = 64 /\ N = 64
<1>1. /\ p \in [row : Nat, col : Nat, i : Nat, k : Nat]
      /\ p.i < Iterations(M, N, p.row, p.col) /\ p.k \in 1 .. Width(M, N, p)
      /\ M \in Nat /\ N \in Nat /\ p.col < M /\ p.row % 8 = 0 /\ p.col % 8 = 0
  BY DEF Position, Size, MAXN
<1>2. p.row \in Nat /\ p.col \in Nat /\ p.i \in Nat /\ p.k \in Nat
  BY <1>1
<1>3. Colliding(M, N) => p.row + 8 <= 64 /\ p.col + 8 <= 64 /\ M = 64 /\ N = 64
  BY <1>1, <1>2 DEF Colliding
<1>4. Width(M, N, p) \in Nat
  BY <1>1, <1>2 DEF Width
<1>5. p.k >= 1 /\ p.k <= Width(M, N, p)
  BY <1>1, <1>4
<1> QED BY <1>1, <1>2, <1>3, <1>4, <1>5

\* In a slot before the next access is a slot before this one, or its own.
LEMMA BeforeNext ==
  ASSUME NEW M \in Size, NEW N \in Size, NEW p \in Position(M, N), p.row < N,
         NEW i \in Int, NEW j \in Nat, 2 * j < Width(M, N, p), NEW q,
         \/ /\ p.k < Width(M, N, p)
            /\ q = [row |-> p.row, col |-> p.col, i |-> p.i, k |-> p.k + 1]
            /\ Before(M, N, q, i, j)
         \/ p.k = Width(M, N, p) /\ i <= p.i
  PROVE  Before(M, N, p, i, j) \/ (~Loads(M, N, p) /\ i = p.i /\ j = Slot(M, N, p))
<1>1. /\ p.col \in Nat /\ p.i \in Nat /\ p.k \in Nat /\ M \in Nat
      /\ p.k >= 1 /\ p.k <= Width(M, N, p) /\ p.col < M
  BY PositionType
<1>2. CASE /\ p.k < Width(M, N, p)
           /\ q = [row |-> p.row, col |-> p.col, i |-> p.i, k |-> p.k + 1]
           /\ Before(M, N, q, i, j)
  <2>1. q.i = p.i /\ q.k = p.k + 1 /\ (Gathering(M, N, q) <=> Gathering(M, N, p))
    BY <1>2 DEF Gathering
  <2>2. i < p.i \/ (i = p.i /\ j < Slots(M, N, q))
    BY <1>2, <2>1 DEF Before
  <2>3. CASE Gathering(M, N, p)
    <3>1. Slots(M, N, q) = p.k - 8 /\ Slots(M, N, p) = p.k - 9
      BY <1>1, <2>1, <2>3 DEF Slots
    <3>2. p.k > 8 => Slot(M, N, p) = p.k - 9 /\ ~Loads(M, N, p)
      BY <1>1, <2>3 DEF Slot, Loads
    <3> QED BY <1>1, <2>2, <3>1, <3>2 DEF Before
  <2>4. CASE ~Gathering(M, N, p)
    <3>1. Slots(M, N, q) = p.k \div 2 /\ Slots(M, N, p) = (p.k - 1) \div 2
      BY <1>1, <2>1, <2>4 DEF Slots
    <3>2. Slot(M, N, p) = (p.k - 1) \div 2 /\ (Loads(M, N, p) <=> p.k % 2 = 1)
      BY <2>4 DEF Slot, Loads
    <3>3. j < p.k \div 2 => j < (p.k - 1) \div 2 \/ (p.k % 2 # 1 /\ j = (p.k - 1) \div 2)
      BY <1>1
    <3> QED BY <2>2, <3>1, <3>2, <3>3 DEF Before
  <2> QED BY <2>3, <2>4
<1>3. CASE p.k = Width(M, N, p) /\ i <= p.i
  <2>1. CASE Gathering(M, N, p)
    <3>1. p.k = 16 /\ Width(M, N, p) = 16
      BY <1>3, <2>1 DEF Width
    <3>2. Slots(M, N, p) = 7 /\ Slot(M, N, p) = 7 /\ ~Loads(M, N, p)
      BY <2>1, <3>1 DEF Slots, Slot, Loads
    <3> QED BY <1>1, <1>3, <3>1, <3>2 DEF Before
  <2>2. CASE ~Gathering(M, N, p)
    <3>1. PICK n \in Nat : p.k = 2 * n /\ Width(M, N, p) = 2 * n
      <4>1. CASE Colliding(M, N)
        BY <1>3, <2>2, <4>1 DEF Width
      <4>2. CASE ~Colliding(M, N)
        <5>1. p.k = 2 * (M - p.col) /\ Width(M, N, p) = 2 * (M - p.col)
          BY <1>3, <2>2, <4>2 DEF Width
        <5>2. M - p.col \in Nat
          BY <1>1
        <5> QED BY <5>1, <5>2
      <4> QED BY <4>1, <4>2
    <3>2. Slots(M, N, p) = n - 1 /\ Slot(M, N, p) = n - 1 /\ ~Loads(M, N, p)
      BY <1>1, <2>2, <3>1 DEF Slots, Slot, Loads
    <3> QED BY <1>1, <1>3, <3>1, <3>2 DEF Before
  <2> QED BY <2>1, <2>2
<1> QED BY <1>2, <1>3

\* Nothing of an iteration is moved when it begins.
LEMMA BeforeFirst ==
  ASSUME NEW M, NEW N, NEW q, q.k = 1, NEW i, NEW j \in Nat
  PROVE  Before(M, N, q, i, j) => i < q.i
<1>1. Slots(M, N, q) = -8 \/ Slots(M, N, q) = 0
  BY DEF Slots
<1> QED BY <1>1 DEF Before

\* The item of an access in the coordinates of its block.
LEMMA ItemAt ==
  ASSUME NEW M \in Size, NEW N \in Size, NEW p \in Position(M, N), p.row < N,
         NEW x \in 0 .. 7, NEW y \in 0 .. 7
  PROVE  LET it == Moved(M, N, p)
             here == it.r = p.row + x /\ it.c = p.col + y
         IN  /\ Fetching(M, N, p) /\ x + 8 = p.i /\ y - 4 = Slot(M, N, p) => here
             /\ ~Fetching(M, N, p) /\ (Colliding(M, N) \/ ~(p.col + 8 > M /\ p.row + 8 <= N))
                  /\ x = p.i /\ y = Slot(M, N, p) => here
             /\ ~Fetching(M, N, p) /\ ~Colliding(M, N) /\ p.col + 8 > M /\ p.row + 8 <= N
                  /\ y = p.i /\ x = Slot(M, N, p) => here
<1>1. p.row \in Nat /\ p.col \in Nat /\ p.i \in Nat /\ Slot(M, N, p) \in Nat
  BY PositionType, MovedRange
<1> QED BY <1>1 DEF Moved, Item

\* A step of the loops: what is in place behind it was before, or is its item.
LEMMA PlacedNext ==
  ASSUME NEW M \in Size, NEW N \in Size, NEW p \in Position(M, N), p.row < N, NEW q,
         NEW x \in 0 .. 7, NEW y \in 0 .. 7, p.row + x < N, p.col + y < M,
         \/ /\ p.k < Width(M, N, p)
            /\ q = [row |-> p.row, col |-> p.col, i |-> p.i, k |-> p.k + 1]
            /\ Placed(M, N, q, x, y)
         \/ /\ p.k = Width(M, N, p)
            /\ q = [row |-> p.row, col |-> p.col, i |-> p.i + 1, k |-> 1]
            /\ Placed(M, N, q, x, y)
         \/ p.k = Width(M, N, p) /\ p.i + 1 = Iterations(M, N, p.row, p.col)
  PROVE  \/ Placed(M, N, p, x, y)
         \/ /\ ~Loads(M, N, p) /\ ~Parking(M, N, p)
            /\ Moved(M, N, p).r = p.row + x /\ Moved(M, N, p).c = p.col + y
<1>1. /\ p.row \in Nat /\ p.col \in Nat /\ p.i \in Nat /\ p.k \in Nat /\ M \in Nat /\ N \in Nat
      /\ p.i < Iterations(M, N, p.row, p.col) /\ p.k >= 1 /\ p.col < M
      /\ Colliding(M, N) => p.row + 8 <= 64 /\ p.col + 8 <= 64 /\ M = 64 /\ N = 64
  BY PositionType
<1> DEFINE next == /\ p.k < Width(M, N, p)
                   /\ q = [row |-> p.row, col |-> p.col, i |-> p.i, k |-> p.k + 1]
           first == /\ p.k = Width(M, N, p)
                    /\ q = [row |-> p.row, col |-> p.col, i |-> p.i + 1, k |-> 1]
           last == p.k = Width(M, N, p) /\ p.i + 1 = Iterations(M, N, p.row, p.col)
<1>2. CASE Fetching(M, N, p)
  <2>1. SUFFICES ASSUME y >= 4
                 PROVE  Placed(M, N, p, x, y) \/ (/\ ~Loads(M, N, p) /\ ~Parking(M, N, p)
                          /\ Moved(M, N, p).r = p.row + x /\ Moved(M, N, p).c = p.col + y)
    BY <1>2 DEF Placed
  <2>2. Width(M, N, p) = 8 /\ ~Parking(M, N, p) /\ Iterations(M, N, p.row, p.col) = 16
    BY <1>1, <1>2 DEF Width, Gathering, Fetching, Parking, Iterations
  <2>3. next \/ first => Fetching(M, N, q) /\ Colliding(M, N)
    BY <1>1, <1>2 DEF Fetching
  <2>4. next \/ first => (Placed(M, N, q, x, y) => Before(M, N, q, x + 8, y - 4))
    BY <2>1, <2>3 DEF Placed
  <2>5. first => (Before(M, N, q, x + 8, y - 4) => x + 8 <= p.i)
    <3> HAVE first
    <3>1. q.k = 1 /\ q.i = p.i + 1 /\ y - 4 \in Nat
      BY <2>1
    <3> QED BY <1>1, <3>1, BeforeFirst
  <2>6. last => x + 8 <= p.i
    BY <1>1, <2>2
  <2>7. x + 8 \in Int /\ y - 4 \in Nat /\ 2 * (y - 4) < Width(M, N, p)
    BY <2>1, <2>2
  <2>8. Before(M, N, p, x + 8, y - 4) \/ (~Loads(M, N, p) /\ x + 8 = p.i /\ y - 4 = Slot(M, N, p))
    <3>1. \/ next /\ Before(M, N, q, x + 8, y - 4)
          \/ p.k = Width(M, N, p) /\ x + 8 <= p.i
      BY <2>4, <2>5, <2>6
    <3>2. \A i \in Int, j \in Nat :
            2 * j < Width(M, N, p) /\ ((next /\ Before(M, N, q, i, j)) \/ (p.k = Width(M, N, p) /\ i <= p.i))
              => Before(M, N, p, i, j) \/ (~Loads(M, N, p) /\ i = p.i /\ j = Slot(M, N, p))
      BY BeforeNext
    <3> HIDE DEF next
    <3> QED BY <2>7, <3>1, <3>2
  <2>9. Before(M, N, p, x + 8, y - 4) => Placed(M, N, p, x, y)
    BY <1>2 DEF Placed
  <2> QED BY <1>2, <2>2, <2>8, <2>9, ItemAt
<1>3. CASE Colliding(M, N) /\ ~Fetching(M, N, p)
  <2>1. /\ Width(M, N, p) = 16 /\ Iterations(M, N, p.row, p.col) = 16 /\ p.i < 8
    BY <1>1, <1>3 DEF Width, Gathering, Fetching, Iterations
  <2>2. ~last
    BY <1>1, <2>1
  <2>3. y < 4 /\ ((next /\ Before(M, N, q, x, y)) \/ (p.k = Width(M, N, p) /\ x <= p.i))
    <3>1. CASE next /\ Placed(M, N, q, x, y)
      <4>1. ~Fetching(M, N, q)
        BY <1>3, <3>1 DEF Fetching
      <4> QED BY <1>3, <3>1, <4>1 DEF Placed
    <3>2. CASE first /\ Placed(M, N, q, x, y) /\ ~Fetching(M, N, q)
      <4>1. y < 4 /\ Before(M, N, q, x, y)
        BY <1>3, <3>2 DEF Placed
      <4>2. q.k = 1 /\ q.i = p.i + 1 /\ y \in Nat
        BY <3>2
      <4>3. x < p.i + 1
        BY <4>1, <4>2, BeforeFirst
      <4> QED BY <1>1, <3>2, <4>1, <4>3
    <3>3. CASE first /\ Placed(M, N, q, x, y) /\ Fetching(M, N, q)
      <4>1. q.k = 1 /\ q.i = p.i + 1 /\ p.i = 7
        BY <1>1, <2>1, <3>3 DEF Fetching
      <4>2. y < 4 \/ Before(M, N, q, x + 8, y - 4)
        BY <3>3 DEF Placed
      <4>3. y >= 4 => ~Before(M, N, q, x + 8, y - 4)
        <5> HAVE y >= 4
        <5>1. y - 4 \in Nat
          OBVIOUS
        <5>2. Before(M, N, q, x + 8, y - 4) => x + 8 < 8
          BY <4>1, <5>1, BeforeFirst
        <5> QED BY <5>2
      <4> QED BY <3>3, <4>1, <4>2, <4>3
    <3> QED BY <2>2, <3>1, <3>2, <3>3
  <2>4. Before(M, N, p, x, y) \/ (~Loads(M, N, p) /\ x = p.i /\ y = Slot(M, N, p))
    <3>1. x \in Int /\ y \in Nat /\ 2 * y < Width(M, N, p)
      BY <2>1
    <3> QED BY <2>3, <3>1, BeforeNext
  <2>5. Before(M, N, p, x, y) => Placed(M, N, p, x, y)
    BY <1>3, <2>3 DEF Placed
  <2>6. y = Slot(M, N, p) => ~Parking(M, N, p)
    BY <2>3 DEF Parking
  <2> QED BY <1>3, <2>4, <2>5, <2>6, ItemAt
<1>4. CASE ~Colliding(M, N) /\ p.col + 8 > M /\ p.row + 8 <= N
  <2>1. /\ Width(M, N, p) = 16 /\ Iterations(M, N, p.row, p.col) = M - p.col
        /\ ~Fetching(M, N, p) /\ ~Parking(M, N, p)
    BY <1>1, <1>4 DEF Width, Gathering, Fetching, Iterations, Parking
  <2>2. next \/ first => (Placed(M, N, q, x, y) <=> Before(M, N, q, y, x))
    BY <1>4 DEF Placed, Fetching
  <2>3. first => (Before(M, N, q, y, x) => y <= p.i)
    <3> HAVE first
    <3>1. q.k = 1 /\ q.i = p.i + 1 /\ x \in Nat
      OBVIOUS
    <3> QED BY <1>1, <3>1, BeforeFirst
  <2>4. last => y <= p.i
    BY <1>1, <2>1
  <2>5. Before(M, N, p, y, x) \/ (~Loads(M, N, p) /\ y = p.i /\ x = Slot(M, N, p))
    <3>1. y \in Int /\ x \in Nat /\ 2 * x < Width(M, N, p)
      BY <2>1
    <3>2. \/ next /\ Before(M, N, q, y, x)
          \/ p.k = Width(M, N, p) /\ y <= p.i
      BY <2>2, <2>3, <2>4
    <3> QED BY <3>1, <3>2, BeforeNext
  <2>6. Before(M, N, p, y, x) <=> Placed(M, N, p, x, y)
    BY <1>4, <2>1 DEF Placed
  <2> QED BY <1>4, <2>1, <2>5, <2>6, ItemAt
<1>5. CASE ~Colliding(M, N) /\ ~(p.col + 8 > M /\ p.row + 8 <= N)
  <2>1. /\ ~Fetching(M, N, p) /\ ~Parking(M, N, p) /\ 2 * y < Width(M, N, p)
        /\ p.i + 1 = Iterations(M, N, p.row, p.col) => x <= p.i
    BY <1>1, <1>5 DEF Width, Gathering, Fetching, Iterations, Parking
  <2>2. next \/ first => (Placed(M, N, q, x, y) <=> Before(M, N, q, x, y))
    BY <1>5 DEF Placed, Fetching
  <2>3. first => (Before(M, N, q, x, y) => x <= p.i)
    <3> HAVE first
    <3>1. q.k = 1 /\ q.i = p.i + 1 /\ y \in Nat
      OBVIOUS
    <3> QED BY <1>1, <3>1, BeforeFirst
  <2>5. Before(M, N, p, x, y) \/ (~Loads(M, N, p) /\ x = p.i /\ y = Slot(M, N, p))
    <3>1. x \in Int /\ y \in Nat
      OBVIOUS
    <3>2. \/ next /\ Before(M, N, q, x, y)
          \/ p.k = Width(M, N, p) /\ x <= p.i
      BY <2>1, <2>2, <2>3
    <3> QED BY <2>1, <3>1, <3>2, BeforeNext
  <2>6. Before(M, N, p, x, y) <=> Placed(M, N, p, x, y)
    BY <1>5, <2>1 DEF Placed
  <2> QED BY <1>5, <2>1, <2>5, <2>6, ItemAt
<1> QED BY <1>2, <1>3, <1>4, <1>5 DEF Fetching

\* A new block begins with nothing in place.
LEMMA PlacedFirst ==
  ASSUME NEW M, NEW N, NEW q, q.i = 0, q.k = 1, NEW x \in 0 .. 7, NEW y \in 0 .. 7
  PROVE  ~Placed(M, N, q, x, y) /\ ~Fetching(M, N, q) /\ ~Before(M, N, q, x, y)
<1>1. ~Before(M, N, q, x, y)
  BY BeforeFirst
<1>2. ~Before(M, N, q, y, x)
  BY BeforeFirst
<1>3. ~Fetching(M, N, q)
  BY DEF Fetching
<1> QED BY <1>1, <1>2, <1>3 DEF Placed

\* What is in place before the next access was before this one, or is its item.
LEMMA StoredNext ==
  ASSUME NEW M \in Size, NEW N \in Size, NEW p \in Position(M, N), p.row < N,
         NEW r \in 0 .. N - 1, NEW c \in 0 .. M - 1, Stored(M, N, Advance(M, N, p), r, c)
  PROVE  \/ Stored(M, N, p, r, c)
         \/ /\ ~Loads(M, N, p) /\ ~Parking(M, N, p)
            /\ r = Moved(M, N, p).r /\ c = Moved(M, N, p).c
<1> DEFINE q == Advance(M, N, p)
           x == r - p.row
           y == c - p.col
           item == /\ ~Loads(M, N, p) /\ ~Parking(M, N, p)
                   /\ r = Moved(M, N, p).r /\ c = Moved(M, N, p).c
           within == /\ p.k < Width(M, N, p)
                     /\ q = [row |-> p.row, col |-> p.col, i |-> p.i, k |-> p.k + 1]
           first == /\ p.k = Width(M, N, p)
                    /\ q = [row |-> p.row, col |-> p.col, i |-> p.i + 1, k |-> 1]
           last == p.k = Width(M, N, p) /\ p.i + 1 = Iterations(M, N, p.row, p.col)
<1>1. p.row \in Nat /\ p.col \in Nat /\ M \in Nat /\ N \in Nat /\ r \in Nat /\ c \in Nat /\ r < N /\ c < M
  BY PositionType
<1>2. \/ within
      \/ first
      \/ last /\ p.col + 8 < M /\ q = [row |-> p.row, col |-> p.col + 8, i |-> 0, k |-> 1]
      \/ last /\ p.col + 8 >= M /\ q = [row |-> p.row + 8, col |-> 0, i |-> 0, k |-> 1]
  BY AdvanceCases
<1>3. ASSUME InBlock(p, r, c), \/ within /\ Placed(M, N, q, x, y)
                               \/ first /\ Placed(M, N, q, x, y)
                               \/ last
      PROVE  Stored(M, N, p, r, c) \/ item
  <2>1. x \in 0 .. 7 /\ y \in 0 .. 7 /\ p.row + x = r /\ p.col + y = c
    BY <1>1, <1>3 DEF InBlock
  <2> HIDE DEF x, y, q
  <2>2. \/ Placed(M, N, p, x, y)
        \/ /\ ~Loads(M, N, p) /\ ~Parking(M, N, p)
           /\ Moved(M, N, p).r = p.row + x /\ Moved(M, N, p).c = p.col + y
    BY <1>1, <1>3, <2>1, PlacedNext
  <2>3. Placed(M, N, p, x, y) => Stored(M, N, p, r, c)
    BY <1>3 DEF Stored, x, y
  <2> QED BY <2>1, <2>2, <2>3
<1>4. CASE within \/ first
  <2>1. q.row = p.row /\ q.col = p.col
    BY <1>4
  <2>2. CASE r < p.row \/ (r < p.row + 8 /\ c < p.col)
    BY <2>2 DEF Stored
  <2>3. CASE InBlock(q, r, c) /\ Placed(M, N, q, r - q.row, c - q.col)
    <3>1. InBlock(p, r, c) /\ Placed(M, N, q, x, y)
      BY <2>1, <2>3 DEF InBlock
    <3> HIDE DEF q, x, y
    <3> QED BY <1>3, <1>4, <3>1
  <2> HIDE DEF q
  <2>4. Stored(M, N, q, r, c)
    BY DEF q
  <2> QED BY <2>1, <2>2, <2>3, <2>4 DEF Stored
<1>5. ASSUME NEW row \in Nat, NEW col \in Nat, q = [row |-> row, col |-> col, i |-> 0, k |-> 1]
      PROVE  r < row \/ (r < row + 8 /\ c < col)
  <2>1. q.row = row /\ q.col = col /\ q.i = 0 /\ q.k = 1
    BY <1>5
  <2>2. Stored(M, N, q, r, c)
    OBVIOUS
  <2> HIDE DEF q
  <2>3. CASE InBlock(q, r, c) /\ Placed(M, N, q, r - row, c - col)
    <3>1. r - row \in 0 .. 7 /\ c - col \in 0 .. 7
      BY <1>1, <2>1, <2>3 DEF InBlock
    <3> QED BY <2>1, <2>3, <3>1, PlacedFirst
  <2> QED BY <2>1, <2>2, <2>3 DEF Stored
<1>6. CASE last /\ p.col + 8 < M /\ q = [row |-> p.row, col |-> p.col + 8, i |-> 0, k |-> 1]
  <2>1. r < p.row \/ (r < p.row + 8 /\ c < p.col + 8)
    BY <1>1, <1>5, <1>6
  <2>2. r < p.row \/ (r < p.row + 8 /\ c < p.col) \/ InBlock(p, r, c)
    BY <1>1, <2>1 DEF InBlock
  <2> QED BY <1>3, <1>6, <2>2 DEF Stored
<1>7. CASE last /\ p.col + 8 >= M /\ q = [row |-> p.row + 8, col |-> 0, i |-> 0, k |-> 1]
  <2>1. r < p.row + 8
    BY <1>1, <1>5, <1>7
  <2>2. r < p.row \/ (r < p.row + 8 /\ c < p.col) \/ InBlock(p, r, c)
    BY <1>1, <1>7, <2>1 DEF InBlock
  <2> QED BY <1>3, <1>7, <2>2 DEF Stored
<1> QED BY <1>2, <1>4, <1>6, <1>7

\* The same for what waits in a spare cell; the cells of one block are in use.
LEMMA ParkedNext ==
  ASSUME NEW M \in Size, NEW N \in Size, NEW p \in Position(M, N), p.row < N,
         NEW r \in 0 .. N - 1, NEW c \in 0 .. M - 1, Parked(M, N, Advance(M, N, p), r, c)
  PROVE  /\ Advance(M, N, p).row = p.row /\ Advance(M, N, p).col = p.col
         /\ \/ Parked(M, N, p, r, c)
            \/ /\ ~Loads(M, N, p) /\ Parking(M, N, p)
               /\ r = Moved(M, N, p).r /\ c = Moved(M, N, p).c
<1> DEFINE q == Advance(M, N, p)
           within == /\ p.k < Width(M, N, p)
                     /\ q = [row |-> p.row, col |-> p.col, i |-> p.i, k |-> p.k + 1]
           first == /\ p.k = Width(M, N, p)
                    /\ q = [row |-> p.row, col |-> p.col, i |-> p.i + 1, k |-> 1]
<1>1. /\ p.row \in Nat /\ p.col \in Nat /\ p.i \in Nat /\ p.k \in Nat
      /\ M \in Nat /\ N \in Nat /\ r \in Nat /\ c \in Nat
  BY PositionType
<1>2. /\ Colliding(M, N) /\ InBlock(q, r, c) /\ c - q.col >= 4
      /\ Fetching(M, N, q) \/ Before(M, N, q, r - q.row, c - q.col)
  BY DEF Parked
<1>3. ~(q.i = 0 /\ q.k = 1)
  <2> SUFFICES ASSUME q.i = 0, q.k = 1, q.row \in Nat, q.col \in Nat PROVE FALSE
    <3>1. q.row \in Nat /\ q.col \in Nat
      <4>1. q \in Position(M, N)
        BY AdvancePosition
      <4> QED BY <4>1 DEF Position
    <3> QED BY <3>1
  <2> HIDE DEF q
  <2>1. r - q.row \in 0 .. 7 /\ c - q.col \in 0 .. 7
    BY <1>1, <1>2 DEF InBlock
  <2> QED BY <1>2, <2>1, PlacedFirst
<1>4. within \/ first
  <2>1. q # [row |-> p.row, col |-> p.col + 8, i |-> 0, k |-> 1]
    BY <1>3
  <2>2. q # [row |-> p.row + 8, col |-> 0, i |-> 0, k |-> 1]
    BY <1>3
  <2> QED BY <2>1, <2>2, AdvanceCases
<1>5. q.row = p.row /\ q.col = p.col
  BY <1>4
<1> DEFINE x == r - p.row
           y == c - p.col
<1>6. InBlock(p, r, c) /\ x \in 0 .. 7 /\ y \in 4 .. 7 /\ p.row + x = r /\ p.col + y = c
  <2> HIDE DEF q
  <2>1. InBlock(p, r, c)
    BY <1>2, <1>5 DEF InBlock
  <2> QED BY <1>1, <1>2, <1>5, <2>1 DEF InBlock
<1>7. CASE Fetching(M, N, p)
  BY <1>2, <1>5, <1>6, <1>7 DEF Parked
<1>8. CASE ~Fetching(M, N, p)
  <2>1. p.i < 8 /\ Width(M, N, p) = 16
    BY <1>1, <1>2, <1>8 DEF Fetching, Width, Gathering
  <2>2. (within /\ Before(M, N, q, x, y)) \/ (p.k = Width(M, N, p) /\ x <= p.i)
    <3>1. CASE within
      <4>1. q.i = p.i
        BY <3>1
      <4>2. ~Fetching(M, N, q)
        <5> HIDE DEF q
        <5> QED BY <1>8, <4>1 DEF Fetching
      <4>3. Before(M, N, q, x, y)
        <5> HIDE DEF q
        <5> QED BY <1>2, <1>5, <4>2
      <4> QED BY <3>1, <4>3
    <3>2. CASE first
      <4>1. q.i = p.i + 1 /\ q.k = 1
        BY <3>2
      <4> HIDE DEF q, x, y
      <4>2. Before(M, N, q, x, y) => x < p.i + 1
        BY <1>6, <4>1, BeforeFirst
      <4>3. Fetching(M, N, q) => p.i = 7
        BY <1>1, <2>1, <4>1 DEF Fetching
      <4>4. Fetching(M, N, q) \/ Before(M, N, q, x, y)
        BY <1>2, <1>5 DEF x, y
      <4> QED BY <1>1, <1>6, <3>2, <4>2, <4>3, <4>4
    <3> QED BY <1>4, <3>1, <3>2
  <2> HIDE DEF q, x, y
  <2>3. Before(M, N, p, x, y) \/ (~Loads(M, N, p) /\ x = p.i /\ y = Slot(M, N, p))
    <3>1. x \in Int /\ y \in Nat /\ 2 * y < Width(M, N, p)
      BY <1>6, <2>1
    <3> QED BY <2>2, <3>1, BeforeNext
  <2>4. Before(M, N, p, x, y) => Parked(M, N, p, r, c)
    BY <1>2, <1>6 DEF Parked, x, y
  <2>5. y = Slot(M, N, p) => Parking(M, N, p)
    BY <1>2, <1>6, <2>1 DEF Parking
  <2>6. x = p.i /\ y = Slot(M, N, p) => Moved(M, N, p).r = r /\ Moved(M, N, p).c = c
    <3>1. x \in 0 .. 7 /\ y \in 0 .. 7
      BY <1>6
    <3> QED BY <1>2, <1>6, <1>8, <3>1, ItemAt
  <2> QED BY <1>5, <2>3, <2>4, <2>5, <2>6 DEF q
<1> QED BY <1>7, <1>8

\* The row and the column of a cell.
LEMMA CellOf ==
  ASSUME NEW n \in Nat \ {0}, NEW c \in Nat, NEW r \in 0 .. n - 1
  PROVE  (c * n + r) \div n = c /\ (c * n + r) % n = r /\ c * n + r \in Nat
<1>1. \A m \in Nat \ {0} : \A q \in Nat, t \in 0 .. m - 1, v \in Nat :
        v = m * q + t => v \div m = q /\ v % m = t
  OBVIOUS
<1>2. c * n + r \in Nat /\ c * n + r = n * c + r
  OBVIOUS
<1> QED BY <1>1, <1>2

Memory(M, N) == [0 .. Extent(M, N) - 1 -> Nat]

\* An element's cell is within B, and B within the cells written.
LEMMA CellRange ==
  ASSUME NEW M \in Size, NEW N \in Size, NEW r \in 0 .. N - 1, NEW c \in 0 .. M - 1
  PROVE  c * N + r \in 0 .. M * N - 1 /\ M * N <= Extent(M, N)
<1>1. c * N + r \in Nat
  BY DEF Size, MAXN
<1>2. c * N + r <= (M - 1) * N + N - 1
  <2>1. c * N <= (M - 1) * N
    BY DEF Size, MAXN
  <2> QED BY <1>1, <2>1 DEF Size, MAXN
<1>3. (M - 1) * N + N - 1 = M * N - 1
  BY DEF Size, MAXN
<1>4. M * N \in Nat
  BY DEF Size, MAXN
<1>5. M * N <= Extent(M, N)
  BY <1>4 DEF Extent, Colliding
<1> QED BY <1>1, <1>2, <1>3, <1>4, <1>5

\* A spare cell is behind B and within the cells written.
LEMMA SpareRange ==
  ASSUME NEW M \in Size, NEW N \in Size, NEW p \in Position(M, N), p.row < N, Colliding(M, N),
         NEW r, NEW c, InBlock(p, r, c), c - p.col >= 4, r \in Nat, c \in Nat
  PROVE  /\ SpareCell(M, N, p, r, c).at \in 4096 .. Extent(M, N) - 1
         /\ M * N = 4096
<1>1. /\ p.row \in Nat /\ p.col \in Nat /\ p.row + 8 <= 64 /\ p.col + 8 <= 64 /\ N = 64 /\ M = 64
  BY PositionType
<1>2. p.row % 8 = 0 /\ p.col % 8 = 0
  BY DEF Position
<1> DEFINE x == r - p.row
           y == c - p.col - 4
<1>3. x \in 0 .. 7 /\ y \in 0 .. 3
  BY <1>1 DEF InBlock
<1>4. SpareCell(M, N, p, r, c).at = (64 + y) * 64 + (p.row + Spare(p.row, p.col) + x)
  BY <1>1 DEF SpareCell, B
<1>5. p.row + Spare(p.row, p.col) <= 64 /\ p.row + Spare(p.row, p.col) \in Nat
  <2>1. p.row <= 56 /\ (p.row <= 48 \/ p.row = 56)
    BY <1>1, <1>2
  <2>2. p.row = 56 => p.col - p.row # 8
    BY <1>1
  <2> QED BY <1>1, <2>1, <2>2 DEF Spare
<1> HIDE DEF x, y
<1>6. (64 + y) * 64 + (p.row + Spare(p.row, p.col) + x) \in 4096 .. 67 * 64 + 71
  BY <1>3, <1>5
<1> QED BY <1>1, <1>4, <1>6 DEF Extent

\* The elements of a block wait in different cells.
LEMMA SpareUnique ==
  ASSUME NEW M \in Size, NEW N \in Size, NEW p \in Position(M, N), p.row < N, Colliding(M, N),
         NEW r \in Nat, NEW c \in Nat, InBlock(p, r, c),
         NEW s \in Nat, NEW d \in Nat, InBlock(p, s, d),
         SpareCell(M, N, p, r, c).at = SpareCell(M, N, p, s, d).at
  PROVE  r = s /\ c = d
<1>1. /\ p.row \in Nat /\ p.col \in Nat /\ N = 64
  BY PositionType
<1> DEFINE x == r - p.row
           y == c - p.col - 4
           u == s - p.row
           v == d - p.col - 4
<1>2. x \in 0 .. 7 /\ u \in 0 .. 7 /\ y \in Int /\ v \in Int
  BY <1>1 DEF InBlock
<1>3. (64 + y) * 64 + (p.row + Spare(p.row, p.col) + x) = (64 + v) * 64 + (p.row + Spare(p.row, p.col) + u)
  BY <1>1 DEF SpareCell, B
<1>4. p.row + Spare(p.row, p.col) \in Nat
  BY <1>1 DEF Spare
<1>5. x = u /\ y = v
  <2> HIDE DEF x, y, u, v
  <2> QED BY <1>2, <1>3, <1>4
<1> QED BY <1>1, <1>5

\* The access at p: an item, and for a spare cell one of the block's right half.
LEMMA MovedAt ==
  ASSUME NEW M \in Size, NEW N \in Size, NEW p \in Position(M, N), p.row < N
  PROVE  LET it == Moved(M, N, p)
         IN  /\ it.r \in 0 .. N - 1 /\ it.c \in 0 .. M - 1 /\ InBlock(p, it.r, it.c)
             /\ Fetching(M, N, p) \/ Parking(M, N, p) => Colliding(M, N) /\ it.c - p.col >= 4
             /\ Gathering(M, N, p) => ~Fetching(M, N, p) /\ Slot(M, N, p) \in 0 .. 7
             /\ Parking(M, N, p) => Gathering(M, N, p)
<1> DEFINE it == Moved(M, N, p)
<1>1. /\ p.row \in Nat /\ p.col \in Nat /\ p.i \in Nat /\ p.k \in Nat /\ M \in Nat /\ N \in Nat
      /\ p.k >= 1 /\ p.k <= Width(M, N, p)
  BY PositionType
<1>2. /\ it.r \in p.row .. p.row + 7 /\ it.r < N
      /\ it.c \in p.col .. p.col + 7 /\ it.c < M /\ Slot(M, N, p) \in Nat
  BY MovedRange
<1>3. Fetching(M, N, p) => Colliding(M, N) /\ it.c - p.col >= 4
  <2>1. Fetching(M, N, p) => it.c = p.col + 4 + Slot(M, N, p)
    BY DEF Moved, Item
  <2> QED BY <1>1, <1>2, <2>1 DEF Fetching
<1>4. Parking(M, N, p) => Colliding(M, N) /\ it.c - p.col >= 4
  <2>1. Parking(M, N, p) => it.c = p.col + Slot(M, N, p)
    BY <1>1 DEF Parking, Moved, Item, Fetching
  <2> QED BY <1>1, <1>2, <2>1 DEF Parking
<1>5. Gathering(M, N, p) => ~Fetching(M, N, p) /\ Slot(M, N, p) \in 0 .. 7
  BY <1>1 DEF Gathering, Fetching, Slot, Width
<1>6. Parking(M, N, p) => Gathering(M, N, p)
  BY DEF Parking, Gathering
<1>7. it.r \in 0 .. N - 1 /\ it.c \in 0 .. M - 1 /\ InBlock(p, it.r, it.c)
  <2> HIDE DEF it
  <2> QED BY <1>1, <1>2 DEF InBlock
<1> QED BY <1>3, <1>4, <1>5, <1>6, <1>7

\* A load puts its element's value into its temporary.
LEMMA CopiedLoad ==
  ASSUME NEW M \in Size, NEW N \in Size, NEW p \in Position(M, N), p.row < N, Loads(M, N, p),
         NEW from \in [1 .. 8 -> Nat], NEW to, Copied(M, N, p, from, to), NEW from2,
         LET op == Iteration(M, N, p.row, p.col, p.i)[p.k]
         IN  from2 = [from EXCEPT ![op.tmp] = IF op.cell.mat = "A" THEN ValueOfA(op.cell.at)
                                              ELSE to[op.cell.at]]
  PROVE  /\ Copied(M, N, Advance(M, N, p), from2, to)
         /\ from2 \in [1 .. 8 -> Nat]
<1> DEFINE q == Advance(M, N, p)
           it == Moved(M, N, p)
           op == Iteration(M, N, p.row, p.col, p.i)[p.k]
           t == Temp(M, N, p)
<1>1. q = [row |-> p.row, col |-> p.col, i |-> p.i, k |-> p.k + 1]
  BY LoadAdvance
<1>2. /\ p.row \in Nat /\ p.col \in Nat /\ p.i \in Nat /\ p.k \in Nat /\ M \in Nat /\ N \in Nat
      /\ p.k >= 1 /\ p.k <= Width(M, N, p)
  BY PositionType
<1>3. /\ it.r \in 0 .. N - 1 /\ it.c \in 0 .. M - 1 /\ InBlock(p, it.r, it.c)
      /\ Fetching(M, N, p) => Colliding(M, N) /\ it.c - p.col >= 4
      /\ Gathering(M, N, p) => ~Fetching(M, N, p) /\ Slot(M, N, p) \in 0 .. 7
  BY MovedAt
<1>4. op = Ld(IF Fetching(M, N, p) THEN SpareCell(M, N, p, it.r, it.c) ELSE A(M, it.r, it.c), t)
  BY IterationAt
<1>5. t \in 1 .. 8
  BY MovedRange
<1> HIDE DEF op, it, t
<1>6. from2 = [from EXCEPT ![t] = Value(M, it)]
  <2>1. op.tmp = t
    BY <1>4 DEF Ld
  <2>2. CASE Fetching(M, N, p)
    <3>1. op.cell.mat # "A" /\ op.cell.at = SpareCell(M, N, p, it.r, it.c).at
      BY <1>4, <2>2 DEF Ld, SpareCell, B
    <3>2. Parked(M, N, p, it.r, it.c)
      BY <1>3, <2>2 DEF Parked
    <3>3. to[SpareCell(M, N, p, it.r, it.c).at] = Value(M, it)
      BY <1>3, <3>2 DEF Copied, Value
    <3> QED BY <2>1, <3>1, <3>3 DEF op
  <2>3. CASE ~Fetching(M, N, p)
    <3>1. op.cell.mat = "A" /\ op.cell.at = it.r * M + it.c
      BY <1>4, <2>3 DEF Ld, A
    <3> QED BY <2>1, <3>1 DEF op, Value
  <2> QED BY <2>2, <2>3
<1>7. Value(M, it) \in Nat
  BY <1>2, <1>3 DEF Value, ValueOfA
<1>8. from2 \in [1 .. 8 -> Nat] /\ from2[t] = Value(M, it) /\ \A j \in 1 .. 8 : j # t => from2[j] = from[j]
  BY <1>5, <1>6, <1>7
<1>9. q.row = p.row /\ q.col = p.col /\ q.i = p.i /\ q.k = p.k + 1
  BY <1>1
<1> HIDE DEF q
<1>10. /\ Fetching(M, N, q) <=> Fetching(M, N, p)
       /\ Gathering(M, N, q) <=> Gathering(M, N, p)
       /\ \A j : Item(M, N, q, j) = Item(M, N, p, j)
  BY <1>9 DEF Fetching, Gathering, Item
<1>11. ASSUME NEW r \in 0 .. N - 1, NEW c \in 0 .. M - 1
       PROVE  /\ Stored(M, N, q, r, c) => to[c * N + r] = ValueOfA(r * M + c)
              /\ Parked(M, N, q, r, c) => to[SpareCell(M, N, q, r, c).at] = ValueOfA(r * M + c)
  <2>1. Stored(M, N, q, r, c) => Stored(M, N, p, r, c)
    BY StoredNext DEF q
  <2>2. Parked(M, N, q, r, c) => Parked(M, N, p, r, c)
    BY ParkedNext DEF q
  <2>3. SpareCell(M, N, q, r, c) = SpareCell(M, N, p, r, c)
    BY <1>9 DEF SpareCell
  <2> QED BY <2>1, <2>2, <2>3 DEF Copied
<1>12. CASE Gathering(M, N, p)
  <2>1. t = p.k /\ Slot(M, N, p) = p.k - 1 /\ p.k <= 8
    BY <1>2, <1>12 DEF t, Temp, Slot, Loads
  <2>2. it = Item(M, N, p, p.k - 1)
    BY <2>1 DEF it, Moved
  <2>3. ASSUME NEW j \in 0 .. 7, j + 1 < q.k
        PROVE  from2[j + 1] = Value(M, Item(M, N, q, j))
    <3>1. CASE j + 1 < p.k
      <4>1. from[j + 1] = Value(M, Item(M, N, p, j))
        BY <1>12, <3>1 DEF Copied
      <4>2. j + 1 \in 1 .. 8 /\ j + 1 # t
        BY <2>1, <3>1, <1>2
      <4> QED BY <1>8, <1>10, <4>1, <4>2
    <3>2. CASE j + 1 = p.k
      <4>1. j = p.k - 1
        BY <3>2, <1>2
      <4> QED BY <1>8, <1>10, <2>1, <2>2, <3>2, <4>1
    <3> QED BY <1>2, <1>9, <2>3, <3>1, <3>2
  <2> QED BY <1>8, <1>10, <1>11, <1>12, <2>3 DEF Copied, q
<1>13. CASE ~Gathering(M, N, p)
  <2>1. t = 1
    BY <1>13 DEF t, Temp
  <2>2. Slot(M, N, q) = Slot(M, N, p)
    <3>1. p.k % 2 = 1
      BY <1>13 DEF Loads
    <3>2. p.k \div 2 = (p.k - 1) \div 2
      BY <1>2, <3>1
    <3>3. q.k - 1 = p.k
      BY <1>2, <1>9
    <3> QED BY <1>10, <1>13, <3>2, <3>3 DEF Slot
  <2>3. Moved(M, N, q) = it
    BY <1>10, <2>2 DEF Moved, it
  <2> QED BY <1>8, <1>10, <1>11, <1>13, <2>1, <2>3 DEF Copied, q
<1> QED BY <1>12, <1>13

\* A store puts its element in place, or in its spare cell.
LEMMA CopiedStore ==
  ASSUME NEW M \in Size, NEW N \in Size, NEW p \in Position(M, N), p.row < N, ~Loads(M, N, p),
         NEW from \in [1 .. 8 -> Nat], NEW to \in Memory(M, N),
         Copied(M, N, p, from, to), NEW to2,
         LET op == Iteration(M, N, p.row, p.col, p.i)[p.k]
         IN  to2 = [to EXCEPT ![op.cell.at] = from[op.tmp]]
  PROVE  /\ Copied(M, N, Advance(M, N, p), from, to2)
         /\ to2 \in Memory(M, N)
<1> DEFINE q == Advance(M, N, p)
           it == Moved(M, N, p)
           op == Iteration(M, N, p.row, p.col, p.i)[p.k]
           t == Temp(M, N, p)
           spare == SpareCell(M, N, p, it.r, it.c).at
           cell == IF Parking(M, N, p) THEN spare ELSE it.c * N + it.r
<1>1. N \in Nat \ {0}
  BY DEF Size, MAXN
<1>2. /\ p.row \in Nat /\ p.col \in Nat /\ p.i \in Nat /\ p.k \in Nat /\ M \in Nat /\ N \in Nat
      /\ p.k >= 1 /\ p.k <= Width(M, N, p)
  BY PositionType
<1>3. /\ it.r \in 0 .. N - 1 /\ it.c \in 0 .. M - 1 /\ InBlock(p, it.r, it.c)
      /\ Parking(M, N, p) => Colliding(M, N) /\ it.c - p.col >= 4
      /\ Gathering(M, N, p) => Slot(M, N, p) \in 0 .. 7
  BY MovedAt
<1>4. op = St(IF Parking(M, N, p) THEN SpareCell(M, N, p, it.r, it.c) ELSE B(N, it.c, it.r), t)
  BY IterationAt
<1>5. t \in 1 .. 8
  BY MovedRange
<1>6. op.tmp = t /\ op.cell.at = cell
  <2> HIDE DEF op, t, it
  <2> QED BY <1>4 DEF St, B, cell
<1>7. from[t] = Value(M, it)
  <2>1. CASE Gathering(M, N, p)
    <3>1. Slot(M, N, p) = p.k - 9 /\ t = p.k - 8 /\ p.k > 8
      BY <1>2, <2>1 DEF Slot, Temp, Loads
    <3>2. Slot(M, N, p) \in 0 .. 7 /\ Slot(M, N, p) + 1 < p.k /\ t = Slot(M, N, p) + 1
      BY <1>2, <1>3, <2>1, <3>1
    <3>3. from[Slot(M, N, p) + 1] = Value(M, Item(M, N, p, Slot(M, N, p)))
      BY <2>1, <3>2 DEF Copied
    <3> QED BY <3>2, <3>3 DEF Moved
  <2>2. CASE ~Gathering(M, N, p)
    <3>1. t = 1
      BY <2>2 DEF Temp
    <3> QED BY <2>2, <3>1 DEF Copied
  <2> QED BY <2>1, <2>2
<1>8. Parking(M, N, p) => spare \in 4096 .. Extent(M, N) - 1 /\ M * N = 4096
  <2> HIDE DEF it
  <2>1. it.r \in Nat /\ it.c \in Nat
    BY <1>3
  <2> QED BY <1>3, <2>1, SpareRange
<1>9. it.c * N + it.r \in 0 .. M * N - 1 /\ M * N <= Extent(M, N)
  <2> HIDE DEF it
  <2> QED BY <1>3, CellRange
<1>10. M * N \in Nat /\ Extent(M, N) \in Nat
  BY <1>2 DEF Extent
<1> HIDE DEF op, it, t, spare
<1>11. cell \in 0 .. Extent(M, N) - 1
  BY <1>8, <1>9, <1>10
<1>12. Value(M, it) \in Nat
  BY <1>2, <1>3 DEF Value, ValueOfA
<1>13. to2 = [to EXCEPT ![cell] = Value(M, it)]
  BY <1>6, <1>7 DEF op
<1>14. /\ to2 \in [0 .. Extent(M, N) - 1 -> Nat] /\ to2[cell] = Value(M, it)
       /\ \A z \in 0 .. Extent(M, N) - 1 : z # cell => to2[z] = to[z]
  BY <1>11, <1>12, <1>13 DEF Memory
<1> HIDE DEF cell
<1>15. ASSUME NEW r \in 0 .. N - 1, NEW c \in 0 .. M - 1, Stored(M, N, q, r, c)
       PROVE  to2[c * N + r] = ValueOfA(r * M + c)
  <2>1. c * N + r \in 0 .. M * N - 1
    BY CellRange
  <2>2. CASE Stored(M, N, p, r, c) /\ c * N + r # cell
    <3>1. to[c * N + r] = ValueOfA(r * M + c)
      BY <2>2 DEF Copied
    <3>2. c * N + r \in 0 .. Extent(M, N) - 1
      BY <1>9, <1>10, <2>1
    <3> QED BY <1>14, <2>2, <3>1, <3>2
  <2>3. CASE c * N + r = cell
    <3>1. ~Parking(M, N, p)
      BY <1>8, <1>10, <2>1, <2>3 DEF cell
    <3>2. c * N + r = it.c * N + it.r
      BY <2>3, <3>1 DEF cell
    <3>3. c \in Nat /\ it.c \in Nat
      BY <1>3
    <3>4. c = it.c /\ r = it.r
      <4>1. (c * N + r) \div N = c /\ (c * N + r) % N = r
        BY <1>1, <3>3, CellOf
      <4>2. (it.c * N + it.r) \div N = it.c /\ (it.c * N + it.r) % N = it.r
        BY <1>1, <1>3, <3>3, CellOf
      <4> QED BY <3>2, <4>1, <4>2
    <3> QED BY <1>14, <2>3, <3>4 DEF Value
  <2>4. CASE ~Stored(M, N, p, r, c)
    <3>1. ~Parking(M, N, p) /\ r = it.r /\ c = it.c
      BY <1>15, <2>4, StoredNext DEF it
    <3> QED BY <2>3, <3>1 DEF cell
  <2> QED BY <2>2, <2>3, <2>4
<1>16. ASSUME NEW r \in 0 .. N - 1, NEW c \in 0 .. M - 1, Parked(M, N, q, r, c)
       PROVE  to2[SpareCell(M, N, q, r, c).at] = ValueOfA(r * M + c)
  <2> DEFINE z == SpareCell(M, N, p, r, c).at
  <2>1. /\ q.row = p.row /\ q.col = p.col
        /\ \/ Parked(M, N, p, r, c)
           \/ Parking(M, N, p) /\ r = it.r /\ c = it.c
    BY <1>16, ParkedNext DEF it
  <2>2. SpareCell(M, N, q, r, c).at = z
    BY <2>1 DEF SpareCell
  <2>3. /\ InBlock(p, r, c) /\ Colliding(M, N) /\ r \in Nat /\ c \in Nat
        /\ z \in 4096 .. Extent(M, N) - 1 /\ M * N = 4096
    <3>1. InBlock(q, r, c) /\ Colliding(M, N) /\ c - q.col >= 4
      BY <1>16 DEF Parked
    <3>2. InBlock(p, r, c) /\ c - p.col >= 4 /\ r \in Nat /\ c \in Nat
      BY <2>1, <3>1 DEF InBlock
    <3> QED BY <3>1, <3>2, SpareRange
  <2> HIDE DEF z, q
  <2>4. CASE z = cell
    <3>1. Parking(M, N, p)
      BY <1>9, <1>10, <2>3, <2>4 DEF cell
    <3>2. z = spare /\ it.r \in Nat /\ it.c \in Nat
      BY <1>3, <2>4, <3>1 DEF cell
    <3>3. r = it.r /\ c = it.c
      <4>1. SpareCell(M, N, p, r, c).at = SpareCell(M, N, p, it.r, it.c).at
        BY <3>2 DEF z, spare
      <4> QED BY <1>3, <2>3, <3>2, <4>1, SpareUnique
    <3> QED BY <1>14, <2>2, <2>4, <3>3 DEF Value
  <2>5. CASE z # cell
    <3>1. Parked(M, N, p, r, c)
      BY <2>1, <2>5 DEF z, cell, spare
    <3>2. to[z] = ValueOfA(r * M + c)
      BY <3>1 DEF Copied, z
    <3>3. z \in 0 .. Extent(M, N) - 1
      BY <1>10, <2>3
    <3> QED BY <1>14, <2>2, <2>5, <3>2, <3>3
  <2> QED BY <2>4, <2>5
<1>17. q.row < N => IF Gathering(M, N, q)
                    THEN \A j \in 0 .. 7 : j + 1 < q.k => from[j + 1] = Value(M, Item(M, N, q, j))
                    ELSE ~Loads(M, N, q) => from[1] = Value(M, Moved(M, N, q))
  <2>1. CASE q = [row |-> p.row, col |-> p.col, i |-> p.i, k |-> p.k + 1]
    <3>1. q.row = p.row /\ q.col = p.col /\ q.i = p.i /\ q.k = p.k + 1
      BY <2>1
    <3> HIDE DEF q
    <3>2. /\ Gathering(M, N, q) <=> Gathering(M, N, p)
          /\ \A j : Item(M, N, q, j) = Item(M, N, p, j)
      BY <3>1 DEF Fetching, Gathering, Item
    <3>3. CASE Gathering(M, N, p)
      <4>1. p.k > 8
        BY <1>2, <3>3 DEF Loads
      <4>2. \A j \in 0 .. 7 : j + 1 < p.k
        BY <1>2, <4>1
      <4>3. \A j \in 0 .. 7 : from[j + 1] = Value(M, Item(M, N, p, j))
        BY <3>3, <4>2 DEF Copied
      <4> QED BY <3>2, <3>3, <4>3
    <3>4. CASE ~Gathering(M, N, p)
      <4>1. p.k % 2 # 1
        BY <3>4 DEF Loads
      <4>2. q.k % 2 = 1
        BY <1>2, <3>1, <4>1
      <4> QED BY <3>2, <3>4, <4>2 DEF Loads
    <3> QED BY <3>3, <3>4
  <2>2. CASE q.k = 1
    <3> HIDE DEF q
    <3>1. Gathering(M, N, q) => \A j \in 0 .. 7 : ~(j + 1 < q.k)
      BY <2>2
    <3>2. ~Gathering(M, N, q) => Loads(M, N, q)
      BY <2>2 DEF Loads
    <3> QED BY <3>1, <3>2
  <2> QED BY <2>1, <2>2, AdvanceCases
<1> QED BY <1>14, <1>15, <1>16, <1>17 DEF Copied, q, Memory

\* The accesses of a block without conflicts: two for each element.
LEMMA BlockAccesses ==
  ASSUME NEW M \in Size, NEW N \in Size, NEW p \in Position(M, N), p.row < N, ~Colliding(M, N)
  PROVE  Iterations(M, N, p.row, p.col) * Width(M, N, p)
           = 2 * (Smaller(8, N - p.row) * Smaller(8, M - p.col))
<1>1. p.row \in Nat /\ p.col \in Nat /\ M \in Nat /\ N \in Nat /\ p.col < M
  BY PositionType
<1> DEFINE h == N - p.row
           w == M - p.col
<1>2. h \in Nat /\ w \in Nat
  BY <1>1
<1>3. /\ Iterations(M, N, p.row, p.col) = IF h < 8 THEN h ELSE IF w < 8 THEN w ELSE 8
      /\ Width(M, N, p) = IF h < 8 /\ w < 8 THEN 2 * w ELSE 16
  BY <1>1 DEF Iterations, Width, Gathering
<1> HIDE DEF h, w
<1>4. CASE h < 8 /\ w < 8
  <2>1. h * (2 * w) = 2 * (h * w)
    BY <1>2
  <2> QED BY <1>2, <1>3, <1>4, <2>1 DEF Smaller, h, w
<1>5. CASE ~(h < 8 /\ w < 8)
  <2>1. Smaller(8, h) = (IF h < 8 THEN h ELSE 8) /\ Smaller(8, w) = (IF w < 8 THEN w ELSE 8)
    BY <1>2 DEF Smaller
  <2>2. Iterations(M, N, p.row, p.col) * Width(M, N, p) = 2 * (Smaller(8, h) * Smaller(8, w))
    BY <1>2, <1>3, <1>5, <2>1
  <2> QED BY <2>2 DEF h, w
<1> QED BY <1>4, <1>5

\* One step of the loops is one access.
LEMMA AccessesNext ==
  ASSUME NEW M \in Size, NEW N \in Size, NEW p \in Position(M, N), p.row < N
  PROVE  /\ Accesses(M, N, p) \in Int
         /\ Accesses(M, N, Advance(M, N, p)) = Accesses(M, N, p) + 1
<1> DEFINE q == Advance(M, N, p)
           I == Iterations(M, N, p.row, p.col)
           W == Width(M, N, p)
<1> SUFFICES Accesses(M, N, p) \in Int /\ Accesses(M, N, q) = Accesses(M, N, p) + 1
  OBVIOUS
<1>1. /\ p.row \in Nat /\ p.col \in Nat /\ p.i \in Nat /\ p.k \in Nat /\ M \in Nat /\ N \in Nat
      /\ p.i < I /\ p.k <= W /\ p.col < M /\ W \in Nat
      /\ Colliding(M, N) => p.row + 8 <= 64 /\ p.col + 8 <= 64 /\ M = 64 /\ N = 64
  BY PositionType
<1>2. I \in Int
  BY <1>1 DEF Iterations
<1> HIDE DEF I, W
<1>3. \/ p.k < W /\ q = [row |-> p.row, col |-> p.col, i |-> p.i, k |-> p.k + 1]
      \/ p.k = W /\ q = [row |-> p.row, col |-> p.col, i |-> p.i + 1, k |-> 1] /\ p.i + 1 < I
      \/ /\ p.k = W /\ p.i + 1 = I /\ p.col + 8 < M
         /\ q = [row |-> p.row, col |-> p.col + 8, i |-> 0, k |-> 1]
      \/ /\ p.k = W /\ p.i + 1 = I /\ p.col + 8 >= M
         /\ q = [row |-> p.row + 8, col |-> 0, i |-> 0, k |-> 1]
  BY AdvanceCases DEF I, W
<1>4. CASE Colliding(M, N)
  <2>1. I = 16 /\ W = (IF p.i < 8 THEN 16 ELSE 8)
    BY <1>1, <1>4 DEF I, W, Iterations, Width, Gathering
  <2>2. \A z : Accesses(M, N, z) = 192 * z.row + 24 * z.col
                 + (IF z.i < 8 THEN 16 * z.i ELSE 128 + 8 * (z.i - 8)) + z.k - 1
    BY <1>4 DEF Accesses
  <2> DEFINE f(row, col, i, k) ==
               192 * row + 24 * col + (IF i < 8 THEN 16 * i ELSE 128 + 8 * (i - 8)) + k - 1
  <2>3. Accesses(M, N, p) = f(p.row, p.col, p.i, p.k) /\ Accesses(M, N, q) = f(q.row, q.col, q.i, q.k)
    BY <2>2
  <2>4. \/ p.k < W /\ q.row = p.row /\ q.col = p.col /\ q.i = p.i /\ q.k = p.k + 1
        \/ p.k = W /\ q.row = p.row /\ q.col = p.col /\ q.i = p.i + 1 /\ q.k = 1 /\ p.i + 1 < I
        \/ /\ p.k = W /\ p.i + 1 = I /\ p.col + 8 < M
           /\ q.row = p.row /\ q.col = p.col + 8 /\ q.i = 0 /\ q.k = 1
        \/ /\ p.k = W /\ p.i + 1 = I /\ p.col + 8 >= M
           /\ q.row = p.row + 8 /\ q.col = 0 /\ q.i = 0 /\ q.k = 1
    BY <1>3
  <2>6. p.i + 1 = I => p.i = 15
    BY <1>1, <2>1
  <2>7. p.col + 8 >= M => p.col = 56
    BY <1>1, <1>4
  <2> HIDE DEF q
  <2>8. Accesses(M, N, p) \in Int
    BY <1>1, <2>3
  <2>9. CASE p.k < W /\ q.row = p.row /\ q.col = p.col /\ q.i = p.i /\ q.k = p.k + 1
    BY <1>1, <2>3, <2>8, <2>9
  <2>10. CASE p.k = W /\ q.row = p.row /\ q.col = p.col /\ q.i = p.i + 1 /\ q.k = 1
    <3>1. CASE p.i < 7
      BY <1>1, <2>1, <2>3, <2>8, <2>10, <3>1
    <3>2. CASE p.i = 7
      BY <1>1, <2>1, <2>3, <2>8, <2>10, <3>2
    <3>3. CASE p.i > 7
      BY <1>1, <2>1, <2>3, <2>8, <2>10, <3>3
    <3> QED BY <1>1, <3>1, <3>2, <3>3
  <2>11. CASE p.k = W /\ p.i = 15 /\ q.row = p.row /\ q.col = p.col + 8 /\ q.i = 0 /\ q.k = 1
    BY <1>1, <2>1, <2>3, <2>8, <2>11
  <2>12. CASE p.k = W /\ p.i = 15 /\ p.col = 56 /\ q.row = p.row + 8 /\ q.col = 0 /\ q.i = 0 /\ q.k = 1
    BY <1>1, <2>1, <2>3, <2>8, <2>12
  <2> QED BY <2>4, <2>6, <2>7, <2>9, <2>10, <2>11, <2>12
<1>5. CASE ~Colliding(M, N)
  <2> DEFINE h == Smaller(8, N - p.row)
             f(z) == 2 * (Smaller(z.row, N) * M + Smaller(8, N - z.row) * z.col)
                       + z.i * Width(M, N, z) + z.k - 1
  <2>1. \A z : Accesses(M, N, z) = f(z)
    BY <1>5 DEF Accesses
  <2>2. h \in Int /\ Smaller(p.row, N) = p.row /\ Smaller(p.row + 8, N) = p.row + h
    BY <1>1 DEF Smaller
  <2>3. I * W = 2 * (h * Smaller(8, M - p.col))
    BY <1>5, BlockAccesses DEF I, W
  <2>4. Accesses(M, N, p) = 2 * (p.row * M + h * p.col) + p.i * W + p.k - 1
    BY <2>1, <2>2 DEF W
  <2> HIDE DEF h
  <2>5. p.row * M \in Int /\ h * p.col \in Int /\ p.i * W \in Int
    BY <1>1, <2>2
  <2> DEFINE X == p.row * M
             Y == h * p.col
             Z == p.i * W
  <2>15. \A u, v, w, k \in Int : /\ 2 * (u + v) + w + k - 1 \in Int
                                 /\ 2 * (u + v) + w + (k + 1) - 1 = 2 * (u + v) + w + k - 1 + 1
                                 /\ 2 * (u + v) + (w + k) + 1 - 1 = 2 * (u + v) + w + k - 1 + 1
    OBVIOUS
  <2>16. X \in Int /\ Y \in Int /\ Z \in Int
    BY <2>5
  <2>6. Accesses(M, N, p) \in Int
    <3> HIDE DEF X, Y, Z
    <3>1. Accesses(M, N, p) = 2 * (X + Y) + Z + p.k - 1
      BY <2>4 DEF X, Y, Z
    <3> QED BY <1>1, <2>15, <2>16, <3>1
  <2>7. ASSUME NEW i \in Nat, NEW k \in Nat, q = [row |-> p.row, col |-> p.col, i |-> i, k |-> k]
        PROVE  Accesses(M, N, q) = 2 * (p.row * M + h * p.col) + i * W + k - 1
    <3>1. q.row = p.row /\ q.col = p.col /\ q.i = i /\ q.k = k
      BY <2>7
    <3> HIDE DEF q
    <3>2. Width(M, N, q) = W
      BY <1>5, <3>1 DEF Width, Gathering, W
    <3>3. f(q) = 2 * (p.row * M + h * p.col) + i * W + k - 1
      BY <2>2, <3>1, <3>2 DEF h
    <3> QED BY <2>1, <3>3
  <2>8. CASE p.k < W /\ q = [row |-> p.row, col |-> p.col, i |-> p.i, k |-> p.k + 1]
    <3>1. Accesses(M, N, q) = 2 * (p.row * M + h * p.col) + p.i * W + (p.k + 1) - 1
      BY <1>1, <2>7, <2>8
    <3> HIDE DEF q, X, Y, Z
    <3>2. Accesses(M, N, q) = 2 * (X + Y) + Z + (p.k + 1) - 1
      BY <3>1 DEF X, Y, Z
    <3>3. Accesses(M, N, p) = 2 * (X + Y) + Z + p.k - 1
      BY <2>4 DEF X, Y, Z
    <3> QED BY <1>1, <2>6, <2>15, <2>16, <3>2, <3>3
  <2>9. CASE p.k = W /\ q = [row |-> p.row, col |-> p.col, i |-> p.i + 1, k |-> 1]
    <3>1. Accesses(M, N, q) = 2 * (p.row * M + h * p.col) + (p.i + 1) * W + 1 - 1
      BY <1>1, <2>7, <2>9
    <3>2. (p.i + 1) * W = p.i * W + W
      BY <1>1
    <3> HIDE DEF q, X, Y, Z
    <3>3. Accesses(M, N, q) = 2 * (X + Y) + (Z + W) + 1 - 1
      BY <3>1, <3>2 DEF X, Y, Z
    <3>4. Accesses(M, N, p) = 2 * (X + Y) + Z + W - 1
      BY <2>4, <2>9 DEF X, Y, Z
    <3>5. W \in Int
      BY <1>1
    <3> QED BY <2>6, <2>15, <2>16, <3>3, <3>4, <3>5
  <2>10. p.i + 1 = I /\ p.k = W =>
           Accesses(M, N, p) + 1 = 2 * (p.row * M + h * p.col) + 2 * (h * Smaller(8, M - p.col))
    <3> HAVE p.i + 1 = I /\ p.k = W
    <3>1. p.i * W + W = (p.i + 1) * W
      BY <1>1
    <3>2. p.i * W + W = 2 * (h * Smaller(8, M - p.col))
      BY <2>3, <3>1
    <3>3. Smaller(8, M - p.col) \in Int
      BY <1>1 DEF Smaller
    <3>4. h * Smaller(8, M - p.col) \in Int
      BY <2>2, <3>3
    <3> DEFINE H == h * Smaller(8, M - p.col)
    <3>5. H \in Int /\ Z + W = 2 * H /\ W \in Int
      BY <1>1, <3>2, <3>4
    <3>6. Accesses(M, N, p) + 1 = 2 * (X + Y) + Z + W - 1 + 1
      BY <2>4
    <3> HIDE DEF X, Y, Z, H
    <3>7. \A u, v, w, k \in Int : 2 * (u + v) + w + k - 1 + 1 = 2 * (u + v) + (w + k)
      OBVIOUS
    <3>8. Accesses(M, N, p) + 1 = 2 * (X + Y) + (Z + W)
      BY <2>16, <3>5, <3>6, <3>7
    <3>9. Accesses(M, N, p) + 1 = 2 * (X + Y) + 2 * H
      BY <3>5, <3>8
    <3> QED BY <3>9 DEF X, Y, H
  <2>11. CASE /\ p.k = W /\ p.i + 1 = I /\ p.col + 8 < M
              /\ q = [row |-> p.row, col |-> p.col + 8, i |-> 0, k |-> 1]
    <3>1. q.row = p.row /\ q.col = p.col + 8 /\ q.i = 0 /\ q.k = 1
      BY <2>11
    <3>2. Width(M, N, q) \in Int
      <4> HIDE DEF q
      <4> QED BY <1>1, <3>1 DEF Width
    <3>3. Accesses(M, N, q) = 2 * (p.row * M + h * (p.col + 8)) + 0 * Width(M, N, q) + 1 - 1
      <4> HIDE DEF q
      <4> QED BY <2>1, <2>2, <3>1 DEF h
    <3>4. Smaller(8, M - p.col) = 8
      BY <1>1, <2>11 DEF Smaller
    <3>5. h * (p.col + 8) = h * p.col + h * 8 /\ 0 * Width(M, N, q) = 0
      <4> HIDE DEF q
      <4> QED BY <1>1, <2>2, <3>2
    <3> HIDE DEF q
    <3> QED BY <2>2, <2>5, <2>6, <2>10, <2>11, <3>3, <3>4, <3>5
  <2>12. CASE /\ p.k = W /\ p.i + 1 = I /\ p.col + 8 >= M
              /\ q = [row |-> p.row + 8, col |-> 0, i |-> 0, k |-> 1]
    <3>1. q.row = p.row + 8 /\ q.col = 0 /\ q.i = 0 /\ q.k = 1
      BY <2>12
    <3>2. Width(M, N, q) \in Int /\ Smaller(8, N - (p.row + 8)) \in Int
      <4> HIDE DEF q
      <4> QED BY <1>1, <3>1 DEF Width, Smaller
    <3>3. Accesses(M, N, q) = 2 * ((p.row + h) * M + Smaller(8, N - (p.row + 8)) * 0)
                                + 0 * Width(M, N, q) + 1 - 1
      <4> HIDE DEF q
      <4> QED BY <2>1, <2>2, <3>1
    <3>4. Smaller(8, M - p.col) = M - p.col
      BY <1>1, <2>12 DEF Smaller
    <3>5. /\ h * (M - p.col) = h * M - h * p.col /\ (p.row + h) * M = p.row * M + h * M
          /\ h * M \in Int
      BY <1>1, <2>2
    <3>6. 0 * Width(M, N, q) = 0 /\ Smaller(8, N - (p.row + 8)) * 0 = 0
      BY <3>2
    <3>7. Accesses(M, N, p) + 1 = 2 * (p.row * M + h * p.col) + 2 * (h * M - h * p.col)
      BY <2>10, <2>12, <3>4, <3>5
    <3>8. Accesses(M, N, q) = 2 * (p.row * M + h * M)
      <4> HIDE DEF q
      <4> QED BY <2>5, <3>3, <3>5, <3>6
    <3> DEFINE V == h * M
    <3> HIDE DEF q, X, Y, V
    <3>9. Accesses(M, N, p) + 1 = 2 * (X + Y) + 2 * (V - Y) /\ V \in Int
      BY <3>5, <3>7 DEF X, Y, V
    <3>10. Accesses(M, N, q) = 2 * (X + V)
      BY <3>8 DEF X, V
    <3>11. \A u, v, w \in Int : 2 * (u + v) + 2 * (w - v) = 2 * (u + w)
      OBVIOUS
    <3> QED BY <2>6, <2>16, <3>9, <3>10, <3>11
  <2> QED BY <1>3, <2>6, <2>8, <2>9, <2>11, <2>12
<1> QED BY <1>4, <1>5

\* From none to two for each element, and for each that is parked.
LEMMA AccessesEnds ==
  ASSUME NEW M \in Size, NEW N \in Size
  PROVE  /\ Begin \in Position(M, N) /\ Accesses(M, N, Begin) = 0
         /\ \A p \in Position(M, N) : p.row >= N =>
              Accesses(M, N, p) = 2 * M * N + 2 * (IF Colliding(M, N) THEN 64 * 32 ELSE 0)
<1>1. M \in Nat /\ N \in Nat /\ M >= 1 /\ N >= 1
  BY DEF Size, MAXN
<1>2. Begin.row = 0 /\ Begin.col = 0 /\ Begin.i = 0 /\ Begin.k = 1
  BY DEF Begin, At
<1>3. Begin \in [row : Nat, col : Nat, i : Nat, k : Nat]
  BY DEF Begin, At
<1>4. Width(M, N, Begin) \in Nat /\ Width(M, N, Begin) >= 1
  BY <1>1, <1>2 DEF Width
<1>5. 0 < Iterations(M, N, 0, 0) /\ 0 % 8 = 0
  BY <1>1 DEF Iterations
<1>6. Begin \in Position(M, N)
  BY <1>1, <1>2, <1>3, <1>4, <1>5 DEF Position
<1>7. Accesses(M, N, Begin) = 0
  <2>1. CASE Colliding(M, N)
    BY <1>2, <2>1 DEF Accesses
  <2>2. CASE ~Colliding(M, N)
    <3>1. Smaller(0, N) = 0 /\ Smaller(8, N - 0) \in Int
      BY <1>1 DEF Smaller
    <3>2. 0 * M = 0 /\ Smaller(8, N - 0) * 0 = 0 /\ 0 * Width(M, N, Begin) = 0
      BY <1>1, <1>4, <3>1
    <3>3. Accesses(M, N, Begin) = 2 * (0 * M + Smaller(8, N - 0) * 0) + 0 * Width(M, N, Begin) + 1 - 1
      BY <1>2, <2>2, <3>1 DEF Accesses
    <3> QED BY <3>2, <3>3
  <2> QED BY <2>1, <2>2
<1>8. ASSUME NEW p \in Position(M, N), p.row >= N
      PROVE  Accesses(M, N, p) = 2 * M * N + 2 * (IF Colliding(M, N) THEN 64 * 32 ELSE 0)
  <2>1. /\ p.row \in Nat /\ p.row % 8 = 0 /\ p.row < N + 8 /\ p.col = 0 /\ p.i = 0 /\ p.k = 1
    BY <1>8 DEF Position
  <2>2. CASE Colliding(M, N)
    <3>1. M = 64 /\ N = 64 /\ p.row = 64
      BY <1>8, <2>1, <2>2 DEF Colliding
    <3> QED BY <2>1, <2>2, <3>1 DEF Accesses
  <2>3. CASE ~Colliding(M, N)
    <3>1. Smaller(p.row, N) = N /\ Smaller(8, N - p.row) \in Int
      BY <1>1, <1>8, <2>1 DEF Smaller
    <3>2. Width(M, N, p) \in Int
      BY <1>1, <2>1 DEF Width
    <3>3. Accesses(M, N, p) = 2 * (N * M + Smaller(8, N - p.row) * 0) + 0 * Width(M, N, p) + 1 - 1
      BY <2>1, <2>3, <3>1 DEF Accesses
    <3>4. Smaller(8, N - p.row) * 0 = 0 /\ 0 * Width(M, N, p) = 0
      BY <3>1, <3>2
    <3>5. N * M = M * N /\ M * N \in Int /\ 2 * M * N = 2 * (M * N)
      BY <1>1
    <3> QED BY <2>3, <3>3, <3>4, <3>5
  <2> QED BY <2>2, <2>3
<1> QED BY <1>6, <1>7, <1>8

\* Lines in the trace that eval_perf keeps of the markers and of the call.
Marks == called + (IF stage \in {"init", "start"} THEN 0 ELSE IF stage \in {"call", "run"} THEN 1 ELSE 2)

\* The operands are loaded between the start marker and the transpose.
CallInv ==
  /\ called \in 0 .. 3
  /\ stage \in {"init", "start"} => called = 0
  /\ stage = "call" => called < 3
  /\ stage \in {"run", "validate", "done"} => called = 3

\* The transpose between two of its accesses.
TransposeInv ==
  /\ at \in Position(job.M, job.N)
  /\ tmp \in [1 .. 8 -> Nat]
  /\ b \in Memory(job.M, job.N)
  /\ stage \in {"init", "start", "call"} => at = Begin
  /\ stage \in {"validate", "done"} => at.row >= job.N
  /\ Copied(job.M, job.N, at, tmp, b)
  /\ sim.total.hits + sim.total.misses = Accesses(job.M, job.N, at) + Marks

\* The inductive invariant.
LabInv ==
  /\ job \in Jobs \cup [M : {0}, N : {0}, conf : FreeConfs]
  /\ stage \in {"init", "start", "call", "run", "validate", "done"} <=> job \in Jobs
  /\ stage = "free" <=> job \notin Jobs
  /\ CallInv
  /\ flag = (stage = "call" \/ stage = "run")
  /\ Fits(sim) /\ sim.cache.conf = job.conf
  /\ job \in Jobs => TransposeInv

\* Sizes and geometries are in their ranges.
LEMMA JobType ==
  ASSUME NEW j \in Jobs \cup [M : {0}, N : {0}, conf : FreeConfs]
  PROVE  /\ j.conf \in Geometry
         /\ j.conf \in FreeConfs \cup {i.conf : i \in Jobs}
         /\ j \in Jobs => j.M \in Size /\ j.N \in Size
BY JobsAssumption, TracesAssumption DEF Size

\* The empty array.
LEMMA StartFits ==
  ASSUME NEW c \in Geometry
  PROVE  /\ Fits(start(c)) /\ start(c).cache.conf = c /\ start(c).cache.store = <<>>
         /\ start(c).total = [hits |-> 0, misses |-> 0, evictions |-> 0]
         /\ c.set_bits \in Nat
<1> DEFINE s == start(c)
<1>1. /\ s.cache = [store |-> <<>>, conf |-> c, cap |-> 8] /\ s.line_num = 0
      /\ s.total = [hits |-> 0, misses |-> 0, evictions |-> 0]
      /\ s = [cache |-> s.cache, line_num |-> s.line_num, total |-> s.total]
  BY DEF start, new_lru_cache, Result, INIT_CACHE_CAP
<1> HIDE DEF s
<1>2. s.cache.store = <<>> /\ s.cache.conf = c /\ s.cache.cap = 8
  BY <1>1
<1>3. s.cache \in Caches /\ s.total \in Totals
  BY <1>1 DEF Caches, Totals
<1>4. s \in [cache : Caches, line_num : Nat, total : Totals]
  BY <1>1, <1>3
<1>5. DOMAIN s.cache.store = {} /\ Len(s.cache.store) = 0
  BY <1>2
<1>6. c.associativity \in Nat /\ c.set_bits \in Nat
  BY AddrBitsAssumption DEF Geometry
<1>7. \A set : Cardinality(InSet(s.cache.store, set)) <= s.cache.conf.associativity
  <2>1. \A set : InSet(s.cache.store, set) = {}
    BY <1>5 DEF InSet
  <2>2. Cardinality({}) = 0
    BY FS_EmptySet
  <2>3. s.cache.conf.associativity \in Nat
    BY <1>2, <1>6
  <2>4. \A n \in Nat : 0 <= n
    OBVIOUS
  <2>5. 0 <= s.cache.conf.associativity
    BY <2>3, <2>4
  <2> TAKE set
  <2>6. Cardinality(InSet(s.cache.store, set)) = 0
    BY <2>1, <2>2
  <2> QED BY <2>5, <2>6
<1>8. Fits(s)
  BY <1>2, <1>4, <1>5, <1>7 DEF Fits
<1> QED BY <1>1, <1>2, <1>6, <1>8 DEF s

\* A load or a store hits or misses.
LEMMA RunCounts ==
  ASSUME NEW s, Fits(s), NEW line \in Line, line.type \in {"L", "S"}
  PROVE  run(s, line).total.hits + run(s, line).total.misses = s.total.hits + s.total.misses + 1
<1> DEFINE t == run(s, line)
           id == compute_id(s.cache.conf, line.addr)
<1>1. Counted(line) /\ line.type # "M"
  BY DEF Counted
<1>2. PICK i \in 1 .. Len(s.cache.store) + 1, result \in Totals :
        /\ Way(s, i, id, result)
        /\ t.total = [hits |-> s.total.hits + result.hits
                                 + (IF line.type = "M" THEN 1 ELSE 0),
                      misses |-> s.total.misses + result.misses,
                      evictions |-> s.total.evictions + result.evictions]
  <2>1. PICK i \in 1 .. Len(s.cache.store) + 1, result \in Totals :
        /\ Way(s, i, id, result)
        /\ t = [cache |-> t.cache, line_num |-> s.line_num + 1,
                       total |-> [hits |-> s.total.hits + result.hits
                                             + (IF line.type = "M" THEN 1 ELSE 0),
                                  misses |-> s.total.misses + result.misses,
                                  evictions |-> s.total.evictions + result.evictions]]
    BY <1>1, RunLine
  <2> HIDE DEF t, id
  <2> QED BY <2>1
<1>3. \/ result.hits = 1 /\ result.misses = 0
      \/ result.hits = 0 /\ result.misses = 1
  BY <1>2 DEF Way, Result
<1>4. s.total.hits \in Nat /\ s.total.misses \in Nat
  BY DEF Fits, Totals
<1> HIDE DEF t
<1>5. t.total.hits = s.total.hits + result.hits + 0 /\ t.total.misses = s.total.misses + result.misses
  BY <1>1, <1>2
<1> QED BY <1>3, <1>4, <1>5 DEF t

\* What eval_perf does with an access.
LEMMA TracedStep ==
  ASSUME LabInv, NEW type \in {"L", "S"}, NEW addr \in Nat, Traced(Access(type, addr))
  PROVE  /\ flag' = (Inside(addr) /\ addr # MARKER_END)
         /\ fed' \in Line /\ sim' = run(sim, fed')
         /\ Fits(sim') /\ sim'.cache.conf = job.conf
         /\ Inside(addr) => sim'.total.hits + sim'.total.misses = sim.total.hits + sim.total.misses + 1
         /\ ~Inside(addr) => sim' = sim
<1> DEFINE line == Access(type, addr)
<1>1. line \in Line /\ NoLine \in Line /\ line.type = type /\ line.addr = addr /\ NoLine.type = ""
  BY DEF Access, Line, Types, NoLine
<1>2. /\ flag' = (Inside(addr) /\ addr # MARKER_END)
      /\ fed' = IF Inside(addr) THEN line ELSE NoLine
      /\ sim' = run(sim, fed')
  BY <1>1 DEF Traced, Feed
<1>3. fed' \in Line
  BY <1>1, <1>2
<1>4. Fits(sim) /\ sim.cache.conf = job.conf
  BY DEF LabInv
<1>5. Fits(sim') /\ sim'.cache.conf = job.conf
  BY <1>2, <1>3, <1>4, RunFits
<1>6. Inside(addr) => sim'.total.hits + sim'.total.misses = sim.total.hits + sim.total.misses + 1
  BY <1>1, <1>2, <1>4, RunCounts
<1>7. ~Inside(addr) => sim' = sim
  BY <1>1, <1>2 DEF run
<1> QED BY <1>2, <1>3, <1>5, <1>6, <1>7

\* The accesses of the transpose are inside the arrays, away from the markers.
LEMMA AccessAt ==
  ASSUME NEW M \in Size, NEW N \in Size, NEW p \in Position(M, N), p.row < N
  PROVE  LET op == Iteration(M, N, p.row, p.col, p.i)[p.k]
         IN  /\ op.op = IF Loads(M, N, p) THEN "L" ELSE "S"
             /\ AddrOf(op.cell) \in Nat /\ AddrOf(op.cell) \notin {MARKER_START, MARKER_END}
<1> DEFINE it == Moved(M, N, p)
           op == Iteration(M, N, p.row, p.col, p.i)[p.k]
           spare == SpareCell(M, N, p, it.r, it.c)
<1>1. /\ op.op = IF Loads(M, N, p) THEN "L" ELSE "S"
      /\ \/ op.cell = A(M, it.r, it.c)
         \/ op.cell = B(N, it.c, it.r)
         \/ op.cell = spare /\ (Fetching(M, N, p) \/ Parking(M, N, p))
  <2> HIDE DEF it, op, spare
  <2>1. op = IF Loads(M, N, p)
             THEN Ld(IF Fetching(M, N, p) THEN spare ELSE A(M, it.r, it.c), Temp(M, N, p))
             ELSE St(IF Parking(M, N, p) THEN spare ELSE B(N, it.c, it.r), Temp(M, N, p))
    BY IterationAt DEF op, it, spare
  <2> QED BY <2>1 DEF Ld, St
<1>2. /\ it.r \in 0 .. N - 1 /\ it.c \in 0 .. M - 1 /\ InBlock(p, it.r, it.c)
      /\ Fetching(M, N, p) \/ Parking(M, N, p) => Colliding(M, N) /\ it.c - p.col >= 4
  BY MovedAt
<1> DEFINE words == MAXN * MAXN
<1>3. M * N \in Nat /\ N * M = M * N /\ M * N <= words /\ words \in Nat
  <2>1. M \in Nat /\ N \in Nat /\ M <= MAXN /\ N <= MAXN /\ MAXN \in Nat
    BY DEF Size, MAXN
  <2>2. M * N <= MAXN * N /\ MAXN * N <= MAXN * MAXN
    BY <2>1
  <2> QED BY <2>1, <2>2
<1> HIDE DEF it, op, spare, words
<1>4. it.r * M + it.c \in 0 .. words - 1 /\ it.c * N + it.r \in 0 .. words - 1
  <2> DEFINE e == M * N
             u == it.c * N + it.r
             v == it.r * M + it.c
  <2>1. u \in 0 .. e - 1
    BY <1>2, CellRange
  <2>2. v \in 0 .. N * M - 1
    BY <1>2, CellRange
  <2>3. v \in 0 .. e - 1 /\ e \in Nat /\ e <= words
    BY <1>3, <2>2
  <2> HIDE DEF e, u, v
  <2>4. u \in 0 .. words - 1 /\ v \in 0 .. words - 1
    BY <1>3, <2>1, <2>3
  <2> QED BY <2>4 DEF u, v
<1>5. Fetching(M, N, p) \/ Parking(M, N, p) => spare.mat = "B" /\ spare.at \in 0 .. words - 1
  <2> HAVE Fetching(M, N, p) \/ Parking(M, N, p)
  <2>1. Colliding(M, N) /\ it.c - p.col >= 4 /\ it.r \in Nat /\ it.c \in Nat
    BY <1>2
  <2>2. spare.at \in 4096 .. Extent(M, N) - 1
    BY <1>2, <2>1, SpareRange, SMT DEF spare
  <2>3. Extent(M, N) = 67 * 64 + 72 /\ 67 * 64 + 72 < words
    BY <2>1, SMT DEF Extent, words, MAXN
  <2>4. spare.mat = "B"
    BY DEF spare, SpareCell, B
  <2> QED BY <1>3, <2>2, <2>3, <2>4, SMT
<1>6. op.cell.mat \in {"A", "B"} /\ op.cell.at \in 0 .. words - 1
  <2>1. CASE op.cell = A(M, it.r, it.c)
    BY <1>4, <2>1 DEF A
  <2>2. CASE op.cell = B(N, it.c, it.r)
    BY <1>4, <2>2 DEF B
  <2>3. CASE op.cell = spare /\ (Fetching(M, N, p) \/ Parking(M, N, p))
    BY <1>3, <1>5, <2>3
  <2> QED BY <1>1, <2>1, <2>2, <2>3
<1>7. AddrOf(op.cell) \in Nat /\ AddrOf(op.cell) \notin {MARKER_START, MARKER_END}
  <2>1. MatBytes = 4 * words
    BY SMT DEF MatBytes, MAXN, words
  <2> DEFINE n == op.cell.at
             s == Static[op.cell.mat]
  <2>2. n \in 0 .. words - 1 /\ AddrOf(op.cell) = s + 4 * n
    BY <1>6 DEF AddrOf
  <2>3. /\ s \in Nat
        /\ MARKER_START \notin s .. s + MatBytes - 1 /\ MARKER_END \notin s .. s + MatBytes - 1
    BY <1>6, LayoutAssumption
  <2> HIDE DEF n, s
  <2>4. s + 4 * n \in s .. s + MatBytes - 1
    BY <1>3, <2>1, <2>2, <2>3
  <2> QED BY <2>2, <2>3, <2>4
<1> QED BY <1>1, <1>7 DEF op

\* The invariant at the start.
LEMMA LabInit ==
  ASSUME Init
  PROVE  LabInv /\ fed = NoLine /\ sim = start(job.conf)
<1>1. /\ job \in Jobs \cup [M : {0}, N : {0}, conf : FreeConfs] /\ fed = NoLine
      /\ sim = start(job.conf) /\ flag = FALSE /\ at = Begin /\ called = 0
      /\ tmp = [k \in 1 .. 8 |-> Unwritten]
      /\ b = [x \in 0 .. (Extent(job.M, job.N) - 1) |-> Unwritten]
  BY DEF Init
<1>2. \/ job \in Jobs /\ stage = "init"
      \/ job \notin Jobs /\ stage = "free"
  <2>1. CASE job \in Jobs /\ stage = "init"
    BY <2>1
  <2>2. CASE job \in [M : {0}, N : {0}, conf : FreeConfs] /\ stage = "free"
    <3>1. job.M = 0
      BY <2>2
    <3>2. job \notin Jobs
      BY <3>1, JobType DEF Size, MAXN
    <3> QED BY <2>2, <3>2
  <2> QED BY <2>1, <2>2 DEF Init
<1>3. job.conf \in Geometry /\ (job \in Jobs => job.M \in Size /\ job.N \in Size)
  BY <1>1, JobType
<1>4. /\ Fits(sim) /\ sim.cache.conf = job.conf
      /\ sim.total = [hits |-> 0, misses |-> 0, evictions |-> 0]
  BY <1>1, <1>3, StartFits
<1>5. ASSUME job \in Jobs
      PROVE  TransposeInv
  <2> DEFINE M == job.M
             N == job.N
  <2>1. M \in Size /\ N \in Size
    BY <1>3, <1>5
  <2>2. stage = "init"
    BY <1>2, <1>5
  <2> HIDE DEF M, N
  <2>3. at \in Position(M, N) /\ Accesses(M, N, at) = 0
    BY <1>1, <2>1, AccessesEnds
  <2>4. at.row = 0 /\ at.col = 0 /\ at.i = 0 /\ at.k = 1
    BY <1>1 DEF Begin, At
  <2>5. tmp \in [1 .. 8 -> Nat]
    BY <1>1 DEF Unwritten
  <2>6. b \in Memory(M, N)
    <3>1. Extent(job.M, job.N) = Extent(M, N)
      BY DEF M, N
    <3> QED BY <1>1, <3>1 DEF Memory, Unwritten
  <2>7. Copied(M, N, at, tmp, b)
    <3>1. ASSUME NEW r \in 0 .. N - 1, NEW c \in 0 .. M - 1
          PROVE  ~Stored(M, N, at, r, c) /\ ~Parked(M, N, at, r, c)
      <4>1. r \in Nat /\ c \in Nat /\ ~(r < at.row) /\ ~(c < at.col)
        BY <2>1, <2>4 DEF Size, MAXN
      <4>2. ASSUME InBlock(at, r, c)
            PROVE  /\ ~Placed(M, N, at, r - at.row, c - at.col) /\ ~Fetching(M, N, at)
                   /\ ~Before(M, N, at, r - at.row, c - at.col)
        <5>1. r - at.row \in 0 .. 7 /\ c - at.col \in 0 .. 7
          BY <2>4, <4>1, <4>2 DEF InBlock
        <5> QED BY <2>4, <5>1, PlacedFirst
      <4> QED BY <4>1, <4>2 DEF Stored, Parked
    <3>2. \A j \in 0 .. 7 : ~(j + 1 < at.k)
      BY <2>4
    <3>3. ~Gathering(M, N, at) => Loads(M, N, at)
      BY <2>4 DEF Loads
    <3> QED BY <3>1, <3>2, <3>3 DEF Copied
  <2>8. sim.total.hits + sim.total.misses = Accesses(M, N, at) + Marks
    BY <1>1, <1>4, <2>2, <2>3 DEF Marks
  <2> QED BY <1>1, <2>2, <2>3, <2>5, <2>6, <2>7, <2>8 DEF TransposeInv, M, N
<1>6. CallInv
  BY <1>1, <1>2 DEF CallInv
<1>7. stage # "call" /\ stage # "run" /\ (stage \in {"init", "start", "call", "run", "validate", "done"} <=> job \in Jobs)
      /\ (stage = "free" <=> job \notin Jobs)
  BY <1>2
<1> QED BY <1>1, <1>3, <1>4, <1>5, <1>6, <1>7 DEF LabInv

\* The arrays and the markers are apart.
LEMMA Addresses ==
  /\ MARKER_START \in Nat /\ MARKER_END \in Nat /\ MARKER_END # MARKER_START
  /\ \A mat \in {"A", "B"} : /\ AddrOf([mat |-> mat, at |-> 0]) \in Nat
                             /\ AddrOf([mat |-> mat, at |-> 0]) # MARKER_START
<1>1. MARKER_START \in Nat /\ MARKER_END \in Nat /\ MARKER_END # MARKER_START
  BY LayoutAssumption DEF MARKER_START, MARKER_END
<1>2. ASSUME NEW mat \in {"A", "B"}
      PROVE  /\ AddrOf([mat |-> mat, at |-> 0]) \in Nat
             /\ AddrOf([mat |-> mat, at |-> 0]) # MARKER_START
  <2> DEFINE m == MatBytes
             s == Static[mat]
  <2>1. m \in Nat \ {0}
    BY SMT DEF MatBytes, MAXN
  <2>2. s \in Nat /\ MARKER_START \notin s .. s + m - 1
    BY LayoutAssumption
  <2>3. AddrOf([mat |-> mat, at |-> 0]) = s + 4 * 0
    BY DEF AddrOf
  <2> HIDE DEF m, s
  <2>4. s \in s .. s + m - 1 /\ s + 4 * 0 = s
    BY <2>1, <2>2
  <2> QED BY <2>2, <2>3, <2>4
<1> QED BY <1>1, <1>2

\* Of the transposing stages only the totals and the stage change.
LEMMA StageInv ==
  ASSUME LabInv, job \in Jobs, UNCHANGED <<job, at, tmp, b>>,
         stage' \in {"start", "call", "run", "validate", "done"}, CallInv',
         stage' \in {"start", "call"} => at = Begin,
         stage' \in {"validate", "done"} => at.row >= job.N,
         flag' = (stage' = "call" \/ stage' = "run"), Fits(sim'), sim'.cache.conf = job.conf,
         (sim'.total.hits + sim'.total.misses) - Marks' = (sim.total.hits + sim.total.misses) - Marks
  PROVE  LabInv'
<1>1. /\ TransposeInv /\ job' = job /\ at' = at /\ tmp' = tmp /\ b' = b
  BY DEF LabInv
<1>2. job.M \in Size /\ job.N \in Size
  BY JobType DEF LabInv
<1>3. sim'.total.hits + sim'.total.misses = Accesses(job.M, job.N, at) + Marks'
  <2>1. sim.total.hits + sim.total.misses = Accesses(job.M, job.N, at) + Marks
    BY <1>1 DEF TransposeInv
  <2>2. /\ sim.total.hits \in Nat /\ sim.total.misses \in Nat
        /\ sim'.total.hits \in Nat /\ sim'.total.misses \in Nat
    BY DEF LabInv, Fits, Totals
  <2>3. Marks \in Nat /\ Marks' \in Nat
    <3>1. called \in 0 .. 3 /\ called' \in 0 .. 3
      BY DEF LabInv, CallInv
    <3> QED BY <3>1 DEF Marks
  <2>4. Accesses(job.M, job.N, at) \in Int
    <3> DEFINE n == Accesses(job.M, job.N, at)
    <3>1. at \in Position(job.M, job.N)
      BY <1>1 DEF TransposeInv
    <3>2. CASE at.row < job.N
      BY <1>2, <3>1, <3>2, AccessesNext
    <3>3. CASE at.row >= job.N
      <4>1. n = 2 * job.M * job.N + 2 * (IF Colliding(job.M, job.N) THEN 64 * 32 ELSE 0)
        BY <1>2, <3>1, <3>3, AccessesEnds
      <4>2. 2 * job.M * job.N \in Nat
        <5>1. job.M \in Nat /\ job.N \in Nat
          BY <1>2 DEF Size, MAXN
        <5> QED BY <5>1
      <4> HIDE DEF n
      <4>3. n \in Int
        BY <4>1, <4>2, SMT
      <4> QED BY <4>3 DEF n
    <3>4. at.row \in Nat /\ job.N \in Nat
      BY <1>2, <3>1 DEF Position, Size, MAXN
    <3> QED BY <3>2, <3>3, <3>4
  <2> DEFINE x == sim.total.hits + sim.total.misses
             y == sim'.total.hits + sim'.total.misses
             n == Accesses(job.M, job.N, at)
             k == Marks
             l == Marks'
  <2>5. x = n + k /\ y - l = x - k
    BY <2>1
  <2>6. x \in Int /\ y \in Int /\ n \in Int /\ k \in Int /\ l \in Int
    BY <2>2, <2>3, <2>4
  <2> HIDE DEF x, y, n, k, l
  <2>7. y = n + l
    BY <2>5, <2>6
  <2> QED BY <2>7 DEF y, n, l
<1>4. TransposeInv'
  BY <1>1, <1>3 DEF TransposeInv
<1> QED BY <1>1, <1>4 DEF LabInv

\* Every step keeps the invariant and feeds one line to csim.
LEMMA LabNext ==
  ASSUME LabInv, Next
  PROVE  LabInv' /\ job' = job /\ fed' \in Line /\ sim' = run(sim, fed')
<1> USE Addresses
<1>1. /\ flag = (stage = "call" \/ stage = "run") /\ flag \in BOOLEAN /\ CallInv
      /\ Fits(sim) /\ sim.cache.conf = job.conf
      /\ stage \in {"init", "start", "call", "run", "validate", "done"} <=> job \in Jobs
      /\ job \in Jobs => TransposeInv
      /\ sim.total.hits \in Nat /\ sim.total.misses \in Nat
  BY DEF LabInv, Fits, Totals
<1>2. CASE InitMatrix
  <2>1. PICK mat \in {"A", "B"} : Traced(Access("S", AddrOf([mat |-> mat, at |-> 0])))
    BY <1>2 DEF InitMatrix
  <2>2. stage = "init" /\ stage' = "start" /\ UNCHANGED <<job, called, at, tmp, b>> /\ job \in Jobs
    BY <1>1, <1>2 DEF InitMatrix, Proceed
  <2> DEFINE addr == AddrOf([mat |-> mat, at |-> 0])
  <2>3. addr \in Nat /\ addr # MARKER_START
    OBVIOUS
  <2> HIDE DEF addr
  <2>4. ~Inside(addr)
    BY <1>1, <2>2, <2>3 DEF Inside
  <2>5. /\ flag' = FALSE /\ sim' = sim /\ Fits(sim') /\ sim'.cache.conf = job.conf
        /\ fed' \in Line /\ sim' = run(sim, fed')
    BY <2>1, <2>3, <2>4, TracedStep DEF addr
  <2>6. Marks = 0 /\ Marks' = 0 /\ at = Begin
    BY <1>1, <2>2 DEF Marks, TransposeInv, CallInv
  <2>8. CallInv'
    BY <1>1, <2>2 DEF CallInv
  <2>7. LabInv'
    BY <2>2, <2>5, <2>6, <2>8, StageInv
  <2> QED BY <2>2, <2>5, <2>7
<1>3. CASE StartMarker
  <2>1. /\ stage = "start" /\ stage' = "call" /\ UNCHANGED <<job, called, at, tmp, b>> /\ job \in Jobs
        /\ at = Begin /\ called = 0
    BY <1>1, <1>3 DEF StartMarker, Proceed, TransposeInv, CallInv
  <2>2. Inside(MARKER_START) /\ MARKER_START # MARKER_END
    BY DEF Inside
  <2>3. /\ flag' = TRUE /\ Fits(sim') /\ sim'.cache.conf = job.conf
        /\ fed' \in Line /\ sim' = run(sim, fed')
        /\ sim'.total.hits + sim'.total.misses = sim.total.hits + sim.total.misses + 1
    BY <1>3, <2>2, TracedStep DEF StartMarker
  <2>4. Marks = 0 /\ Marks' = 1
    BY <2>1 DEF Marks
  <2>5. (sim'.total.hits + sim'.total.misses) - Marks' = (sim.total.hits + sim.total.misses) - Marks
    <3> DEFINE x == sim.total.hits + sim.total.misses
               y == sim'.total.hits + sim'.total.misses
    <3>1. y = x + 1 /\ x \in Nat
      BY <1>1, <2>3
    <3> HIDE DEF x, y
    <3>2. y - Marks' = x - Marks
      BY <2>4, <3>1
    <3> QED BY <3>2 DEF x, y
  <2>7. CallInv'
    BY <2>1 DEF CallInv
  <2>6. LabInv'
    BY <2>1, <2>3, <2>5, <2>7, StageInv
  <2> QED BY <2>1, <2>3, <2>6
<1>8. CASE Call
  <2> DEFINE addr == Static[Operands[called + 1]]
  <2>1. /\ stage = "call" /\ stage' = (IF called = 2 THEN "run" ELSE "call") /\ called' = called + 1
        /\ UNCHANGED <<job, at, tmp, b>> /\ job \in Jobs /\ at = Begin /\ called \in 0 .. 2
        /\ Traced(Access("L", addr))
    BY <1>1, <1>8 DEF Call, Proceed, TransposeInv, CallInv
  <2>2. addr \in Nat /\ addr # MARKER_END
    BY <2>1, OperandsAssumption, LayoutAssumption DEF CallReads
  <2> HIDE DEF addr
  <2>3. Inside(addr)
    BY <1>1, <2>1 DEF Inside
  <2>4. /\ flag' = TRUE /\ Fits(sim') /\ sim'.cache.conf = job.conf
        /\ fed' \in Line /\ sim' = run(sim, fed')
        /\ sim'.total.hits + sim'.total.misses = sim.total.hits + sim.total.misses + 1
    BY <2>1, <2>2, <2>3, TracedStep
  <2>5. Marks = 1 + called /\ Marks' = 2 + called
    BY <2>1 DEF Marks
  <2>6. (sim'.total.hits + sim'.total.misses) - Marks' = (sim.total.hits + sim.total.misses) - Marks
    <3> DEFINE x == sim.total.hits + sim.total.misses
               y == sim'.total.hits + sim'.total.misses
    <3>1. y = x + 1 /\ x \in Nat
      BY <1>1, <2>4
    <3> HIDE DEF x, y
    <3>2. y - Marks' = x - Marks
      BY <2>1, <2>5, <3>1
    <3> QED BY <3>2 DEF x, y
  <2>7. CallInv'
    BY <2>1 DEF CallInv
  <2>8. stage' \in {"call", "run"}
    BY <2>1
  <2>9. LabInv'
    BY <2>1, <2>4, <2>6, <2>7, <2>8, StageInv
  <2> QED BY <2>1, <2>4, <2>9
<1>4. CASE EndMarker
  <2>1. /\ stage = "run" /\ stage' = "validate" /\ UNCHANGED <<job, called, at, tmp, b>> /\ job \in Jobs
        /\ at.row >= job.N /\ called = 3
    BY <1>1, <1>4 DEF EndMarker, Proceed, CallInv
  <2>2. Inside(MARKER_END)
    BY <1>1, <2>1 DEF Inside
  <2>3. /\ flag' = FALSE /\ Fits(sim') /\ sim'.cache.conf = job.conf
        /\ fed' \in Line /\ sim' = run(sim, fed')
        /\ sim'.total.hits + sim'.total.misses = sim.total.hits + sim.total.misses + 1
    BY <1>4, <2>2, TracedStep DEF EndMarker
  <2>4. Marks = 4 /\ Marks' = 5
    BY <2>1 DEF Marks
  <2>5. (sim'.total.hits + sim'.total.misses) - Marks' = (sim.total.hits + sim.total.misses) - Marks
    <3> DEFINE x == sim.total.hits + sim.total.misses
               y == sim'.total.hits + sim'.total.misses
    <3>1. y = x + 1 /\ x \in Nat
      BY <1>1, <2>3
    <3> HIDE DEF x, y
    <3>2. y - Marks' = x - Marks
      BY <2>4, <3>1
    <3> QED BY <3>2 DEF x, y
  <2>7. CallInv'
    BY <2>1 DEF CallInv
  <2>6. LabInv'
    BY <2>1, <2>3, <2>5, <2>7, StageInv
  <2> QED BY <2>1, <2>3, <2>6
<1>5. CASE Validate
  <2>1. PICK mat \in {"A", "B"} : Traced(Access("L", AddrOf([mat |-> mat, at |-> 0])))
    BY <1>5 DEF Validate
  <2>2. stage = "validate" /\ stage' = "done" /\ UNCHANGED <<job, called, at, tmp, b>> /\ job \in Jobs
    BY <1>1, <1>5 DEF Validate, Proceed
  <2> DEFINE addr == AddrOf([mat |-> mat, at |-> 0])
  <2>3. addr \in Nat /\ addr # MARKER_START
    OBVIOUS
  <2> HIDE DEF addr
  <2>4. ~Inside(addr)
    BY <1>1, <2>2, <2>3 DEF Inside
  <2>5. /\ flag' = FALSE /\ sim' = sim /\ Fits(sim') /\ sim'.cache.conf = job.conf
        /\ fed' \in Line /\ sim' = run(sim, fed')
    BY <2>1, <2>3, <2>4, TracedStep DEF addr
  <2>6. Marks = 5 /\ Marks' = 5 /\ at.row >= job.N
    BY <1>1, <2>2 DEF Marks, TransposeInv, CallInv
  <2>8. CallInv'
    BY <1>1, <2>2 DEF CallInv
  <2>7. LabInv'
    BY <2>2, <2>5, <2>6, <2>8, StageInv
  <2> QED BY <2>2, <2>5, <2>7
<1>6. CASE ReadLine
  <2>1. PICK line \in FreeLines : Feed(line)
    BY <1>6 DEF ReadLine
  <2>2. line \in Line
    BY TracesAssumption DEF Line
  <2>3. fed' = line /\ sim' = run(sim, line)
    BY <2>1 DEF Feed
  <2>4. Fits(sim') /\ sim'.cache.conf = job.conf
    BY <1>1, <2>2, <2>3, RunFits
  <2>5. stage = "free" /\ UNCHANGED <<job, stage, called, at, tmp, b, flag>> /\ job \notin Jobs
    BY <1>1, <1>6 DEF ReadLine
  <2> QED BY <2>2, <2>3, <2>4, <2>5 DEF LabInv, CallInv
<1>7. CASE Load \/ Store
  <2> DEFINE M == job.M
             N == job.N
             op == Iteration(M, N, at.row, at.col, at.i)[at.k]
             addr == AddrOf(op.cell)
  <2>1. /\ stage = "run" /\ at.row < N /\ Traced(Access(op.op, addr))
        /\ at' = Advance(M, N, at) /\ UNCHANGED <<job, stage, called, read>> /\ job \in Jobs
        /\ called = 3
    BY <1>1, <1>7 DEF Load, Store, Transposing, access, CallInv
  <2>2. M \in Size /\ N \in Size
    BY <2>1, JobType DEF LabInv
  <2>3. /\ at \in Position(M, N) /\ tmp \in [1 .. 8 -> Nat] /\ b \in Memory(M, N)
        /\ Copied(M, N, at, tmp, b)
        /\ sim.total.hits + sim.total.misses = Accesses(M, N, at) + Marks
    BY <1>1, <2>1 DEF TransposeInv
  <2>4. Marks = 4 /\ Marks' = 4
    BY <2>1 DEF Marks
  <2> HIDE DEF M, N
  <2>5. /\ op.op = IF Loads(M, N, at) THEN "L" ELSE "S"
        /\ addr \in Nat /\ addr # MARKER_END
    BY <2>1, <2>2, <2>3, AccessAt
  <2> HIDE DEF op, addr
  <2>6. Inside(addr) /\ addr # MARKER_END
    <3>1. addr # MARKER_END
      BY <2>5
    <3>2. flag
      BY <1>1, <2>1
    <3> QED BY <3>1, <3>2 DEF Inside
  <2>7. /\ flag' = TRUE /\ Fits(sim') /\ sim'.cache.conf = job.conf
        /\ fed' \in Line /\ sim' = run(sim, fed')
        /\ sim'.total.hits + sim'.total.misses = sim.total.hits + sim.total.misses + 1
    BY <2>1, <2>5, <2>6, TracedStep
  <2>8. at' \in Position(M, N) /\ Accesses(M, N, at') = Accesses(M, N, at) + 1 /\ Accesses(M, N, at) \in Int
    BY <2>1, <2>2, <2>3, AdvancePosition, AccessesNext
  <2>9. sim'.total.hits + sim'.total.misses = Accesses(M, N, at') + Marks'
    BY <1>1, <2>3, <2>4, <2>7, <2>8
  <2>10. /\ tmp' \in [1 .. 8 -> Nat] /\ b' \in Memory(M, N)
         /\ Copied(M, N, at', tmp', b')
    <3>1. CASE Load
      <4>1. /\ tmp' = [tmp EXCEPT ![op.tmp] = IF op.cell.mat = "A" THEN ValueOfA(op.cell.at)
                                              ELSE b[op.cell.at]]
            /\ b' = b /\ op.op = "L"
        BY <3>1 DEF Load, access, op, M, N
      <4>2. Loads(M, N, at)
        BY <2>5, <4>1
      <4>3. Copied(M, N, Advance(M, N, at), tmp', b) /\ tmp' \in [1 .. 8 -> Nat]
        BY <2>1, <2>2, <2>3, <4>1, <4>2, CopiedLoad DEF op
      <4> QED BY <2>1, <2>3, <4>1, <4>3
    <3>2. CASE Store
      <4>1. b' = [b EXCEPT ![op.cell.at] = tmp[op.tmp]] /\ tmp' = tmp /\ op.op = "S"
        BY <3>2 DEF Store, access, op, M, N
      <4>2. ~Loads(M, N, at)
        BY <2>5, <4>1
      <4>3. Copied(M, N, Advance(M, N, at), tmp, b') /\ b' \in Memory(M, N)
        BY <2>1, <2>2, <2>3, <4>1, <4>2, CopiedStore DEF op
      <4> QED BY <2>1, <2>3, <4>1, <4>3
    <3> QED BY <1>7, <3>1, <3>2
  <2>11. TransposeInv'
    <3>1. job'.M = M /\ job'.N = N /\ stage' = "run"
      BY <2>1 DEF M, N
    <3> QED BY <2>8, <2>9, <2>10, <3>1 DEF TransposeInv
  <2>12. LabInv'
    BY <1>1, <2>1, <2>7, <2>11 DEF LabInv, CallInv
  <2> QED BY <2>1, <2>7, <2>12
<1> QED BY <1>2, <1>3, <1>4, <1>5, <1>6, <1>7, <1>8 DEF Next

\* The invariant is inductive.
LEMMA LabInvariant ==
  Spec => []LabInv
<1>1. LabInv /\ UNCHANGED vars => LabInv'
  <2> SUFFICES ASSUME LabInv, UNCHANGED vars PROVE LabInv'
    OBVIOUS
  <2>1. /\ job' = job /\ stage' = stage /\ at' = at /\ tmp' = tmp /\ b' = b /\ flag' = flag
        /\ sim' = sim /\ called' = called
    BY DEF vars
  <2>2. TransposeInv => TransposeInv'
    BY <2>1 DEF TransposeInv, Marks
  <2> QED BY <2>1, <2>2 DEF LabInv, CallInv
<1>2. LabInv /\ [Next]_vars => LabInv'
  BY <1>1, LabNext
<1> QED BY <1>2, LabInit, PTL DEF Spec

\* Every line of the array is in it once, within its capacity and the ways of
\* its set (csim.c, append and access_entry), after any trace.
THEOREM ArrayOfLines ==
  Spec => []LinesFit
<1>1. LabInv => LinesFit
  <2> SUFFICES ASSUME LabInv PROVE LinesFit
    OBVIOUS
  <2> DEFINE store == sim.cache.store
             conf == sim.cache.conf
  <2>1. /\ job \in Jobs \cup [M : {0}, N : {0}, conf : FreeConfs]
        /\ stage \in {"init", "start", "call", "run", "validate", "done"} <=> job \in Jobs
        /\ stage = "free" <=> job \notin Jobs
        /\ called \in 0 .. 3 /\ flag \in BOOLEAN
    BY DEF LabInv, CallInv
  <2>2. /\ sim \in [cache : Caches, line_num : Nat, total : Totals]
        /\ Len(sim.cache.store) <= sim.cache.cap
        /\ \A i \in DOMAIN sim.cache.store : sim.cache.store[i].last_access < sim.line_num
        /\ \A i, j \in DOMAIN sim.cache.store :
             i # j => /\ sim.cache.store[i].id # sim.cache.store[j].id
                      /\ sim.cache.store[i].last_access # sim.cache.store[j].last_access
        /\ \A set : Cardinality(InSet(sim.cache.store, set)) <= sim.cache.conf.associativity
    BY DEF LabInv, Fits
  <2>3. store \in Seq(Entries) /\ sim.line_num \in Nat /\ sim.total \in Totals
    BY <2>2 DEF Caches
  <2>4. \A i \in DOMAIN store : store[i] \in Entries
    BY <2>3
  <2>5. \A i \in DOMAIN store : store[i].last_access \in 0 .. (sim.line_num - 1)
    BY <2>2, <2>3, <2>4 DEF Entries
  <2>6. TypeOK
    BY <2>1, <2>3, <2>5 DEF TypeOK, Totals
  <2>7. \A i \in DOMAIN store :
          Cardinality({j \in DOMAIN store : store[j].id.set_index = store[i].id.set_index}) <= conf.associativity
    BY <2>2 DEF InSet
  <2> QED BY <2>2, <2>6, <2>7 DEF LinesFit
<1> QED BY <1>1, LabInvariant, PTL

\* transpose_submit leaves the transpose of A in B, whatever the size.
THEOREM MatrixTransposed ==
  Spec => []Transposed
<1>1. LabInv => Transposed
  <2> SUFFICES ASSUME LabInv, stage = "done" PROVE Transposed
    BY DEF Transposed
  <2> DEFINE M == job.M
             N == job.N
             a == [i \in 0 .. (M * N - 1) |-> ValueOfA(i)]
             want == correctTrans(M, N, a)
  <2>1. job \in Jobs /\ TransposeInv
    BY DEF LabInv
  <2>2. M \in Size /\ N \in Size
    BY <2>1, JobType DEF LabInv
  <2>3. M \in Nat /\ N \in Nat \ {0} /\ N \in Nat
    BY <2>2 DEF Size, MAXN
  <2>4. at \in Position(M, N) /\ at.row >= N /\ Copied(M, N, at, tmp, b)
    BY <2>1 DEF TransposeInv
  <2>5. at.row \in Nat
    BY <2>4 DEF Position
  <2> HIDE DEF M, N
  <2>6. ASSUME NEW x \in 0 .. (M * N - 1)
        PROVE  b[x] = want[x]
    <3> DEFINE r == x % N
               c == x \div N
    <3>1. r \in 0 .. N - 1 /\ c \in Nat /\ x = c * N + r /\ x \in Nat
      <4>1. M * N \in Nat
        BY <2>3
      <4>2. x \in Nat
        BY <4>1
      <4>3. \A z \in Nat, n \in Nat \ {0} : z % n \in 0 .. n - 1 /\ z \div n \in Nat /\ z = (z \div n) * n + (z % n)
        OBVIOUS
      <4> QED BY <2>3, <4>2, <4>3
    <3> HIDE DEF r, c
    <3>2. c \in 0 .. M - 1
      <4>1. c * N < M * N
        BY <2>3, <3>1
      <4>2. c >= M => c * N >= M * N
        BY <2>3, <3>1
      <4>3. c * N \in Nat /\ M * N \in Nat
        BY <2>3, <3>1
      <4> QED BY <2>3, <3>1, <4>1, <4>2, <4>3
    <3>3. Stored(M, N, at, r, c)
      BY <2>3, <2>4, <2>5, <3>1 DEF Stored
    <3>4. b[x] = ValueOfA(r * M + c)
      <4>1. b[c * N + r] = ValueOfA(r * M + c)
        BY <2>4, <3>1, <3>2, <3>3 DEF Copied
      <4> QED BY <3>1, <4>1
    <3>5. r * M + c \in 0 .. M * N - 1
      <4>1. r * M + c \in 0 .. N * M - 1
        BY <2>2, <3>1, <3>2, CellRange
      <4>2. N * M = M * N
        BY <2>3
      <4> QED BY <4>1, <4>2
    <3>6. want[x] = a[r * M + c]
      BY DEF correctTrans, r, c
    <3>7. a[r * M + c] = ValueOfA(r * M + c)
      BY <3>5
    <3> QED BY <3>4, <3>6, <3>7
  <2>7. DOMAIN want = 0 .. (M * N - 1)
    BY DEF correctTrans
  <2>8. \A x \in DOMAIN want : b[x] = want[x]
    <3> HIDE DEF want
    <3> QED BY <2>6, <2>7
  <2> QED BY <2>8 DEF Transposed, M, N
<1> QED BY <1>1, LabInvariant, PTL

\* eval_perf counts the accesses of the transpose, of its call and of the two
\* markers, and none of those around them.
THEOREM CountedAccesses ==
  Spec => []OnlyTransposeCounted
<1>1. LabInv => OnlyTransposeCounted
  <2> SUFFICES ASSUME LabInv, stage = "done" PROVE OnlyTransposeCounted
    BY DEF OnlyTransposeCounted
  <2>1. job \in Jobs /\ TransposeInv
    BY DEF LabInv
  <2>2. job.M \in Size /\ job.N \in Size
    BY <2>1, JobType DEF LabInv
  <2>3. at \in Position(job.M, job.N) /\ at.row >= job.N
    BY <2>1 DEF TransposeInv
  <2>4. sim.total.hits + sim.total.misses = Accesses(job.M, job.N, at) + 5
    <3>1. Marks = 5
      BY <2>1 DEF Marks, LabInv, CallInv
    <3> QED BY <2>1, <3>1 DEF TransposeInv
  <2>5. Accesses(job.M, job.N, at) = 2 * job.M * job.N + 2 * (IF Colliding(job.M, job.N) THEN 64 * 32 ELSE 0)
    BY <2>2, <2>3, AccessesEnds
  <2> QED BY <2>4, <2>5 DEF OnlyTransposeCounted
<1> QED BY <1>1, LabInvariant, PTL

\* csim is a cache with least-recently-used replacement, for every geometry and
\* every trace: each line does to its sets and its totals what it does to those
\* of LruSets.
THEOREM CsimIsLru ==
  Spec => ImplementsLru
<1> DEFINE Sets == [i \in 0 .. (2 ^ job.conf.set_bits - 1) |-> BlocksOf(i)]
<1>1. sim.cache.conf = job.conf => Sets = AbsSets(sim)
  BY DEF BlocksOf, AbsSets, Blocks, InSet, Ith, Later
<1>2. (sim.cache.conf = job.conf => Sets = AbsSets(sim))'
  BY DEF BlocksOf, AbsSets, Blocks, InSet, Ith, Later
<1>3. Init => Lru!Init
  <2> SUFFICES ASSUME Init PROVE Lru!Init
    OBVIOUS
  <2>1. LabInv /\ fed = NoLine /\ sim = start(job.conf)
    BY LabInit
  <2>2. job.conf \in Geometry /\ job.conf \in FreeConfs \cup {j.conf : j \in Jobs}
    BY <2>1, JobType DEF LabInv
  <2>3. /\ sim.cache.store = <<>> /\ sim.total = [hits |-> 0, misses |-> 0, evictions |-> 0]
    BY <2>1, <2>2, StartFits
  <2>4. \A i : BlocksOf(i) = <<>>
    <3> TAKE i
    <3>1. sim.cache.conf = job.conf
      BY <2>1 DEF LabInv
    <3>2. BlocksOf(i) = Blocks(sim, i)
      BY <3>1 DEF BlocksOf, Blocks, InSet, Ith, Later
    <3>3. Cardinality(InSet(sim.cache.store, i)) = 0
      <4>1. InSet(sim.cache.store, i) = {}
        BY <2>3 DEF InSet
      <4> QED BY <4>1, FS_EmptySet
    <3>4. \A f : [k \in 1 .. 0 |-> f[k]] = <<>>
      OBVIOUS
    <3>5. Blocks(sim, i) = [k \in 1 .. 0 |-> Blocks(sim, i)[k]]
      BY <3>3 DEF Blocks
    <3> QED BY <3>2, <3>4, <3>5
  <2>5. fed.type = ""
    BY <2>1 DEF NoLine, Access
  <2>6. Sets = [i \in 0 .. (2 ^ job.conf.set_bits - 1) |-> <<>>]
    BY <2>4
  <2> QED BY <2>2, <2>3, <2>5, <2>6 DEF Lru!Init
<1>4. LabInv /\ [Next]_vars => [Lru!Read]_Lru!vars
  <2> SUFFICES ASSUME LabInv, [Next]_vars PROVE [Lru!Read]_Lru!vars
    OBVIOUS
  <2>1. CASE Next
    <3>1. LabInv' /\ job' = job /\ fed' \in Line /\ sim' = run(sim, fed')
      BY <2>1, LabNext
    <3>2. Fits(sim) /\ job.conf = sim.cache.conf /\ sim'.cache.conf = job'.conf
      BY <3>1 DEF LabInv
    <3>3. Lru!Line([sets |-> AbsSets(sim), total |-> sim.total], fed')
            = [sets |-> AbsSets(sim'), total |-> sim'.total]
      BY <3>1, <3>2, RunImplements
    <3>4. Sets = AbsSets(sim) /\ Sets' = AbsSets(sim')
      BY <1>1, <1>2, <3>2
    <3> DEFINE after == Lru!Line([sets |-> Sets, total |-> sim.total], fed')
    <3>5. after = [sets |-> AbsSets(sim'), total |-> sim'.total]
      BY <3>3, <3>4, Zenon
    <3>6. after.sets = Sets' /\ after.total = sim'.total
      <4> HIDE DEF after
      <4>1. after.sets = AbsSets(sim') /\ after.total = sim'.total
        BY <3>5
      <4> QED BY <3>4, <4>1, Zenon
    <3>7. Lru!Read
      BY <3>1, <3>6, Zenon DEF Lru!Read
    <3> QED BY <3>7
  <2>2. CASE UNCHANGED vars
    <3>1. job' = job /\ fed' = fed /\ sim' = sim
      BY <2>2 DEF vars
    <3>2. Sets' = Sets
      <4>1. sim.cache.conf = job.conf
        BY DEF LabInv
      <4> QED BY <1>1, <1>2, <3>1, <4>1
    <3>3. UNCHANGED Lru!vars
      BY <3>1, <3>2, Zenon DEF Lru!vars
    <3> QED BY <3>3
  <2> QED BY <2>1, <2>2
<1> QED BY <1>3, <1>4, LabInvariant, PTL DEF Spec, ImplementsLru, Lru!Spec
=============================================================================
