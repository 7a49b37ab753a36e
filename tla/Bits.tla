-------------------------------- MODULE Bits --------------------------------
(***************************************************************************)
(* The puzzles of datalab-handout/bits.c on words of 32 bits.  A word is   *)
(* the set of the numbers of its one bits, so ~, &, | and ^ are set        *)
(* operations; a sum is built from its carries and wraps, as it does in    *)
(* the build.                                                              *)
(***************************************************************************)
EXTENDS Integers, FiniteSetsExt

Bit == 0 .. 31
Word == SUBSET Bit

Not(x) == Bit \ x
Xor(x, y) == (x \cup y) \ (x \cap y)

\* Bit i of a sum gets a carry if some lower position generates one and every
\* position between, where one of x and y has a one, passes it on.
Carry(x, y, i) == \E j \in 0 .. i - 1 :
    /\ j \in x \cap y
    /\ \A k \in j + 1 .. i - 1 : k \in Xor(x, y)
Add(x, y) == {i \in Bit : i \in Xor(x, y) <=> ~Carry(x, y, i)}

\* << , >> of an int, >> of an unsigned, and ! .
Shl(x, n) == {i \in Bit : i - n \in x}
Sar(x, n) == {i \in Bit : IF i + n \in Bit THEN i + n \in x ELSE 31 \in x}
Shr(x, n) == {i \in Bit : i + n \in x}
LNot(x) == IF x = {} THEN {0} ELSE {}

\* The word of a natural number, and the number of a word without a sign bit.
WordOf(n) == {i \in 0 .. 30 : (n \div 2 ^ i) % 2 = 1}
NatOf(x) == MapThenSumSet(LAMBDA i : 2 ^ i, x)

bitXor(x, y) == Not(x \cap y) \cap Not(Not(x) \cap Not(y))

tmin == Shl({0}, 31)

isTmax(x) == LNot(Add(Add(WordOf(2), x), x)) \cap LNot(LNot(Add(x, {0})))

allOddBits(x) ==
    LET byte == {1, 3, 5, 7}
        half == byte \cup Shl(byte, 8)
        mask == half \cup Shl(half, 16)
    IN  LNot(Xor(x \cap mask, mask))

negate(x) == Add(Not(x), {0})

isAsciiDigit(x) ==
    LET Less(n) == Sar(Add(Add(x, Not(WordOf(n))), {0}), 31)
    IN  LNot(Less(48)) \cap Less(58)

conditional(x, y, z) ==
    LET mask == Add(Not(LNot(x)), {0})
    IN  (mask \cap z) \cup (Not(mask) \cap y)

\* Mutant: the difference is compared whatever the signs are.
isLessOrEqualUnsafe(x, y) == Sar(Add(x, Not(y)), 31) \cap {0}

isLessOrEqual(x, y) ==
    LET x_sign == Sar(x, 31)
        y_sign == Sar(y, 31)
        diff == Add(x, Not(y))
    IN  (x_sign \cap LNot(y_sign)) \cup (LNot(Xor(x_sign, y_sign)) \cap Sar(diff, 31))

logicalNeg(x) ==
    LET Fold(val, n) == val \cap Sar(val, n)
    IN  Fold(Fold(Fold(Fold(Fold(Not(x), 16), 8), 4), 2), 1) \cap {0}

\* Each |= of ret sets a bit below those already set, so ret is kept as a number.
howManyBits(x) ==
    LET val == IF 31 \in x THEN Not(x) ELSE x
        Step(ret, n) == IF Sar(val, ret + n) # {} THEN ret + n ELSE ret
        ret == Step(Step(Step(Step(Step(0, 16), 8), 4), 2), 1)
    IN  ret + (IF val # {} THEN 1 ELSE 0) + 1

----------------------------------------------------------------------------
(* The bits of a float: 31 is the sign, 23 to 30 the exponent *)

Exponent == 23 .. 30
Mantissa == 0 .. 22
ExponentOf(uf) == NatOf(Shr(uf \cap Exponent, 23))

\* Mutant: a denormalized number that becomes normalized loses its exponent.
floatScale2Flat(uf) ==
    CASE uf \cap Exponent = Exponent -> uf
      [] uf \cap Exponent = {} -> (uf \cap {31}) \cup (Shl(uf \cap Mantissa, 1) \cap Mantissa)
      [] OTHER -> (uf \cap {31}) \cup Add(uf \cap Exponent, {23}) \cup (uf \cap Mantissa)

floatScale2(uf) ==
    CASE uf \cap Exponent = Exponent -> uf
      [] uf \cap Exponent = {} ->
            (uf \cap {31}) \cup (Shl(uf \cap Mantissa, 1) \cap (Mantissa \cup {23}))
      [] OTHER -> (uf \cap {31}) \cup Add(uf \cap Exponent, {23}) \cup (uf \cap Mantissa)

floatFloat2Int(uf) ==
    LET exponent == ExponentOf(uf)
        val == (uf \cap Mantissa) \cup {23}
        shifted == IF exponent < 151 THEN Shr(val, 150 - exponent)
                   ELSE Shl(val, exponent - 151)
    IN  CASE exponent < 127 -> {}
          [] exponent > 157 -> {31}
          [] OTHER -> IF 31 \in uf THEN Add(Not(shifted), {0}) ELSE shifted

floatPower2(x) ==
    LET value == IF 31 \in x THEN -1 - NatOf(Not(x)) ELSE NatOf(x)
    IN  CASE value < -149 -> {}
          [] value > 127 -> Exponent
          [] value \in -149 .. -127 -> Shl({0}, value + 158)
          [] OTHER -> Shl(WordOf(value + 127), 23)
=============================================================================
