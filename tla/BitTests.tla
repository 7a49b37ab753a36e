------------------------------ MODULE BitTests ------------------------------
(***************************************************************************)
(* What btest compares the puzzles with: datalab-handout/tests.c.  Its     *)
(* float arithmetic is exact here, on numbers m * 2^e, as it is for the    *)
(* operands the tests meet.                                                *)
(***************************************************************************)
EXTENDS Bits

Truth(b) == IF b THEN {0} ELSE {}

\* x < y as unsigned numbers: y has a bit x lacks, and they agree above it.
Below(x, y) == \E i \in y \ x : \A k \in i + 1 .. 31 : k \in x <=> k \in y

test_bitXor(x, y) == Xor(x, y)
test_tmin == {31}
test_isTmax(x) == Truth(x = Bit \ {31})
test_allOddBits(x) == Truth(\A i \in Bit : i % 2 = 1 => i \in x)

\* -x keeps x up to its lowest one and inverts the bits above.
test_negate(x) == {i \in Bit : i \in x <=> ~ \E j \in x : j < i}

test_isAsciiDigit(x) == Truth(x \subseteq 0 .. 5 /\ NatOf(x) \in 48 .. 57)
test_conditional(x, y, z) == IF x # {} THEN y ELSE z
\* Inverting the signs puts the negative numbers first; x <= y is ~(y < x).
test_isLessOrEqual(x, y) == Truth(~Below(Xor(y, {31}), Xor(x, {31})))
test_logicalNeg(x) == Truth(x = {})

\* a is shifted right until it is 0: one iteration per bit up to its highest.
test_howManyBits(x) ==
    LET a == IF 31 \in x THEN Not(x) ELSE x
    IN  IF a = {} THEN 1 ELSE Max(a) + 2

----------------------------------------------------------------------------
(* u2f and f2u *)

IsNaN(uf) == uf \cap Exponent = Exponent /\ uf \cap Mantissa # {}

\* The number m * 2^e of finite bits; the sign is kept apart.
u2f(uf) ==
    LET exponent == ExponentOf(uf)
    IN  IF exponent = 0 THEN [m |-> NatOf(uf \cap Mantissa), e |-> -149]
        ELSE [m |-> NatOf((uf \cap Mantissa) \cup {23}), e |-> exponent - 150]

\* The bits of a number with an exact float, or of infinity if it is too large.
f2u(f) ==
    LET shift == Max({k \in 0 .. 24 : f.m < 2 ^ (24 - k) /\ f.e - k >= -149})
        m == f.m * 2 ^ shift
        e == f.e - shift
    IN  CASE f.m = 0 -> {}
          [] f.m # 0 /\ e > 104 -> Exponent
          [] f.m # 0 /\ m < 2 ^ 23 -> WordOf(m)
          [] OTHER -> (WordOf(m) \cap Mantissa) \cup Shl(WordOf(e + 150), 23)

test_floatScale2(uf) ==
    IF uf \cap Exponent = Exponent THEN uf
    ELSE (uf \cap {31}) \cup f2u([u2f(uf) EXCEPT !.e = @ + 1])

\* The conversion truncates; what does not fit gives 0x80000000.
test_floatFloat2Int(uf) ==
    LET f == u2f(uf)
        magnitude == IF f.e >= 0 THEN f.m * 2 ^ f.e
                     ELSE IF f.e < -24 THEN 0 ELSE f.m \div 2 ^ (-f.e)
    IN  IF uf \cap Exponent = Exponent \/ (f.e > 7 /\ f.m # 0) THEN {31}
        ELSE IF 31 \in uf THEN test_negate(WordOf(magnitude)) ELSE WordOf(magnitude)

\* The powers multiplied are 2^(2^i) with x > 0 and 2^-(2^i) with x < 0: those
\* beyond the range of float are infinite or 0, and so is the product.
test_floatPower2(x) ==
    LET minus == test_negate(x)
    IN  CASE 31 \notin x /\ x \subseteq 0 .. 6 -> f2u([m |-> 1, e |-> NatOf(x)])
          [] 31 \notin x /\ ~(x \subseteq 0 .. 6) -> Exponent
          [] 31 \in x /\ minus \subseteq 0 .. 7 /\ NatOf(minus) <= 149 ->
                f2u([m |-> 1, e |-> -NatOf(minus)])
          [] OTHER -> {}
=============================================================================
