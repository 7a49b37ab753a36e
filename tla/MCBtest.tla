------------------------------ MODULE MCBtest -------------------------------
(***************************************************************************)
(* btest with small windows, and with arguments at every boundary.         *)
(***************************************************************************)
EXTENDS Btest

MCTestRange == [args \in 1 .. 3 |-> CASE args = 1 -> 4 [] args = 2 -> 2 [] args = 3 -> 1]

MCRandomVals == {WordOf(305419896), Not(WordOf(305419896))}

\* Zero, the ends of the digits, the ends of an int, a byte.
Ints == {{}, WordOf(47), WordOf(48), WordOf(57), WordOf(58), Bit, Not({0}), Not({}),
         {31}, Not({31}), {31, 0}, {30}, {i \in Bit : i % 2 = 1}, WordOf(298), Not(WordOf(4))}

\* Either side of each exponent at which a float puzzle changes its case.
Exponents == {0, 1, 126, 127, 149, 150, 151, 152, 157, 158, 253, 254, 255}
Floats == {Shl(WordOf(e), 23) \cup m : e \in Exponents, m \in {{}, {0}, {22}, {21, 3}, Mantissa}}

\* Either side of each power of two at which floatPower2 changes its case.
Powers == {negate(WordOf(n)) : n \in {1, 126, 127, 128, 148, 149, 150, 151}}
            \cup {WordOf(n) : n \in {126, 127, 128}}

MCGiven ==
    {[i \in 1 .. 3 |-> <<>>]}
    \cup {<< <<x>>, <<y>>, <<z>> >> : x, y \in Ints, z \in {{}, WordOf(5)}}
    \cup {<< <<x>>, <<x>>, <<x>> >> : x \in Floats \cup {Signed(f) : f \in Floats} \cup Powers}
=============================================================================
