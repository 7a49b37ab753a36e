------------------------------- MODULE Btest --------------------------------
(***************************************************************************)
(* The harness of the data lab, datalab-handout/btest.c: for each puzzle   *)
(* of decl.c it generates windows of argument values, or takes those given *)
(* on the command line, and compares the puzzle with its test function on  *)
(* every combination until one differs.                                    *)
(***************************************************************************)
EXTENDS BitTests, SequencesExt

CONSTANTS
    TestRange,   \* per number of arguments: TEST_RANGE, its square and cube root
    RandomVals,  \* what random_val may return
    MaxTimeouts, \* bound on the puzzles that time out
    Given        \* what -1, -2 and -3 may give: per argument, a value or none

ASSUME BtestAssumption ==
    /\ TestRange \in [1 .. 3 -> 1 .. 2 ^ 23]
    /\ RandomVals \subseteq Word
    /\ \A given \in Given : /\ given \in [1 .. 3 -> Seq(Word)]
                            /\ \A i \in 1 .. 3 : Len(given[i]) <= 1
    /\ MaxTimeouts \in Nat

VARIABLES
    argval,    \* the arguments given
    at,        \* the puzzle under test, as an index of test_set
    pc,        \* where test_function is
    vals,      \* arg_test_vals: the values generated for each argument
    turn,      \* the combination to be tested next, the last argument fastest
    answer,    \* the last combination tested, and whether the answers differ
    errors,    \* per puzzle scored, the errors counted
    expired    \* the puzzles whose alarm went off

vars == <<argval, at, pc, vals, turn, answer, errors, expired>>

Puzzle(name, args, float) == [name |-> name, args |-> args, float |-> float]

test_set ==
    << Puzzle("bitXor", 2, FALSE), Puzzle("tmin", 0, FALSE), Puzzle("isTmax", 1, FALSE),
       Puzzle("allOddBits", 1, FALSE), Puzzle("negate", 1, FALSE),
       Puzzle("isAsciiDigit", 1, FALSE), Puzzle("conditional", 3, FALSE),
       Puzzle("isLessOrEqual", 2, FALSE), Puzzle("logicalNeg", 1, FALSE),
       Puzzle("howManyBits", 1, FALSE), Puzzle("floatScale2", 1, TRUE),
       Puzzle("floatFloat2Int", 1, TRUE), Puzzle("floatPower2", 1, TRUE) >>

solution_funct(name, a) ==
    CASE name = "bitXor" -> bitXor(a[1], a[2])
      [] name = "tmin" -> tmin
      [] name = "isTmax" -> isTmax(a[1])
      [] name = "allOddBits" -> allOddBits(a[1])
      [] name = "negate" -> negate(a[1])
      [] name = "isAsciiDigit" -> isAsciiDigit(a[1])
      [] name = "conditional" -> conditional(a[1], a[2], a[3])
      [] name = "isLessOrEqual" -> isLessOrEqual(a[1], a[2])
      [] name = "logicalNeg" -> logicalNeg(a[1])
      [] name = "howManyBits" -> WordOf(howManyBits(a[1]))
      [] name = "floatScale2" -> floatScale2(a[1])
      [] name = "floatFloat2Int" -> floatFloat2Int(a[1])
      [] name = "floatPower2" -> floatPower2(a[1])

test_funct(name, a) ==
    CASE name = "bitXor" -> test_bitXor(a[1], a[2])
      [] name = "tmin" -> test_tmin
      [] name = "isTmax" -> test_isTmax(a[1])
      [] name = "allOddBits" -> test_allOddBits(a[1])
      [] name = "negate" -> test_negate(a[1])
      [] name = "isAsciiDigit" -> test_isAsciiDigit(a[1])
      [] name = "conditional" -> test_conditional(a[1], a[2], a[3])
      [] name = "isLessOrEqual" -> test_isLessOrEqual(a[1], a[2])
      [] name = "logicalNeg" -> test_logicalNeg(a[1])
      [] name = "howManyBits" -> WordOf(test_howManyBits(a[1]))
      [] name = "floatScale2" -> test_floatScale2(a[1])
      [] name = "floatFloat2Int" -> test_floatFloat2Int(a[1])
      [] name = "floatPower2" -> test_floatPower2(a[1])

----------------------------------------------------------------------------
(* gen_vals *)

Minus(x, i) == Add(x, negate(WordOf(i)))
Plus(x, i) == Add(x, WordOf(i))

smallest_norm == {23}
one == 23 .. 29
largest_norm == 24 .. 30
inf == Exponent
nan == Exponent \cup {22}
Signed(x) == x \cup {31}

FloatWindow(i) ==
    << WordOf(i), Signed(WordOf(i)),
       Plus(smallest_norm, i), Minus(smallest_norm, i),
       Signed(Plus(smallest_norm, i)), Signed(Minus(smallest_norm, i)),
       Plus(one, i), Minus(one, i), Signed(Plus(one, i)), Signed(Minus(one, i)),
       Minus(largest_norm, i), Signed(Minus(largest_norm, i)) >>

\* Every integer puzzle of decl.c takes TMin to TMax, a range too large to be
\* tested whole.
IntWindow(i, random) ==
    << Plus(tmin, i), Minus(Not(tmin), i), WordOf(i), negate(WordOf(i)), random >>

gen_vals(float, range, given, random) ==
    LET window(i) == IF float THEN FloatWindow(i) ELSE IntWindow(i, random)
    IN  IF given # <<>> THEN given
        ELSE FlattenSeq([i \in 1 .. range |-> window(i - 1)])
             \o (IF float THEN <<inf, Signed(inf), nan, Signed(nan)>> ELSE <<>>)

----------------------------------------------------------------------------
(* test_function, called by run_tests for one puzzle after another *)

Init ==
    /\ argval \in Given
    /\ at = 1 /\ pc = "gen"
    /\ vals = <<>> /\ turn = 0
    /\ answer = <<>> /\ errors = <<>> /\ expired = {}

Generate ==
    /\ at <= Len(test_set) /\ pc = "gen"
    /\ LET p == test_set[at]
       IN  \E random \in [1 .. p.args -> RandomVals] :
             vals' = [i \in 1 .. p.args |->
                        gen_vals(p.float, TestRange[p.args], argval[i], random[i])]
    /\ pc' = "test" /\ turn' = 0
    /\ UNCHANGED <<argval, at, answer, errors, expired>>

\* The combination with number n, and how many there are.
Combination(n) ==
    CASE Len(vals) = 0 -> <<>>
      [] Len(vals) = 1 -> <<vals[1][n + 1]>>
      [] Len(vals) = 2 -> <<vals[1][n \div Len(vals[2]) + 1], vals[2][(n % Len(vals[2])) + 1]>>
      [] Len(vals) = 3 -> << vals[1][n \div (Len(vals[2]) * Len(vals[3])) + 1],
                             vals[2][((n \div Len(vals[3])) % Len(vals[2])) + 1],
                             vals[3][(n % Len(vals[3])) + 1] >>
Combinations == FoldLeft(LAMBDA n, v : n * Len(v), 1, vals)

Return(count) ==
    /\ errors' = Append(errors, count)
    /\ at' = at + 1 /\ pc' = "gen" /\ vals' = <<>> /\ turn' = 0

\* test_0_arg to test_3_arg; the first difference ends the test.
Test ==
    /\ pc = "test"
    /\ LET name == test_set[at].name
           a == Combination(turn)
           error == solution_funct(name, a) # test_funct(name, a)
       IN  /\ answer' = [name |-> name, args |-> a, error |-> error]
           /\ IF error \/ turn + 1 = Combinations
              THEN Return(IF error THEN 1 ELSE 0)
              ELSE turn' = turn + 1 /\ UNCHANGED <<at, pc, vals, errors>>
    /\ UNCHANGED <<argval, expired>>

\* No alarm is cancelled: that of the last puzzle may still go off while the
\* values of this one are generated.
AlarmSet == \/ pc = "test"
            \/ at - 1 \in DOMAIN errors \ expired /\ at <= Len(test_set)

\* timeout_handler jumps back into test_function.  From gen_vals it does so with
\* the envbuf of a call that has returned, whose frame this call has taken over:
\* what it returns is the score of this puzzle.  Between the two calls, where the
\* jump may do anything, no alarm goes off here.
Timeout ==
    /\ AlarmSet /\ Cardinality(expired) < MaxTimeouts
    /\ Return(1)
    /\ expired' = expired \cup {at}
    /\ UNCHANGED <<argval, answer>>

Next == Generate \/ Test \/ Timeout

Spec == Init /\ [][Next]_vars

----------------------------------------------------------------------------
(* Properties *)

\* Where the float puzzles are wrong: 2 * f overflows to a NaN instead of
\* infinity, an int of 2^24 and more is halved, and a denormalized power of two
\* has its bit 9 places too far to the left: a number at least 2^9 times too
\* large, or a negative 0.
Faulty(name, x) ==
    CASE name = "floatScale2" -> ExponentOf(x) = 254 /\ x \cap Mantissa # {}
      [] name = "floatFloat2Int" -> ExponentOf(x) \in 151 .. 157
      [] name = "floatPower2" -> 31 \in x /\ -1 - NatOf(Not(x)) \in -149 .. -127
      [] OTHER -> FALSE

\* Every integer puzzle gives what its test function gives, on any arguments;
\* every float puzzle does but on its faulty numbers, and is wrong on all of
\* them.
AnswersExact ==
    answer # <<>> => (answer.error <=> Len(answer.args) = 1 /\ Faulty(answer.name, answer.args[1]))

\* btest without given arguments scores every puzzle as right: its windows lie
\* beside all the faulty numbers.  Only an alarm costs points.
WindowsMissFaults ==
    argval = [i \in 1 .. 3 |-> <<>>] => \A i \in DOMAIN errors : errors[i] > 0 => i \in expired
=============================================================================
