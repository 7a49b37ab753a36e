----------------------------- MODULE MCCachelab -----------------------------
(***************************************************************************)
(* Cachelab at the sizes of driver.py, at sizes with residual blocks, and  *)
(* on arbitrary short traces that make two sets overflow.                  *)
(***************************************************************************)
EXTENDS Cachelab, TLC

Conf(s, E, blockBits) == [set_bits |-> s, associativity |-> E, block_bits |-> blockBits]
Job(M, N) == [M |-> M, N |-> N, conf |-> Conf(5, 1, 5)]

MCJobs == {Job(32, 32), Job(64, 64), Job(61, 67), Job(8, 8), Job(3, 5), Job(9, 8),
           Job(8, 11), Job(10, 13), Job(17, 4)}
\* The order of a build with gcc: markers before the arrays, M and N behind.
MCStatic == "MARKER_START" :> 224 @@ "MARKER_END" :> 225
            @@ "A" :> 256 @@ "B" :> 256 + MatBytes
            @@ "M" :> 256 + 2 * MatBytes @@ "N" :> 260 + 2 * MatBytes
            @@ "func_ptr" :> 288 + 2 * MatBytes
MCOperands == <<"func_ptr", "N", "M">>

MCFreeConfs == {Conf(1, 2, 1), Conf(1, 1, 0), Conf(2, 2, 1)}
MCFreeLines == {Access(t, a) : t \in {"L", "M"}, a \in {0, 1, 2, 4, 8, 12}}
                 \cup {Access("I", 0), Access("S", 8), Access("", 0)}
=============================================================================
