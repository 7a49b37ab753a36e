-------------------------------- MODULE Trans --------------------------------
(***************************************************************************)
(* The blocked transpose of cachelab (trans.c): the memory accesses of     *)
(* transpose_submit, in the order in which the unoptimised build makes     *)
(* them.  An iteration of an inner loop is a sequence of accesses: a load  *)
(* of a cell into a temporary or a store of a temporary.  The arrays have  *)
(* one dimension in memory, so an index past a row is in the next one.     *)
(***************************************************************************)
EXTENDS Integers, Sequences

Ld(cell, k) == [op |-> "L", cell |-> cell, tmp |-> k]
St(cell, k) == [op |-> "S", cell |-> cell, tmp |-> k]
A(M, i, j) == [mat |-> "A", at |-> i * M + j]
B(N, i, j) == [mat |-> "B", at |-> i * N + j]

\* Eight loads into tmp1 to tmp8, then their stores.
Gather(from, to) == [k \in 1 .. 16 |-> IF k <= 8 THEN Ld(from[k - 1], k) ELSE St(to[k - 9], k - 8)]

\* n copies, one after the other.
Direct(n, from, to) ==
    [k \in 1 .. 2 * n |-> IF k % 2 = 1 THEN Ld(from[k \div 2], 1) ELSE St(to[k \div 2 - 1], 1)]

\* Where the right half of a block of a 64*64 matrix waits: in the rows behind
\* B, in columns that share no cache set with the block.
Spare(row, col) == IF col - row # 8 THEN 8 ELSE 16

\* The 64*64 case: eight iterations gather rows of A, eight fetch what waits.
Colliding(M, N) == M = 64 /\ N = 64
CollidingBlock(M, N, row, col, i) ==
    LET spare == row + Spare(row, col)
    IN  IF i < 8
        THEN Gather([k \in 0 .. 7 |-> A(M, row + i, col + k)],
                    [k \in 0 .. 7 |-> IF k < 4 THEN B(N, col + k, row + i)
                                      ELSE B(N, 64 + k - 4, spare + i)])
        ELSE Direct(4, [k \in 0 .. 3 |-> B(N, 64 + k, spare + i - 8)],
                       [k \in 0 .. 3 |-> B(N, col + 4 + k, row + i - 8)])

\* Mutant: no temporaries, each element is stored as soon as it is loaded.
RowWiseDirect(M, N, row, col, i) ==
    Direct(8, [k \in 0 .. 7 |-> A(M, row + i, col + k)], [k \in 0 .. 7 |-> B(N, col + k, row + i)])

RowWise(M, N, row, col, i) ==
    Gather([k \in 0 .. 7 |-> A(M, row + i, col + k)], [k \in 0 .. 7 |-> B(N, col + k, row + i)])

ColumnWise(M, N, row, col, j) ==
    Gather([k \in 0 .. 7 |-> A(M, row + k, col + j)], [k \in 0 .. 7 |-> B(N, col + j, row + k)])

CornerBlock(M, N, row, col, i) ==
    Direct(M - col, [j \in 0 .. (M - col - 1) |-> A(M, row + i, col + j)],
                    [j \in 0 .. (M - col - 1) |-> B(N, col + j, row + i)])

\* The block at row and col: its iterations, and the accesses of iteration i.
Iterations(M, N, row, col) ==
    IF Colliding(M, N) THEN 16
    ELSE IF row + 8 > N THEN N - row
    ELSE IF col + 8 > M THEN M - col
    ELSE 8

Iteration(M, N, row, col, i) ==
    IF Colliding(M, N) THEN CollidingBlock(M, N, row, col, i)
    ELSE IF col + 8 <= M THEN RowWise(M, N, row, col, i)
    ELSE IF row + 8 <= N THEN ColumnWise(M, N, row, col, i)
    ELSE CornerBlock(M, N, row, col, i)

\* The loops of transpose_submit: a block, its iteration, the access in it.
At(row, col, i, k) == [row |-> row, col |-> col, i |-> i, k |-> k]
Begin == At(0, 0, 0, 1)

\* Mutant: an incomplete block at the end of a row is left out.
AdvanceWhole(M, N, p) ==
    IF p.k < Len(Iteration(M, N, p.row, p.col, p.i)) THEN At(p.row, p.col, p.i, p.k + 1)
    ELSE IF p.i + 1 < Iterations(M, N, p.row, p.col) THEN At(p.row, p.col, p.i + 1, 1)
    ELSE IF p.col + 16 <= M THEN At(p.row, p.col + 8, 0, 1)
    ELSE At(p.row + 8, 0, 0, 1)

\* From one access to the next.
Advance(M, N, p) ==
    IF p.k < Len(Iteration(M, N, p.row, p.col, p.i)) THEN At(p.row, p.col, p.i, p.k + 1)
    ELSE IF p.i + 1 < Iterations(M, N, p.row, p.col) THEN At(p.row, p.col, p.i + 1, 1)
    ELSE IF p.col + 8 < M THEN At(p.row, p.col + 8, 0, 1)
    ELSE At(p.row + 8, 0, 0, 1)

\* correctTrans: the result, from the values of A.
correctTrans(M, N, a) == [x \in 0 .. (M * N - 1) |-> a[(x % N) * M + x \div N]]
==============================================================================
