------------------------------ MODULE Cachelab ------------------------------
(***************************************************************************)
(* The cache lab's evaluation (test-trans.c, tracegen.c) around the        *)
(* transpose and the cache simulator: tracegen runs transpose_submit       *)
(* between two stores to marker variables, its accesses are recorded,      *)
(* eval_perf keeps those between the markers, and the simulator counts.    *)
(* The trace is read as it is produced, one access at a time.  A job can   *)
(* also be a trace file of any lines, as csim's own main reads it.         *)
(***************************************************************************)
EXTENDS Csim, Trans

CONSTANTS Jobs,         \* the sizes tested: [M, N, conf]
          FreeConfs,    \* geometries for arbitrary traces
          FreeLines,    \* lines of those traces
          MaxLines,     \* their length
          Static,       \* addresses of tracegen's variables, as linked
          Operands      \* those read by the call, in the order the build loads them

VARIABLES job,          \* the size, or M = 0 for an arbitrary trace
          stage,        \* "init", "start", "call", "run", "validate", "done" or "free"
          called,       \* operands of the call loaded so far
          at,           \* transpose_submit: row, col, iteration, next access
          tmp,          \* its temporaries
          b,            \* the destination array, as written so far
          flag,         \* eval_perf: inside the markers
          sim,          \* csim: cache, line_num, total
          fed,          \* the line that reached csim in the last step
          read          \* lines read of an arbitrary trace

vars == <<job, stage, called, at, tmp, b, flag, sim, fed, read>>

MAXN == 256

\* A set index or a tag without bits would be a shift by all of a word's bits.
Geometry == {c \in [set_bits : 1 .. AddrBits, block_bits : 0 .. AddrBits, associativity : Nat \ {0}] :
                c.set_bits + c.block_bits < AddrBits}

ASSUME JobsAssumption == Jobs \subseteq [M : 1 .. MAXN, N : 1 .. MAXN, conf : Geometry]
ASSUME TracesAssumption ==
    /\ FreeConfs \subseteq Geometry
    /\ FreeLines \subseteq [type : Types, addr : Nat]
    /\ MaxLines \in 0 .. INT_MAX

------------------------------------------------------------------------------
(* Memory: the arrays of 256*256 ints and the other static variables lie   *)
(* where the linker puts them.  tracegen is built with -O0: its locals are *)
(* on the stack, at high addresses that eval_perf drops, and each use of a *)
(* static variable is a load.                                              *)

MatBytes == 4 * MAXN * MAXN
AddrOf(cell) == Static[cell.mat] + 4 * cell.at
MARKER_START == Static["MARKER_START"]
MARKER_END == Static["MARKER_END"]

\* What the call reads: the registered function and its first two arguments.
CallReads == {"func_ptr", "M", "N"}

\* No variable lies over a marker.
ASSUME LayoutAssumption ==
    /\ Static \in [CallReads \cup {"A", "B", "MARKER_START", "MARKER_END"} -> Nat]
    /\ MARKER_START # MARKER_END
    /\ \A marker \in {MARKER_START, MARKER_END} :
          /\ \A x \in CallReads : Static[x] # marker
          /\ \A mat \in {"A", "B"} : marker \notin Static[mat] .. (Static[mat] + MatBytes - 1)

ASSUME OperandsAssumption ==
    /\ Operands \in [1 .. 3 -> CallReads]
    /\ \A i, j \in 1 .. 3 : Operands[i] = Operands[j] => i = j

\* initMatrix: A holds distinct values.
ValueOfA(i) == i + 1
Unwritten == 0

\* Cells behind B that the 64*64 case writes: up to the last spare one.
Extent(M, N) == IF Colliding(M, N) THEN 67 * 64 + 72 ELSE M * N

access == Iteration(job.M, job.N, at.row, at.col, at.i)[at.k]

\* Mutant: the accesses outside the markers are counted too.
InsideOpen(addr) == TRUE

\* eval_perf: from the start marker's access to the end marker's.
Inside(addr) == flag \/ addr = MARKER_START

NoLine == Access("", 0)

Feed(line) ==
    /\ fed' = line
    /\ sim' = run(sim, line)

Traced(line) ==
    /\ flag' = (Inside(line.addr) /\ line.addr # MARKER_END)
    /\ Feed(IF Inside(line.addr) THEN line ELSE NoLine)

Proceed(now, next) == stage = now /\ stage' = next

------------------------------------------------------------------------------
Init ==
    /\ \/ job \in Jobs /\ stage = "init"
       \/ job \in [M : {0}, N : {0}, conf : FreeConfs] /\ stage = "free"
    /\ called = 0
    /\ at = Begin
    /\ tmp = [k \in 1 .. 8 |-> Unwritten]
    /\ b = [x \in 0 .. (Extent(job.M, job.N) - 1) |-> Unwritten]
    /\ flag = FALSE
    /\ sim = start(job.conf)
    /\ fed = NoLine
    /\ read = 0

\* tracegen: initMatrix fills both arrays before the start marker; one store
\* stands for them.
InitMatrix ==
    /\ Proceed("init", "start")
    /\ \E mat \in {"A", "B"} : Traced(Access("S", AddrOf([mat |-> mat, at |-> 0])))
    /\ UNCHANGED <<job, called, at, tmp, b, read>>

StartMarker ==
    /\ Proceed("start", "call")
    /\ Traced(Access("S", MARKER_START))
    /\ UNCHANGED <<job, called, at, tmp, b, read>>

\* (*func_list[selectedFunc].func_ptr)(M, N, A, B): the function and the sizes
\* are loaded, the arrays are passed as addresses.
Call ==
    /\ Proceed("call", IF called = 2 THEN "run" ELSE "call")
    /\ Traced(Access("L", Static[Operands[called + 1]]))
    /\ called' = called + 1
    /\ UNCHANGED <<job, at, tmp, b, read>>

Transposing ==
    /\ stage = "run" /\ at.row < job.N
    /\ Traced(Access(access.op, AddrOf(access.cell)))
    /\ at' = Advance(job.M, job.N, at)
    /\ UNCHANGED <<job, stage, called, read>>

Load ==
    /\ Transposing
    /\ access.op = "L"
    /\ tmp' = [tmp EXCEPT ![access.tmp] =
                   IF access.cell.mat = "A" THEN ValueOfA(access.cell.at) ELSE b[access.cell.at]]
    /\ UNCHANGED b

Store ==
    /\ Transposing
    /\ access.op = "S"
    /\ b' = [b EXCEPT ![access.cell.at] = tmp[access.tmp]]
    /\ UNCHANGED tmp

EndMarker ==
    /\ at.row >= job.N
    /\ Proceed("run", "validate")
    /\ Traced(Access("S", MARKER_END))
    /\ UNCHANGED <<job, called, at, tmp, b, read>>

\* validate reads the arrays once more.
Validate ==
    /\ Proceed("validate", "done")
    /\ \E mat \in {"A", "B"} : Traced(Access("L", AddrOf([mat |-> mat, at |-> 0])))
    /\ UNCHANGED <<job, called, at, tmp, b, read>>

ReadLine ==
    /\ stage = "free" /\ read < MaxLines
    /\ \E line \in FreeLines : Feed(line)
    /\ read' = read + 1
    /\ UNCHANGED <<job, stage, called, at, tmp, b, flag>>

Next == InitMatrix \/ StartMarker \/ Call \/ Load \/ Store \/ EndMarker \/ Validate \/ ReadLine

Spec == Init /\ [][Next]_vars

------------------------------------------------------------------------------
(* Properties. *)

TypeOK ==
    /\ job \in Jobs \cup [M : {0}, N : {0}, conf : FreeConfs]
    /\ stage \in {"init", "start", "call", "run", "validate", "done"} <=> job \in Jobs
    /\ stage = "free" <=> job \notin Jobs
    /\ called \in 0 .. 3
    /\ flag \in BOOLEAN
    /\ sim.line_num \in Nat
    /\ sim.total \in [hits : Nat, misses : Nat, evictions : Nat]
    /\ \A i \in DOMAIN sim.cache.store : sim.cache.store[i].last_access \in 0 .. (sim.line_num - 1)

\* The array holds every line once, within its capacity, no set has more lines
\* than its associativity, and no two lines were last accessed by the same line
\* of the trace: the victim is unique.
LinesFit ==
    LET store == sim.cache.store
        conf  == sim.cache.conf
    IN  /\ TypeOK
        /\ Len(store) <= sim.cache.cap
        /\ \A i, j \in DOMAIN store :
              i # j => /\ store[i].id # store[j].id
                       /\ store[i].last_access # store[j].last_access
        /\ \A i \in DOMAIN store :
              Cardinality({j \in DOMAIN store :
                              store[j].id.set_index = store[i].id.set_index})
                 <= conf.associativity

\* validate: when transpose_submit returns, B is the transpose of A, for whole
\* and residual blocks and although the 64*64 case keeps half of a block in rows
\* behind the matrix.
Transposed ==
    stage = "done" =>
        LET a == [i \in 0 .. (job.M * job.N - 1) |-> ValueOfA(i)]
            want == correctTrans(job.M, job.N, a)
        IN  \A x \in DOMAIN want : b[x] = want[x]

\* driver.py gives full marks below these misses on a direct-mapped cache of 32
\* sets of 32 bytes: the order of the accesses avoids the conflicts between A,
\* B and the spare rows.
Target(M, N) == CASE M = 32 /\ N = 32 -> 300
                  [] M = 64 /\ N = 64 -> 1300
                  [] M = 61 /\ N = 67 -> 2000
                  [] OTHER            -> INT_MAX
MissTarget == stage = "done" => sim.total.misses < Target(job.M, job.N)

\* eval_perf counts the transpose, the three loads of its call and the two
\* markers, nothing else of the run: two accesses for each element, two more for
\* each that waits in a spare row.
OnlyTransposeCounted ==
    stage = "done" =>
        LET spared == IF Colliding(job.M, job.N) THEN 64 * 32 ELSE 0
        IN  sim.total.hits + sim.total.misses = 2 * job.M * job.N + 2 * spared + 5

\* csim's array as the sets of LruSets: a block is behind those accessed later.
BlocksOf(set) ==
    LET store == sim.cache.store
        mine  == {i \in DOMAIN store : store[i].id.set_index = set}
        later(i) == {j \in mine : store[j].last_access > store[i].last_access}
        ith(k) == CHOOSE i \in mine : Cardinality(later(i)) = k - 1
    IN  [k \in 1 .. Cardinality(mine) |-> store[ith(k)].addr \div 2 ^ job.conf.block_bits]

Lru == INSTANCE LruSets WITH
    Confs <- FreeConfs \cup {j.conf : j \in Jobs}, conf <- job.conf, total <- sim.total,
    sets <- [i \in 0 .. (2 ^ job.conf.set_bits - 1) |-> BlocksOf(i)]

\* csim counts what a cache with least-recently-used replacement does.
ImplementsLru == Lru!Spec
=============================================================================
