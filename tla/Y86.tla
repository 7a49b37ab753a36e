--------------------------------- MODULE Y86 ---------------------------------
(***************************************************************************)
(* The Y86-64 tool chain on one program: yas assembles it and load_mem     *)
(* loads it, then SEQ runs it, then PIPE does, each as run_tty_sim runs it *)
(* with the option -t: to the end of the program or to instr_limit, and    *)
(* then against step_state from the same memory.                           *)
(***************************************************************************)
EXTENDS Yas, Seq, Pipe

CONSTANTS Programs,     \* sets of source files, as sequences of statements
          InstrLimit    \* instr_limit, 10000 unless -l sets it

ASSUME InstrLimitAssumption == InstrLimit \in Nat

VARIABLES source,       \* the program being run
          phase,        \* "seq", "pipe" or "done"
          seq,          \* SEQ's state
          pipe,         \* PIPE's state
          icount        \* instructions the current sim_run has counted

vars == <<source, phase, seq, pipe, icount>>

------------------------------------------------------------------------------
(* A statement has a label or "", a mnemonic and up to two operands, each  *)
(* the sequence of its tokens; the scanner passes them on in this order.   *)

Tokens(s) ==
    (IF s.lab = "" THEN <<>> ELSE <<IDENT(s.lab), PUNCT(":")>>)
    \o (IF s.op = "" THEN <<>> ELSE <<INSTR(s.op)>>)
    \o s.a
    \o (IF s.b = <<>> THEN <<>> ELSE <<PUNCT(",")>> \o s.b)

Assembled(src) == assemble([i \in DOMAIN src |-> Tokens(src[i])])
Loaded(src) == load_mem(init_mem(MemLen), Assembled(src).out)

------------------------------------------------------------------------------
\* The simulators start from what load_mem has read, unless that is nothing.
Start(load) ==
    /\ load.byte_cnt > 0
    /\ phase = "seq"
    /\ seq = SeqReset(load.m)
    /\ pipe = PipeReset(load.m)
    /\ icount = 0

Init ==
    /\ source \in Programs
    /\ ~Assembled(source).hit_error
    /\ Start(Loaded(source))

\* sim_run: one sim_step, unless an error or the limit ends the run.
SeqStep ==
    /\ phase = "seq"
    /\ icount < InstrLimit
    /\ seq.status = "AOK"
    /\ seq' = sim_step(seq)
    /\ icount' = icount + 1
    /\ UNCHANGED <<source, phase, pipe>>

SeqEnds ==
    /\ phase = "seq"
    /\ icount = InstrLimit \/ seq.status # "AOK"
    /\ phase' = "pipe"
    /\ icount' = 0
    /\ UNCHANGED <<source, seq, pipe>>

\* sim_run_pipe: one sim_step_pipe.  Its status is never that of a bubble,
\* which Stat reports as AOK, so every cycle counts as an instruction and the
\* limit on cycles, five times as large, is never met.
PipeStep ==
    /\ phase = "pipe"
    /\ icount < InstrLimit
    /\ pipe.status = "AOK"
    /\ pipe' = sim_step_pipe(pipe, InstrLimit - icount)
    /\ icount' = icount + 1
    /\ UNCHANGED <<source, phase, seq>>

PipeEnds ==
    /\ phase = "pipe"
    /\ icount = InstrLimit \/ pipe.status # "AOK"
    /\ phase' = "done"
    /\ UNCHANGED <<source, seq, pipe, icount>>

Next == SeqStep \/ SeqEnds \/ PipeStep \/ PipeEnds

Spec == Init /\ [][Next]_vars /\ WF_vars(Next)

------------------------------------------------------------------------------
(* What -t compares. *)

\* Cycles PIPE loses behind an instruction: three behind a ret, two behind a
\* branch not taken.
Penalty(i, cc) ==
    CASE i.icode = "RET" -> 3
      [] i.icode = "JMP" /\ ~cond_holds(cc, NameIn(cond_t, i.ifun)) -> 2
      [] OTHER -> 0

\* The instruction uses what the one before it loads.
Uses(i, loaded) == loaded # REG_NONE /\ loaded \in {srcA(i.icode, i.ra), srcB(i.icode, i.rb)}

\* What the processors rely on in an instruction at pc that ends with stat:
\* they have its constant and the bytes PIPE reads behind it in memory, its
\* operands name registers, only a load, a store or a ret faults on an address,
\* and no byte is the code POP2, which psim does not count as an instruction.
WellFormed(pc, i, stat) ==
    /\ 0 <= pc /\ pc < MemLen => i.okc /\ pc + FetchReach < MemLen
    /\ stat = "INS" => ~instr_valid(i.icode)
    /\ i.icode # "POP2"
    /\ stat = "ADR" => i.icode \notin {"PUSHQ", "POPQ", "CALL"}
    /\ i.icode \in {"RMMOVQ", "MRMOVQ", "ALU"} => reg_valid(i.rb)
    /\ i.icode = "ALU" => reg_valid(i.ra)

\* One instruction of a run.  s and e are what the code keeps, the state and
\* its status.  Besides, the cycles PIPE loses: behind the last instruction
\* (lost only when another follows) and up to it, and the register it loads;
\* the bytes the run has fetched and those it has changed; and whether all
\* instructions were well formed.
Follow(t) ==
    LET i   == FetchInstr(t.s.m, t.s.pc)
        out == step_state(t.s)
    IN  [s |-> out.s, e |-> out.stat, steps |-> t.steps + 1,
         bubbles |-> t.bubbles + t.behind + (IF Uses(i, t.loaded) THEN 1 ELSE 0),
         behind |-> Penalty(i, t.s.cc), loaded |-> dstM(i.icode, i.ra),
         code |-> t.code \cup (t.s.pc .. (i.next - 1)),
         data |-> t.data \cup {a \in DOMAIN t.s.m : out.s.m[a] # t.s.m[a]},
         ok |-> t.ok /\ WellFormed(t.s.pc, i, out.stat)]

\* run_tty_sim: the ISA simulator from the memory the program was loaded in,
\* after up to n instructions.
IsaSteps(mem) ==
    LET run[n \in 0 .. InstrLimit] ==
            IF n = 0
            THEN [s |-> [new_state EXCEPT !.m = mem], e |-> "AOK", steps |-> 0,
                  bubbles |-> 0, behind |-> 0, loaded |-> REG_NONE,
                  code |-> {}, data |-> {}, ok |-> TRUE]
            ELSE LET t == run[n - 1] IN IF t.e = "AOK" THEN Follow(t) ELSE t
    IN  run

IsaRun(mem) == IsaSteps(mem)[InstrLimit]

\* A program on which the simulators promise to agree: its bytes are loaded, its
\* instructions are well formed and never overwritten, and it ends in time for
\* the last one to leave the pipeline before the limit.
Comparable(src) ==
    LET mem == Loaded(src).m
        run == IsaRun(mem)
    IN  /\ mem \in Memory
        /\ run.ok
        /\ run.code \cap run.data = {}
        /\ run.e # "AOK"
        /\ run.steps + run.bubbles + 6 <= InstrLimit

\* Whether run_tty_sim prints "ISA Check Succeeds", in ssim.c and in psim.c.
SeqSucceeds(run) ==
    ~diff_reg(run.s.r, seq.r) /\ ~diff_mem(run.s.m, seq.m) /\ run.s.cc = seq.cc

PipeSucceeds(run) ==
    ~diff_reg(run.s.r, pipe.r) /\ ~diff_mem(run.s.m, pipe.m) /\ run.s.cc = pipe.cc

------------------------------------------------------------------------------
(* Properties. *)

SeqIsa == INSTANCE Yis WITH
    pc <- SeqView(seq).pc, r <- SeqView(seq).r, m <- SeqView(seq).m,
    cc <- SeqView(seq).cc, e <- seq.status
\* SEQ runs every program as the instruction set says, step by step.
SeqImplementsIsa == SeqIsa!Spec

PipeIsa == INSTANCE Yis WITH
    pc <- PipeView(pipe).pc, r <- PipeView(pipe).r, m <- PipeView(pipe).m,
    cc <- PipeView(pipe).cc, e <- pipe.status
\* So does PIPE, through its forwarding, stalls and bubbles: every instruction
\* that reaches write-back is one step of step_state, and a cycle in which none
\* does changes nothing a program can see.
PipeImplementsIsa == PipeIsa!Spec

TypeOK ==
    /\ phase \in {"seq", "pipe", "done"}
    /\ icount \in 0 .. InstrLimit
    /\ \A x \in {seq, pipe} :
           /\ x.r \in [Registers -> Word]
           /\ x.m \in Memory
           /\ x.cc \in CCs
           /\ x.status \in {"AOK"} \cup Stopping

\* At most one of a stall and a bubble is asked of a pipe register, as the
\* comments of pipe-full.hcl say, whatever hazards coincide: a load whose value
\* the ret behind it needs, a ret on the path of a mispredicted branch.
NoConflict ==
    /\ TypeOK
    /\ "ERROR" \notin {pipe.F.op, pipe.D.op, pipe.E.op, pipe.M.op, pipe.W.op}

Agree(run) ==
    /\ SeqSucceeds(run) /\ PipeSucceeds(run)
    /\ seq.status = run.e /\ pipe.status = run.e
    /\ pipe.instructions = run.steps
    /\ pipe.cycles = run.steps + run.bubbles

\* What is printed at the end: the check of -t succeeds for both processors, that
\* is, registers, memory and condition codes are those of the ISA simulator, and
\* so is the status, which it does not compare.  And the CPI of PIPE is exact: it retires each instruction of
\* the program once, nothing of a path it predicted wrongly, and from the first one
\* on loses only the cycles that load/use hazards, mispredicted branches and rets cost.
RunsAgree == phase = "done" => Agree(IsaRun(Loaded(source).m))

Moves(st) == st.op \in {".pos", ".align"}

\* The address a label of line i has: the line's, but the end of the line before
\* it if this one moves on.
LabelAt(y, i) == IF Moves(source[i]) THEN y.out[i - 1].addr + Len(y.out[i - 1].code)
                 ELSE y.out[i].addr

\* The label's address, or the number.
Value(y, t) ==
    IF t.type = "NUM" THEN t.val
    ELSE LabelAt(y, CHOOSE i \in DOMAIN source : source[i].lab = t.val)

\* The instruction got is the statement st, as assembled in y at addr.
IsStatement(y, addr, st, got) ==
    LET row  == find_instr(st.op)
        toks == st.a \o st.b
        nums == SelectSeq(toks, LAMBDA t : t.type \in {"NUM", "IDENT"})
        regs == {toks[k].val : k \in {k \in DOMAIN toks : toks[k].type = "REG"}}
    IN  /\ CodeOf(got.icode, got.ifun) = row.code
        /\ got.next = addr + row.bytes
        /\ {got.ra, got.rb} \ {REG_NONE} = regs
        /\ got.valc = IF nums = <<>> THEN 0 ELSE Value(y, nums[1])

FetchedBack(y) ==
    \A i \in DOMAIN source :
        LET st   == source[i]
            addr == y.out[i].addr
        IN  CASE Moves(st)       -> TRUE
              [] st.op = ".quad" -> get_word_val(seq.m, addr) = Value(y, st.a[1])
              [] OTHER           -> IsStatement(y, addr, st, FetchInstr(seq.m, addr))

\* What yas writes for a statement, the simulators fetch back at its address:
\* code and length of its mnemonic, its registers, its constant or the address
\* its label has, also when the label is only defined further on or stands before a .pos or
\* .align.
CodeRoundTrips == phase = "seq" /\ icount = 0 => FetchedBack(Assembled(source))
==============================================================================
