-------------------------------- MODULE Pipe --------------------------------
(***************************************************************************)
(* PIPE, the five-stage Y86-64 processor: pipe/psim.c with the control     *)
(* logic of pipe-full.hcl.  A processor is a record: the register file r,  *)
(* the memory m, the condition codes, the writes that wait for the next    *)
(* clock edge, and the pipe registers F, D, E, M and W, each with the      *)
(* contents the stage sees (cur), those computed for it (nxt) and what the *)
(* clock edge does with them (op).                                         *)
(***************************************************************************)
EXTENDS Hcl, FiniteSetsExt

bubble_pc == [pc |-> 0, status |-> "AOK"]
bubble_if_id == [icode |-> "NOP", ifun |-> 0, ra |-> REG_NONE, rb |-> REG_NONE,
                 valc |-> 0, valp |-> 0, status |-> "BUB", stage_pc |-> 0]
bubble_id_ex == [icode |-> "NOP", ifun |-> 0, valc |-> 0, vala |-> 0, valb |-> 0,
                 srca |-> REG_NONE, srcb |-> REG_NONE, deste |-> REG_NONE,
                 destm |-> REG_NONE, status |-> "BUB", stage_pc |-> 0]
bubble_ex_mem == [icode |-> "NOP", ifun |-> 0, takebranch |-> FALSE, vale |-> 0, vala |-> 0,
                  deste |-> REG_NONE, destm |-> REG_NONE, status |-> "BUB", stage_pc |-> 0]
bubble_mem_wb == [icode |-> "NOP", ifun |-> 0, vale |-> 0, valm |-> 0,
                  deste |-> REG_NONE, destm |-> REG_NONE, status |-> "BUB", stage_pc |-> 0]

new_pipe(bubble) == [cur |-> bubble, nxt |-> bubble, op |-> "LOAD"]

Stopping == {"ADR", "INS", "HLT"}

\* sim_init, sim_reset and load_mem.  cc_was is not in the code: it holds the
\* condition codes before the last clock edge, for PipeView.
PipeReset(mem) ==
    [r |-> init_reg, m |-> mem,
     cc |-> DEFAULT_CC, cc_in |-> DEFAULT_CC, cc_was |-> DEFAULT_CC,
     wb_destE |-> REG_NONE, wb_valE |-> 0, wb_destM |-> REG_NONE, wb_valM |-> 0,
     mem_addr |-> 0, mem_data |-> 0, mem_write |-> FALSE,
     F |-> new_pipe(bubble_pc), D |-> new_pipe(bubble_if_id), E |-> new_pipe(bubble_id_ex),
     M |-> new_pipe(bubble_ex_mem), W |-> new_pipe(bubble_mem_wb),
     status |-> "AOK", f_pc |-> 0,
     starting_up |-> TRUE, cycles |-> 0, instructions |-> 0]

------------------------------------------------------------------------------
(* The clock edge. *)

\* Memory and condition codes keep their value when the run's last
\* instruction is ahead.
PipeUpdateState(p, update_mem, update_cc) ==
    [p EXCEPT
        !.r = write_back(p.r, p.wb_destE, p.wb_valE, p.wb_destM, p.wb_valM),
        !.m = IF update_mem /\ p.mem_write THEN set_word_val(p.m, p.mem_addr, p.mem_data)
              ELSE p.m,
        !.cc = IF update_cc THEN p.cc_in ELSE p.cc,
        !.cc_was = p.cc]

\* One pipe register: stalled, filled from the stage before, or emptied.  Two
\* conflicting orders leave a bubble that carries an error.
Clocked(pipe, bubble) ==
    [cur |-> CASE pipe.op = "STALL"  -> pipe.cur
               [] pipe.op = "LOAD"   -> pipe.nxt
               [] pipe.op = "BUBBLE" -> bubble
               [] pipe.op = "ERROR"  -> [bubble EXCEPT !.status = "PIP"],
     nxt |-> pipe.nxt,
     op  |-> IF pipe.op = "ERROR" THEN "ERROR" ELSE "LOAD"]

update_pipes(p) ==
    [p EXCEPT !.F = Clocked(p.F, bubble_pc), !.D = Clocked(p.D, bubble_if_id),
              !.E = Clocked(p.E, bubble_id_ex), !.M = Clocked(p.M, bubble_ex_mem),
              !.W = Clocked(p.W, bubble_mem_wb)]

------------------------------------------------------------------------------
(* The stages, each from the contents of the pipe registers. *)

\* A mispredicted branch in M, a ret in W, or the prediction.
f_pc(p) ==
    IF p.M.cur.icode = "JMP" /\ ~p.M.cur.takebranch THEN p.M.cur.vala
    ELSE IF p.W.cur.icode = "RET" THEN p.W.cur.valm
    ELSE p.F.cur.pc

\* How far beyond its first byte an instruction must be readable: valp+5 with
\* the 8-byte words of the code, short of the longest instruction by half a word.
FetchReach == 1 + WordBytes \div 2

\* The instruction at pc.
do_if_stage(m, pc) ==
    LET instr  == get_byte_val(m, pc)
        imem_error == ~ByteOK(m, pc) \/ ~ByteOK(m, pc + FetchReach)
        icode  == IF imem_error THEN "NOP" ELSE NameIn(itype_t, HI4(instr))
        regs   == IF need_regids(icode) THEN 1 ELSE 0
        read   == regs = 1 /\ ByteOK(m, pc + 1)
        valp0  == pc + 1 + regs
        valc   == IF need_valC(icode) THEN get_word_val(m, valp0) ELSE 0
        valp   == valp0 + (IF need_valC(icode) THEN WordBytes ELSE 0)
        status == IF imem_error THEN "ADR"
                  ELSE IF ~instr_valid(icode) THEN "INS"
                  ELSE IF icode = "HALT" THEN "HLT"
                  ELSE "AOK"
    IN  [F |-> [pc |-> IF icode \in {"JMP", "CALL"} THEN valc ELSE valp,
                status |-> IF status = "AOK" THEN "AOK" ELSE "BUB"],
         D |-> [icode |-> icode, ifun |-> IF imem_error THEN 0 ELSE LO4(instr),
                ra |-> IF read THEN HI4(m[pc + 1]) ELSE REG_NONE,
                rb |-> IF read THEN LO4(m[pc + 1]) ELSE REG_NONE,
                valc |-> valc, valp |-> valp, status |-> status, stage_pc |-> pc]]

do_mem_stage(m, M) ==
    LET addr  == mem_addr(M.icode, M.vale, M.vala)
        error == (mem_read(M.icode) \/ mem_write(M.icode)) /\ ~WordOK(m, addr)
    IN  [addr |-> addr, data |-> M.vala, write |-> mem_write(M.icode),
         W |-> [icode |-> M.icode, ifun |-> M.ifun, vale |-> M.vale,
                valm |-> IF mem_read(M.icode) THEN get_word_val(m, addr) ELSE 0,
                deste |-> M.deste, destm |-> M.destm,
                status |-> IF error THEN "ADR" ELSE M.status, stage_pc |-> M.stage_pc]]

\* The ALU's function and operands, and what it computes of them.
Alu(E) == [fun |-> alufun(E.icode, E.ifun),
           a |-> aluA(E.icode, E.vala, E.valc), b |-> aluB(E.icode, E.valb)]

Execute(E, cc) ==
    LET cnd == cond_holds(cc, NameIn(cond_t, E.ifun))
    IN  [icode |-> E.icode, ifun |-> E.ifun, takebranch |-> cnd,
         vale |-> compute_alu(Alu(E).fun, Alu(E).a, Alu(E).b), vala |-> E.vala,
         deste |-> IF E.icode = "RRMOVQ" /\ ~cnd THEN REG_NONE ELSE E.deste,
         destm |-> E.destm, status |-> E.status, stage_pc |-> E.stage_pc]

\* The codes change only while no exception is in the memory stage or beyond.
do_ex_stage(p, m_stat) ==
    LET E == p.E.cur
    IN  [cc_in |-> IF /\ set_cc(E.icode)
                      /\ m_stat \notin Stopping
                      /\ p.W.cur.status \notin Stopping
                   THEN compute_cc(Alu(E).fun, Alu(E).a, Alu(E).b) ELSE p.cc_in,
         M |-> Execute(E, p.cc)]

\* Mutant: only the result of the instruction in E is forwarded.
ForwardMissing(p, e, w, src) ==
    IF src = e.deste THEN e.vale ELSE get_reg_val(p.r, src)

\* The value of a source register: the youngest write still in the pipeline
\* wins, and valM of an instruction comes before its valE.  e and w are the
\* contents computed in this cycle for M and W.
Forward(p, e, w, src) ==
    IF src = e.deste            THEN e.vale
    ELSE IF src = p.M.cur.destm THEN w.valm
    ELSE IF src = p.M.cur.deste THEN p.M.cur.vale
    ELSE IF src = p.W.cur.destm THEN p.W.cur.valm
    ELSE IF src = p.W.cur.deste THEN p.W.cur.vale
    ELSE get_reg_val(p.r, src)

do_id_wb_stages(p, e, w) ==
    LET D    == p.D.cur
        srca == srcA(D.icode, D.ra)
        srcb == srcB(D.icode, D.rb)
    IN  [icode |-> D.icode, ifun |-> D.ifun, valc |-> D.valc,
         vala |-> IF D.icode \in {"CALL", "JMP"} THEN D.valp ELSE Forward(p, e, w, srca),
         valb |-> Forward(p, e, w, srcb),
         srca |-> srca, srcb |-> srcb,
         deste |-> dstE(D.icode, D.rb), destm |-> dstM(D.icode, D.ra),
         status |-> D.status, stage_pc |-> D.stage_pc]

pipe_cntl(stall, bubble) ==
    CASE stall /\ bubble  -> "ERROR"
      [] stall /\ ~bubble -> "STALL"
      [] ~stall /\ bubble -> "BUBBLE"
      [] OTHER            -> "LOAD"

\* A load's value is used by the instruction in D; a ret whose return address
\* is not known yet; a branch that was predicted taken and is not.
loadUse(p, d) == /\ p.E.cur.icode \in {"MRMOVQ", "POPQ"}
                 /\ p.E.cur.destm \in {d.srca, d.srcb}
retInPipe(p) == "RET" \in {p.D.cur.icode, p.E.cur.icode, p.M.cur.icode}
mispredicted(p, e) == p.E.cur.icode = "JMP" /\ ~e.takebranch

\* Mutant: the ret in D is flushed although it waits for a load.
D_bubbleHasty(p, d, e) == mispredicted(p, e) \/ retInPipe(p)

\* A load that the ret in D waits for holds it there: it is not flushed yet.
D_bubble(p, d, e) == mispredicted(p, e) \/ (retInPipe(p) /\ ~loadUse(p, d))

\* The orders for the next clock edge, one per pipe register.
do_stall_check(p, d, e, w) ==
    LET stopped == p.W.cur.status \in Stopping
    IN  [F |-> pipe_cntl(loadUse(p, d) \/ retInPipe(p), FALSE),
         D |-> pipe_cntl(loadUse(p, d), D_bubble(p, d, e)),
         E |-> pipe_cntl(FALSE, mispredicted(p, e) \/ loadUse(p, d)),
         M |-> pipe_cntl(FALSE, w.status \in Stopping \/ stopped),
         W |-> pipe_cntl(stopped, FALSE)]

\* Mutant: bubbles are retired too.
RetiresAll(p) == p.W.cur.icode # "POP2"

\* An instruction, not a bubble, is in W.
Retires(p) == p.W.cur.status # "BUB" /\ p.W.cur.icode # "POP2"

\* A bubble in W is no status of the processor.
gen_Stat(status) == IF status = "BUB" THEN "AOK" ELSE status

\* Everything the stages compute in one cycle, after the clock edge.
Stages(p) ==
    LET fetch == do_if_stage(p.m, f_pc(p))
        mem   == do_mem_stage(p.m, p.M.cur)
        ex    == do_ex_stage(p, mem.W.status)
        d     == do_id_wb_stages(p, ex.M, mem.W)
        op    == do_stall_check(p, d, ex.M, mem.W)
        W     == p.W.cur
        Filled(X, nxt, order) == [cur |-> X.cur, nxt |-> nxt, op |-> order]
    IN  [r |-> p.r, m |-> p.m, cc |-> p.cc, cc_in |-> ex.cc_in, cc_was |-> p.cc_was,
         wb_destE |-> W.deste, wb_valE |-> W.vale, wb_destM |-> W.destm, wb_valM |-> W.valm,
         mem_addr |-> mem.addr, mem_data |-> mem.data, mem_write |-> mem.write,
         F |-> Filled(p.F, fetch.F, op.F), D |-> Filled(p.D, fetch.D, op.D),
         E |-> Filled(p.E, d, op.E), M |-> Filled(p.M, ex.M, op.M),
         W |-> Filled(p.W, mem.W, op.W),
         status |-> gen_Stat(W.status), f_pc |-> f_pc(p),
         starting_up |-> p.starting_up /\ ~Retires(p),
         cycles |-> IF Retires(p) \/ ~p.starting_up THEN p.cycles + 1 ELSE p.cycles,
         instructions |-> IF Retires(p) THEN p.instructions + 1 ELSE p.instructions]

\* sim_step_pipe: max_instr more instructions are to complete.
sim_step_pipe(p, max_instr) ==
    LET One(busy)  == IF busy THEN 1 ELSE 0
        ahead_mem  == One(p.W.cur.status # "BUB")
        ahead_ex   == ahead_mem + One(p.W.nxt.status # "BUB")
    IN  Stages(update_pipes(PipeUpdateState(p, ahead_mem < max_instr, ahead_ex < max_instr)))

------------------------------------------------------------------------------
\* The program-visible state PIPE stands for: every instruction up to the one
\* in W is complete, none behind it has begun.  Memory is written on the way
\* into W; the condition codes are one instruction early.
PipeView(p) ==
    LET W == p.W.cur
        InFlight == <<p.M.cur, p.E.cur, p.D.cur>>
        busy == {i \in 1 .. 3 : InFlight[i].status # "BUB"}
        stopped == W.status \in Stopping
    IN  [pc |-> IF stopped THEN W.stage_pc
                ELSE IF busy # {} THEN InFlight[Min(busy)].stage_pc
                ELSE p.f_pc,
         r  |-> IF stopped THEN p.r
                ELSE write_back(p.r, W.deste, W.vale, W.destm, W.valm),
         m  |-> p.m,
         cc |-> p.cc_was]
==============================================================================
