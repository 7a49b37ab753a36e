--------------------------------- MODULE Seq ---------------------------------
(***************************************************************************)
(* SEQ, the sequential Y86-64 processor: sim_step of seq/ssim.c with the   *)
(* control logic of seq-full.hcl.  One step computes every signal of an    *)
(* instruction; the processor's state changes only at the start of the     *)
(* next step (update_state), so an instruction that ends the run leaves    *)
(* registers, memory and condition codes as it found them.                 *)
(***************************************************************************)
EXTENDS Hcl

\* After sim_init and load_mem: the program is in memory, all else is reset.
SeqReset(mem) ==
    [r |-> init_reg, m |-> mem, cc |-> DEFAULT_CC, cc_in |-> DEFAULT_CC,
     pc |-> 0, pc_in |-> 0, valp |-> 0,
     destE |-> REG_NONE, vale |-> 0, destM |-> REG_NONE, valm |-> 0,
     mem_write |-> FALSE, mem_addr |-> 0, mem_data |-> 0,
     status |-> "AOK"]

\* What a program sees of the processor, after the last instruction's writes.
update_state(s) ==
    [pc |-> s.pc_in,
     r |-> write_back(s.r, s.destE, s.vale, s.destM, s.valm),
     m |-> IF s.mem_write THEN set_word_val(s.m, s.mem_addr, s.mem_data) ELSE s.m,
     cc |-> s.cc_in]

\* The instruction at pc: get_byte_val and get_word_val report the register
\* byte and the constant too, but gen_Stat below discards that report.
SeqFetch(mem, pc) ==
    LET imem_error == ~ByteOK(mem, pc)
        instr  == get_byte_val(mem, pc)
        icode  == IF imem_error THEN "NOP" ELSE NameIn(itype_t, HI4(instr))
        regs   == IF need_regids(icode) THEN 1 ELSE 0
        haveRB == regs = 1 /\ ByteOK(mem, pc + 1)
        valP0  == pc + 1 + regs
    IN  [imem_error |-> imem_error, icode |-> icode,
         ifun |-> IF imem_error THEN 0 ELSE LO4(instr),
         ra   |-> IF haveRB THEN HI4(mem[pc + 1]) ELSE REG_NONE,
         rb   |-> IF haveRB THEN LO4(mem[pc + 1]) ELSE REG_NONE,
         valc |-> IF need_valC(icode) THEN get_word_val(mem, valP0) ELSE 0,
         valp |-> valP0 + (IF need_valC(icode) THEN WordBytes ELSE 0)]

Stat(icode, imem_error, dmem_error) ==
    IF imem_error \/ dmem_error THEN "ADR"
    ELSE IF ~instr_valid(icode) THEN "INS"
    ELSE IF icode = "HALT" THEN "HLT"
    ELSE "AOK"

\* Mutant: jumps are taken whatever the condition.
new_pcAlwaysTaken(icode, cnd, valC, valM, valP) ==
    IF icode = "RET" THEN valM ELSE IF icode \in {"CALL", "JMP"} THEN valC ELSE valP

new_pc(icode, cnd, valC, valM, valP) ==
    CASE icode = "CALL"        -> valC
      [] icode = "JMP" /\ cnd  -> valC
      [] icode = "RET"         -> valM
      [] OTHER                 -> valP

\* sim_step: commit the last instruction, then evaluate the next one.
sim_step(s) ==
    LET u    == update_state(s)
        f    == SeqFetch(u.m, u.pc)
        ic   == f.icode
        vala == get_reg_val(u.r, srcA(ic, f.ra))
        valb == get_reg_val(u.r, srcB(ic, f.rb))
        cond == cond_holds(u.cc, NameIn(cond_t, f.ifun))
        opA  == aluA(ic, vala, f.valc)
        opB  == aluB(ic, valb)
        vale == compute_alu(alufun(ic, f.ifun), opA, opB)
        addr == mem_addr(ic, vale, vala)
        valm == IF mem_read(ic) THEN get_word_val(u.m, addr) ELSE 0
        dmem_error == (mem_read(ic) \/ mem_write(ic)) /\ ~WordOK(u.m, addr)
    IN  [r |-> u.r, m |-> u.m, cc |-> u.cc, pc |-> u.pc, valp |-> f.valp,
         cc_in |-> IF set_cc(ic) THEN compute_cc(alufun(ic, f.ifun), opA, opB) ELSE u.cc,
         destE |-> IF ic = "RRMOVQ" /\ ~cond THEN REG_NONE ELSE dstE(ic, f.rb),
         destM |-> dstM(ic, f.ra),
         vale |-> vale, valm |-> valm,
         mem_write |-> mem_write(ic), mem_addr |-> addr,
         mem_data |-> IF ic \in {"RMMOVQ", "PUSHQ"} THEN vala
                      ELSE IF ic = "CALL" THEN f.valp ELSE 0,
         status |-> Stat(ic, f.imem_error, dmem_error),
         pc_in |-> new_pc(ic, cond, f.valc, valm, f.valp)]

\* The program-visible state SEQ stands for: that after its next update_state,
\* unless the instruction just evaluated has stopped the processor.
SeqView(s) ==
    IF s.status = "AOK" THEN update_state(s)
    ELSE [pc |-> s.pc, r |-> s.r, m |-> s.m, cc |-> s.cc]
==============================================================================
