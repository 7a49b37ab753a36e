--------------------------------- MODULE Hcl ---------------------------------
(***************************************************************************)
(* The control logic that seq-full.hcl and pipe-full.hcl have in common,   *)
(* one operator per signal.  SEQ applies a signal to the instruction it    *)
(* executes, PIPE to the instruction in the stage whose prefix the signal  *)
(* carries there (f_, d_, E_, M_).  A selection without a default is 0.    *)
(***************************************************************************)
EXTENDS Isa

instr_valid(icode) ==
    icode \in {"NOP", "HALT", "RRMOVQ", "IRMOVQ", "RMMOVQ", "MRMOVQ", "ALU", "JMP",
               "CALL", "RET", "PUSHQ", "POPQ", "IADDQ"}

need_regids(icode) ==
    icode \in {"RRMOVQ", "ALU", "PUSHQ", "POPQ", "IRMOVQ", "RMMOVQ", "MRMOVQ", "IADDQ"}

need_valC(icode) == icode \in {"IRMOVQ", "RMMOVQ", "MRMOVQ", "JMP", "CALL", "IADDQ"}

srcA(icode, rA) ==
    CASE icode \in {"RRMOVQ", "RMMOVQ", "ALU", "PUSHQ"} -> rA
      [] icode \in {"POPQ", "RET"}                      -> REG_RSP
      [] OTHER                                          -> REG_NONE

srcB(icode, rB) ==
    CASE icode \in {"ALU", "RMMOVQ", "MRMOVQ", "IADDQ"} -> rB
      [] icode \in {"PUSHQ", "POPQ", "CALL", "RET"}     -> REG_RSP
      [] OTHER                                          -> REG_NONE

\* Before a conditional move is cancelled.
dstE(icode, rB) ==
    CASE icode \in {"RRMOVQ", "IRMOVQ", "ALU", "IADDQ"} -> rB
      [] icode \in {"PUSHQ", "POPQ", "CALL", "RET"}     -> REG_RSP
      [] OTHER                                          -> REG_NONE

dstM(icode, rA) == IF icode \in {"MRMOVQ", "POPQ"} THEN rA ELSE REG_NONE

aluA(icode, valA, valC) ==
    CASE icode \in {"RRMOVQ", "ALU"}                       -> valA
      [] icode \in {"IRMOVQ", "RMMOVQ", "MRMOVQ", "IADDQ"} -> valC
      [] icode \in {"CALL", "PUSHQ"}                       -> -WordBytes
      [] icode \in {"RET", "POPQ"}                         -> WordBytes
      [] OTHER                                             -> 0

aluB(icode, valB) ==
    IF icode \in {"RMMOVQ", "MRMOVQ", "ALU", "CALL", "PUSHQ", "RET", "POPQ", "IADDQ"}
    THEN valB ELSE 0

alufun(icode, ifun) == IF icode = "ALU" THEN NameIn(alu_t, ifun) ELSE "ADD"

set_cc(icode) == icode \in {"ALU", "IADDQ"}

mem_read(icode) == icode \in {"MRMOVQ", "POPQ", "RET"}

mem_write(icode) == icode \in {"RMMOVQ", "PUSHQ", "CALL"}

mem_addr(icode, valE, valA) ==
    CASE icode \in {"RMMOVQ", "PUSHQ", "CALL", "MRMOVQ"} -> valE
      [] icode \in {"POPQ", "RET"}                       -> valA
      [] OTHER                                           -> 0
------------------------------------------------------------------------------
\* The writes to the register file, valE before valM: popq %rsp keeps the value
\* popped.
write_back(r, destE, valE, destM, valM) ==
    set_reg_val(set_reg_val(r, destE, valE), destM, valM)
==============================================================================
