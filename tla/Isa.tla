--------------------------------- MODULE Isa ---------------------------------
(***************************************************************************)
(* The Y86-64 instruction set as sim/misc/isa.c defines it: words, memory, *)
(* registers, the ALU and its condition codes, and step_state, which       *)
(* executes one instruction.  yis runs it, and the simulators compare      *)
(* themselves with it under -t.  A word is WordBytes bytes wide (8 in the  *)
(* code), so the longest instruction has 2 + WordBytes bytes.              *)
(***************************************************************************)
EXTENDS Integers, Sequences

CONSTANTS WordBytes,    \* bytes in a word_t, 8 in the code
          HalfWord,     \* a word is -HalfWord .. HalfWord - 1
          MemLen        \* MEM_SIZE

ASSUME IsaAssumption ==
    /\ WordBytes \in Nat \ {0}
    /\ HalfWord \in Nat
    /\ MemLen \in Nat
    /\ WordBytes < MemLen
    /\ MemLen + WordBytes < HalfWord

\* Powers of two, up to the number of words.
Pow2[n \in 0 .. (8 * WordBytes)] == IF n = 0 THEN 1 ELSE 2 * Pow2[n - 1]

ASSUME HalfWordIsSignBit == 2 * HalfWord = Pow2[8 * WordBytes]

Word == -HalfWord .. (HalfWord - 1)
Byte == 0 .. 255
Memory == [0 .. (MemLen - 1) -> Byte]

\* Two's complement: what is left of the sum of two words.
Wrap(x) == IF x >= HalfWord THEN x - 2 * HalfWord
           ELSE IF x < -HalfWord THEN x + 2 * HalfWord
           ELSE x

------------------------------------------------------------------------------
(* Names of the codes an instruction byte holds in its two halves. *)

itype_t == <<"HALT", "NOP", "RRMOVQ", "IRMOVQ", "RMMOVQ", "MRMOVQ", "ALU", "JMP",
             "CALL", "RET", "PUSHQ", "POPQ", "IADDQ", "POP2">>
alu_t == <<"ADD", "SUB", "AND", "XOR">>
cond_t == <<"YES", "LE", "L", "E", "NE", "GE", "G">>

NameIn(names, code) == IF code < Len(names) THEN names[code + 1] ELSE "NONE"

HI4(byte) == byte \div 16
LO4(byte) == byte % 16

REG_RSP == 4
REG_NONE == 15
Registers == 0 .. (REG_NONE - 1)
reg_valid(id) == id \in Registers

------------------------------------------------------------------------------
(* Memory is a function from addresses to bytes, the least significant byte *)
(* of a word first; a register file is a function from register IDs.        *)

init_mem(len) == [a \in 0 .. (len - 1) |-> 0]
init_reg == [id \in Registers |-> 0]

\* An address so near the top of the word that the C code's pos + 8 overflows is
\* refused here like every other one behind the memory.
ByteOK(m, pos) == 0 <= pos /\ pos < MemLen
WordOK(m, pos) == 0 <= pos /\ pos + WordBytes <= MemLen

\* What the caller's variable holds afterwards: it starts at 0 and keeps that
\* value when the address is refused.
get_byte_val(m, pos) == IF ByteOK(m, pos) THEN m[pos] ELSE 0

\* The word that bytes make up; low[n] is that of the first n, unsigned.
FromBytes(bytes) ==
    LET low[n \in 0 .. WordBytes] ==
            IF n = 0 THEN 0 ELSE low[n - 1] + bytes[n - 1] * Pow2[8 * (n - 1)]
    IN  Wrap(low[WordBytes])

get_word_val(m, pos) ==
    IF WordOK(m, pos) THEN FromBytes([n \in 0 .. (WordBytes - 1) |-> m[pos + n]]) ELSE 0

set_word_val(m, pos, val) ==
    IF WordOK(m, pos)
    THEN [a \in DOMAIN m |->
             IF a \in pos .. (pos + WordBytes - 1)
             THEN (val \div Pow2[8 * (a - pos)]) % 256
             ELSE m[a]]
    ELSE m

get_reg_val(r, id) == IF reg_valid(id) THEN r[id] ELSE 0
set_reg_val(r, id, val) == IF reg_valid(id) THEN [r EXCEPT ![id] = val] ELSE r

------------------------------------------------------------------------------
(* The ALU: argB op argA, and the condition codes of the result. *)

Bits == 0 .. (8 * WordBytes - 1)
Bit(x, i) == ((x % (2 * HalfWord)) \div Pow2[i]) % 2

\* The word that bits make up.
FromBits(bits) ==
    LET low[n \in 0 .. (8 * WordBytes)] ==
            IF n = 0 THEN 0 ELSE low[n - 1] + bits[n - 1] * Pow2[n - 1]
    IN  Wrap(low[8 * WordBytes])

compute_alu(op, argA, argB) ==
    CASE op = "ADD" -> Wrap(argA + argB)
      [] op = "SUB" -> Wrap(argB - argA)
      [] op = "AND" -> FromBits([i \in Bits |-> Bit(argA, i) * Bit(argB, i)])
      [] op = "XOR" -> FromBits([i \in Bits |-> (Bit(argA, i) + Bit(argB, i)) % 2])
      [] OTHER      -> 0

DEFAULT_CC == [zf |-> TRUE, sf |-> FALSE, of |-> FALSE]
CCs == [zf : BOOLEAN, sf : BOOLEAN, of : BOOLEAN]

compute_cc(op, argA, argB) ==
    LET val == compute_alu(op, argA, argB)
        ovf == CASE op = "ADD" -> /\ (argA < 0) = (argB < 0)
                                  /\ (val < 0) # (argA < 0)
                 [] op = "SUB" -> /\ (argA > 0) = (argB < 0)
                                  /\ (val < 0) # (argB < 0)
                 [] OTHER      -> FALSE
    IN  [zf |-> (val = 0), sf |-> (val < 0), of |-> ovf]

cond_holds(cc, bcond) ==
    LET less == cc.sf # cc.of
    IN  CASE bcond = "YES" -> TRUE
          [] bcond = "LE"  -> less \/ cc.zf
          [] bcond = "L"   -> less
          [] bcond = "E"   -> cc.zf
          [] bcond = "NE"  -> ~cc.zf
          [] bcond = "GE"  -> ~less
          [] bcond = "G"   -> ~less /\ ~cc.zf
          [] OTHER         -> FALSE

------------------------------------------------------------------------------
(* step_state.  A state is a record of pc, r, m and cc. *)

NeedRegids(icode) == icode \in {"RRMOVQ", "ALU", "PUSHQ", "POPQ", "IRMOVQ",
                                "RMMOVQ", "MRMOVQ", "IADDQ"}
NeedImm(icode) == icode \in {"IRMOVQ", "RMMOVQ", "MRMOVQ", "JMP", "CALL", "IADDQ"}

\* The bytes of the instruction at pc, and where the next one starts.
FetchInstr(m, pc) ==
    LET byte0   == get_byte_val(m, pc)
        icode   == NameIn(itype_t, HI4(byte0))
        regs    == IF NeedRegids(icode) THEN 1 ELSE 0
        byte1   == get_byte_val(m, pc + 1)
    IN  [icode |-> icode, ifun |-> LO4(byte0),
         ra   |-> IF regs = 1 THEN HI4(byte1) ELSE REG_NONE,
         rb   |-> IF regs = 1 THEN LO4(byte1) ELSE REG_NONE,
         valc |-> IF NeedImm(icode) THEN get_word_val(m, pc + 1 + regs) ELSE 0,
         ok1  |-> regs = 1 => ByteOK(m, pc + 1),
         okc  |-> NeedImm(icode) => WordOK(m, pc + 1 + regs),
         next |-> pc + 1 + regs + (IF NeedImm(icode) THEN WordBytes ELSE 0)]

\* The register fields that must name a register, by instruction.
RegsOK(i) ==
    CASE i.icode = "RRMOVQ"                                -> reg_valid(i.ra) /\ reg_valid(i.rb)
      [] i.icode \in {"IRMOVQ", "IADDQ"}                   -> reg_valid(i.rb)
      [] i.icode \in {"RMMOVQ", "MRMOVQ", "PUSHQ", "POPQ"} -> reg_valid(i.ra)
      [] OTHER                                             -> TRUE

\* The status step_state returns before it changes anything.
FetchStatus(m, pc, i) ==
    IF ~ByteOK(m, pc) \/ ~i.ok1 THEN "ADR"
    ELSE IF i.icode \in {"NONE", "POP2"} THEN "INS"
    ELSE IF ~i.okc THEN IF i.icode \in {"JMP", "CALL"} THEN "ADR" ELSE "INS"
    ELSE IF ~RegsOK(i) THEN "INS"
    ELSE IF i.icode = "HALT" THEN "HLT"
    ELSE "AOK"

Done(t) == [s |-> t, stat |-> "AOK"]
Refused(t) == [s |-> t, stat |-> "ADR"]
SetReg(t, id, val) == [t EXCEPT !.r = set_reg_val(t.r, id, val)]
Store(t, a, val) == [t EXCEPT !.m = set_word_val(t.m, a, val)]

\* The state an instruction on the stack leaves behind, with its status: a push,
\* a pop or a call has moved %rsp when its memory access is refused.
StackEffect(s, i) ==
    LET rsp  == get_reg_val(s.r, REG_RSP)
        down == Wrap(rsp - WordBytes)
        up   == Wrap(rsp + WordBytes)
        lowered == SetReg(s, REG_RSP, down)
        raised  == SetReg(s, REG_RSP, up)
        popped  == get_word_val(s.m, rsp)
    IN  CASE i.icode = "CALL"  ->
                IF WordOK(s.m, down) THEN Done([Store(lowered, down, i.next) EXCEPT !.pc = i.valc])
                ELSE Refused(lowered)
          [] i.icode = "RET"   ->
                IF WordOK(s.m, rsp) THEN Done([raised EXCEPT !.pc = popped]) ELSE Refused(s)
          [] i.icode = "PUSHQ" ->
                IF WordOK(s.m, down)
                THEN Done([Store(lowered, down, get_reg_val(s.r, i.ra)) EXCEPT !.pc = i.next])
                ELSE Refused(lowered)
          [] i.icode = "POPQ"  ->
                IF WordOK(s.m, rsp)
                THEN Done([SetReg(raised, i.ra, popped) EXCEPT !.pc = i.next])
                ELSE Refused(raised)

\* iaddq adds a constant as the ALU would, and sets the condition codes too.
AddImmediate(t, id, valc) ==
    LET B == get_reg_val(t.r, id)
    IN  [SetReg(t, id, compute_alu("ADD", valc, B)) EXCEPT !.cc = compute_cc("ADD", valc, B)]

\* The same for the other instructions.
Effect(s, i) ==
    LET A    == get_reg_val(s.r, i.ra)
        B    == get_reg_val(s.r, i.rb)
        addr == Wrap(i.valc + B)
        op   == NameIn(alu_t, i.ifun)
        next == [s EXCEPT !.pc = i.next]
        taken == cond_holds(s.cc, NameIn(cond_t, i.ifun))
    IN  CASE i.icode = "NOP"    -> Done(next)
          [] i.icode = "RRMOVQ" -> Done(IF taken THEN SetReg(next, i.rb, A) ELSE next)
          [] i.icode = "IRMOVQ" -> Done(SetReg(next, i.rb, i.valc))
          [] i.icode = "RMMOVQ" -> IF WordOK(s.m, addr) THEN Done(Store(next, addr, A))
                                   ELSE Refused(s)
          [] i.icode = "MRMOVQ" -> IF WordOK(s.m, addr)
                                   THEN Done(SetReg(next, i.ra, get_word_val(s.m, addr)))
                                   ELSE Refused(s)
          [] i.icode = "ALU"    -> Done([SetReg(next, i.rb, compute_alu(op, A, B))
                                            EXCEPT !.cc = compute_cc(op, A, B)])
          [] i.icode = "IADDQ"  -> Done(AddImmediate(next, i.rb, i.valc))
          [] i.icode = "JMP"    -> Done(IF taken THEN [s EXCEPT !.pc = i.valc] ELSE next)
          [] OTHER              -> StackEffect(s, i)

step_state(s) ==
    LET i    == FetchInstr(s.m, s.pc)
        stat == FetchStatus(s.m, s.pc, i)
    IN  IF stat = "AOK" THEN Effect(s, i) ELSE [s |-> s, stat |-> stat]

new_state == [pc |-> 0, r |-> init_reg, m |-> init_mem(MemLen), cc |-> DEFAULT_CC]

\* Whether two register files, or two memories, differ.
diff_reg(oldr, newr) == oldr # newr
diff_mem(oldm, newm) == oldm # newm
==============================================================================
