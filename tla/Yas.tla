--------------------------------- MODULE Yas ---------------------------------
(***************************************************************************)
(* yas, the two-pass assembler (misc/yas.c), and load_mem of isa.c, which  *)
(* reads what it writes.  A source file is a sequence of lines, a line the *)
(* sequence of tokens the scanner makes of it: a record of its type and    *)
(* its value.  Pass 1 gives the labels their addresses, pass 2 emits code. *)
(***************************************************************************)
EXTENDS Isa, SequencesExt

IDENT(s) == [type |-> "IDENT", val |-> s]
NUM(n)   == [type |-> "NUM", val |-> n]
REG(id)  == [type |-> "REG", val |-> id]
INSTR(s) == [type |-> "INSTR", val |-> s]
PUNCT(c) == [type |-> "PUNCT", val |-> c]

\* start_line fills the tokens a line does not have.
TokenAt(tokens, tpos) == IF tpos \in DOMAIN tokens THEN tokens[tpos]
                         ELSE [type |-> "ERR", val |-> ""]
IsPunct(t, c) == t.type = "PUNCT" /\ t.val = c

------------------------------------------------------------------------------
(* instruction_set: code, length and operands of each mnemonic.  An operand *)
(* has a kind, a position in the code and, as hi, the half of the byte a    *)
(* register goes to or the number of bytes of an immediate.                 *)

NO_ARG == [kind |-> "NO_ARG", pos |-> 0, hi |-> 0]
R_ARG(hi) == [kind |-> "R_ARG", pos |-> 1, hi |-> hi]
M_ARG == [kind |-> "M_ARG", pos |-> 1, hi |-> 0]
I_ARG(pos, bytes) == [kind |-> "I_ARG", pos |-> pos, hi |-> bytes]

CodeOf(icode, ifun) == 16 * ((CHOOSE i \in DOMAIN itype_t : itype_t[i] = icode) - 1) + ifun

instruction_set ==
    LET Row(name, code, bytes, arg1, arg2) ==
            [name |-> name, code |-> code, bytes |-> bytes, arg1 |-> arg1, arg2 |-> arg2]
        Family(names, icode, bytes, arg1, arg2) ==
            {Row(names[i], CodeOf(icode, i - 1), bytes, arg1, arg2) : i \in DOMAIN names}
        WB == WordBytes
    IN  Family(<<"halt">>, "HALT", 1, NO_ARG, NO_ARG)
   \cup Family(<<"nop">>, "NOP", 1, NO_ARG, NO_ARG)
   \cup Family(<<"rrmovq", "cmovle", "cmovl", "cmove", "cmovne", "cmovge", "cmovg">>,
               "RRMOVQ", 2, R_ARG(1), R_ARG(0))
   \cup Family(<<"irmovq">>, "IRMOVQ", 2 + WB, I_ARG(2, WB), R_ARG(0))
   \cup Family(<<"rmmovq">>, "RMMOVQ", 2 + WB, R_ARG(1), M_ARG)
   \cup Family(<<"mrmovq">>, "MRMOVQ", 2 + WB, M_ARG, R_ARG(1))
   \cup Family(<<"addq", "subq", "andq", "xorq">>, "ALU", 2, R_ARG(1), R_ARG(0))
   \cup Family(<<"jmp", "jle", "jl", "je", "jne", "jge", "jg">>,
               "JMP", 1 + WB, I_ARG(1, WB), NO_ARG)
   \cup Family(<<"call">>, "CALL", 1 + WB, I_ARG(1, WB), NO_ARG)
   \cup Family(<<"ret">>, "RET", 1, NO_ARG, NO_ARG)
   \cup Family(<<"pushq">>, "PUSHQ", 2, R_ARG(1), NO_ARG)
   \cup Family(<<"popq">>, "POPQ", 2, R_ARG(1), NO_ARG)
   \cup Family(<<"iaddq">>, "IADDQ", 2 + WB, I_ARG(2, WB), R_ARG(0))
   \cup {Row(".byte", 0, 1, I_ARG(0, 1), NO_ARG), Row(".word", 0, 2, I_ARG(0, 2), NO_ARG),
         Row(".long", 0, 4, I_ARG(0, 4), NO_ARG), Row(".quad", 0, WB, I_ARG(0, WB), NO_ARG)}

find_instr(name) == CHOOSE i \in instruction_set : i.name = name

------------------------------------------------------------------------------
(* Operands.  A line being translated is its code, the next token and      *)
(* whether it has failed; a failed operand leaves both where they are and   *)
(* the line goes on.                                                        *)

Failed(l) == [l EXCEPT !.error = TRUE]

get_reg(l, tokens, pos, hi) ==
    LET t == TokenAt(tokens, l.tpos)
        c == l.code[pos]
    IN  IF t.type # "REG" THEN Failed(l)
        ELSE [l EXCEPT !.code[pos] = IF hi = 1 THEN LO4(c) + 16 * t.val
                                     ELSE 16 * HI4(c) + t.val,
                       !.tpos = l.tpos + 1]

\* The first symbol of that name; a missing one is an error and counts as -1.
find_symbol(symbols, name) ==
    LET found == {i \in DOMAIN symbols : symbols[i].name = name}
    IN  IF found = {} THEN [pos |-> -1, error |-> TRUE]
        ELSE [pos |-> symbols[Min(found)].pos, error |-> FALSE]

NumberOf(symbols, t) == IF t.type = "NUM" THEN [pos |-> t.val, error |-> FALSE]
                        ELSE find_symbol(symbols, t.val)

\* Mutant: the most significant byte comes first.
PutBytesReversed(code, pos, bytes, val) ==
    [i \in DOMAIN code |-> IF i \in pos .. (pos + bytes - 1)
                           THEN (val \div 256 ^ (pos + bytes - 1 - i)) % 256 ELSE code[i]]

PutBytes(code, pos, bytes, val) ==
    [i \in DOMAIN code |-> IF i \in pos .. (pos + bytes - 1)
                           THEN (val \div 256 ^ (i - pos)) % 256 ELSE code[i]]

get_num(l, tokens, symbols, pos, bytes) ==
    LET t == TokenAt(tokens, l.tpos)
        v == NumberOf(symbols, t)
    IN  IF t.type \notin {"NUM", "IDENT"} THEN Failed(l)
        ELSE [code |-> PutBytes(l.code, pos, bytes, v.pos),
              tpos |-> l.tpos + 1, error |-> l.error \/ v.error]

\* Num(Reg), (Reg), Num, Ident or Ident(Reg).
get_mem(l, tokens, symbols, pos) ==
    LET t     == TokenAt(tokens, l.tpos)
        disp  == t.type \in {"NUM", "IDENT"}
        v     == IF disp THEN NumberOf(symbols, t) ELSE [pos |-> 0, error |-> FALSE]
        at    == IF disp THEN l.tpos + 1 ELSE l.tpos
        based == IsPunct(TokenAt(tokens, at), "(")
        base  == TokenAt(tokens, at + 1)
        lost  == [l EXCEPT !.error = TRUE, !.tpos = at + 1]
    IN  IF based /\ base.type # "REG" THEN lost
        ELSE IF based /\ ~IsPunct(TokenAt(tokens, at + 2), ")") THEN [lost EXCEPT !.tpos = at + 2]
        ELSE [code |-> PutBytes([l.code EXCEPT
                                    ![pos] = 16 * HI4(@) + (IF based THEN base.val ELSE REG_NONE)],
                                pos + 1, WordBytes, v.pos),
              tpos |-> IF based THEN at + 3 ELSE at,
              error |-> l.error \/ v.error]

Operand(l, tokens, symbols, arg) ==
    CASE arg.kind = "R_ARG"  -> get_reg(l, tokens, arg.pos, arg.hi)
      [] arg.kind = "M_ARG"  -> get_mem(l, tokens, symbols, arg.pos)
      [] arg.kind = "I_ARG"  -> get_num(l, tokens, symbols, arg.pos, arg.hi)
      [] arg.kind = "NO_ARG" -> l

------------------------------------------------------------------------------
(* finish_line.  The assembler's state is its pass, the address of the next *)
(* instruction, the symbols in the order they were added, what is written   *)
(* to the .yo file, and hit_error.                                          *)

\* print_code: the address and the code on a line of the .yo file.
print_code(y, pos, code) ==
    IF y.pass = 1 THEN y ELSE [y EXCEPT !.out = Append(@, [addr |-> pos, code |-> code])]

fail(y) == [y EXCEPT !.hit_error = TRUE]

\* An instruction or data directive at tokens[tpos].
AssembleInstr(y, tokens, tpos) ==
    LET instr == find_instr(tokens[tpos].val)
        next  == [y EXCEPT !.bytepos = @ + instr.bytes]
        blank == [code |-> [i \in 0 .. 9 |->
                               IF i = 0 THEN instr.code
                               ELSE IF i = 1 THEN 16 * REG_NONE + REG_NONE ELSE 0],
                  tpos |-> tpos + 1, error |-> FALSE]
        one   == Operand(blank, tokens, y.symbols, instr.arg1)
        comma == IsPunct(TokenAt(tokens, one.tpos), ",")
        two   == IF instr.arg2.kind = "NO_ARG" THEN one
                 ELSE Operand([one EXCEPT !.tpos = @ + 1], tokens, y.symbols, instr.arg2)
        code  == [i \in 1 .. instr.bytes |-> two.code[i - 1]]
    IN  IF y.pass = 1 THEN next
        ELSE IF instr.arg2.kind # "NO_ARG" /\ ~comma THEN fail(next)
        ELSE [print_code(next, y.bytepos, code) EXCEPT !.hit_error = @ \/ two.error]

\* What follows the label, if any, of a line.
Statement(y, tokens, tpos) ==
    LET t   == TokenAt(tokens, tpos)
        arg == TokenAt(tokens, tpos + 1)
        MoveTo(pos) == print_code([y EXCEPT !.bytepos = pos], pos, <<>>)
    IN  CASE t.type # "INSTR" -> fail(y)
          [] t.type = "INSTR" /\ t.val = ".pos" ->
                IF arg.type # "NUM" THEN fail(y) ELSE MoveTo(arg.val)
          [] t.type = "INSTR" /\ t.val = ".align" ->
                IF arg.type # "NUM" THEN fail(y)
                ELSE IF arg.val <= 0 THEN fail(y)
                ELSE MoveTo(((y.bytepos + arg.val - 1) \div arg.val) * arg.val)
          [] OTHER -> AssembleInstr(y, tokens, tpos)

finish_line(y, tokens) ==
    LET labelled == tokens[1].type = "IDENT"
        defined  == IF y.pass > 1 THEN y
                    ELSE [y EXCEPT !.symbols =
                             Append(@, [name |-> tokens[1].val, pos |-> y.bytepos])]
    IN  IF tokens = <<>> THEN y
        ELSE IF ~labelled THEN Statement(y, tokens, 1)
        ELSE IF ~IsPunct(TokenAt(tokens, 2), ":") THEN fail(y)
        ELSE IF Len(tokens) = 2 THEN print_code(defined, y.bytepos, <<>>)
        ELSE Statement(defined, tokens, 3)

\* main: pass 2 runs only if pass 1 found no error.
Pass2(y, source) ==
    IF y.hit_error THEN y
    ELSE FoldLeft(finish_line, [y EXCEPT !.pass = 2, !.bytepos = 0], source)

assemble(source) ==
    LET start == [pass |-> 1, bytepos |-> 0, symbols |-> <<>>, out |-> <<>>, hit_error |-> FALSE]
    IN  Pass2(FoldLeft(finish_line, start, source), source)

------------------------------------------------------------------------------
\* load_mem: the bytes of each line from its address on; the first byte beyond
\* the memory ends the load and its result is 0.
load_mem(m, out) ==
    LET Put(l, line) ==
            LET fits == line.addr + Len(line.code) <= MemLen
                new  == [a \in DOMAIN l.m |->
                            IF a \in line.addr .. (line.addr + Len(line.code) - 1)
                            THEN line.code[a - line.addr + 1] ELSE l.m[a]]
            IN  IF ~l.ok THEN l
                ELSE [m |-> new, ok |-> fits, count |-> l.count + Len(line.code)]
        end == FoldLeft(Put, [m |-> m, ok |-> TRUE, count |-> 0], out)
    IN  [m |-> end.m, byte_cnt |-> IF end.ok THEN end.count ELSE 0]
==============================================================================
