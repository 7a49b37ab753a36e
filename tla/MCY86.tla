-------------------------------- MODULE MCY86 --------------------------------
(***************************************************************************)
(* Programs for Y86 in the manner of sim/ptest: a frame that sets up the   *)
(* stack, three instructions from a menu that covers every kind of hazard, *)
(* a branch target and data.  Words have two bytes.                        *)
(***************************************************************************)
EXTENDS Y86

rax == <<REG(0)>>
rcx == <<REG(1)>>
rsp == <<REG(4)>>
Num(n) == <<NUM(n)>>
Sym(s) == <<IDENT(s)>>
At(disp, reg) == disp \o <<PUNCT("("), reg[1], PUNCT(")")>>

Op(op, a, b) == [lab |-> "", op |-> op, a |-> a, b |-> b]
Label(s, stmt) == [stmt EXCEPT !.lab = s]

Menu == {Op("addq", rax, rcx), Op("subq", rax, rcx), Op("iaddq", Num(-1), rax),
         Op("cmovl", rax, rcx), Op("mrmovq", At(<<>>, rsp), rax),
         Op("rmmovq", rax, At(Num(2), rsp)),
         Op("pushq", rsp, <<>>), Op("pushq", rax, <<>>),
         Op("popq", rsp, <<>>), Op("popq", rax, <<>>),
         Op("jne", Sym("T"), <<>>), Op("call", Sym("T"), <<>>), Op("ret", <<>>, <<>>),
         Op("mrmovq", At(Num(-1), rcx), rcx)}

Frame(slots) ==
    <<Op("irmovq", Sym("Stack"), rsp)>>
    \o slots
    \o <<Op("halt", <<>>, <<>>),
         Label("T", Op("xorq", rax, rcx)),
         Op("ret", <<>>, <<>>),
         Label("End", Op(".align", Num(4), <<>>)),
         Label("Gap", Op(".pos", Num(54), <<>>)),
         Label("Stack", Op(".quad", Sym("Next"), <<>>)),
         Label("Next", Op(".quad", Sym("Stack"), <<>>)),
         Op(".quad", Sym("End"), <<>>),
         Op(".quad", Sym("Gap"), <<>>)>>

MCPrograms == {src \in {Frame(<<a, b, c>>) : a, b, c \in Menu} : Comparable(src)}
==============================================================================
