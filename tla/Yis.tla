--------------------------------- MODULE Yis ---------------------------------
(***************************************************************************)
(* The instruction set as a machine: the loop of yis.c around step_state.  *)
(* The loop's bound max_steps only cuts a run short, so every prefix is    *)
(* allowed and the bound is left out.  This is the specification the       *)
(* simulators SEQ and PIPE implement.                                      *)
(***************************************************************************)
EXTENDS Isa

VARIABLES pc, r, m, cc,     \* the fields of state_rec
          e                 \* status of the last step

vars == <<pc, r, m, cc, e>>

\* After load_mem: an instruction memory, everything else reset.
Init ==
    /\ pc = new_state.pc
    /\ r = new_state.r
    /\ cc = new_state.cc
    /\ m \in Memory
    /\ e = "AOK"

Step ==
    LET out == step_state([pc |-> pc, r |-> r, m |-> m, cc |-> cc])
    IN  /\ e = "AOK"
        /\ pc' = out.s.pc
        /\ r' = out.s.r
        /\ m' = out.s.m
        /\ cc' = out.s.cc
        /\ e' = out.stat

Spec == Init /\ [][Step]_vars
==============================================================================
