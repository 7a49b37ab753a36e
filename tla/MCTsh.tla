------------------------------- MODULE MCTsh -------------------------------
(***************************************************************************)
(* Instances of Tsh for TLC.                                               *)
(***************************************************************************)
EXTENDS Tsh

CONSTANTS p1, p2

TwoPids == {p1, p2}
=============================================================================
