------------------------------ MODULE MCSbuf ------------------------------
(***************************************************************************)
(* Instances of Sbuf for TLC.                                              *)
(***************************************************************************)
EXTENDS Sbuf, TLC

CONSTANTS main, main2, w1, w2, fd1, fd2

\* Two callers of sbuf_enque, as the package allows.
TwoProducers == {main, main2}
TwoWorkers == {w1, w2}
TwoDescriptors == {fd1, fd2}
=============================================================================
