---------------------------- MODULE MCLruCache ----------------------------
(***************************************************************************)
(* Instances of LruCache for TLC.                                          *)
(***************************************************************************)
EXTENDS LruCache, TLC

CONSTANTS w1, w2, k1, k2, n1, n2, n3, n4, n5

TwoWorkers == {w1, w2}
TwoKeys == {k1, k2}

\* An item has at least one byte, so at most MaxSize of them are linked, and
\* each worker holds at most one more: malloc never runs out of addresses.
FiveNodes == {n1, n2, n3, n4, n5}

\* Workers, keys and addresses are only compared for equality.
Symmetry ==
  Permutations(Threads) \cup Permutations(Keys) \cup Permutations(Nodes)
=============================================================================
