------------------------------- MODULE MCMm --------------------------------
(***************************************************************************)
(* Instances of Mm for TLC.                                                *)
(***************************************************************************)
EXTENDS Mm, TLC

CONSTANTS i1, i2, i3

TwoIds == {i1, i2}
ThreeIds == {i1, i2, i3}

Symmetry == Permutations(Ids)

\* What a word holds that is no tag of a block and no payload of the client is
\* never read again before it is written: states that differ there only are one.
\* Nothing is read of a heap after a stale reset.
View == IF stale THEN <<untidy>> ELSE
  LET tags == UNION {{Hdr(b), Ftr(heap, b)} : b \in Blocks \ {heap.brk}}
      payload(id) == live[id].bp .. live[id].bp + live[id].size - 1
      read == tags \cup UNION {payload(id) : id \in Ids}
  IN  <<[p \in read |-> heap.mem[p]], heap.brk, heap.last, heap.lists, live, kept, failed, untidy>>
=============================================================================
