------------------------------ MODULE LruList ------------------------------
(***************************************************************************)
(* A least-recently-used list of items, most recently used first, as the   *)
(* pure operators lru_get and lru_put of proxylab-handout/cache.c compute  *)
(* on it.                                                                  *)
(***************************************************************************)
EXTENDS Integers, Sequences, SequencesExt

CONSTANT MaxSize  \* lru_t.max_size

\* What a lookup that misses returns.
None == [none |-> TRUE]

Item(k, r, s) == [key |-> k, resp |-> r, size |-> s]

\* The total size of a sequence of items.
Total(s) == FoldSeq(LAMBDA it, acc : it.size + acc, 0, s)

\* The most recently used items that leave room for n more.
Trim(s, n) ==
  LET fits == {i \in 0 .. Len(s) : Total(SubSeq(s, 1, i)) + n <= MaxSize}
  IN  SubSeq(s, 1, CHOOSE i \in fits : \A j \in fits : j <= i)

\* Inserting an item evicts as few least recently used items as it must.
Insert(s, it) == <<it>> \o Trim(s, it.size)

\* Positions of key k; the most recent one is what a lookup finds.
Hits(s, k) == {i \in 1 .. Len(s) : s[i].key = k}
First(s, k) == CHOOSE i \in Hits(s, k) : \A j \in Hits(s, k) : i <= j

\* A lookup that hits makes the item the most recently used.
Touch(s, k) ==
  IF Hits(s, k) = {} THEN s
  ELSE <<s[First(s, k)]>> \o RemoveAt(s, First(s, k))

Lookup(s, k) == IF Hits(s, k) = {} THEN None ELSE s[First(s, k)].resp
=============================================================================
