-------------------------------- MODULE Mm ---------------------------------
(***************************************************************************)
(* The allocator of malloclab-handout/mm.c over the simulated heap of      *)
(* memlib.c, driven as mdriver.c drives it.                                *)
(*                                                                         *)
(* The unit is a word of 8 bytes; an address is the number of words below  *)
(* it, from the word of the prologue header on (the sentinels of the free  *)
(* lists, which come before it, are not modelled).  A word is a block     *)
(* tag, a link of a free list, or payload; what is not a tag reads as one  *)
(* of size 0.  A segregated list is the sequence of its blocks.            *)
(***************************************************************************)
EXTENDS Integers, Sequences, FiniteSets, SequencesExt, FiniteSetsExt

CONSTANTS
  Ids,       \* the trace's blocks
  NoId,      \* the content of a word that nobody has filled
  Sizes,     \* the sizes requested, in words
  MinPower,  \* MIN_FREE_SIZE: the smallest free block, as a power of 2 of words
  NumFl,     \* NUM_FL: the number of free lists
  PageSize,  \* PAGE_SIZE, in words
  MaxHeap    \* MAX_HEAP, in words

ASSUME MmAssumption ==
  /\ NoId \notin Ids
  /\ Sizes \subseteq Nat \ {0}
  /\ MinPower \in Nat /\ MinPower >= 2 \* the two links of a free block are between its tags
  /\ NumFl \in Nat \ {0}
  /\ PageSize \in Nat /\ PageSize > 2
  /\ MaxHeap \in Nat /\ MaxHeap >= PageSize + 3

VARIABLES
  heap,    \* the words, mem_brk, LAST_FREE_BP and the free lists
  live,    \* where the block of each id is, and its size: the list of ranges
  kept,    \* the last reallocation preserved the block's data
  failed,  \* a call has returned NULL or a bad range: mdriver gives up
  untidy,  \* this trace has split a block in use; after a stale reset, the last
           \* trace had, or it has ended with blocks in use
  stale    \* mm_init has started from a LAST_FREE_BP of the last trace

vars == <<heap, live, kept, failed, untidy, stale>>

Null == 0
NoBlock == [bp |-> Null, size |-> 0]
Lists == MinPower .. MinPower + NumFl - 1
Prologue == 1
FirstBp == 3  \* the block after the prologue

----------------------------------------------------------------------------
(* Words, tags, and lists *)

Tag(size, alloc) == [size |-> size, alloc |-> alloc, data |-> NoId]
Data(id) == [size |-> 0, alloc |-> 0, data |-> id]
Link == Data(NoId)

GetSize(h, p) == h.mem[p].size
GetAlloc(h, p) == h.mem[p].alloc
Hdr(bp) == bp - 1
Ftr(h, bp) == bp + GetSize(h, Hdr(bp)) - 2
NextBlk(h, bp) == bp + GetSize(h, Hdr(bp))
PrevBlk(h, bp) == bp - GetSize(h, bp - 2)
IsFree(h, bp) == GetAlloc(h, Hdr(bp)) = 0

\* The header and the footer of a block.
PutTags(h, bp, size, alloc) ==
  [h EXCEPT !.mem[Hdr(bp)] = Tag(size, alloc), !.mem[bp + size - 2] = Tag(size, alloc)]

\* The powers of 2 that bound the sizes in the lists.
Pow2[n \in 0 .. MinPower + NumFl] == IF n = 0 THEN 1 ELSE 2 * Pow2[n - 1]

\* compute_free_list_index: the last list whose sizes start at 2^n or below;
\* the first one for what is smaller.
ListOf(size) == Max({n \in Lists : Pow2[n] <= size} \cup {MinPower})

add_to_free_list(h, bp, size) ==
  IF NextBlk(h, bp) = h.brk THEN [h EXCEPT !.last = bp]
  ELSE [h EXCEPT !.lists[ListOf(size)] = <<bp>> \o @,
                 !.mem[bp] = Link, !.mem[bp + 1] = Link]

remove_from_free_list(h, bp) ==
  IF bp = h.last THEN [h EXCEPT !.last = Null]
  ELSE [h EXCEPT !.lists = [n \in Lists |-> RemoveFirst(h.lists[n], bp)]]

\* The blocks found by going from header to header up to the epilogue: found[p]
\* are those up to p.
Walk(h) ==
  LET found[p \in 0 .. h.brk] ==
        IF p = 0 THEN {}
        ELSE LET before == found[p - 1] IN
             IF p = Prologue \/ \E b \in before : NextBlk(h, b) = p THEN before \cup {p}
             ELSE before
  IN  found[h.brk]

\* The heap checker: 1 if the two tags of a block differ, or a list has a block
\* that is allocated.
mm_check(h) ==
  LET unequal(b) == \/ GetSize(h, Hdr(b)) # GetSize(h, Ftr(h, b))
                    \/ GetAlloc(h, Hdr(b)) # GetAlloc(h, Ftr(h, b))
      listed == UNION {Range(h.lists[n]) : n \in Lists}
  IN  IF \/ \E b \in Walk(h) \ {h.brk} : unequal(b)
         \/ \E b \in listed : unequal(b) \/ ~IsFree(h, b)
      THEN 1 ELSE 0

----------------------------------------------------------------------------
(* Blocks: a call that gives a block returns it with the heap *)

Gives(h, bp) == [heap |-> h, bp |-> bp]

LastSize(h) == IF h.last = Null THEN 0 ELSE GetSize(h, Hdr(h.last))

\* memlib.c's heap: the words from 0 to mem_brk, which only grows until a trace
\* is over.  mem_sbrk gives the start of the new words.
mem_sbrk(h, incr) ==
  IF h.brk + incr > MaxHeap THEN Gives(h, Null)
  ELSE Gives([h EXCEPT !.brk = @ + incr], h.brk)

mem_reset_brk(h) == [h EXCEPT !.brk = 0]

mem_heap_lo == 0
mem_heap_hi(h) == h.brk - 1

extend_heap(h, size) ==
  LET more == mem_sbrk(h, size)
      bp == IF h.last = Null THEN more.bp ELSE h.last
      total == size + LastSize(h)
      block == PutTags(more.heap, bp, total, 0)
  IN  IF more.bp = Null THEN Gives(h, Null)
      ELSE Gives(add_to_free_list([block EXCEPT !.mem[bp + total - 1] = Tag(0, 1)],
                                  bp, total), bp)

\* A neighbour is taken out of its list only if it joins.
Unlink(h, joins, b) == IF joins THEN remove_from_free_list(h, b) ELSE h

\* Mutant: the lower neighbour stays in its list.
coalesceListed(h, bp) ==
  LET next == NextBlk(h, bp)
      joinsPrev == GetAlloc(h, bp - 2) = 0
      joinsNext == IsFree(h, next)
      start == IF joinsPrev THEN PrevBlk(h, bp) ELSE bp
      end == IF joinsNext THEN NextBlk(h, next) ELSE next
      unlinked == Unlink(remove_from_free_list(h, bp), joinsNext, next)
  IN  IF ~joinsPrev /\ ~joinsNext THEN h
      ELSE add_to_free_list(PutTags(unlinked, start, end - start, 0), start, end - start)

\* The free neighbours of a free block join it.
coalesce(h, bp) ==
  LET next == NextBlk(h, bp)
      joinsPrev == GetAlloc(h, bp - 2) = 0
      joinsNext == IsFree(h, next)
      start == IF joinsPrev THEN PrevBlk(h, bp) ELSE bp
      end == IF joinsNext THEN NextBlk(h, next) ELSE next
      unlinked == Unlink(Unlink(remove_from_free_list(h, bp), joinsPrev, start), joinsNext, next)
  IN  IF ~joinsPrev /\ ~joinsNext THEN h
      ELSE add_to_free_list(PutTags(unlinked, start, end - start, 0), start, end - start)

\* ROUND_PAGE: a whole page more if size is a multiple of the page.
RoundPage(size) == (size \div PageSize + 1) * PageSize

\* Mutant: the search starts a list too high.
find_fitHigher(h, size) ==
  LET fits(n) == {k \in DOMAIN h.lists[n] : GetSize(h, Hdr(h.lists[n][k])) >= size}
      lists == {n \in Lists : n > ListOf(size) /\ fits(n) # {}}
  IN  IF lists # {} THEN Gives(h, h.lists[Min(lists)][Min(fits(Min(lists)))])
      ELSE IF LastSize(h) >= size THEN Gives(h, h.last)
      ELSE extend_heap(h, RoundPage(size - LastSize(h)))

\* The first block that fits of the first list that has one, else the last free
\* block, else more heap.
find_fit(h, size) ==
  LET fits(n) == {k \in DOMAIN h.lists[n] : GetSize(h, Hdr(h.lists[n][k])) >= size}
      lists == {n \in Lists : n >= ListOf(size) /\ fits(n) # {}}
  IN  IF lists # {} THEN Gives(h, h.lists[Min(lists)][Min(fits(Min(lists)))])
      ELSE IF LastSize(h) >= size THEN Gives(h, h.last)
      ELSE extend_heap(h, RoundPage(size - LastSize(h)))

\* Mutant: a remainder too small to be a block is not part of this one either.
placeTight(h, bp, size, with_offset) ==
  LET curr == GetSize(h, Hdr(bp))
      room == Min({curr - size, size})
      offset == IF with_offset /\ room > Pow2[MinPower] THEN room ELSE 0
      at == bp + offset
      rest == curr - size - offset
      cut == IF offset = 0 THEN h
             ELSE add_to_free_list(PutTags(h, bp, offset, 0), bp, offset)
      split == PutTags(PutTags(cut, at, size, 1), at + size, rest, 0)
  IN  IF rest < Pow2[MinPower] THEN Gives(PutTags(cut, at, size, 1), at)
      ELSE Gives(add_to_free_list(split, at + size, rest), at)

\* The block is cut from a free one, after an offset, if that leaves room.
place(h, bp, size, with_offset) ==
  LET curr == GetSize(h, Hdr(bp))
      room == Min({curr - size, size})
      offset == IF with_offset /\ room > Pow2[MinPower] THEN room ELSE 0
      at == bp + offset
      rest == curr - size - offset
      cut == IF offset = 0 THEN h
             ELSE add_to_free_list(PutTags(h, bp, offset, 0), bp, offset)
      split == PutTags(PutTags(cut, at, size, 1), at + size, rest, 0)
  IN  IF rest < Pow2[MinPower] THEN Gives(PutTags(cut, at, curr - offset, 1), at)
      ELSE Gives(add_to_free_list(split, at + size, rest), at)

----------------------------------------------------------------------------
(* The package *)

mm_init(h) ==
  LET empty == [mem_sbrk(h, 3).heap EXCEPT
                  !.lists = [n \in Lists |-> <<>>],
                  !.mem[0] = Tag(2, 1), !.mem[1] = Tag(2, 1), !.mem[2] = Tag(0, 1)]
  IN  extend_heap(empty, PageSize)

\* A block for a payload: its size with header and footer.
Needed(size) == size + 2

mm_malloc(h, size) ==
  LET fit == find_fit(h, Needed(size)) IN
  IF size = 0 THEN Gives(h, Null)
  ELSE IF fit.bp = Null THEN fit
  ELSE place(remove_from_free_list(fit.heap, fit.bp), fit.bp, Needed(size), TRUE)

mm_free(h, bp) ==
  LET size == GetSize(h, Hdr(bp)) IN
  coalesce(add_to_free_list(PutTags(h, bp, size, 0), bp, size), bp)

\* The block takes in the free block that follows it.
Absorb(h, bp, next, size) ==
  LET total == GetSize(h, Hdr(bp)) + GetSize(h, Hdr(next)) IN
  place(PutTags(remove_from_free_list(h, next), bp, total, 0), bp, size, FALSE)

\* The payload moves; the links of the freed block have overwritten the first
\* two words of it, which were saved.  memmove is before place.
Move(h, bp, size) ==
  LET copy == GetSize(h, Hdr(bp)) - 2
      fit == find_fit(mm_free(h, bp), size)
      new == remove_from_free_list(fit.heap, fit.bp)
      word(k) == IF k < 2 THEN h.mem[bp + k] ELSE new.mem[bp + k]
      last == IF copy < 2 THEN 1 ELSE copy - 1
      copied == [p \in DOMAIN h.mem |->
                   IF p - fit.bp \in 0 .. last THEN word(p - fit.bp) ELSE new.mem[p]]
  IN  IF fit.bp = Null THEN fit
      ELSE place([new EXCEPT !.mem = copied], fit.bp, size, TRUE)

\* Mutant: the next block is taken in though it is allocated.
mm_reallocUnchecked(h, bp, payload) ==
  LET old == GetSize(h, Hdr(bp))
      size == Needed(payload)
      next == NextBlk(h, bp)
      more == extend_heap(h, RoundPage(size - old - LastSize(h)))
  IN  IF bp = Null THEN mm_malloc(h, payload)
      ELSE IF payload = 0 THEN Gives(mm_free(h, bp), Null)
      ELSE IF size <= old THEN place(h, bp, size, FALSE)
      ELSE IF size <= old + GetSize(h, Hdr(next)) THEN Absorb(h, bp, next, size)
      ELSE IF next \in {h.brk, h.last} /\ more.bp # Null
           THEN Absorb(more.heap, bp, more.bp, size)
      ELSE Move(h, bp, size)

mm_realloc(h, bp, payload) ==
  LET old == GetSize(h, Hdr(bp))
      size == Needed(payload)
      next == NextBlk(h, bp)
      more == extend_heap(h, RoundPage(size - old - LastSize(h)))
  IN  IF bp = Null THEN mm_malloc(h, payload)
      ELSE IF payload = 0 THEN Gives(mm_free(h, bp), Null)
      ELSE IF size <= old THEN place(h, bp, size, FALSE)
      ELSE IF IsFree(h, next) /\ size <= old + GetSize(h, Hdr(next))
           THEN Absorb(h, bp, next, size)
      ELSE IF next \in {h.brk, h.last} /\ more.bp # Null
           THEN Absorb(more.heap, bp, more.bp, size)
      ELSE Move(h, bp, size)

----------------------------------------------------------------------------
(* A client of the package, which is mdriver *)

\* The driver fills a block with its index.
Fill(h, bp, id, size) ==
  [h EXCEPT !.mem = [p \in DOMAIN h.mem |->
                       IF p - bp \in 0 .. size - 1 THEN Data(id) ELSE h.mem[p]]]

(* mdriver's list of ranges, one for each block of the trace *)

Overlaps(lo, hi, b) ==
  b # NoBlock /\ ({lo, hi} \cap (b.bp .. b.bp + b.size - 1)) # {}

\* A payload must lie within the heap and may not begin or end in another.  (It
\* is aligned: addresses are those of words.)
add_range(h, ranges, lo, size) ==
  LET hi == lo + size - 1 IN
  /\ {lo, hi} \subseteq mem_heap_lo .. mem_heap_hi(h)
  /\ \A id \in Ids : ~Overlaps(lo, hi, ranges[id])

remove_range(ranges, id) == [ranges EXCEPT ![id] = NoBlock]
clear_ranges == [id \in Ids |-> NoBlock]

NewHeap == [mem |-> [p \in 0 .. MaxHeap - 1 |-> Link], brk |-> 0, last |-> Null,
            lists |-> [n \in Lists |-> <<>>]]

Init ==
  /\ heap = mm_init(NewHeap).heap
  /\ live = clear_ranges
  /\ kept = TRUE /\ failed = FALSE
  /\ untidy = FALSE /\ stale = FALSE

Malloc(id, size) ==
  LET r == mm_malloc(heap, size) IN
  /\ ~stale /\ ~failed /\ live[id] = NoBlock
  /\ IF r.bp = Null \/ ~add_range(r.heap, live, r.bp, size)
     THEN failed' = TRUE /\ heap' = r.heap /\ UNCHANGED live
     ELSE /\ heap' = Fill(r.heap, r.bp, id, size)
          /\ live' = [live EXCEPT ![id] = [bp |-> r.bp, size |-> size]]
          /\ UNCHANGED failed
  /\ UNCHANGED <<kept, untidy, stale>>

Free(id) ==
  /\ ~stale /\ ~failed /\ live[id] # NoBlock
  /\ heap' = mm_free(heap, live[id].bp)
  /\ live' = remove_range(live, id)
  /\ UNCHANGED <<kept, failed, untidy, stale>>

\* mm_realloc makes a block smaller and the remainder a free block, which is
\* not joined with a free block behind it.
Splits(h, bp, payload) ==
  /\ bp # Null /\ payload # 0
  /\ GetSize(h, Hdr(bp)) - Needed(payload) >= Pow2[MinPower]

\* The range of the old block is removed before that of the new one is added.
\* The driver compares the block with its index before it fills it again.  To
\* reallocate no block is to allocate one, to size 0 is to free it.
Realloc(id, size) ==
  LET r == mm_realloc(heap, live[id].bp, size)
      others == remove_range(live, id)
  IN
  /\ ~stale /\ ~failed
  /\ IF r.bp = Null \/ ~add_range(r.heap, others, r.bp, size)
     THEN /\ heap' = r.heap
          /\ live' = others
          /\ failed' = (size # 0)
          /\ UNCHANGED kept
     ELSE /\ heap' = Fill(r.heap, r.bp, id, size)
          /\ live' = [live EXCEPT ![id] = [bp |-> r.bp, size |-> size]]
          /\ kept' = \A k \in 0 .. Min({live[id].size, size}) - 1 :
                        r.heap.mem[r.bp + k].data = id
          /\ UNCHANGED failed
  /\ untidy' = (untidy \/ Splits(heap, live[id].bp, size))
  /\ UNCHANGED stale

\* The next trace starts, however the last one has ended, from a heap that is
\* reset; LAST_FREE_BP is not.  If it names another block than the first,
\* mm_init writes the tags of its new block there, beyond the heap's end too:
\* such a heap is left as it is until the driver is run again.
Reset ==
  /\ ~stale
  /\ heap' = mm_init(mem_reset_brk(heap)).heap
  /\ live' = clear_ranges
  /\ kept' = TRUE /\ failed' = FALSE
  /\ stale' = (heap.last \notin {Null, FirstBp})
  /\ untidy' = (stale' /\ (untidy \/ \E id \in Ids : live[id] # NoBlock))

\* The driver is run again.
Restart ==
  /\ heap' = mm_init(NewHeap).heap
  /\ live' = clear_ranges
  /\ kept' = TRUE /\ failed' = FALSE
  /\ untidy' = FALSE /\ stale' = FALSE

Next ==
  \/ \E id \in Ids, size \in Sizes : Malloc(id, size)
  \/ \E id \in Ids : Free(id)
  \/ \E id \in Ids, size \in Sizes \cup {0} : Realloc(id, size)
  \/ Reset
  \/ Restart

Spec == Init /\ [][Next]_vars

----------------------------------------------------------------------------
\* The words of memory, the free lists and the table of blocks.
TypeOK ==
  /\ heap.mem \in [0 .. MaxHeap - 1 -> [size : 0 .. MaxHeap, alloc : {0, 1},
                                        data : Ids \cup {NoId}]]
  /\ heap.brk \in 0 .. MaxHeap /\ heap.last \in 0 .. MaxHeap - 1
  /\ heap.lists \in [Lists -> Seq(0 .. MaxHeap - 1)]
  /\ live \in [Ids -> [bp : 0 .. MaxHeap - 1, size : 0 .. MaxHeap]]
  /\ kept \in BOOLEAN /\ failed \in BOOLEAN

\* The blocks after the prologue, with the epilogue; those that are free.
Blocks == Walk(heap) \ {Prologue}
FreeBlocks == {b \in Blocks \ {heap.brk} : IsFree(heap, b)}

\* mm_check has nothing to report after any sequence of calls, and it has seen
\* the whole heap: the blocks it walks tile it from the prologue to the epilogue.
\* Unless the trace has split a block in use, no two free blocks touch.
WellFormed ==
  /\ TypeOK
  /\ mm_check(heap) = 0
  /\ heap.brk \in Blocks /\ heap.mem[Hdr(heap.brk)] = Tag(0, 1)
  /\ \A b \in Blocks \ {heap.brk} : GetSize(heap, Hdr(b)) > 2
  /\ ~untidy => \A b \in FreeBlocks : NextBlk(heap, b) \notin FreeBlocks

\* The heap is well formed from the start of a trace on, unless mm_init has
\* found there a LAST_FREE_BP of the trace before; and it finds one only if that
\* trace has split a block in use or has not freed all of its blocks.
Tiled == IF stale THEN untidy ELSE WellFormed

\* The comment on the free lists: each consists of the free blocks of the sizes
\* from 2^n to 2^(n+1) - 1 (the last one of all larger sizes as well), except
\* that the block at the end of the heap is kept apart.  (Not after a stale reset.)
ListsExact == ~stale =>
  /\ heap.last = (IF \E b \in FreeBlocks : NextBlk(heap, b) = heap.brk
                  THEN Max(FreeBlocks) ELSE Null)
  /\ \A n \in Lists :
       /\ IsInjective(heap.lists[n])
       /\ Range(heap.lists[n]) =
            {b \in FreeBlocks \ {heap.last} :
               /\ GetSize(heap, Hdr(b)) >= Pow2[n]
               /\ n + 1 \in Lists => GetSize(heap, Hdr(b)) < Pow2[n + 1]}

\* What mdriver checks of a block, at every moment: the allocated blocks are
\* those the client holds, each as large as it asked for, and nothing but the
\* client writes in them.  (Not after a stale reset.)
PayloadsKept == ~stale =>
  LET held == {id \in Ids : live[id] # NoBlock} IN
  /\ (Blocks \ {heap.brk}) \ FreeBlocks = {live[id].bp : id \in held}
  /\ \A id \in held :
       /\ GetSize(heap, Hdr(live[id].bp)) >= Needed(live[id].size)
       /\ \A k \in 0 .. live[id].size - 1 : heap.mem[live[id].bp + k] = Data(id)

\* The heap grows for a block only if no free block has room for it: the
\* segregated lists hide none.
GrowsOnlyIfFull ==
  [][\A id \in Ids :
       live[id] = NoBlock /\ live'[id] # NoBlock /\ heap'.brk > heap.brk =>
         \A b \in FreeBlocks : GetSize(heap, Hdr(b)) < Needed(live'[id].size)]_vars

\* mdriver: a reallocated block holds the data of the old one.
DataKept == kept
=============================================================================
