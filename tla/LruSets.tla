------------------------------- MODULE LruSets -------------------------------
(***************************************************************************)
(* What a set-associative cache with least-recently-used replacement is,   *)
(* without time stamps: each set is the sequence of its blocks, the most   *)
(* recently used first, and an access moves its block to the front.  The   *)
(* specification that csim implements.                                     *)
(***************************************************************************)
EXTENDS Integers, Sequences

CONSTANTS Confs         \* the cache geometries in question

VARIABLES conf,         \* the geometry
          fed,          \* the line read in the last step
          sets,         \* blocks by set, most recent first
          total         \* hits, misses and evictions

vars == <<conf, fed, sets, total>>

\* The blocks before position last make room for block at the front.
ToFront(blocks, block, last) ==
    [k \in DOMAIN blocks \cup {last} |->
        IF k = 1 THEN block ELSE IF k <= last THEN blocks[k - 1] ELSE blocks[k]]

\* One access to a block: it, or the least recently used one, leaves its place.
Holds(blocks, block) == \E k \in DOMAIN blocks : blocks[k] = block
Full(blocks) == Len(blocks) = conf.associativity
Place(blocks, block) ==
    IF Holds(blocks, block) THEN CHOOSE k \in DOMAIN blocks : blocks[k] = block
    ELSE IF Full(blocks) THEN Len(blocks) ELSE Len(blocks) + 1

Touch(s, block) ==
    LET set  == block % 2 ^ conf.set_bits
        here == s.sets[set]
        hit  == Holds(here, block)
    IN  [sets |-> [s.sets EXCEPT ![set] = ToFront(here, block, Place(here, block))],
         total |-> [hits |-> s.total.hits + (IF hit THEN 1 ELSE 0),
                    misses |-> s.total.misses + (IF hit THEN 0 ELSE 1),
                    evictions |-> s.total.evictions + (IF ~hit /\ Full(here) THEN 1 ELSE 0)]]

\* A modify is a load and a store.
Line(s, line) ==
    LET block == line.addr \div 2 ^ conf.block_bits
    IN  IF line.type \in {"L", "S"} THEN Touch(s, block)
        ELSE IF line.type = "M" THEN Touch(Touch(s, block), block)
        ELSE s

Init ==
    /\ conf \in Confs
    /\ fed.type = ""
    /\ sets = [i \in 0 .. (2 ^ conf.set_bits - 1) |-> <<>>]
    /\ total = [hits |-> 0, misses |-> 0, evictions |-> 0]

\* Any line may be read next.
Read ==
    LET after == Line([sets |-> sets, total |-> total], fed')
    IN  /\ sets' = after.sets
        /\ total' = after.total
        /\ UNCHANGED conf

Spec == Init /\ [][Read]_vars
==============================================================================
