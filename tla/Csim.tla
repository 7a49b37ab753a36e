-------------------------------- MODULE Csim --------------------------------
(***************************************************************************)
(* The cache simulator of cachelab (csim.c).  All lines of all sets are in *)
(* one array; a line remembers the number of the trace line that accessed  *)
(* it last, and the full set's line with the smallest number is replaced.  *)
(***************************************************************************)
EXTENDS Integers, Sequences, FiniteSets

CONSTANTS AddrBits      \* bits of an unsigned long, 64 in the code

ASSUME AddrBitsAssumption == AddrBits \in Nat \ {0}

\* The type of a trace line: an access, an instruction fetch or an empty line.
Access(type, addr) == [type |-> type, addr |-> addr]
Types == {"L", "S", "M", "I", ""}

INIT_CACHE_CAP == 8
INT_MAX == 2147483647

\* A shift by AddrBits is undefined; the processor takes the count modulo it.
ShiftLeft(x, n) == (x % 2 ^ (AddrBits - (n % AddrBits))) * 2 ^ (n % AddrBits)
ShiftRight(x, n) == x \div 2 ^ (n % AddrBits)

compute_id(conf, addr) ==
    LET tag_bits == AddrBits - conf.block_bits - conf.set_bits
    IN  [set_index |-> ShiftRight(ShiftLeft(addr, tag_bits), AddrBits - conf.set_bits),
         tag |-> ShiftRight(addr, AddrBits - tag_bits)]

new_lru_cache(conf) == [store |-> <<>>, conf |-> conf, cap |-> INIT_CACHE_CAP]

Result(hits, misses, evictions) == [hits |-> hits, misses |-> misses, evictions |-> evictions]

\* Mutant: the array is never enlarged.
growNever(cache) == cache.cap

\* The array doubles before it would overflow.
grow(cache) == IF Len(cache.store) = cache.cap THEN 2 * cache.cap + 1 ELSE cache.cap

\* Mutant: the first entry is taken.
earliestFirst(store, entries) == CHOOSE i \in entries : \A j \in entries : i <= j

\* Of the entries, the first one with the earliest access.
earliest(store, entries) ==
    CHOOSE i \in entries : \A j \in entries :
        \/ store[i].last_access < store[j].last_access
        \/ store[i].last_access = store[j].last_access /\ i <= j

access_entry(cache, addr, access_time) ==
    LET id    == compute_id(cache.conf, addr)
        inSet == {i \in DOMAIN cache.store : cache.store[i].id.set_index = id.set_index}
        found == {i \in inSet : cache.store[i].id.tag = id.tag}
        entry == [addr |-> addr, id |-> id, last_access |-> access_time]
        hit   == CHOOSE i \in found : \A j \in found : i >= j
    IN  IF found # {}
        THEN [cache |-> [cache EXCEPT !.store[hit].last_access = access_time],
              result |-> Result(1, 0, 0)]
        ELSE IF Cardinality(inSet) = cache.conf.associativity
        THEN [cache |-> [cache EXCEPT !.store[earliest(cache.store, inSet)] = entry],
              result |-> Result(0, 1, 1)]
        ELSE [cache |-> [cache EXCEPT !.cap = grow(cache), !.store = Append(@, entry)],
              result |-> Result(0, 1, 0)]

\* The store behind a load always hits.
modify_entry(cache, addr, access_time) ==
    LET out == access_entry(cache, addr, access_time)
    IN  [out EXCEPT !.result.hits = @ + 1]

process_line(cache, line, line_num) ==
    IF line.type = "M" THEN modify_entry(cache, line.addr, line_num)
    ELSE access_entry(cache, line.addr, line_num)

\* run: one line of the trace, with its line end, without which the code drops
\* it; s holds the cache, the totals and line_num.
run(s, line) ==
    LET out == process_line(s.cache, line, s.line_num)
    IN  IF line.type \in {"I", ""} THEN s
        ELSE [cache |-> out.cache,
              line_num |-> s.line_num + 1,
              total |-> [f \in DOMAIN s.total |-> s.total[f] + out.result[f]]]

start(conf) == [cache |-> new_lru_cache(conf), line_num |-> 0, total |-> Result(0, 0, 0)]
=============================================================================
