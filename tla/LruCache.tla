------------------------------ MODULE LruCache ------------------------------
(***************************************************************************)
(* The proxy's response cache: proxylab-handout/cache.c, a doubly linked   *)
(* list between two sentinels, at the level of its pointers.  Each worker  *)
(* calls lru_get and, when that misses and the response fits, lru_put with *)
(* the same key, as doit of proxy.c does.  Both hold lru_t.mutex from P to *)
(* V; between them each helper call (remove_item, move_item_front) and     *)
(* each iteration of a loop is a step.                                     *)
(*                                                                         *)
(* An address of Nodes stands for an lru_item_t together with the key and  *)
(* the response it points to: lru_item_destroy frees the three together.   *)
(***************************************************************************)
EXTENDS LruList, FiniteSets

CONSTANTS
  Threads,    \* the workers
  Keys,       \* the URIs
  Nodes,      \* the addresses malloc can return
  Sizes,      \* the sizes of responses
  HeadNode, TailNode, \* lru_t.head and lru_t.tail, the sentinels
  Null        \* an indeterminate pointer or field

\* A response that is offered to the cache has at most MAX_OBJECT_SIZE bytes,
\* fewer than MAX_CACHE_SIZE, and at least one.  No address is what a lookup
\* that misses returns.
ASSUME LruAssumption ==
  /\ IsFiniteSet(Threads) /\ IsFiniteSet(Nodes)
  /\ HeadNode \notin Nodes /\ TailNode \notin Nodes /\ HeadNode # TailNode
  /\ Null \notin Nodes \cup {HeadNode, TailNode}
  /\ MaxSize \in Nat
  /\ Sizes \subseteq 1 .. MaxSize
  /\ None \notin Nodes

VARIABLES
  next, prev, \* lru_item_t.next and .prev
  key, size,  \* lru_item_t.key and .size
  heap,       \* the nodes malloc'ed and not freed
  lsize,      \* lru_t.size
  mutex,      \* lru_t.mutex
  pc,         \* where each worker is
  arg,        \* the parameter key of its last call
  item,       \* the local variable item of its last call
  answer      \* the response its last lru_get returned

vars == <<next, prev, key, size, heap, lsize, mutex, pc, arg, item, answer>>

Addresses == Nodes \cup {HeadNode, TailNode}

----------------------------------------------------------------------------
\* lru_init
Init ==
  /\ next = [[a \in Addresses |-> Null] EXCEPT ![HeadNode] = TailNode]
  /\ prev = [[a \in Addresses |-> Null] EXCEPT ![TailNode] = HeadNode]
  /\ key = [a \in Nodes |-> Null]
  /\ size = [a \in Nodes |-> 0]
  /\ heap = {}
  /\ lsize = 0
  /\ mutex = 1
  /\ pc = [t \in Threads |-> "idle"]
  /\ arg = [t \in Threads |-> Null]
  /\ item = [t \in Threads |-> Null]
  /\ answer = [t \in Threads |-> None]

Goto(t, from, to) ==
  /\ pc[t] = from
  /\ pc' = [pc EXCEPT ![t] = to]

P == mutex > 0 /\ mutex' = mutex - 1
V == mutex' = mutex + 1

\* The links after remove_item(a).
UnlinkNext(a) == [next EXCEPT ![prev[a]] = next[a]]
\* Mutant: remove_item does not relink backwards.
UnlinkPrevDropped(a) == prev

UnlinkPrev(a) == [prev EXCEPT ![next[a]] = prev[a]]

\* move_item_front(lrup->head, a)
LinkFront(a) ==
  /\ next' = [next EXCEPT ![HeadNode] = a, ![a] = next[HeadNode]]
  /\ prev' = [prev EXCEPT ![next[HeadNode]] = a, ![a] = HeadNode]

----------------------------------------------------------------------------
(* lru_get *)

GetCall(t, k) ==
  /\ Goto(t, "idle", "get_lock")
  /\ arg' = [arg EXCEPT ![t] = k]
  /\ UNCHANGED <<next, prev, key, size, heap, lsize, mutex, item, answer>>

GetLock(t) ==
  /\ Goto(t, "get_lock", "get_scan")
  /\ P
  /\ item' = [item EXCEPT ![t] = next[HeadNode]]
  /\ answer' = [answer EXCEPT ![t] = None]
  /\ UNCHANGED <<next, prev, key, size, heap, lsize, arg>>

GetAdvance(t) ==
  /\ pc[t] = "get_scan"
  /\ item[t] # TailNode
  /\ key[item[t]] # arg[t]
  /\ item' = [item EXCEPT ![t] = next[item[t]]]
  /\ UNCHANGED <<next, prev, key, size, heap, lsize, mutex, pc, arg, answer>>

GetHit(t) ==
  /\ Goto(t, "get_scan", "get_front")
  /\ item[t] # TailNode
  /\ key[item[t]] = arg[t]
  /\ answer' = [answer EXCEPT ![t] = item[t]]
  /\ next' = UnlinkNext(item[t])
  /\ prev' = UnlinkPrev(item[t])
  /\ UNCHANGED <<key, size, heap, lsize, mutex, arg, item>>

GetFront(t) ==
  /\ Goto(t, "get_front", "get_unlock")
  /\ LinkFront(item[t])
  /\ UNCHANGED <<key, size, heap, lsize, mutex, arg, item, answer>>

GetMiss(t) ==
  /\ Goto(t, "get_scan", "get_unlock")
  /\ item[t] = TailNode
  /\ UNCHANGED <<next, prev, key, size, heap, lsize, mutex, arg, item, answer>>

\* Mutant: doit fetches and caches the response even when lru_get hit.
GetUnlockRefetch(t) ==
  /\ Goto(t, "get_unlock", "missed")
  /\ V
  /\ item' = [item EXCEPT ![t] = Null]
  /\ UNCHANGED <<next, prev, key, size, heap, lsize, arg, answer>>

GetUnlock(t) ==
  /\ Goto(t, "get_unlock", IF answer[t] = None THEN "missed" ELSE "idle")
  /\ V
  /\ item' = [item EXCEPT ![t] = Null]
  /\ UNCHANGED <<next, prev, key, size, heap, lsize, arg, answer>>

----------------------------------------------------------------------------
(* doit, after a miss: the response is fetched, and cached unless an error  *)
(* occurred or it was larger than MAX_OBJECT_SIZE                           *)

DontPut(t) ==
  /\ Goto(t, "missed", "idle")
  /\ UNCHANGED <<next, prev, key, size, heap, lsize, mutex, arg, item, answer>>

(* lru_put *)

PutCall(t, a, n) ==
  /\ Goto(t, "missed", "put_lock")
  /\ a \notin heap
  /\ heap' = heap \cup {a}
  /\ item' = [item EXCEPT ![t] = a]
  /\ key' = [key EXCEPT ![a] = arg[t]]
  /\ size' = [size EXCEPT ![a] = n]
  /\ UNCHANGED <<next, prev, lsize, mutex, arg, answer>>

PutLock(t) ==
  /\ Goto(t, "put_lock", "put_evict")
  /\ P
  /\ UNCHANGED <<next, prev, key, size, heap, lsize, arg, item, answer>>

TooFull(t) == lsize + size[item[t]] > MaxSize

\* Mutant: the most recently used item is evicted.
PutEvictFirst(t) ==
  LET first == next[HeadNode] IN
  /\ pc[t] = "put_evict"
  /\ TooFull(t)
  /\ lsize' = lsize - size[first]
  /\ next' = [UnlinkNext(first) EXCEPT ![first] = Null]
  /\ prev' = [UnlinkPrev(first) EXCEPT ![first] = Null]
  /\ heap' = heap \ {first}
  /\ key' = [key EXCEPT ![first] = Null]
  /\ size' = [size EXCEPT ![first] = 0]
  /\ UNCHANGED <<mutex, pc, arg, item, answer>>

\* One iteration of the eviction loop: tail->prev is unlinked and freed.
PutEvict(t) ==
  LET last == prev[TailNode] IN
  /\ pc[t] = "put_evict"
  /\ TooFull(t)
  /\ lsize' = lsize - size[last]
  /\ next' = [UnlinkNext(last) EXCEPT ![last] = Null]
  /\ prev' = [UnlinkPrev(last) EXCEPT ![last] = Null]
  /\ heap' = heap \ {last}
  /\ key' = [key EXCEPT ![last] = Null]
  /\ size' = [size EXCEPT ![last] = 0]
  /\ UNCHANGED <<mutex, pc, arg, item, answer>>

\* Mutant: the size of the new item is not added.
PutFrontUncounted(t) ==
  /\ Goto(t, "put_evict", "put_unlock")
  /\ ~TooFull(t)
  /\ LinkFront(item[t])
  /\ UNCHANGED <<key, size, heap, lsize, mutex, arg, item, answer>>

PutFront(t) ==
  /\ Goto(t, "put_evict", "put_unlock")
  /\ ~TooFull(t)
  /\ LinkFront(item[t])
  /\ lsize' = lsize + size[item[t]]
  /\ UNCHANGED <<key, size, heap, mutex, arg, item, answer>>

PutUnlock(t) ==
  /\ Goto(t, "put_unlock", "idle")
  /\ V
  /\ item' = [item EXCEPT ![t] = Null]
  /\ UNCHANGED <<next, prev, key, size, heap, lsize, arg, answer>>

----------------------------------------------------------------------------
Step(t) ==
  \/ GetLock(t) \/ GetAdvance(t) \/ GetHit(t) \/ GetFront(t) \/ GetMiss(t)
  \/ GetUnlock(t) \/ PutLock(t) \/ PutEvict(t) \/ PutFront(t) \/ PutUnlock(t)

Next ==
  \E t \in Threads :
    \/ Step(t)
    \/ DontPut(t)
    \/ \E k \in Keys : GetCall(t, k)
    \/ \E a \in Nodes, n \in Sizes : PutCall(t, a, n)

Spec == Init /\ [][Next]_vars

----------------------------------------------------------------------------
TypeOK ==
  /\ next \in [Addresses -> Addresses \cup {Null}]
  /\ prev \in [Addresses -> Addresses \cup {Null}]
  /\ key \in [Nodes -> Keys \cup {Null}]
  /\ size \in [Nodes -> Sizes \cup {0}]
  /\ heap \subseteq Nodes
  /\ lsize \in 0 .. MaxSize
  /\ mutex \in {0, 1}
  /\ pc \in [Threads -> {"idle", "get_lock", "get_scan", "get_front",
                         "get_unlock", "missed", "put_lock", "put_evict",
                         "put_unlock"}]
  /\ arg \in [Threads -> Keys \cup {Null}]
  /\ item \in [Threads -> Addresses \cup {Null}]
  /\ answer \in [Threads -> Nodes \cup {None}]

\* The address i links after the head, TailNode or Null once one is reached.
Follow(links) ==
  LET at[i \in 0 .. Cardinality(Nodes) + 1] ==
        IF i = 0 THEN HeadNode
        ELSE IF at[i-1] \in {TailNode, Null} THEN at[i-1] ELSE links[at[i-1]]
  IN  at

\* The linked items, from the most to the least recently used.
ChainOf(links) ==
  LET at  == Follow(links)
      len == Cardinality({i \in 1 .. Cardinality(Nodes) : at[i] \in Nodes})
  IN  [i \in 1 .. len |-> at[i]]

Chain == ChainOf(next)
Linked == Range(Chain)

AbstractItem(a) == [key |-> key[a], resp |-> a, size |-> size[a]]
AbstractChain == [i \in DOMAIN Chain |-> AbstractItem(Chain[i])]

\* The workers holding an item that is not linked.
Unlinked == {t \in Threads : pc[t] \in {"put_lock", "put_evict", "get_front"}}

\* Between operations, and inside one between its steps, the list is a chain
\* from head to tail whose backward links mirror the forward ones and which no
\* freed item is on; every item malloc'ed and not freed is linked once, or is
\* being put or moved by exactly one worker.
WellLinked ==
  LET chain == <<HeadNode>> \o Chain \o <<TailNode>> IN
  /\ TypeOK
  /\ \A i \in 1 .. Len(chain) - 1 :
       next[chain[i]] = chain[i+1] /\ prev[chain[i+1]] = chain[i]
  /\ heap = Linked \cup {item[t] : t \in Unlinked}
  /\ Cardinality(heap) = Len(chain) - 2 + Cardinality(Unlinked)

\* lru_t.size is the sum of the sizes of the items in the list (an item being
\* moved to the front counted): the bound on it bounds the cached bytes, and the
\* eviction loop ends before the list does.  It never unlinks and frees the head
\* sentinel, whose size and prev are indeterminate.
SizeIsSum ==
  /\ lsize = Total(AbstractChain)
             + (IF \E t \in Threads : pc[t] = "get_front"
                THEN size[item[CHOOSE t \in Threads : pc[t] = "get_front"]] ELSE 0)
  /\ \A t \in Threads : pc[t] = "put_evict" /\ TooFull(t) => prev[TailNode] \in Nodes

\* Two workers that miss the same key both fetch and both insert it; a hit
\* fetches nothing.  So copies of a key, cached or about to be, never exceed
\* the number of workers, however long the proxy runs.
DuplicatesBounded ==
  \A k \in Keys :
    Cardinality({a \in heap : key[a] = k})
      + Cardinality({t \in Threads : pc[t] = "missed" /\ arg[t] = k})
    <= Cardinality(Threads)

----------------------------------------------------------------------------
(* Refinement of LruSpec: an operation takes effect when it gets the mutex. *)

\* The worker that holds the mutex and has not finished its change.
Inside(label) == {t \in Threads : pc[t] = label}

AbsLru ==
  LET c == AbstractChain IN
  IF Inside("get_scan") # {}
    THEN Touch(c, arg[CHOOSE t \in Inside("get_scan") : TRUE])
  ELSE IF Inside("get_front") # {}
    THEN <<AbstractItem(item[CHOOSE t \in Inside("get_front") : TRUE])>> \o c
  ELSE IF Inside("put_evict") # {}
    THEN Insert(c, AbstractItem(item[CHOOSE t \in Inside("put_evict") : TRUE]))
  ELSE c

AbsRequest ==
  [t \in Threads |->
     CASE pc[t] = "get_lock" -> [get |-> arg[t]]
       [] pc[t] = "put_lock" -> [put |-> AbstractItem(item[t])]
       [] OTHER -> None]

AbsAnswer ==
  [t \in Threads |->
     IF pc[t] = "get_scan" THEN Lookup(AbstractChain, arg[t]) ELSE answer[t]]

Abs == INSTANCE LruSpec WITH
  Resps <- Nodes, lru <- AbsLru, request <- AbsRequest, answer <- AbsAnswer

\* The cache behaves as if each lookup and each insertion were atomic: a hit
\* returns the most recent response put for the key, and an insertion evicts
\* the least recently used responses, and only as many as it must.
RefinesLru == Abs!LruSpecification
=============================================================================
