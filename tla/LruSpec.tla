------------------------------ MODULE LruSpec ------------------------------
(***************************************************************************)
(* What the proxy's response cache promises (proxylab-handout/cache.h): a  *)
(* sequence of responses, most recently used first, whose sizes sum to at  *)
(* most MaxSize.  A lookup or an insertion takes effect at one instant.    *)
(* LruCache.tla is shown to implement it; Proxy.tla uses the cache at this *)
(* level.                                                                  *)
(***************************************************************************)
EXTENDS LruList

CONSTANTS
  Threads,    \* the workers
  Keys,       \* the request URIs the cache is indexed by
  Resps,      \* the responses
  Sizes       \* the sizes a response can have

VARIABLES
  lru,        \* the cached items, most recently used first
  request,    \* what each thread has asked for and not been answered
  answer      \* the response each thread's last lookup gave, or None

specVars == <<lru, request, answer>>

----------------------------------------------------------------------------
SpecInit ==
  /\ lru = <<>>
  /\ request = [t \in Threads |-> None]
  /\ answer = [t \in Threads |-> None]

AskGet(t, k) ==
  /\ request[t] = None
  /\ request' = [request EXCEPT ![t] = [get |-> k]]
  /\ UNCHANGED <<lru, answer>>

AskPut(t, k, r, s) ==
  /\ request[t] = None
  /\ request' = [request EXCEPT ![t] = [put |-> Item(k, r, s)]]
  /\ UNCHANGED <<lru, answer>>

DoGet(t) == \E k \in Keys :
  /\ request[t] = [get |-> k]
  /\ request' = [request EXCEPT ![t] = None]
  /\ answer' = [answer EXCEPT ![t] = Lookup(lru, k)]
  /\ lru' = Touch(lru, k)

DoPut(t) == \E k \in Keys, r \in Resps, s \in Sizes :
  /\ request[t] = [put |-> Item(k, r, s)]
  /\ request' = [request EXCEPT ![t] = None]
  /\ lru' = Insert(lru, Item(k, r, s))
  /\ UNCHANGED answer

SpecNext == \E t \in Threads :
  \/ \E k \in Keys : AskGet(t, k)
  \/ \E k \in Keys, r \in Resps, s \in Sizes : AskPut(t, k, r, s)
  \/ DoGet(t)
  \/ DoPut(t)

LruSpecification == SpecInit /\ [][SpecNext]_specVars
=============================================================================
