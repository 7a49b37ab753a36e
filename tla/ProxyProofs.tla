----------------------------- MODULE ProxyProofs -----------------------------
(***************************************************************************)
(* Proofs about the proxy, for any workers, connections and buffers, any   *)
(* size of the cache and of the queue, and whatever clients and origins do:*)
(* connections are served one worker at a time, and what is cached and what*)
(* is sent is what the origin answered.                                    *)
(***************************************************************************)
EXTENDS Proxy, FiniteSetTheorems, TLAPS

----------------------------------------------------------------------------
(* Lists of items: what the operators of LruList do to any of them         *)

\* A set of numbers that is not empty has a least element.
LEMMA Least ==
  ASSUME NEW S \in SUBSET Nat, S # {}
  PROVE  \E m \in S : \A n \in S : m <= n
<1> DEFINE R == OpToRel(<, Nat)
<1>1. IsWellFoundedOn(R, Nat)
  BY NatLessThanWellFounded
<1>2. PICK m \in S : \A n \in S : <<n, m>> \notin R
  <2> HIDE DEF R
  <2> QED BY <1>1, WFMin
<1>3. \A n \in S : ~(n < m)
  <2> TAKE n \in S
  <2>1. n \in Nat /\ m \in Nat
    OBVIOUS
  <2>2. n < m => <<n, m>> \in R
    BY <2>1 DEF OpToRel
  <2> QED BY <1>2, <2>2
<1> QED BY <1>3

\* Some numbers up to a bound have a largest.
LEMMA Largest ==
  ASSUME NEW n \in Nat, NEW S \in SUBSET (0 .. n), S # {}
  PROVE  \E m \in S : \A i \in S : i <= m
<1> DEFINE U == {u \in Nat : \A i \in S : i <= u}
<1>1. n \in U /\ U \in SUBSET Nat
  OBVIOUS
<1>2. PICK u \in U : \A v \in U : u <= v
  <2> HIDE DEF U
  <2> QED BY <1>1, Least
<1>3. u \in S
  <2>1. SUFFICES ASSUME u \notin S PROVE FALSE
    OBVIOUS
  <2>2. \A i \in S : i \in Nat /\ i < u
    BY <1>2, <2>1
  <2>3. PICK i \in S : TRUE
    OBVIOUS
  <2>4. u # 0 /\ u \in Nat
    BY <1>2, <2>2, <2>3
  <2>5. u - 1 \in U
    BY <2>2, <2>4
  <2> QED BY <1>2, <2>4, <2>5
<1> QED BY <1>2, <1>3

\* The empty list has no size.
LEMMA TotalEmpty == Total(<<>>) = 0
<1>1. DOMAIN <<>> = {}
  OBVIOUS
<1> QED BY <1>1 DEF Total, FoldSeq, FoldFunction, FoldFunctionOnSet, MapThenFoldSet

\* What is kept when room is made for n more is a beginning of the list.
LEMMA TrimKeeps ==
  ASSUME NEW S, NEW s \in Seq(S), NEW n \in Int, MaxSize \in Int, n <= MaxSize
  PROVE  \E m \in 0 .. Len(s) : Trim(s, n) = SubSeq(s, 1, m)
<1> DEFINE fits == {i \in 0 .. Len(s) : Total(SubSeq(s, 1, i)) + n <= MaxSize}
<1>1. Len(s) \in Nat /\ fits \in SUBSET (0 .. Len(s))
  OBVIOUS
<1>2. 0 \in fits
  <2>1. SubSeq(s, 1, 0) = <<>>
    OBVIOUS
  <2>2. Total(SubSeq(s, 1, 0)) = 0
    BY <2>1, TotalEmpty
  <2> QED BY <2>2, <1>1
<1>3. \E m \in fits : \A i \in fits : i <= m
  <2> HIDE DEF fits
  <2> QED BY <1>1, <1>2, Largest
<1>4. (CHOOSE i \in fits : \A j \in fits : j <= i) \in fits
  <2> HIDE DEF fits
  <2> QED BY <1>3
<1> QED BY <1>1, <1>4 DEF Trim

\* An inserted item is the first; behind it is a beginning of the old list.
LEMMA InsertKeeps ==
  ASSUME NEW S, NEW s \in Seq(S), NEW it \in S, it.size \in Int,
         MaxSize \in Int, it.size <= MaxSize
  PROVE  /\ Insert(s, it) \in Seq(S)
         /\ Len(Insert(s, it)) \in 1 .. Len(s) + 1
         /\ Insert(s, it)[1] = it
         /\ \A i \in 2 .. Len(Insert(s, it)) : Insert(s, it)[i] = s[i - 1]
<1>1. PICK m \in 0 .. Len(s) : Trim(s, it.size) = SubSeq(s, 1, m)
  BY TrimKeeps
<1>2. /\ SubSeq(s, 1, m) \in Seq(S) /\ Len(SubSeq(s, 1, m)) = m
      /\ \A i \in 1 .. m : SubSeq(s, 1, m)[i] = s[i]
  OBVIOUS
<1> QED BY <1>1, <1>2 DEF Insert

\* The first position of a key that is in the list.
LEMMA FirstHit ==
  ASSUME NEW S, NEW s \in Seq(S), NEW k, Hits(s, k) # {}
  PROVE  /\ First(s, k) \in Hits(s, k)
         /\ \A i \in Hits(s, k) : First(s, k) <= i
<1>1. Hits(s, k) \in SUBSET Nat
  BY DEF Hits
<1>2. \E i \in Hits(s, k) : \A j \in Hits(s, k) : i <= j
  BY <1>1, Least
<1> QED BY <1>2 DEF First

\* Taking an item out closes the gap it leaves.
LEMMA RemoveIs ==
  ASSUME NEW S, NEW s \in Seq(S), NEW f \in 1 .. Len(s)
  PROVE  /\ RemoveAt(s, f) \in Seq(S)
         /\ Len(s) = Len(RemoveAt(s, f)) + 1
         /\ \A i \in 1 .. Len(RemoveAt(s, f)) :
              RemoveAt(s, f)[i] = IF i < f THEN s[i] ELSE s[i + 1]
<1> DEFINE front == SubSeq(s, 1, f - 1)
           back == SubSeq(s, f + 1, Len(s))
           others == front \o back
<1>1. Len(s) \in Nat /\ f \in Nat /\ f <= Len(s)
  OBVIOUS
<1>2. /\ front \in Seq(S) /\ Len(front) = f - 1
      /\ \A i \in 1 .. f - 1 : front[i] = s[i]
  BY <1>1
<1>3. /\ back \in Seq(S) /\ Len(back) = Len(s) - f
      /\ \A i \in 1 .. Len(s) - f : back[i] = s[f + i]
  BY <1>1
<1>4. RemoveAt(s, f) = others
  BY DEF RemoveAt
<1> HIDE DEF front, back
<1>5. /\ others \in Seq(S) /\ Len(others) = Len(s) - 1
      /\ \A i \in 1 .. Len(s) - 1 :
           others[i] = IF i <= f - 1 THEN front[i] ELSE back[i - (f - 1)]
  <2>1. /\ others \in Seq(S) /\ Len(others) = Len(front) + Len(back)
        /\ \A i \in 1 .. Len(front) + Len(back) :
             others[i] = IF i <= Len(front) THEN front[i] ELSE back[i - Len(front)]
    <3>1. front \in Seq(S) /\ back \in Seq(S)
      BY <1>2, <1>3
    <3> QED BY ONLY <3>1
  <2>2. Len(front) + Len(back) = Len(s) - 1
    BY <1>1, <1>2, <1>3
  <2> HIDE DEF others
  <2> QED BY <1>2, <2>1, <2>2
<1> HIDE DEF others
<1>6. ASSUME NEW i \in 1 .. Len(s) - 1
      PROVE  others[i] = IF i < f THEN s[i] ELSE s[i + 1]
  <2>1. CASE i < f
    BY <1>1, <1>2, <1>5, <2>1
  <2>2. CASE ~(i < f)
    <3>1. /\ ~(i <= f - 1) /\ i - (f - 1) \in 1 .. Len(s) - f
          /\ f + (i - (f - 1)) = i + 1
      BY <1>1, <2>2
    <3> QED BY <1>3, <1>5, <2>2, <3>1
  <2> QED BY <2>1, <2>2
<1>7. Len(others) + 1 = Len(s) /\ 1 .. Len(others) = 1 .. Len(s) - 1
  BY <1>1, <1>5
<1> QED BY <1>4, <1>5, <1>6, <1>7

\* The item touched is moved to the front: behind it are the others.
LEMMA TouchMoves ==
  ASSUME NEW S, NEW s \in Seq(S), NEW k, Hits(s, k) # {}
  PROVE  LET f == First(s, k) IN
         /\ f \in 1 .. Len(s)
         /\ Touch(s, k) \in Seq(S)
         /\ Len(Touch(s, k)) = Len(s)
         /\ Touch(s, k)[1] = s[f]
         /\ \A i \in 1 .. Len(s) : i < f => Touch(s, k)[i + 1] = s[i]
         /\ \A i \in 1 .. Len(s) : i > f => Touch(s, k)[i] = s[i]
<1> DEFINE f == First(s, k)
           others == RemoveAt(s, f)
<1>1. f \in 1 .. Len(s) /\ s[f] \in S /\ Len(s) \in Nat
  BY FirstHit DEF Hits
<1> HIDE DEF f
<1>2. /\ others \in Seq(S) /\ Len(s) = Len(others) + 1
      /\ \A i \in 1 .. Len(others) : others[i] = IF i < f THEN s[i] ELSE s[i + 1]
  BY <1>1, RemoveIs
<1>3. Touch(s, k) = <<s[f]>> \o others
  BY DEF Touch, f
<1> HIDE DEF others
<1>4. /\ Touch(s, k) \in Seq(S) /\ Len(Touch(s, k)) = Len(s)
      /\ Touch(s, k)[1] = s[f]
      /\ \A i \in 1 .. Len(others) : Touch(s, k)[i + 1] = others[i]
  BY <1>1, <1>2, <1>3
<1>5. \A i \in 1 .. Len(s) : i < f => Touch(s, k)[i + 1] = s[i]
  BY <1>1, <1>2, <1>4
<1>6. ASSUME NEW i \in 1 .. Len(s), i > f PROVE Touch(s, k)[i] = s[i]
  <2>1. i - 1 \in 1 .. Len(others) /\ (i - 1) + 1 = i /\ ~(i - 1 < f)
    BY <1>1, <1>2, <1>6
  <2>2. Touch(s, k)[(i - 1) + 1] = others[i - 1] /\ others[i - 1] = s[(i - 1) + 1]
    BY <1>2, <1>4, <2>1
  <2> QED BY <2>1, <2>2
<1> QED BY <1>1, <1>4, <1>5, <1>6 DEF f

\* So the list is a permutation of what it was.
LEMMA TouchPermutes ==
  ASSUME NEW S, NEW s \in Seq(S), NEW k, Hits(s, k) # {}
  PROVE  \E g \in [1 .. Len(s) -> 1 .. Len(s)] :
           /\ \A i \in 1 .. Len(s) : Touch(s, k)[i] = s[g[i]]
           /\ \A i, j \in 1 .. Len(s) : g[i] = g[j] => i = j
<1> DEFINE f == First(s, k)
           g == [i \in 1 .. Len(s) |-> IF i = 1 THEN f ELSE IF i <= f THEN i - 1 ELSE i]
<1>1. /\ f \in 1 .. Len(s) /\ Len(s) \in Nat
      /\ Touch(s, k)[1] = s[f]
      /\ \A i \in 1 .. Len(s) : i < f => Touch(s, k)[i + 1] = s[i]
      /\ \A i \in 1 .. Len(s) : i > f => Touch(s, k)[i] = s[i]
  BY TouchMoves
<1> HIDE DEF f
<1>2. g \in [1 .. Len(s) -> 1 .. Len(s)]
  BY <1>1
<1>3. ASSUME NEW i \in 1 .. Len(s) PROVE Touch(s, k)[i] = s[g[i]]
  <2>1. CASE i = 1
    BY <1>1, <2>1
  <2>2. CASE i # 1 /\ i <= f
    <3>1. i - 1 \in 1 .. Len(s) /\ i - 1 < f /\ (i - 1) + 1 = i /\ g[i] = i - 1
      BY <1>1, <2>2
    <3>2. Touch(s, k)[(i - 1) + 1] = s[i - 1]
      BY <1>1, <3>1
    <3> QED BY <3>1, <3>2
  <2>3. CASE i > f
    BY <1>1, <2>3
  <2> QED BY <1>1, <2>1, <2>2, <2>3
<1>4. \A i, j \in 1 .. Len(s) : g[i] = g[j] => i = j
  BY <1>1
<1> HIDE DEF g
<1> QED BY <1>2, <1>3, <1>4

----------------------------------------------------------------------------
(* The inductive invariant *)

\* Where a worker has a connection, a parsed uri, a descriptor of its own.
Serving == {"read", "get", "hit", "connect", "socket", "dial", "process", "relay",
            "put", "closeup", "close"}
Parsed == Serving \ {"read", "close"}
Connected == {"dial", "process", "relay", "put", "closeup"}
NothingSent == {"read", "get", "hit", "connect", "socket", "dial", "process"}

Texts == {ErrorPage, Garbage} \cup {Chunk(k, i, b) : k \in Keys, i \in Nat, b \in BOOLEAN}
Items == [key : Keys, resp : Buffers, size : 1 .. MaxSize]

\* What TypeOK leaves open: the cache is a list, and buffers and clients hold
\* chunks.
DataOK ==
  /\ lru \in Seq(Items)
  /\ content \in [Buffers -> Texts]
  /\ got \in [Conns -> Seq(Texts)]

\* main has a connection in hand only between accept and sbuf_insert, and none
\* before lru_init.
MainOK ==
  /\ accepted \in Conns <=> mpc = "enque"
  /\ mpc \in {"accept", "enque"} => lruReady
  /\ ~lruReady => queue = <<>> /\ \A w \in Workers : pc[w] \in {"unborn", "deque"}

\* A worker has a connection from sbuf_remove to Close, and a uri after parsing.
WorkersOK ==
  \A w \in Workers :
    /\ conn[w] \in Conns <=> pc[w] \in Serving
    /\ pc[w] \in Parsed =>
         /\ uri[w] \in Keys
         /\ request[conn[w]].line \in {"ok", "empty"}
         /\ request[conn[w]].line = "ok" => uri[w] = request[conn[w]].key
    /\ pc[w] \in Filling \cup {"hit"} => resp[w] \in Buffers

\* No connection is in two places, and those that are somewhere are open.
HeldOnce ==
  /\ \A i, j \in DOMAIN queue : queue[i] = queue[j] => i = j
  /\ \A i \in DOMAIN queue : queue[i] # accepted
  /\ \A v, w \in Workers : conn[v] \in Conns /\ conn[v] = conn[w] => v = w
  /\ \A w \in Workers : conn[w] \in Conns =>
       conn[w] # accepted /\ \A i \in DOMAIN queue : queue[i] # conn[w]

HeldOpen ==
  /\ \A c \in Conns :
       c \in open <=> \/ accepted = c
                      \/ \E i \in DOMAIN queue : queue[i] = c
                      \/ \E w \in Workers : conn[w] = c
  /\ open \cap closed = {}

\* The descriptors of connections to origins; together with the others they stay
\* below the limit.
FdsCounted ==
  /\ up = {w \in Workers : pc[w] \in Connected}
  /\ FdsInUse <= FdLimit

\* What a client has been sent, by where its connection is.
Sent ==
  /\ \A c \in Conns :
       c \notin closed /\ (\A w \in Workers : conn[w] # c) => got[c] = <<>>
  /\ \A w \in Workers :
       /\ pc[w] \in NothingSent => got[conn[w]] = <<>>
       /\ pc[w] = "relay" => Len(got[conn[w]]) = filled[w]

\* A buffer holds the last chunk that came, and what is about to be cached is
\* all that came.
Relayed ==
  \A w \in Workers :
    /\ (pc[w] = "relay" /\ filled[w] > 0) \/ pc[w] = "put" =>
         \E whole \in BOOLEAN :
           /\ content[resp[w]] = Chunk(uri[w], filled[w], whole)
           /\ whole \/ uri[w] \in CutKeys
    /\ pc[w] = "put" => filled[w] = 1 /\ (Chunks[uri[w]] = 1 \/ uri[w] \in CutKeys)

IInv ==
  /\ TypeOK /\ DataOK /\ MainOK /\ WorkersOK
  /\ HeldOnce /\ HeldOpen /\ FdsCounted
  /\ Sent /\ Relayed /\ BuffersDisjoint /\ CachedIsOrigin

\* What is in a queue is at its head or behind it.
LEMMA HeadTail ==
  ASSUME NEW S, NEW q \in Seq(S), q # <<>>
  PROVE  \A c : (\E i \in DOMAIN q : q[i] = c)
                <=> c = Head(q) \/ \E i \in DOMAIN Tail(q) : Tail(q)[i] = c
<1>1. /\ DOMAIN q = 1 .. Len(q) /\ Len(q) \in Nat /\ Len(q) > 0
      /\ DOMAIN Tail(q) = 1 .. Len(q) - 1
      /\ \A i \in 1 .. Len(q) - 1 : Tail(q)[i] = q[i + 1]
      /\ Head(q) = q[1]
  OBVIOUS
<1>2. ASSUME NEW i \in DOMAIN q, i # 1
      PROVE  i - 1 \in DOMAIN Tail(q) /\ Tail(q)[i - 1] = q[i]
  BY <1>1, <1>2
<1>3. ASSUME NEW i \in DOMAIN Tail(q)
      PROVE  i + 1 \in DOMAIN q /\ Tail(q)[i] = q[i + 1]
  BY <1>1
<1>4. 1 \in DOMAIN q
  BY <1>1
<1> QED BY <1>1, <1>2, <1>3, <1>4

\* What is added to a queue is in it with what was.
LEMMA Appended ==
  ASSUME NEW S, NEW q \in Seq(S), NEW x \in S
  PROVE  \A c : (\E i \in DOMAIN Append(q, x) : Append(q, x)[i] = c)
                <=> c = x \/ \E i \in DOMAIN q : q[i] = c
<1>1. /\ DOMAIN q = 1 .. Len(q) /\ Len(q) \in Nat
      /\ DOMAIN Append(q, x) = 1 .. Len(q) + 1
      /\ \A i \in 1 .. Len(q) : Append(q, x)[i] = q[i]
      /\ Append(q, x)[Len(q) + 1] = x
  OBVIOUS
<1>2. Len(q) + 1 \in DOMAIN Append(q, x) /\ DOMAIN q \subseteq DOMAIN Append(q, x)
  BY <1>1
<1>3. \A i \in DOMAIN Append(q, x) : i = Len(q) + 1 \/ i \in DOMAIN q
  BY <1>1
<1> QED BY <1>1, <1>2, <1>3

\* A connection passes from hand to hand in four actions.
LEMMA HandedOver ==
  ASSUME [Next]_vars
  PROVE  \/ \E c \in Conns : Accept(c)
         \/ Enque
         \/ \E w \in Workers : Deque(w) \/ Close(w)
         \/ UNCHANGED <<accepted, queue, conn, open, closed>>
<1> DEFINE Unmoved == UNCHANGED <<accepted, queue, conn, open, closed>>
<1>1. Main => Enque \/ Unmoved
  BY DEF Main, OpenListen, CreateThread, LruInit, mainVars, netVars, workerVars
<1>2. ASSUME NEW w \in Workers, Proceed(w)
      PROVE  Deque(w) \/ Close(w) \/ Unmoved
  BY <1>2
  DEF Proceed, mainVars, netVars, ReadOk, ReadReset, ReadBad, GetHit, SendHit, GetMiss, Resolve,
      ResolveFails, Socket, Connect, TryNext, ConnectFails, ProcessOk, ProcessBad,
      ProcessReset, RelayChunk, RelayEof, RelayEnd, Put, CloseUp
<1>3. ASSUME NEW w \in Workers, PeerFault(w)
      PROVE  Unmoved
  BY <1>3
  DEF PeerFault, mainVars, netVars, workerVars, RelayChunk, RelayCut, RelayEnd, RelayError,
      OutOfMemory
<1>4. UNCHANGED vars => Unmoved
  BY DEF vars, mainVars, netVars, workerVars
<1> QED BY <1>1, <1>2, <1>3, <1>4 DEF Next

LEMMA HeldOnceNext == ASSUME IInv, [Next]_vars PROVE HeldOnce'
<1>0. HeldOnce /\ HeldOpen /\ TypeOK /\ MainOK /\ WorkersOK
  BY DEF IInv
<1>a. NoConn \notin Conns
  BY ProxyAssumption
<1>1. ASSUME NEW c \in Conns, Accept(c) PROVE HeldOnce'
  <2>1. c \notin open /\ accepted' = c /\ queue' = queue /\ conn' = conn
    BY <1>1 DEF Accept, workerVars
  <2> QED BY <2>1, <1>0, <1>a DEF HeldOnce, HeldOpen, TypeOK
<1>2. CASE Enque
  <2>1. /\ queue' = Append(queue, accepted) /\ accepted' = NoConn /\ conn' = conn
        /\ accepted \in Conns
    BY <1>0, <1>2 DEF Enque, MainGoto, MainOK, workerVars
  <2> QED BY <2>1, <1>0, <1>a DEF HeldOnce, HeldOpen, TypeOK
<1>3. ASSUME NEW w \in Workers, Deque(w) PROVE HeldOnce'
  <2>1. /\ queue' = Tail(queue) /\ accepted' = accepted /\ queue # <<>>
        /\ conn' = [conn EXCEPT ![w] = Head(queue)]
    BY <1>3 DEF Deque, mainVars
  <2> QED BY <2>1, <1>0, <1>a DEF HeldOnce, HeldOpen, TypeOK
<1>4. ASSUME NEW w \in Workers, Close(w) PROVE HeldOnce'
  <2>1. queue' = queue /\ accepted' = accepted /\ conn' = [conn EXCEPT ![w] = NoConn]
    BY <1>4 DEF Close, mainVars
  <2> QED BY <2>1, <1>0, <1>a DEF HeldOnce, HeldOpen, TypeOK
<1>5. CASE UNCHANGED <<accepted, queue, conn, open, closed>>
  BY <1>0, <1>5 DEF HeldOnce
<1> QED BY <1>1, <1>2, <1>3, <1>4, <1>5, HandedOver

LEMMA HeldOpenNext == ASSUME IInv, [Next]_vars PROVE HeldOpen'
<1>0. HeldOnce /\ HeldOpen /\ TypeOK /\ MainOK /\ WorkersOK
  BY DEF IInv
<1>a. NoConn \notin Conns
  BY ProxyAssumption
<1>1. ASSUME NEW c \in Conns, Accept(c) PROVE HeldOpen'
  <2>1. /\ c \notin open \cup closed /\ accepted' = c /\ queue' = queue /\ conn' = conn
        /\ open' = open \cup {c} /\ closed' = closed /\ accepted \notin Conns
    BY <1>0, <1>1 DEF Accept, workerVars, MainGoto, MainOK
  <2> QED BY <2>1, <1>0, <1>a DEF HeldOpen, TypeOK
<1>2. CASE Enque
  <2>1. /\ queue' = Append(queue, accepted) /\ accepted' = NoConn /\ conn' = conn
        /\ accepted \in Conns /\ open' = open /\ closed' = closed
    BY <1>0, <1>2 DEF Enque, MainGoto, MainOK, workerVars, netVars
  <2>2. \A c : (\E i \in DOMAIN Append(queue, accepted) : Append(queue, accepted)[i] = c)
               <=> c = accepted \/ \E i \in DOMAIN queue : queue[i] = c
    <3>1. queue \in Seq(Conns)
      BY <1>0 DEF TypeOK
    <3> QED BY <3>1, <2>1, Appended
  <2> QED BY <2>1, <2>2, <1>0, <1>a DEF HeldOpen
<1>3. ASSUME NEW w \in Workers, Deque(w) PROVE HeldOpen'
  <2>1. /\ queue' = Tail(queue) /\ accepted' = accepted /\ queue # <<>>
        /\ conn' = [conn EXCEPT ![w] = Head(queue)] /\ open' = open /\ closed' = closed
        /\ conn[w] \notin Conns
    BY <1>0, <1>3 DEF Deque, mainVars, netVars, Goto, WorkersOK, Serving
  <2>2. \A c : (\E i \in DOMAIN queue : queue[i] = c)
               <=> c = Head(queue) \/ \E i \in DOMAIN Tail(queue) : Tail(queue)[i] = c
    <3>1. queue \in Seq(Conns) /\ queue # <<>>
      BY <2>1, <1>0 DEF TypeOK
    <3> QED BY <3>1, HeadTail
  <2>3. \A c \in Conns : (\E v \in Workers : conn'[v] = c)
               <=> c = Head(queue) \/ \E v \in Workers : conn[v] = c
    BY <2>1, <1>0, <1>a DEF TypeOK
  <2> QED BY <2>1, <2>2, <2>3, <1>0 DEF HeldOpen
<1>4. ASSUME NEW w \in Workers, Close(w) PROVE HeldOpen'
  <2>1. /\ queue' = queue /\ accepted' = accepted /\ conn' = [conn EXCEPT ![w] = NoConn]
        /\ open' = open \ {conn[w]} /\ closed' = closed \cup {conn[w]} /\ conn[w] \in Conns
    BY <1>0, <1>4 DEF Close, mainVars, Goto, WorkersOK, Serving
  <2>2. \A c \in Conns : (\E v \in Workers : conn'[v] = c)
               <=> c # conn[w] /\ \E v \in Workers : conn[v] = c
    BY <2>1, <1>0, <1>a DEF HeldOnce, TypeOK
  <2>3. conn[w] # accepted /\ \A i \in DOMAIN queue : queue[i] # conn[w]
    BY <2>1, <1>0 DEF HeldOnce
  <2> QED BY <2>1, <2>2, <2>3, <1>0 DEF HeldOpen
<1>5. CASE UNCHANGED <<accepted, queue, conn, open, closed>>
  BY <1>0, <1>5 DEF HeldOpen
<1> QED BY <1>1, <1>2, <1>3, <1>4, <1>5, HandedOver

----------------------------------------------------------------------------
(* Steps *)

\* What main does, and a connection that arrives, leaves the workers alone except
\* that it creates them.
LEMMA MainSteps ==
  ASSUME Main \/ (\E c \in Conns : Accept(c)) \/ UNCHANGED vars
  PROVE  /\ UNCHANGED <<request, conn, uri, resp, filled, fdVars, lru, content, got, closed>>
         /\ \/ pc' = pc
            \/ \E w \in Workers : pc[w] = "unborn" /\ pc' = [pc EXCEPT ![w] = "deque"]
BY DEF Main, OpenListen, CreateThread, LruInit, Enque, Accept, vars, mainVars, netVars,
       workerVars, fdVars, cacheVars

\* A worker's step changes no other worker's variables, and none of main's.
LEMMA OwnStep ==
  ASSUME TypeOK, NEW w \in Workers, Proceed(w) \/ PeerFault(w)
  PROVE  /\ UNCHANGED <<request, mainVars>>
         /\ \A v \in Workers \ {w} :
              /\ pc'[v] = pc[v] /\ conn'[v] = conn[v] /\ uri'[v] = uri[v]
              /\ resp'[v] = resp[v] /\ filled'[v] = filled[v]
<1>1. ASSUME Proceed(w)
      PROVE  /\ UNCHANGED <<request, mainVars>>
             /\ \A v \in Workers \ {w} :
                  /\ pc'[v] = pc[v] /\ conn'[v] = conn[v] /\ uri'[v] = uri[v]
                  /\ resp'[v] = resp[v] /\ filled'[v] = filled[v]
  BY <1>1
  DEF TypeOK, Proceed, Goto, mainVars, workerVars, Deque, ReadOk, ReadReset, ReadBad, GetHit,
      SendHit, GetMiss, Resolve, ResolveFails, Socket, Connect, TryNext, ConnectFails, ProcessOk,
      ProcessBad, ProcessReset, RelayChunk, RelayEof, RelayEnd, Put, CloseUp, Close
<1>2. ASSUME PeerFault(w)
      PROVE  /\ UNCHANGED <<request, mainVars>>
             /\ \A v \in Workers \ {w} :
                  /\ pc'[v] = pc[v] /\ conn'[v] = conn[v] /\ uri'[v] = uri[v]
                  /\ resp'[v] = resp[v] /\ filled'[v] = filled[v]
  BY <1>2
  DEF TypeOK, PeerFault, Goto, mainVars, workerVars, RelayChunk, RelayCut, RelayEnd, RelayError,
      OutOfMemory
<1> QED BY <1>1, <1>2

\* The worker itself goes from one label to another.
Moves ==
  {<<"deque", "read">>, <<"read", "get">>, <<"read", "close">>, <<"get", "hit">>,
   <<"get", "connect">>, <<"hit", "close">>, <<"connect", "socket">>,
   <<"connect", "close">>, <<"socket", "dial">>, <<"socket", "socket">>,
   <<"socket", "close">>, <<"dial", "process">>, <<"dial", "socket">>,
   <<"dial", "close">>, <<"process", "relay">>, <<"process", "close">>,
   <<"relay", "relay">>, <<"relay", "put">>, <<"relay", "closeup">>,
   <<"put", "closeup">>, <<"closeup", "close">>, <<"close", "deque">>}

LEMMA Labels ==
  ASSUME TypeOK, NEW w \in Workers, Proceed(w) \/ PeerFault(w)
  PROVE  <<pc[w], pc'[w]>> \in Moves \/ (pc' = pc /\ pc[w] \in {"read", "get", "put"})
<1>1. Proceed(w) => <<pc[w], pc'[w]>> \in Moves
  BY
  DEF Moves, TypeOK, Proceed, Goto, Deque, ReadOk, ReadReset, ReadBad, GetHit,
      SendHit, GetMiss, Resolve, ResolveFails, Socket, Connect, AddrFails, TryNext, ConnectFails,
      ProcessOk, ProcessBad, ProcessReset, RelayChunk, RelayEof, RelayEnd, Put, CloseUp, Close
<1>2. PeerFault(w) => <<pc[w], pc'[w]>> \in Moves \/ (pc' = pc /\ pc[w] \in {"read", "get", "put"})
  BY
  DEF Moves, TypeOK, PeerFault, Goto, workerVars, RelayChunk, RelayCut, RelayEnd, RelayError,
      OutOfMemory
<1> QED BY <1>1, <1>2

\* Every step is one of main's, of the network's, or of a worker.
LEMMA Steps ==
  ASSUME [Next]_vars
  PROVE  \/ Main \/ (\E c \in Conns : Accept(c)) \/ UNCHANGED vars
         \/ \E w \in Workers : Proceed(w) \/ PeerFault(w)
BY DEF Next

\* One more chunk comes; only an origin that closes early sends part of one.
Relays(w) ==
  \E whole \in BOOLEAN : RelayChunk(w, whole) /\ (whole \/ uri[w] \in CutKeys)

\* Which of a worker's steps change what, and from where to where the others lead.
LEMMA Changes ==
  ASSUME TypeOK, NEW w \in Workers, Proceed(w) \/ PeerFault(w)
  PROVE  /\ \/ Deque(w) \/ Close(w)
            \/ pc[w] \notin {"deque", "close"} /\ UNCHANGED <<queue, conn, open, closed>>
         /\ \/ (\E k \in Keys : ReadOk(w, k)) \/ Close(w)
            \/ ~(pc[w] = "read" /\ pc'[w] = "get") /\ uri' = uri
         /\ \/ GetHit(w) \/ (\E b \in Buffers : GetMiss(w, b)) \/ Close(w)
            \/ (pc[w] = "get" => pc' = pc) /\ resp' = resp
         /\ \/ ProcessOk(w) \/ Relays(w) \/ Close(w)
            \/ ~(pc[w] = "process" /\ pc'[w] = "relay") /\ filled' = filled
         /\ \/ GetHit(w) \/ (\E b \in Buffers : GetMiss(w, b)) \/ Relays(w) \/ Put(w)
            \/ UNCHANGED cacheVars
         /\ \/ ReadBad(w) \/ SendHit(w) \/ ResolveFails(w) \/ ConnectFails(w) \/ ProcessBad(w)
            \/ Relays(w) \/ got' = got
<1>1. \/ Deque(w) \/ Close(w)
      \/ pc[w] \notin {"deque", "close"} /\ UNCHANGED <<queue, conn, open, closed>>
  BY DEF Goto, Proceed, PeerFault, Relays, mainVars, netVars, fdVars, cacheVars, workerVars,
      AddrFails, ReadOk, ReadReset, ReadBad, GetHit, SendHit, GetMiss, Resolve,
      ResolveFails, Socket, Connect, TryNext, ConnectFails, ProcessOk, ProcessBad,
      ProcessReset, RelayChunk, RelayEof, RelayCut, RelayError, RelayEnd, Put, CloseUp,
      OutOfMemory
<1>2. \/ (\E k \in Keys : ReadOk(w, k)) \/ Close(w)
      \/ ~(pc[w] = "read" /\ pc'[w] = "get") /\ uri' = uri
  BY DEF TypeOK, Goto, Proceed, PeerFault, Relays, mainVars, netVars, fdVars, cacheVars,
      workerVars, AddrFails, Deque, ReadReset, ReadBad, GetHit, SendHit, GetMiss, Resolve,
      ResolveFails, Socket, Connect, TryNext, ConnectFails, ProcessOk, ProcessBad,
      ProcessReset, RelayChunk, RelayEof, RelayCut, RelayError, RelayEnd, Put, CloseUp,
      OutOfMemory
<1>3. \/ GetHit(w) \/ (\E b \in Buffers : GetMiss(w, b)) \/ Close(w)
      \/ (pc[w] = "get" => pc' = pc) /\ resp' = resp
  BY DEF TypeOK, Goto, Proceed, PeerFault, Relays, mainVars, netVars, fdVars, cacheVars,
      workerVars, AddrFails, Deque, ReadOk, ReadReset, ReadBad, SendHit, Resolve,
      ResolveFails, Socket, Connect, TryNext, ConnectFails, ProcessOk, ProcessBad,
      ProcessReset, RelayChunk, RelayEof, RelayCut, RelayError, RelayEnd, Put, CloseUp,
      OutOfMemory
<1>4. \/ ProcessOk(w) \/ Relays(w) \/ Close(w)
      \/ ~(pc[w] = "process" /\ pc'[w] = "relay") /\ filled' = filled
  BY DEF TypeOK, Goto, Proceed, PeerFault, Relays, mainVars, netVars, fdVars, cacheVars,
      workerVars, AddrFails, Deque, ReadOk, ReadReset, ReadBad, GetHit, SendHit, GetMiss,
      Resolve, ResolveFails, Socket, Connect, TryNext, ConnectFails, ProcessBad,
      ProcessReset, RelayChunk, RelayEof, RelayCut, RelayError, RelayEnd, Put, CloseUp,
      OutOfMemory
<1>5. GetHit(w) \/ (\E b \in Buffers : GetMiss(w, b)) \/ Relays(w) \/ Put(w) \/ UNCHANGED cacheVars
  BY DEF Proceed, PeerFault, Relays, mainVars, netVars, fdVars, cacheVars, workerVars,
      Deque, ReadOk, ReadReset, ReadBad, SendHit, Resolve, ResolveFails, Socket, Connect,
      TryNext, ConnectFails, ProcessOk, ProcessBad, ProcessReset, RelayEof, RelayCut,
      RelayError, CloseUp, Close, OutOfMemory, RelayEnd
<1>6. \/ ReadBad(w) \/ SendHit(w) \/ ResolveFails(w) \/ ConnectFails(w) \/ ProcessBad(w)
     \/ Relays(w) \/ got' = got
  BY DEF Proceed, PeerFault, Relays, mainVars, netVars, fdVars, cacheVars, workerVars,
      Deque, ReadOk, ReadReset, GetHit, GetMiss, Resolve, Socket, Connect, TryNext,
      ProcessOk, ProcessReset, RelayEof, RelayCut, RelayError, Put, CloseUp, Close,
      OutOfMemory, RelayEnd
<1> QED BY <1>1, <1>2, <1>3, <1>4, <1>5, <1>6

LEMMA MainNext == ASSUME IInv, [Next]_vars PROVE MainOK'
<1>0. TypeOK /\ MainOK /\ WorkersOK /\ NoConn \notin Conns
  BY ProxyAssumption DEF IInv
<1>1. ASSUME Main PROVE MainOK'
  <2>1. CASE OpenListen
    BY <2>1, <1>0 DEF OpenListen, MainGoto, MainOK, workerVars
  <2>2. ASSUME NEW w \in Workers, CreateThread(w) PROVE MainOK'
    BY <2>2, <1>0 DEF CreateThread, MainOK, mainVars, TypeOK
  <2>3. CASE LruInit
    BY <2>3, <1>0 DEF LruInit, MainGoto, MainOK, workerVars
  <2>4. CASE Enque
    BY <2>4, <1>0 DEF Enque, MainGoto, MainOK, workerVars
  <2> QED BY <1>1, <2>1, <2>2, <2>3, <2>4 DEF Main
<1>2. ASSUME NEW c \in Conns, Accept(c) PROVE MainOK'
  BY <1>0, <1>2 DEF Accept, MainGoto, MainOK, workerVars
<1>3. UNCHANGED vars => MainOK'
  BY <1>0 DEF vars, mainVars, workerVars, MainOK
<1>4. ASSUME NEW w \in Workers, Proceed(w) \/ PeerFault(w) PROVE MainOK'
  <2>1. pc[w] = "deque" => queue # <<>>
    BY <1>4
    DEF Proceed, PeerFault, Goto, Deque, ReadOk, ReadReset, ReadBad, GetHit, SendHit, GetMiss, Resolve,
        ResolveFails, Socket, Connect, TryNext, ConnectFails, ProcessOk, ProcessBad,
        ProcessReset, RelayChunk, RelayEof, RelayCut, RelayError, Put, CloseUp, Close,
        OutOfMemory, RelayEnd, AddrFails
  <2>2. pc[w] # "unborn"
    BY <1>4, <1>0, Labels DEF Moves
  <2>3. lruReady /\ UNCHANGED mainVars
    BY <2>1, <2>2, <1>0, <1>4, OwnStep DEF MainOK
  <2> QED BY <1>0, <2>3 DEF MainOK, mainVars
<1> QED BY <1>1, <1>2, <1>3, <1>4, Steps

LEMMA WorkersNext == ASSUME IInv, [Next]_vars PROVE WorkersOK'
<1>0. /\ TypeOK /\ DataOK /\ WorkersOK /\ NoConn \notin Conns
      /\ Scenarios \subseteq [Conns -> [line : Lines, key : Keys, headers : Headers]]
  BY ProxyAssumption DEF IInv
<1>1. ASSUME Main \/ (\E c \in Conns : Accept(c)) \/ UNCHANGED vars PROVE WorkersOK'
  BY <1>0, <1>1, MainSteps DEF WorkersOK, Serving, Parsed, Filling, TypeOK
<1>2. ASSUME NEW w \in Workers, Proceed(w) \/ PeerFault(w) PROVE WorkersOK'
  <2>0. <<pc[w], pc'[w]>> \in Moves \/ (pc' = pc /\ pc[w] \in {"read", "get", "put"})
    BY <1>0, <1>2, Labels
  <2>1. conn'[w] \in Conns <=> pc'[w] \in Serving
    <3>1. CASE Deque(w)
      <4>1. Head(queue) \in Conns
        BY <1>0, <3>1 DEF Deque, TypeOK
      <4> QED BY <1>0, <3>1, <4>1 DEF Deque, Goto, TypeOK, Serving
    <3>2. CASE Close(w)
      BY <1>0, <3>2 DEF Close, Goto, TypeOK, Serving
    <3>3. CASE pc[w] \notin {"deque", "close"} /\ conn' = conn
      BY <1>0, <2>0, <3>3 DEF WorkersOK, Serving, Moves
    <3> QED BY <1>0, <1>2, <3>1, <3>2, <3>3, Changes
  <2>2. pc'[w] \in Parsed =>
         /\ uri'[w] \in Keys
         /\ request[conn'[w]].line \in {"ok", "empty"}
         /\ request[conn'[w]].line = "ok" => uri'[w] = request[conn'[w]].key
    <3>1. ASSUME NEW k \in Keys, ReadOk(w, k)
          PROVE  /\ uri'[w] \in Keys
                 /\ request[conn'[w]].line \in {"ok", "empty"}
                 /\ request[conn'[w]].line = "ok" => uri'[w] = request[conn'[w]].key
      BY <1>0, <3>1 DEF ReadOk, TypeOK
    <3>2. CASE Close(w)
      BY <1>0, <3>2 DEF Close, Goto, TypeOK, Parsed, Serving
    <3>3. CASE ~(pc[w] = "read" /\ pc'[w] = "get") /\ uri' = uri
      <4>1. pc'[w] \in Parsed => pc[w] \in Parsed
        BY <2>0, <3>3 DEF Moves, Parsed, Serving
      <4>2. Deque(w) \/ Close(w) => pc'[w] \notin Parsed
        BY <1>0 DEF Deque, Close, Goto, TypeOK, Parsed, Serving
      <4>3. pc'[w] \in Parsed => conn' = conn
        BY <1>0, <1>2, <4>2, Changes
      <4> QED BY <1>0, <3>3, <4>1, <4>3 DEF WorkersOK
    <3> QED BY <1>0, <1>2, <3>1, <3>2, <3>3, Changes
  <2>3. pc'[w] \in Filling \cup {"hit"} => resp'[w] \in Buffers
    <3>1. CASE GetHit(w)
      <4>1. Hits(lru, uri[w]) # {} /\ Lookup(lru, uri[w]) = lru[First(lru, uri[w])].resp
        BY <3>1 DEF GetHit, Lookup
      <4>2. First(lru, uri[w]) \in 1 .. Len(lru)
        BY <1>0, <4>1, TouchMoves DEF DataOK
      <4>3. lru[First(lru, uri[w])] \in Items
        BY <1>0, <4>2 DEF DataOK
      <4> QED BY <1>0, <3>1, <4>1, <4>3 DEF GetHit, TypeOK, Items
    <3>2. ASSUME NEW b \in Buffers, GetMiss(w, b)
          PROVE  resp'[w] \in Buffers
      BY <1>0, <3>2 DEF GetMiss, TypeOK
    <3>3. CASE Close(w)
      BY <1>0, <3>3 DEF Close, Goto, TypeOK, Filling
    <3>4. CASE (pc[w] = "get" => pc' = pc) /\ resp' = resp
      <4>1. pc'[w] \in Filling \cup {"hit"} => pc[w] \in Filling \cup {"hit"}
        BY <2>0, <3>4 DEF Moves, Filling
      <4> QED BY <1>0, <3>4, <4>1 DEF WorkersOK
    <3> QED BY <1>0, <1>2, <3>1, <3>2, <3>3, <3>4, Changes
  <2> QED BY <1>0, <1>2, <2>1, <2>2, <2>3, OwnStep DEF WorkersOK
<1> QED BY <1>1, <1>2, Steps

\* A hit finds an item of the cache, at its first position.
LEMMA Found ==
  ASSUME DataOK, NEW k, Lookup(lru, k) # None
  PROVE  /\ Hits(lru, k) # {}
         /\ First(lru, k) \in 1 .. Len(lru)
         /\ lru[First(lru, k)] \in Items
         /\ lru[First(lru, k)].key = k
         /\ Lookup(lru, k) = lru[First(lru, k)].resp
<1>1. Hits(lru, k) # {} /\ Lookup(lru, k) = lru[First(lru, k)].resp
  BY DEF Lookup
<1>2. First(lru, k) \in Hits(lru, k)
  BY <1>1, FirstHit DEF DataOK
<1> QED BY <1>1, <1>2 DEF Hits, DataOK

\* What a put does to the list: the new item is the first, and the others are a
\* beginning of the old list.
LEMMA PutKeeps ==
  ASSUME TypeOK, DataOK, WorkersOK, NEW w \in Workers, Put(w)
  PROVE  /\ lru' \in Seq(Items)
         /\ Len(lru') \in 1 .. Len(lru) + 1
         /\ lru'[1] = Item(uri[w], resp[w], Size[uri[w]])
         /\ \A i \in 2 .. Len(lru') : lru'[i] = lru[i - 1]
<1>1. pc[w] = "put"
  BY DEF Put, Goto
<1>2. uri[w] \in Keys /\ resp[w] \in Buffers
  BY <1>1 DEF WorkersOK, Parsed, Serving, Filling
<1> DEFINE it == Item(uri[w], resp[w], Size[uri[w]])
<1>3. it \in Items /\ it.size \in Int /\ it.size <= MaxSize /\ MaxSize \in Int
  BY <1>2, ProxyAssumption DEF Item, Items
<1>4. lru \in Seq(Items) /\ lru' = Insert(lru, it)
  BY DEF DataOK, Put
<1> HIDE DEF it
<1>5. /\ Insert(lru, it) \in Seq(Items)
      /\ Len(Insert(lru, it)) \in 1 .. Len(lru) + 1
      /\ Insert(lru, it)[1] = it
      /\ \A i \in 2 .. Len(Insert(lru, it)) : Insert(lru, it)[i] = lru[i - 1]
  BY <1>3, <1>4, InsertKeeps
<1> QED BY <1>4, <1>5 DEF it

LEMMA DataNext == ASSUME IInv, [Next]_vars PROVE DataOK'
<1>0. TypeOK /\ DataOK /\ WorkersOK
  BY DEF IInv
<1>1. ASSUME Main \/ (\E c \in Conns : Accept(c)) \/ UNCHANGED vars PROVE DataOK'
  BY <1>0, <1>1, MainSteps DEF DataOK
<1>2. ASSUME NEW w \in Workers, Proceed(w) \/ PeerFault(w) PROVE DataOK'
  <2>a. \A k \in Keys, i \in Nat, b \in BOOLEAN : Chunk(k, i, b) \in Texts
    BY DEF Texts
  <2>b. ErrorPage \in Texts /\ Garbage \in Texts
    BY DEF Texts
  <2>c. Relays(w) => \E x \in Texts : /\ content' = [content EXCEPT ![resp[w]] = x]
                                      /\ Send(w, x) /\ lru' = lru
    <3>1. filled[w] + 1 \in Nat
      BY <1>0 DEF TypeOK
    <3>2. pc[w] = "relay" => uri[w] \in Keys
      BY <1>0 DEF WorkersOK, Parsed, Serving
    <3> QED BY <2>a, <3>1, <3>2 DEF Relays, RelayChunk
  <2>1. lru' \in Seq(Items)
    <3>1. CASE GetHit(w)
      <4>1. Hits(lru, uri[w]) # {} /\ lru' = Touch(lru, uri[w])
        BY <1>0, <3>1, Found DEF GetHit
      <4> QED BY <1>0, <4>1, TouchMoves DEF DataOK
    <3>2. CASE Put(w)
      BY <1>0, <3>2, PutKeeps
    <3>3. ASSUME NEW b \in Buffers, GetMiss(w, b) PROVE lru' = lru
      BY <3>3 DEF GetMiss
    <3> QED BY <1>0, <1>2, <3>1, <3>2, <3>3, <2>c, Changes DEF DataOK, cacheVars
  <2>2. content' \in [Buffers -> Texts]
    <3>1. CASE GetHit(w)
      BY <1>0, <3>1 DEF GetHit, DataOK
    <3>2. CASE Put(w)
      BY <1>0, <3>2, <2>b DEF Put, DataOK
    <3>3. ASSUME NEW b \in Buffers, GetMiss(w, b) PROVE content' \in [Buffers -> Texts]
      BY <1>0, <3>3, <2>b DEF GetMiss, DataOK
    <3>4. CASE Relays(w)
      BY <1>0, <3>4, <2>c DEF DataOK
    <3> QED BY <1>0, <1>2, <3>1, <3>2, <3>3, <3>4, Changes DEF DataOK, cacheVars
  <2>3. got' \in [Conns -> Seq(Texts)]
    <3>0. \A x \in Texts : Send(w, x) => got' \in [Conns -> Seq(Texts)]
      <4> SUFFICES ASSUME NEW x \in Texts, Send(w, x) PROVE got' \in [Conns -> Seq(Texts)]
        OBVIOUS
      <4>1. \A s \in Seq(Texts) : Append(s, x) \in Seq(Texts)
        OBVIOUS
      <4> QED BY <1>0, <4>1 DEF DataOK, Send
    <3>1. CASE ReadBad(w) \/ ResolveFails(w) \/ ConnectFails(w) \/ ProcessBad(w)
      BY <3>0, <3>1, <2>b DEF ReadBad, ResolveFails, ConnectFails, ProcessBad
    <3>2. CASE SendHit(w)
      <4>1. content[resp[w]] \in Texts /\ Send(w, content[resp[w]])
        BY <1>0, <3>2 DEF SendHit, Goto, WorkersOK, DataOK
      <4> QED BY <3>0, <4>1
    <3>3. CASE Relays(w)
      BY <3>0, <3>3, <2>c
    <3> QED BY <1>0, <1>2, <3>1, <3>2, <3>3, Changes DEF DataOK
  <2> QED BY <2>1, <2>2, <2>3 DEF DataOK
<1> QED BY <1>1, <1>2, Steps

\* A worker's connection to an origin is made in Socket, and is given up or
\* forgotten when it leaves the labels where it has one.
LEMMA UpSteps ==
  ASSUME TypeOK, FdsCounted, NEW w \in Workers, Proceed(w) \/ PeerFault(w)
  PROVE  \/ Socket(w)
         \/ /\ up' = up \ {w} /\ pc'[w] \notin Connected /\ open' = open
            /\ lostFds' = lostFds \/ (lostFds' = lostFds + 1 /\ w \in up)
         \/ /\ up' = up /\ (pc'[w] \in Connected <=> pc[w] \in Connected)
            /\ lostFds' = lostFds /\ open' \subseteq open
<1>1. CASE Socket(w)
  BY <1>1
<1>2. CASE TryNext(w)
  BY <1>2 DEF TryNext, AddrFails, Connected, TypeOK, netVars
<1>3. CASE ConnectFails(w)
  BY <1>3 DEF ConnectFails, AddrFails, Connected, TypeOK, FdsCounted
<1>4. CASE ProcessBad(w)
  BY <1>4 DEF ProcessBad, Goto, Connected, TypeOK
<1>5. CASE ProcessReset(w)
  BY <1>5 DEF ProcessReset, Goto, Connected, TypeOK, FdsCounted, netVars
<1>6. CASE CloseUp(w)
  BY <1>6 DEF CloseUp, Goto, Connected, TypeOK, netVars
<1>7. CASE ~(Socket(w) \/ TryNext(w) \/ ConnectFails(w) \/ ProcessBad(w) \/ ProcessReset(w)
             \/ CloseUp(w))
  BY <1>7
  DEF TypeOK, Connected, Goto, Proceed, PeerFault, netVars, fdVars, workerVars, Deque, ReadOk,
      ReadReset, ReadBad, GetHit, SendHit, GetMiss, Resolve, ResolveFails, Connect, ProcessOk,
      RelayChunk, RelayEof, RelayCut, RelayError, RelayEnd, Put, Close, OutOfMemory
<1> QED BY <1>1, <1>2, <1>3, <1>4, <1>5, <1>6, <1>7

LEMMA FdsNext == ASSUME IInv, [Next]_vars PROVE FdsCounted' /\ lostFds' \in Nat
<1>0. TypeOK /\ FdsCounted /\ FdLimit \in Nat
  BY ProxyAssumption DEF IInv
<1>a. /\ IsFiniteSet(open) /\ IsFiniteSet(up) /\ lostFds \in Nat
      /\ \A c : IsFiniteSet(open \cup {c}) /\ IsFiniteSet(open \ {c})
      /\ \A w : IsFiniteSet(up \cup {w}) /\ IsFiniteSet(up \ {w})
  <2>1. IsFiniteSet(open) /\ IsFiniteSet(up) /\ lostFds \in Nat
    BY <1>0, ProxyAssumption, FS_Subset DEF TypeOK
  <2> QED BY <2>1, FS_AddElement, FS_RemoveElement
<1>b. \A S : IsFiniteSet(S) => Cardinality(S) \in Nat
  BY FS_CardinalityType
<1>c. ASSUME NEW S, NEW x, IsFiniteSet(S) PROVE Cardinality(S \cup {x}) <= Cardinality(S) + 1
  <2>1. Cardinality(S \cup {x}) = IF x \in S THEN Cardinality(S) ELSE Cardinality(S) + 1
    BY <1>c, FS_AddElement
  <2> QED BY <1>b, <1>c, <2>1
<1>1. ASSUME Main \/ UNCHANGED vars PROVE FdsCounted' /\ lostFds' \in Nat
  <2>1. UNCHANGED <<open, up, lostFds>>
    BY <1>1 DEF Main, OpenListen, CreateThread, LruInit, Enque, vars, netVars, fdVars
  <2>2. {v \in Workers : pc'[v] \in Connected} = {v \in Workers : pc[v] \in Connected}
    BY <1>0, <1>1, MainSteps DEF TypeOK, Connected
  <2> QED BY <1>0, <1>a, <2>1, <2>2 DEF FdsCounted, FdsInUse
<1>2. ASSUME NEW c \in Conns, Accept(c) PROVE FdsCounted' /\ lostFds' \in Nat
  <2>1. open' = open \cup {c} /\ pc' = pc /\ up' = up /\ lostFds' = lostFds /\ FdsInUse < FdLimit
    BY <1>2 DEF Accept, workerVars, fdVars
  <2>2. Cardinality(open') <= Cardinality(open) + 1
    BY <1>a, <1>c, <2>1
  <2>3. FdsInUse' <= FdLimit
    BY <1>0, <1>a, <1>b, <2>1, <2>2 DEF FdsInUse
  <2> QED BY <1>0, <1>a, <2>1, <2>3 DEF FdsCounted
<1>3. ASSUME NEW w \in Workers, Proceed(w) \/ PeerFault(w) PROVE FdsCounted' /\ lostFds' \in Nat
  <2>0. \A v \in Workers \ {w} : pc'[v] = pc[v]
    BY <1>0, <1>3, OwnStep
  <2>1. CASE Socket(w)
    <3>1. /\ up' = up \cup {w} /\ pc'[w] = "dial" /\ open' = open /\ lostFds' = lostFds
          /\ FdsInUse < FdLimit
      BY <1>0, <2>1 DEF Socket, Goto, netVars, TypeOK
    <3>2. up' = {v \in Workers : pc'[v] \in Connected}
      BY <1>0, <2>0, <3>1 DEF FdsCounted, Connected
    <3>3. Cardinality(up \cup {w}) <= Cardinality(up) + 1
      BY <1>a, <1>c
    <3>4. Cardinality(up') <= Cardinality(up) + 1 /\ Cardinality(up') \in Nat
      BY <1>a, <1>b, <3>1, <3>3
    <3>5. Cardinality(open) + Cardinality(up) + lostFds < FdLimit
      BY <3>1 DEF FdsInUse
    <3>6. Cardinality(open') + Cardinality(up') + lostFds' <= FdLimit
      BY <1>0, <1>a, <1>b, <3>1, <3>4, <3>5
    <3>7. FdsInUse' <= FdLimit
      BY <3>6 DEF FdsInUse
    <3> QED BY <1>a, <3>1, <3>2, <3>7 DEF FdsCounted
  <2>2. CASE /\ up' = up \ {w} /\ pc'[w] \notin Connected /\ open' = open
             /\ lostFds' = lostFds \/ (lostFds' = lostFds + 1 /\ w \in up)
    <3>1. up' = {v \in Workers : pc'[v] \in Connected}
      BY <1>0, <2>0, <2>2 DEF FdsCounted
    <3>2. Cardinality(up') = IF w \in up THEN Cardinality(up) - 1 ELSE Cardinality(up)
      BY <1>a, <2>2, FS_RemoveElement
    <3>3. FdsInUse' <= FdLimit
      BY <1>0, <1>a, <1>b, <2>2, <3>2 DEF FdsInUse, FdsCounted
    <3>4. lostFds' \in Nat
      BY <1>a, <2>2
    <3> QED BY <3>1, <3>3, <3>4 DEF FdsCounted
  <2>3. CASE /\ up' = up /\ (pc'[w] \in Connected <=> pc[w] \in Connected)
             /\ lostFds' = lostFds /\ open' \subseteq open
    <3>1. up' = {v \in Workers : pc'[v] \in Connected}
      BY <1>0, <2>0, <2>3 DEF FdsCounted
    <3>2. IsFiniteSet(open') /\ Cardinality(open') <= Cardinality(open)
      BY <1>a, <2>3, FS_Subset
    <3>3. FdsInUse' <= FdLimit
      BY <1>0, <1>a, <1>b, <2>3, <3>2 DEF FdsInUse, FdsCounted
    <3> QED BY <1>a, <2>3, <3>1, <3>3 DEF FdsCounted
  <2> QED BY <1>0, <1>3, <2>1, <2>2, <2>3, UpSteps
<1> QED BY <1>1, <1>2, <1>3, Steps

LEMMA TypeNext == ASSUME IInv, [Next]_vars PROVE TypeOK'
<1>0. /\ TypeOK /\ DataOK /\ MainOK /\ WorkersOK /\ MaxAddrs \in Nat \ {0} /\ SbufSize \in Nat
      /\ FdLimit \in Nat
  BY ProxyAssumption DEF IInv
<1> DEFINE MainPart ==
             /\ request \in Scenarios
             /\ alive \in BOOLEAN /\ listening \in BOOLEAN /\ lruReady \in BOOLEAN
             /\ mpc \in {"listen", "create", "accept", "enque"}
             /\ accepted \in Conns \cup {NoConn}
             /\ queue \in Seq(Conns) /\ Len(queue) <= SbufSize
             /\ open \subseteq Conns /\ closed \subseteq Conns
           Labelled ==
             pc \in [Workers -> {"unborn", "deque", "read", "get", "hit", "connect", "socket",
                                 "dial", "process", "relay", "put", "closeup", "close"}]
           WorkerPart ==
             /\ conn \in [Workers -> Conns \cup {NoConn}]
             /\ uri \in [Workers -> Keys \cup {NoKey}]
             /\ resp \in [Workers -> Buffers \cup {NoBuf}]
             /\ filled \in [Workers -> Nat]
             /\ addrs \in [Workers -> 0 .. MaxAddrs]
             /\ up \subseteq Workers
<1>a. MainPart /\ Labelled /\ WorkerPart
  BY <1>0 DEF TypeOK
<1>b. ASSUME NEW w \in Workers, Deque(w) \/ Close(w)
      PROVE  (MainPart /\ Labelled /\ WorkerPart)'
  <2>1. CASE Deque(w)
    <3>1. Head(queue) \in Conns /\ Tail(queue) \in Seq(Conns) /\ Len(Tail(queue)) <= SbufSize
      BY <1>0, <1>a, <2>1 DEF Deque
    <3> QED BY <1>a, <2>1, <3>1 DEF Deque, Goto, mainVars, netVars, fdVars
  <2>2. CASE Close(w)
    <3>1. conn[w] \in Conns
      BY <1>0, <2>2 DEF Close, Goto, WorkersOK, Serving
    <3> QED BY <1>a, <2>2, <3>1 DEF Close, Goto, mainVars, fdVars
  <2> QED BY <1>b, <2>1, <2>2
<1>1. ASSUME Main \/ (\E c \in Conns : Accept(c)) \/ UNCHANGED vars
      PROVE  (MainPart /\ Labelled /\ WorkerPart)'
  <2>1. MainPart'
    <3>1. CASE Enque
      <4>1. accepted \in Conns
        BY <1>0, <3>1 DEF Enque, MainGoto, MainOK
      <4> QED BY <1>0, <1>a, <3>1, <4>1 DEF Enque, MainGoto, netVars
    <3>2. ASSUME NEW c \in Conns, Accept(c) PROVE MainPart'
      BY <1>a, <3>2 DEF Accept, MainGoto
    <3>3. CASE OpenListen \/ (\E w \in Workers : CreateThread(w)) \/ LruInit \/ UNCHANGED vars
      BY <1>a, <3>3 DEF OpenListen, CreateThread, LruInit, MainGoto, vars, mainVars, netVars
    <3> QED BY <1>1, <3>1, <3>2, <3>3 DEF Main
  <2>2. Labelled' /\ WorkerPart'
    BY <1>a, <1>1, MainSteps DEF fdVars
  <2> QED BY <2>1, <2>2
<1>2. ASSUME NEW w \in Workers, Proceed(w) \/ PeerFault(w)
      PROVE  (MainPart /\ Labelled /\ WorkerPart)'
  <2>1. alive' \in BOOLEAN /\ UNCHANGED <<request, mainVars>>
    <3>1. alive' \in BOOLEAN
      BY <1>a, <1>2
      DEF Proceed, PeerFault, Goto, Deque, ReadOk, ReadReset, ReadBad, GetHit, SendHit,
          GetMiss, Resolve, ResolveFails, Socket, Connect, TryNext, ConnectFails, ProcessOk,
          ProcessBad, ProcessReset, RelayChunk, RelayEof, RelayCut, RelayError, RelayEnd, Put,
          CloseUp, Close, OutOfMemory
    <3> QED BY <1>0, <1>2, <3>1, OwnStep
  <2>2. MainPart' /\ conn' \in [Workers -> Conns \cup {NoConn}]
    <3>1. CASE Deque(w) \/ Close(w)
      BY <1>b, <3>1
    <3>2. CASE UNCHANGED <<queue, conn, open, closed>>
      BY <1>a, <2>1, <3>2 DEF mainVars
    <3> QED BY <1>0, <1>2, <3>1, <3>2, Changes
  <2>3. Labelled'
    BY <1>a, <1>2
    DEF Proceed, PeerFault, Goto, workerVars, Deque, ReadOk, ReadReset, ReadBad, GetHit, SendHit,
        GetMiss, Resolve, ResolveFails, Socket, Connect, TryNext, ConnectFails, ProcessOk,
        ProcessBad, ProcessReset, RelayChunk, RelayEof, RelayCut, RelayError, RelayEnd, Put,
        CloseUp, Close, OutOfMemory
  <2>4. uri' \in [Workers -> Keys \cup {NoKey}]
    <3>1. ASSUME NEW k \in Keys, ReadOk(w, k) PROVE uri' \in [Workers -> Keys \cup {NoKey}]
      BY <1>a, <3>1 DEF ReadOk
    <3> QED BY <1>0, <1>a, <1>b, <1>2, <3>1, Changes
  <2>5. resp' \in [Workers -> Buffers \cup {NoBuf}]
    <3>1. ASSUME NEW b \in Buffers, GetMiss(w, b) PROVE resp' \in [Workers -> Buffers \cup {NoBuf}]
      BY <1>a, <3>1 DEF GetMiss
    <3>2. CASE GetHit(w)
      <4>1. Lookup(lru, uri[w]) \in Buffers
        BY <1>0, <3>2, Found DEF GetHit, Items
      <4> QED BY <1>a, <3>2, <4>1 DEF GetHit
    <3> QED BY <1>0, <1>a, <1>b, <1>2, <3>1, <3>2, Changes
  <2>6. filled' \in [Workers -> Nat]
    <3>1. CASE ProcessOk(w)
      BY <1>a, <3>1 DEF ProcessOk
    <3>2. CASE Relays(w)
      <4>1. filled[w] + 1 \in Nat /\ filled' = [filled EXCEPT ![w] = filled[w] + 1]
        BY <1>a, <3>2 DEF Relays, RelayChunk
      <4> QED BY <1>a, <4>1
    <3> QED BY <1>0, <1>a, <1>b, <1>2, <3>1, <3>2, Changes
  <2>7. addrs' \in [Workers -> 0 .. MaxAddrs]
    <3>1. ASSUME NEW n \in 1 .. MaxAddrs, Resolve(w, n)
          PROVE  addrs' \in [Workers -> 0 .. MaxAddrs]
      BY <1>0, <1>a, <3>1 DEF Resolve
    <3>2. CASE TryNext(w)
      <4>1. addrs[w] - 1 \in 0 .. MaxAddrs /\ addrs' = [addrs EXCEPT ![w] = addrs[w] - 1]
        BY <1>0, <1>a, <3>2 DEF TryNext
      <4> QED BY <1>a, <4>1
    <3>3. CASE Connect(w) \/ ConnectFails(w)
      BY <1>0, <1>a, <3>3 DEF Connect, ConnectFails
    <3>4. ~((\E n \in 1 .. MaxAddrs : Resolve(w, n)) \/ TryNext(w) \/ Connect(w)
            \/ ConnectFails(w)) => addrs' = addrs
      BY <1>2
      DEF Proceed, PeerFault, fdVars, Deque, ReadOk, ReadReset, ReadBad, GetHit, SendHit,
          GetMiss, ResolveFails, Socket, ProcessOk, ProcessBad, ProcessReset, RelayChunk,
          RelayEof, RelayCut, RelayError, RelayEnd, Put, CloseUp, Close, OutOfMemory
    <3> QED BY <1>a, <3>1, <3>2, <3>3, <3>4
  <2>8. up' \subseteq Workers
    BY <1>a, <1>2, FdsNext DEF FdsCounted, Next
  <2> QED BY <2>2, <2>3, <2>4, <2>5, <2>6, <2>7, <2>8
<1>3. lostFds' \in 0 .. FdLimit
  <2>1. FdsInUse' <= FdLimit /\ lostFds' \in Nat /\ up' \subseteq Workers /\ open' \subseteq Conns
    <3>1. open' \subseteq Conns
      BY <1>1, <1>2, Steps
    <3> QED BY <3>1, FdsNext DEF FdsCounted
  <2>2. Cardinality(open') \in Nat /\ Cardinality(up') \in Nat
    BY <2>1, ProxyAssumption, FS_Subset, FS_CardinalityType
  <2> QED BY <1>0, <2>1, <2>2 DEF FdsInUse
<1>4. \A i \in DOMAIN lru' : lru'[i] \in [key : Keys, resp : Buffers, size : 1 .. MaxSize]
  <2>1. lru' \in Seq(Items)
    BY DataNext DEF DataOK
  <2>2. \A i \in DOMAIN lru' : lru'[i] \in Items
    BY <2>1
  <2> QED BY <2>2 DEF Items
<1> QED BY <1>1, <1>2, <1>3, <1>4, Steps DEF TypeOK

\* A worker sends to its own client only, and after its last send it closes
\* unless it goes on to relay.
LEMMA OwnGot ==
  ASSUME TypeOK, DataOK, NEW w \in Workers, Proceed(w) \/ PeerFault(w)
  PROVE  /\ \A c \in Conns : c # conn[w] => got'[c] = got[c]
         /\ Relays(w) \/ pc'[w] = "close" \/ got' = got
<1>1. \A x : Send(w, x) => \A c \in Conns : c # conn[w] => got'[c] = got[c]
  BY DEF Send, DataOK
<1>2. CASE ReadBad(w) \/ SendHit(w) \/ ResolveFails(w) \/ ConnectFails(w) \/ ProcessBad(w)
  <2>1. pc'[w] = "close"
    BY <1>2 DEF ReadBad, SendHit, ResolveFails, ConnectFails, ProcessBad, Goto, TypeOK
  <2>2. \E x : Send(w, x)
    BY <1>2 DEF ReadBad, SendHit, ResolveFails, ConnectFails, ProcessBad
  <2> QED BY <1>1, <2>1, <2>2
<1>3. CASE Relays(w)
  <2>1. \E x : Send(w, x)
    BY <1>3 DEF Relays, RelayChunk
  <2> QED BY <1>1, <1>3, <2>1
<1> QED BY <1>2, <1>3, Changes

LEMMA SentNext == ASSUME IInv, [Next]_vars PROVE Sent'
<1>0. TypeOK /\ DataOK /\ MainOK /\ WorkersOK /\ HeldOnce /\ HeldOpen /\ Sent /\ NoConn \notin Conns
  BY ProxyAssumption DEF IInv
<1>1. ASSUME Main \/ (\E c \in Conns : Accept(c)) \/ UNCHANGED vars PROVE Sent'
  BY <1>0, <1>1, MainSteps DEF Sent, NothingSent, TypeOK
<1>2. ASSUME NEW w \in Workers, Proceed(w) \/ PeerFault(w) PROVE Sent'
  <2>0. <<pc[w], pc'[w]>> \in Moves \/ (pc' = pc /\ pc[w] \in {"read", "get", "put"})
    BY <1>0, <1>2, Labels
  <2>a. \A v \in Workers \ {w} : pc'[v] = pc[v] /\ conn'[v] = conn[v] /\ filled'[v] = filled[v]
    BY <1>0, <1>2, OwnStep
  <2>b. /\ \A c \in Conns : c # conn[w] => got'[c] = got[c]
        /\ Relays(w) \/ pc'[w] = "close" \/ got' = got
    BY <1>0, <1>2, OwnGot
  <2>c. \/ Deque(w) \/ Close(w)
        \/ pc[w] \notin {"deque", "close"} /\ UNCHANGED <<queue, conn, open, closed>>
    BY <1>0, <1>2, Changes
  <2>d. Deque(w) => /\ pc[w] = "deque" /\ pc'[w] = "read" /\ conn' = [conn EXCEPT ![w] = Head(queue)]
                    /\ queue # <<>> /\ got' = got /\ closed' = closed /\ conn[w] = NoConn
                    /\ Head(queue) \in Conns
    <3>1. Deque(w) => Head(queue) \in Conns
      BY <1>0 DEF Deque, TypeOK
    <3>2. Deque(w) => conn[w] = NoConn
      BY <1>0 DEF Deque, Goto, TypeOK, WorkersOK, Serving
    <3> QED BY <1>0, <3>1, <3>2 DEF Deque, Goto, netVars, TypeOK
  <2>e. Close(w) => /\ pc[w] = "close" /\ pc'[w] = "deque" /\ conn' = [conn EXCEPT ![w] = NoConn]
                    /\ got' = got /\ closed' = closed \cup {conn[w]}
    BY <1>0 DEF Close, Goto, TypeOK
  <2>1. ASSUME NEW c \in Conns, c \notin closed', \A v \in Workers : conn'[v] # c
        PROVE  got'[c] = <<>>
    <3>1. CASE Deque(w)
      <4>1. \A v \in Workers : conn[v] # c
        BY <1>0, <2>1, <2>a, <2>d, <3>1
      <4> QED BY <1>0, <2>1, <2>d, <3>1, <4>1 DEF Sent
    <3>2. CASE Close(w)
      <4>1. \A v \in Workers : conn[v] # c
        BY <1>0, <2>1, <2>a, <2>e, <3>2
      <4> QED BY <1>0, <2>1, <2>e, <3>2, <4>1 DEF Sent
    <3>3. CASE conn' = conn /\ closed' = closed
      BY <1>0, <2>1, <2>b, <3>3 DEF Sent
    <3> QED BY <2>c, <3>1, <3>2, <3>3
  <2>2. ASSUME NEW v \in Workers \ {w}
        PROVE  /\ pc'[v] \in NothingSent => got'[conn'[v]] = <<>>
               /\ pc'[v] = "relay" => Len(got'[conn'[v]]) = filled'[v]
    <3>1. pc[v] \in NothingSent \cup {"relay"} => conn[v] \in Conns /\ conn[v] # conn[w]
      BY <1>0 DEF WorkersOK, NothingSent, Serving, HeldOnce
    <3> QED BY <1>0, <2>a, <2>b, <3>1 DEF Sent
  <2>3. pc'[w] \in NothingSent => got'[conn'[w]] = <<>>
    <3>1. CASE Deque(w)
      <4>1. Head(queue) \in open /\ \A v \in Workers : conn[v] # Head(queue)
        <5>1. 1 \in DOMAIN queue /\ queue[1] = Head(queue)
          BY <1>0, <2>d, <3>1 DEF TypeOK
        <5> QED BY <1>0, <2>d, <3>1, <5>1 DEF HeldOpen, HeldOnce
      <4>2. Head(queue) \notin closed
        BY <1>0, <4>1 DEF HeldOpen
      <4>3. conn'[w] = Head(queue)
        BY <1>0, <2>d, <3>1 DEF TypeOK
      <4> QED BY <1>0, <2>d, <3>1, <4>1, <4>2, <4>3 DEF Sent
    <3>2. CASE Close(w)
      BY <2>e, <3>2 DEF NothingSent
    <3>3. CASE pc[w] \notin {"deque", "close"} /\ conn' = conn
      <4>1. pc'[w] \in NothingSent => pc[w] \in NothingSent /\ pc'[w] # "close" /\ pc[w] # "relay"
        BY <2>0, <3>3 DEF Moves, NothingSent
      <4>2. Relays(w) => pc[w] = "relay"
        BY DEF Relays, RelayChunk
      <4> QED BY <1>0, <2>b, <3>3, <4>1, <4>2 DEF Sent
    <3> QED BY <2>c, <3>1, <3>2, <3>3
  <2>4. pc'[w] = "relay" => Len(got'[conn'[w]]) = filled'[w]
    <3>0. pc'[w] = "relay" => pc[w] \in {"process", "relay"} /\ conn' = conn /\ conn[w] \in Conns
      <4>1. pc'[w] = "relay" => pc[w] \in {"process", "relay"}
        BY <2>0 DEF Moves
      <4> QED BY <1>0, <2>c, <2>d, <2>e, <4>1 DEF WorkersOK, Serving
    <3>1. CASE ProcessOk(w)
      <4>1. /\ pc[w] = "process" /\ filled' = [filled EXCEPT ![w] = 0] /\ got' = got
            /\ conn' = conn
        BY <3>1 DEF ProcessOk, Goto, netVars
      <4>2. filled'[w] = 0 /\ got[conn[w]] = <<>>
        BY <1>0, <4>1 DEF TypeOK, Sent, NothingSent
      <4> QED BY <4>1, <4>2
    <3>2. CASE Relays(w)
      <4>1. PICK x : /\ pc[w] = "relay" /\ pc' = pc /\ filled' = [filled EXCEPT ![w] = @ + 1]
                     /\ got' = [got EXCEPT ![conn[w]] = Append(@, x)] /\ conn' = conn
        BY <3>2 DEF Relays, RelayChunk, Send
      <4>2. conn[w] \in Conns /\ Len(got[conn[w]]) = filled[w]
        BY <1>0, <4>1 DEF Sent, WorkersOK, Serving
      <4>3. filled'[w] = filled[w] + 1 /\ got'[conn[w]] = Append(got[conn[w]], x)
        BY <1>0, <4>1, <4>2 DEF TypeOK, DataOK
      <4>4. got[conn[w]] \in Seq(Texts)
        BY <1>0, <4>2 DEF DataOK
      <4>5. Len(Append(got[conn[w]], x)) = Len(got[conn[w]]) + 1
        BY <4>4
      <4> QED BY <4>1, <4>2, <4>3, <4>5
    <3>3. CASE Close(w)
      BY <2>e, <3>3
    <3>4. CASE ~(pc[w] = "process" /\ pc'[w] = "relay") /\ filled' = filled /\ ~Relays(w)
      BY <1>0, <2>b, <3>0, <3>4 DEF Sent
    <3> QED BY <1>0, <1>2, <3>1, <3>2, <3>3, <3>4, Changes
  <2> QED BY <2>1, <2>2, <2>3, <2>4 DEF Sent
<1> QED BY <1>1, <1>2, Steps

\* What happens to the contents of buffers: a chunk comes into the worker's own,
\* a new one is taken that nobody owns, and evicted ones are freed.
LEMMA ContentSteps ==
  ASSUME TypeOK, DataOK, WorkersOK, BuffersDisjoint, NEW w \in Workers, Proceed(w) \/ PeerFault(w)
  PROVE  \A b \in Owned :
           \/ content'[b] = content[b]
           \/ Relays(w) /\ b = resp[w]
           \/ Put(w) /\ b \in Cached /\ b \notin Cached'
<1> TAKE b \in Owned
<1>1. b \in Buffers
  <2>1. Cached \subseteq Buffers
    <3>1. \A i \in DOMAIN lru : lru[i] \in Items
      BY DEF DataOK
    <3> QED BY <3>1 DEF Cached, Items
  <2>2. \A v \in Workers : pc[v] \in Filling => resp[v] \in Buffers
    BY DEF WorkersOK
  <2> QED BY <2>1, <2>2 DEF Owned
<1>2. ASSUME NEW a \in Buffers, GetMiss(w, a) PROVE content'[b] = content[b]
  BY <1>1, <1>2 DEF GetMiss, DataOK
<1>3. CASE Relays(w)
  BY <1>1, <1>3 DEF Relays, RelayChunk, DataOK
<1>4. CASE Put(w)
  BY <1>1, <1>4 DEF Put, DataOK, Cached
<1>5. GetHit(w) => content' = content
  BY DEF GetHit
<1> QED BY <1>2, <1>3, <1>4, <1>5, Changes DEF cacheVars

LEMMA RelayedNext == ASSUME IInv, [Next]_vars PROVE Relayed'
<1>0. TypeOK /\ DataOK /\ WorkersOK /\ BuffersDisjoint /\ Relayed
  BY DEF IInv
<1> DEFINE Latest(v) ==
             (pc[v] = "relay" /\ filled[v] > 0) \/ pc[v] = "put" =>
               \E whole \in BOOLEAN :
                 /\ content[resp[v]] = Chunk(uri[v], filled[v], whole)
                 /\ whole \/ uri[v] \in CutKeys
           Complete(v) ==
             pc[v] = "put" => filled[v] = 1 /\ (Chunks[uri[v]] = 1 \/ uri[v] \in CutKeys)
<1>1. ASSUME Main \/ (\E c \in Conns : Accept(c)) \/ UNCHANGED vars PROVE Relayed'
  BY <1>0, <1>1, MainSteps DEF Relayed, TypeOK
<1>2. ASSUME NEW w \in Workers, Proceed(w) \/ PeerFault(w) PROVE Relayed'
  <2>0. <<pc[w], pc'[w]>> \in Moves \/ (pc' = pc /\ pc[w] \in {"read", "get", "put"})
    BY <1>0, <1>2, Labels
  <2>1. ASSUME NEW v \in Workers \ {w} PROVE Latest(v)' /\ Complete(v)'
    <3>1. /\ pc'[v] = pc[v] /\ uri'[v] = uri[v] /\ resp'[v] = resp[v] /\ filled'[v] = filled[v]
      BY <1>0, <1>2, OwnStep
    <3>2. pc[v] \in {"relay", "put"} => content'[resp[v]] = content[resp[v]]
      <4>1. pc[v] \in {"relay", "put"} => resp[v] \in Owned /\ resp[v] \notin Cached
        BY <1>0 DEF Owned, Filling, BuffersDisjoint
      <4>2. pc[v] \in {"relay", "put"} /\ pc[w] = "relay" => resp[v] # resp[w]
        BY <1>0, <2>1 DEF Filling, BuffersDisjoint
      <4>3. Relays(w) => pc[w] = "relay"
        BY DEF Relays, RelayChunk
      <4> QED BY <1>0, <1>2, <4>1, <4>2, <4>3, ContentSteps
    <3>3. Latest(v) /\ Complete(v)
      BY <1>0 DEF Relayed
    <3> QED BY <3>1, <3>2, <3>3
  <2>2. Latest(w)' /\ Complete(w)'
    <3>1. CASE Relays(w)
      <4>1. PICK whole \in BOOLEAN :
              /\ content' = [content EXCEPT ![resp[w]] = Chunk(uri[w], filled[w] + 1, whole)]
              /\ filled' = [filled EXCEPT ![w] = @ + 1] /\ pc[w] = "relay"
              /\ pc' = pc /\ uri' = uri /\ resp' = resp
              /\ whole \/ uri[w] \in CutKeys
        BY <3>1 DEF Relays, RelayChunk
      <4>2. resp[w] \in Buffers
        BY <1>0, <4>1 DEF WorkersOK, Filling
      <4>3. content'[resp'[w]] = Chunk(uri'[w], filled'[w], whole)
        BY <1>0, <4>1, <4>2 DEF DataOK, TypeOK
      <4> QED BY <4>1, <4>3
    <3>2. CASE pc[w] = "process" /\ pc'[w] = "relay"
      <4>1. ProcessOk(w)
        <5>1. ~Close(w) /\ ~Relays(w)
          BY <3>2 DEF Close, Goto, Relays, RelayChunk
        <5> QED BY <1>0, <1>2, <3>2, <5>1, Changes
      <4>2. filled'[w] = 0
        BY <1>0, <4>1 DEF ProcessOk, TypeOK
      <4> QED BY <3>2, <4>2
    <3>3. CASE /\ (pc[w] = "relay" /\ pc'[w] = "relay") \/ pc'[w] = "put"
               /\ ~Relays(w)
      <4>1. pc[w] \in {"relay", "put"}
        BY <2>0, <3>3 DEF Moves
      <4>2. ~Close(w) /\ ~GetHit(w) /\ ~ProcessOk(w) /\ (\A k \in Keys : ~ReadOk(w, k))
            /\ \A b \in Buffers : ~GetMiss(w, b)
        BY <4>1 DEF Close, GetHit, ProcessOk, ReadOk, GetMiss, Goto
      <4>3. ~Put(w)
        BY <1>0, <3>3 DEF Put, Goto, TypeOK
      <4>4. /\ uri' = uri /\ resp' = resp /\ filled' = filled /\ content' = content
        BY <1>0, <1>2, <3>3, <4>2, <4>3, Changes DEF cacheVars
      <4>5. pc[w] = "relay" /\ pc'[w] = "put" =>
              filled[w] = 1 /\ (filled[w] = Chunks[uri[w]] \/ uri[w] \in CutKeys)
        <5>1. pc[w] = "relay" /\ pc'[w] = "put" => RelayEof(w) \/ RelayCut(w)
          BY <1>0, <1>2
          DEF Proceed, PeerFault, Goto, TypeOK, workerVars, Deque, ReadOk, ReadReset, ReadBad,
              GetHit, SendHit, GetMiss, Resolve, ResolveFails, Socket, Connect, TryNext,
              AddrFails, ConnectFails, ProcessOk, ProcessBad, ProcessReset, RelayChunk,
              RelayError, Put, CloseUp, Close, OutOfMemory
        <5>2. RelayEnd(w) /\ pc'[w] = "put" => filled[w] = 1
          BY <1>0 DEF RelayEnd, Goto, TypeOK
        <5> QED BY <5>1, <5>2 DEF RelayEof, RelayCut
      <4>6. Latest(w) /\ Complete(w) /\ (filled[w] = 1 => filled[w] > 0)
        BY <1>0 DEF Relayed
      <4> QED BY <3>3, <4>1, <4>4, <4>5, <4>6
    <3>4. CASE ~(pc'[w] \in {"relay", "put"})
      BY <3>4
    <3>5. pc'[w] = "relay" => pc[w] \in {"process", "relay"}
      BY <2>0 DEF Moves
    <3> QED BY <3>1, <3>2, <3>3, <3>4, <3>5
  <2> QED BY <2>1, <2>2 DEF Relayed
<1> QED BY <1>1, <1>2, Steps

\* The list after a hit and after a put: what is in it, and that no buffer is in
\* it twice.
LEMMA HitKeeps ==
  ASSUME DataOK, BuffersDisjoint, NEW w \in Workers, GetHit(w)
  PROVE  /\ \A i \in DOMAIN lru' : \E j \in DOMAIN lru : lru'[i] = lru[j]
         /\ \A i, j \in DOMAIN lru' : lru'[i].resp = lru'[j].resp => i = j
<1>1. Hits(lru, uri[w]) # {} /\ lru' = Touch(lru, uri[w]) /\ lru \in Seq(Items)
  BY Found DEF GetHit, DataOK
<1>2. PICK g \in [1 .. Len(lru) -> 1 .. Len(lru)] :
        /\ \A i \in 1 .. Len(lru) : Touch(lru, uri[w])[i] = lru[g[i]]
        /\ \A i, j \in 1 .. Len(lru) : g[i] = g[j] => i = j
  <2>1. Hits(lru, uri[w]) # {} /\ lru \in Seq(Items)
    BY <1>1
  <2> QED BY ONLY <2>1, TouchPermutes, Z3
<1>3. DOMAIN lru = 1 .. Len(lru) /\ DOMAIN lru' = 1 .. Len(lru)
  <2>1. lru' \in Seq(Items) /\ Len(lru') = Len(lru)
    BY <1>1, TouchMoves
  <2> QED BY <1>1, <2>1
<1> QED BY <1>1, <1>2, <1>3 DEF BuffersDisjoint

LEMMA PutAdds ==
  ASSUME TypeOK, DataOK, WorkersOK, BuffersDisjoint, NEW w \in Workers, Put(w)
  PROVE  /\ \A i \in DOMAIN lru' : \/ lru'[i] = Item(uri[w], resp[w], Size[uri[w]])
                                   \/ \E j \in DOMAIN lru : lru'[i] = lru[j]
         /\ \A i, j \in DOMAIN lru' : lru'[i].resp = lru'[j].resp => i = j
<1>1. /\ lru' \in Seq(Items)
      /\ Len(lru') \in 1 .. Len(lru) + 1
      /\ lru'[1] = Item(uri[w], resp[w], Size[uri[w]])
      /\ \A i \in 2 .. Len(lru') : lru'[i] = lru[i - 1]
  BY PutKeeps
<1>2. /\ DOMAIN lru' = 1 .. Len(lru') /\ DOMAIN lru = 1 .. Len(lru) /\ Len(lru) \in Nat
      /\ Len(lru') \in Nat
  BY <1>1 DEF DataOK
<1>3. \A i \in DOMAIN lru' : i # 1 => i \in 2 .. Len(lru') /\ i - 1 \in DOMAIN lru
  BY <1>1, <1>2
<1>4. \A j \in DOMAIN lru : lru[j].resp # resp[w]
  BY DEF BuffersDisjoint, Cached, Put, Goto, Filling
<1>5. lru'[1].resp = resp[w]
  BY <1>1 DEF Item
<1>6. ASSUME NEW i \in DOMAIN lru', NEW j \in DOMAIN lru', lru'[i].resp = lru'[j].resp
      PROVE  i = j
  <2>1. CASE i = 1 \/ j = 1
    BY <1>1, <1>3, <1>4, <1>5, <1>6, <2>1
  <2>2. CASE i # 1 /\ j # 1
    <3>1. i - 1 = j - 1
      BY <1>1, <1>3, <1>6, <2>2 DEF BuffersDisjoint
    <3> QED BY <1>2, <3>1
  <2> QED BY <2>1, <2>2
<1> QED BY <1>1, <1>3, <1>6

\* The cache gains no buffer but the one that is put.
LEMMA CachedSteps ==
  ASSUME TypeOK, DataOK, WorkersOK, BuffersDisjoint, NEW w \in Workers, Proceed(w) \/ PeerFault(w)
  PROVE  /\ \A b \in Cached' : b \in Cached \/ (Put(w) /\ b = resp[w])
         /\ \A i, j \in DOMAIN lru' : lru'[i].resp = lru'[j].resp => i = j
<1>1. CASE GetHit(w)
  BY <1>1, HitKeeps DEF Cached
<1>2. CASE Put(w)
  BY <1>2, PutAdds DEF Cached, Item
<1>3. CASE lru' = lru
  BY <1>3 DEF Cached, BuffersDisjoint
<1>4. (\E b \in Buffers : GetMiss(w, b)) \/ Relays(w) => lru' = lru
  BY DEF GetMiss, Relays, RelayChunk
<1> QED BY <1>1, <1>2, <1>3, <1>4, Changes DEF cacheVars

LEMMA BuffersNext == ASSUME IInv, [Next]_vars PROVE BuffersDisjoint'
<1>0. TypeOK /\ DataOK /\ WorkersOK /\ BuffersDisjoint
  BY DEF IInv
<1>1. ASSUME Main \/ (\E c \in Conns : Accept(c)) \/ UNCHANGED vars PROVE BuffersDisjoint'
  <2>1. lru' = lru /\ resp' = resp
    BY <1>1, MainSteps
  <2>2. \A v \in Workers : pc'[v] \in Filling <=> pc[v] \in Filling
    BY <1>0, <1>1, MainSteps DEF Filling, TypeOK
  <2> QED BY <1>0, <2>1, <2>2 DEF BuffersDisjoint, Cached
<1>2. ASSUME NEW w \in Workers, Proceed(w) \/ PeerFault(w) PROVE BuffersDisjoint'
  <2>0. <<pc[w], pc'[w]>> \in Moves \/ (pc' = pc /\ pc[w] \in {"read", "get", "put"})
    BY <1>0, <1>2, Labels
  <2>1. \A v \in Workers \ {w} : pc'[v] = pc[v] /\ resp'[v] = resp[v]
    BY <1>0, <1>2, OwnStep
  <2>2. pc'[w] \in Filling => \/ resp'[w] \notin Owned /\ ~Put(w)
                              \/ pc[w] \in Filling /\ resp'[w] = resp[w] /\ ~Put(w)
    <3>0. ~(pc'[w] \in Filling /\ Put(w))
      BY <1>0 DEF Put, Goto, Filling, TypeOK
    <3>1. ASSUME NEW b \in Buffers, GetMiss(w, b) PROVE resp'[w] \notin Owned
      BY <1>0, <3>1 DEF GetMiss, TypeOK
    <3>2. GetHit(w) \/ Close(w) => pc'[w] \notin Filling
      BY <1>0 DEF GetHit, Close, Goto, Filling, TypeOK
    <3>3. CASE (pc[w] = "get" => pc' = pc) /\ resp' = resp
      <4>1. pc'[w] \in Filling => pc[w] \in Filling
        BY <2>0, <3>3 DEF Moves, Filling
      <4> QED BY <3>0, <3>3, <4>1
    <3> QED BY <1>0, <1>2, <3>0, <3>1, <3>2, <3>3, Changes
  <2>3. /\ \A b \in Cached' : b \in Cached \/ (Put(w) /\ b = resp[w])
        /\ \A i, j \in DOMAIN lru' : lru'[i].resp = lru'[j].resp => i = j
    BY <1>0, <1>2, CachedSteps
  <2>4. Put(w) => pc[w] \in Filling
    BY DEF Put, Goto, Filling
  <2>5. \A v \in Workers : pc[v] \in Filling => resp[v] \in Owned
    BY DEF Owned
  <2>6. Cached \subseteq Owned
    BY DEF Owned
  <2>7. ASSUME NEW v \in Workers, pc'[v] \in Filling PROVE resp'[v] \notin Cached'
    <3>1. CASE v = w
      BY <1>0, <2>2, <2>3, <2>6, <2>7, <3>1 DEF BuffersDisjoint
    <3>2. CASE v # w
      BY <1>0, <2>1, <2>3, <2>4, <2>7, <3>2 DEF BuffersDisjoint
    <3> QED BY <3>1, <3>2
  <2>8. ASSUME NEW u \in Workers, NEW v \in Workers, pc'[u] \in Filling, pc'[v] \in Filling,
               resp'[u] = resp'[v]
        PROVE  u = v
    <3>1. CASE u # w /\ v # w
      BY <1>0, <2>1, <2>8, <3>1 DEF BuffersDisjoint
    <3>2. CASE u = w /\ v # w
      BY <1>0, <2>1, <2>2, <2>5, <2>8, <3>2 DEF BuffersDisjoint
    <3>3. CASE u # w /\ v = w
      BY <1>0, <2>1, <2>2, <2>5, <2>8, <3>3 DEF BuffersDisjoint
    <3> QED BY <3>1, <3>2, <3>3
  <2> QED BY <2>3, <2>7, <2>8 DEF BuffersDisjoint
<1> QED BY <1>1, <1>2, Steps

LEMMA CachedNext == ASSUME IInv, [Next]_vars PROVE CachedIsOrigin'
<1>0. TypeOK /\ DataOK /\ WorkersOK /\ BuffersDisjoint /\ Relayed /\ CachedIsOrigin
  BY DEF IInv
<1> DEFINE Good(k, x) == \/ <<x>> = Origin(k)
                         \/ k \in CutKeys /\ \E whole \in BOOLEAN : x = Chunk(k, 1, whole)
<1>a. \A i \in DOMAIN lru : Good(lru[i].key, content[lru[i].resp])
  BY <1>0 DEF CachedIsOrigin
<1>1. ASSUME Main \/ (\E c \in Conns : Accept(c)) \/ UNCHANGED vars PROVE CachedIsOrigin'
  BY <1>0, <1>1, MainSteps DEF CachedIsOrigin
<1>2. ASSUME NEW w \in Workers, Proceed(w) \/ PeerFault(w) PROVE CachedIsOrigin'
  <2>1. ASSUME NEW j \in DOMAIN lru, lru[j].resp \in Cached'
        PROVE  Good(lru[j].key, content'[lru[j].resp])
    <3>1. lru[j].resp \in Cached /\ lru[j].resp \in Owned
      BY DEF Cached, Owned
    <3>2. Relays(w) => lru[j].resp # resp[w]
      BY <1>0, <3>1 DEF Relays, RelayChunk, BuffersDisjoint, Filling
    <3>3. content'[lru[j].resp] = content[lru[j].resp]
      BY <1>0, <1>2, <2>1, <3>1, <3>2, ContentSteps
    <3> QED BY <1>a, <3>3
  <2>2. CASE Put(w)
    <3>1. pc[w] = "put" /\ uri[w] \in Keys /\ resp[w] \in Owned
      BY <1>0, <2>2 DEF Put, Goto, WorkersOK, Parsed, Serving, Owned, Filling
    <3>2. PICK whole \in BOOLEAN : /\ content[resp[w]] = Chunk(uri[w], filled[w], whole)
                                   /\ whole \/ uri[w] \in CutKeys
      BY <1>0, <3>1 DEF Relayed
    <3>3. filled[w] = 1 /\ (Chunks[uri[w]] = 1 \/ uri[w] \in CutKeys)
      BY <1>0, <3>1 DEF Relayed
    <3>4. content'[resp[w]] = content[resp[w]]
      <4>1. resp[w] \notin Cached /\ ~Relays(w)
        BY <1>0, <3>1 DEF BuffersDisjoint, Filling, Relays, RelayChunk
      <4> QED BY <1>0, <1>2, <3>1, <4>1, ContentSteps
    <3>5. Good(uri[w], content'[resp[w]])
      <4>1. CASE whole /\ Chunks[uri[w]] = 1
        <5>1. Origin(uri[w]) = [i \in 1 .. 1 |-> Chunk(uri[w], i, TRUE)]
          BY <4>1 DEF Origin
        <5>2. Origin(uri[w]) = <<Chunk(uri[w], 1, TRUE)>>
          <6> DEFINE x == Chunk(uri[w], 1, TRUE)
                     s == [i \in 1 .. 1 |-> Chunk(uri[w], i, TRUE)]
          <6>1. DOMAIN s = 1 .. 1 /\ s[1] = x
            OBVIOUS
          <6>2. s = [i \in 1 .. 1 |-> x]
            BY <6>1
          <6>3. <<x>> = [i \in 1 .. 1 |-> x]
            <7> HIDE DEF x
            <7> QED OBVIOUS
          <6> QED BY <5>1, <6>2, <6>3
        <5>3. content'[resp[w]] = Chunk(uri[w], 1, TRUE)
          BY <3>2, <3>3, <3>4, <4>1
        <5> QED BY <5>2, <5>3
      <4>2. CASE uri[w] \in CutKeys
        BY <3>2, <3>3, <3>4, <4>2
      <4> QED BY <3>2, <3>3, <4>1, <4>2
    <3>6. ASSUME NEW i \in DOMAIN lru' PROVE Good(lru'[i].key, content'[lru'[i].resp])
      <4>1. lru'[i].resp \in Cached'
        BY DEF Cached
      <4>2. CASE lru'[i] = Item(uri[w], resp[w], Size[uri[w]])
        BY <3>5, <4>2 DEF Item
      <4>3. ASSUME NEW j \in DOMAIN lru, lru'[i] = lru[j]
            PROVE  Good(lru'[i].key, content'[lru'[i].resp])
        BY <2>1, <4>1, <4>3
      <4> QED BY <1>0, <2>2, <4>2, <4>3, PutAdds
    <3> QED BY <3>6 DEF CachedIsOrigin
  <2>3. CASE ~Put(w)
    <3>1. \A i \in DOMAIN lru' : \E j \in DOMAIN lru : lru'[i] = lru[j]
      <4>1. (\E b \in Buffers : GetMiss(w, b)) \/ Relays(w) => lru' = lru
        BY DEF GetMiss, Relays, RelayChunk
      <4> QED BY <1>0, <1>2, <2>3, <4>1, HitKeeps, Changes DEF cacheVars
    <3>2. ASSUME NEW i \in DOMAIN lru' PROVE Good(lru'[i].key, content'[lru'[i].resp])
      <4>1. PICK j \in DOMAIN lru : lru'[i] = lru[j]
        BY <3>1
      <4>2. lru[j].resp \in Cached'
        BY <4>1 DEF Cached
      <4> QED BY <2>1, <4>1, <4>2
    <3> QED BY <3>2 DEF CachedIsOrigin
  <2> QED BY <2>2, <2>3
<1> QED BY <1>1, <1>2, Steps

----------------------------------------------------------------------------
(* The theorems *)

LEMMA InitIInv == Init => IInv
<1> SUFFICES ASSUME Init PROVE IInv
  OBVIOUS
<1>0. NoConn \notin Conns /\ IsFiniteSet({}) /\ Cardinality({}) = 0
  BY ProxyAssumption, FS_EmptySet
<1>1. TypeOK
  <2>1. SbufSize \in Nat /\ FdLimit \in Nat /\ 0 \in 0 .. MaxAddrs /\ 0 \in 0 .. FdLimit
    BY ProxyAssumption
  <2>2. <<>> \in Seq(Conns) /\ Len(<<>>) = 0 /\ DOMAIN <<>> = {}
    OBVIOUS
  <2>3. /\ pc \in [Workers -> {"unborn", "deque", "read", "get", "hit", "connect", "socket",
                               "dial", "process", "relay", "put", "closeup", "close"}]
        /\ conn \in [Workers -> Conns \cup {NoConn}]
        /\ uri \in [Workers -> Keys \cup {NoKey}]
        /\ resp \in [Workers -> Buffers \cup {NoBuf}]
        /\ filled \in [Workers -> Nat]
        /\ addrs \in [Workers -> 0 .. MaxAddrs]
    BY <2>1 DEF Init
  <2>4. /\ queue \in Seq(Conns) /\ Len(queue) <= SbufSize
        /\ \A i \in DOMAIN lru : lru[i] \in [key : Keys, resp : Buffers, size : 1 .. MaxSize]
    BY <2>1, <2>2 DEF Init
  <2> QED BY <2>1, <2>3, <2>4 DEF Init, TypeOK
<1>2. DataOK
  BY DEF Init, DataOK, Texts
<1>3. MainOK /\ WorkersOK
  BY <1>0 DEF Init, MainOK, WorkersOK, Serving, Parsed, Filling
<1>4. HeldOnce /\ HeldOpen
  BY <1>0 DEF Init, HeldOnce, HeldOpen
<1>5. FdsCounted
  BY <1>0, ProxyAssumption DEF Init, FdsCounted, FdsInUse, Connected
<1>6. Sent /\ Relayed /\ BuffersDisjoint /\ CachedIsOrigin
  BY <1>0 DEF Init, Sent, NothingSent, Relayed, BuffersDisjoint, Filling, CachedIsOrigin
<1> QED BY <1>1, <1>2, <1>3, <1>4, <1>5, <1>6 DEF IInv

LEMMA NextIInv == IInv /\ [Next]_vars => IInv'
BY TypeNext, DataNext, MainNext, WorkersNext, HeldOnceNext, HeldOpenNext, FdsNext, SentNext,
   RelayedNext, BuffersNext, CachedNext DEF IInv

\* In every reachable state the threads, the queue, the descriptors, the cache and
\* the buffers agree with each other as IInv says.
THEOREM IInvHolds == Spec => []IInv
BY InitIInv, NextIInv, PTL DEF Spec

\* Every variable of main and of the workers has a value of its type.
THEOREM TypesHold == Spec => []TypeOK
<1>1. IInv => TypeOK
  BY DEF IInv
<1> QED BY <1>1, IInvHolds, PTL

\* An open connection is held by main, by the queue or by one worker, and a closed
\* one by nobody: none is served, or closed, twice.
THEOREM OneHolderHolds == Spec => []OneHolder
<1>1. ASSUME IInv PROVE OneHolder
  <2>0. TypeOK /\ HeldOnce /\ HeldOpen
    BY <1>1 DEF IInv
  <2>1. ASSUME NEW c \in Conns, c \notin open PROVE Holders(c) = {}
    BY <2>0, <2>1 DEF HeldOpen, Holders
  <2>2. ASSUME NEW c \in Conns, c \in open PROVE \E x : Holders(c) = {x}
    <3>1. CASE accepted = c
      <4>1. Holders(c) = {"main"}
        BY <2>0, <3>1 DEF HeldOnce, Holders
      <4> QED BY <4>1
    <3>2. ASSUME NEW i \in DOMAIN queue, queue[i] = c PROVE \E x : Holders(c) = {x}
      <4>1. Holders(c) = {i}
        BY <2>0, <3>2 DEF HeldOnce, Holders
      <4> QED BY <4>1
    <3>3. ASSUME NEW w \in Workers, conn[w] = c PROVE \E x : Holders(c) = {x}
      <4>1. Holders(c) = {w}
        BY <2>0, <3>3 DEF HeldOnce, Holders
      <4> QED BY <4>1
    <3> QED BY <2>0, <2>2, <3>1, <3>2, <3>3 DEF HeldOpen
  <2>3. Cardinality({}) = 0 /\ \A x : Cardinality({x}) = 1
    BY FS_EmptySet, FS_Singleton
  <2> QED BY <2>0, <2>1, <2>2, <2>3 DEF OneHolder
<1> QED BY <1>1, IInvHolds, PTL

\* No worker reaches the cache before main has called lru_init.
THEOREM LruInitFirstHolds == Spec => []LruInitFirst
<1>1. IInv => LruInitFirst
  BY DEF IInv, MainOK, LruInitFirst
<1> QED BY <1>1, IInvHolds, PTL

\* A response buffer belongs to one item of the cache or to one worker that fills it.
THEOREM BuffersDisjointHolds == Spec => []BuffersDisjoint
<1>1. IInv => BuffersDisjoint
  BY DEF IInv
<1> QED BY <1>1, IInvHolds, PTL

\* What is cached for a URI is its origin's whole response, or, from an origin that
\* closed too early, the chunk that came before.
THEOREM CachedIsOriginHolds == Spec => []CachedIsOrigin
<1>1. IInv => CachedIsOrigin
  BY DEF IInv
<1> QED BY <1>1, IInvHolds, PTL

\* What a client is sent next is the next chunk of the response to its own request,
\* or an error page in place of all; unless it is sent a hit that has been evicted.
THEOREM ServedOriginHolds == Spec => ServedOrigin
<1> DEFINE Served(w) ==
      LET c == conn[w]
          k == request[c].key
          x == got'[c][Len(got[c]) + 1]
      IN  c # NoConn /\ request[c].line # "empty" /\ got'[c] # got[c] =>
            \/ got'[c] = <<ErrorPage>>
            \/ x = Chunk(k, Len(got[c]) + 1, TRUE)
            \/ x = Chunk(k, Len(got[c]) + 1, FALSE) /\ k \in CutKeys
            \/ pc[w] = "hit" /\ Item(k, resp[w], Size[k]) \notin Range(lru)
<1>1. ASSUME IInv, [Next]_vars, NEW w \in Workers PROVE Served(w)
  <2> DEFINE c == conn[w]
             k == request[c].key
             x == got'[c][Len(got[c]) + 1]
  <2>0. TypeOK /\ DataOK /\ WorkersOK /\ HeldOnce /\ Sent /\ CachedIsOrigin
    BY <1>1 DEF IInv
  <2> SUFFICES ASSUME c # NoConn, request[c].line # "empty", got'[c] # got[c]
               PROVE  \/ got'[c] = <<ErrorPage>>
                      \/ x = Chunk(k, Len(got[c]) + 1, TRUE)
                      \/ x = Chunk(k, Len(got[c]) + 1, FALSE) /\ k \in CutKeys
                      \/ pc[w] = "hit" /\ Item(k, resp[w], Size[k]) \notin Range(lru)
    OBVIOUS
  <2>1. c \in Conns
    BY <2>0 DEF TypeOK
  <2>2. Proceed(w) \/ PeerFault(w)
    <3>1. PICK v \in Workers : Proceed(v) \/ PeerFault(v)
      BY <1>1, Steps, MainSteps
    <3>2. conn[v] = c
      BY <2>0, <2>1, <3>1, OwnGot
    <3> QED BY <2>0, <2>1, <3>1, <3>2 DEF HeldOnce
  <2>3. pc[w] \in Parsed => uri[w] = k /\ uri[w] \in Keys
    BY <2>0 DEF WorkersOK
  <2>4. \A y : Send(w, y) => /\ got'[c] = Append(got[c], y)
                             /\ got[c] = <<>> => got'[c] = <<y>>
                             /\ x = y
    <3> SUFFICES ASSUME NEW y, Send(w, y)
                 PROVE  /\ got'[c] = Append(got[c], y)
                        /\ got[c] = <<>> => got'[c] = <<y>>
                        /\ x = y
      OBVIOUS
    <3>1. got[c] \in Seq(Texts) /\ got'[c] = Append(got[c], y)
      BY <2>0, <2>1 DEF Send, DataOK
    <3>2. Append(got[c], y)[Len(got[c]) + 1] = y
      BY <3>1
    <3>3. Append(<<>>, y) = <<y>>
      OBVIOUS
    <3> QED BY <3>1, <3>2, <3>3
  <2>5. CASE ReadBad(w) \/ ResolveFails(w) \/ ConnectFails(w) \/ ProcessBad(w)
    <3>1. pc[w] \in NothingSent /\ Send(w, ErrorPage)
      BY <2>5 DEF ReadBad, ResolveFails, ConnectFails, AddrFails, ProcessBad, Goto, NothingSent
    <3>2. got[c] = <<>>
      BY <2>0, <3>1 DEF Sent
    <3> QED BY <2>4, <3>1, <3>2
  <2>6. CASE SendHit(w)
    <3>1. pc[w] = "hit" /\ Send(w, content[resp[w]])
      BY <2>6 DEF SendHit, Goto
    <3>2. got[c] = <<>>
      BY <2>0, <3>1 DEF Sent, NothingSent
    <3>3. x = content[resp[w]] /\ Len(got[c]) + 1 = 1
      BY <2>4, <3>1, <3>2
    <3>4. ASSUME Item(k, resp[w], Size[k]) \in Range(lru)
          PROVE  \/ x = Chunk(k, 1, TRUE)
                 \/ x = Chunk(k, 1, FALSE) /\ k \in CutKeys
      <4>1. PICK i \in DOMAIN lru : lru[i] = Item(k, resp[w], Size[k])
        BY <3>4 DEF Range
      <4>2. lru[i].key = k /\ lru[i].resp = resp[w]
        BY <4>1 DEF Item
      <4>3. \/ <<x>> = Origin(k)
            \/ k \in CutKeys /\ \E whole \in BOOLEAN : x = Chunk(k, 1, whole)
        BY <2>0, <3>3, <4>2 DEF CachedIsOrigin
      <4>4. CASE <<x>> = Origin(k)
        <5>1. 1 \in DOMAIN Origin(k) /\ Origin(k)[1] = x
          BY <4>4
        <5> QED BY <5>1 DEF Origin
      <4>5. CASE k \in CutKeys /\ \E whole \in BOOLEAN : x = Chunk(k, 1, whole)
        BY <4>5
      <4> QED BY <4>3, <4>4, <4>5
    <3> QED BY <3>1, <3>3, <3>4
  <2>7. CASE Relays(w)
    <3>1. PICK whole \in BOOLEAN : /\ Send(w, Chunk(uri[w], filled[w] + 1, whole))
                                   /\ pc[w] = "relay"
                                   /\ whole \/ uri[w] \in CutKeys
      BY <2>7 DEF Relays, RelayChunk
    <3>2. uri[w] = k /\ Len(got[c]) = filled[w]
      BY <2>0, <2>3, <3>1 DEF Parsed, Serving, Sent
    <3>3. x = Chunk(k, Len(got[c]) + 1, whole)
      BY <2>4, <3>1, <3>2
    <3> QED BY <3>1, <3>2, <3>3
  <2> QED BY <2>0, <2>2, <2>5, <2>6, <2>7, Changes
<1>2. IInv /\ [Next]_vars => [\A w \in Workers : Served(w)]_vars
  BY <1>1
<1> HIDE DEF Served
<1>3. Spec => [][\A w \in Workers : Served(w)]_vars
  BY <1>2, IInvHolds, PTL DEF Spec
<1> QED BY <1>3 DEF Served, ServedOrigin
=============================================================================
