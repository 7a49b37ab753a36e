------------------------------- MODULE Proxy -------------------------------
(***************************************************************************)
(* The concurrent caching proxy: main and the workers of                   *)
(* proxylab-handout/proxy.c.  The descriptor queue is the bounded FIFO that*)
(* Sbuf.tla is shown to implement, the response cache the atomic list that *)
(* LruCache.tla is shown to implement (its operators are LruList's).       *)
(*                                                                         *)
(* Between those atomic operations the threads interleave at every call    *)
(* that blocks or that another thread can observe.  Response buffers have  *)
(* addresses, because a worker that hits keeps the address after lru_get   *)
(* has released the cache's mutex.                                         *)
(***************************************************************************)
EXTENDS LruList, FiniteSets

CONSTANTS
  Workers,     \* the threads main creates
  Conns,       \* the client connections, each with one request
  Keys,        \* the URIs
  Buffers,     \* the addresses of response buffers malloc can return
  Scenarios,   \* what each client may send, one function per choice
  Chunks,      \* per URI: MAX_OBJECT_SIZE chunks of the origin's response
  Size,        \* per URI: the bytes of its last chunk, in units of MaxSize
  SilentKeys,  \* the URIs whose origin accepts and never answers
  SbufSize,    \* SBUF_SIZE
  FdLimit,     \* descriptors the process may have open for connections
  MayFail,     \* connections to origins may fail or break
  CutKeys,     \* the URIs whose origin may close before the end of a response
  MaxAddrs,    \* addresses getaddrinfo may give for an origin
  MayOom,      \* malloc may return NULL
  NoConn, NoKey, NoBuf

(* What read_req_line and process_req find, in the order they look.  A       *)
(* request whose line is "silent" never arrives; "empty" is a client that    *)
(* closes without sending; headers "nohost" are well formed without a Host.  *)
Lines == {"ok", "readerror", "malformed", "notget", "baduri", "empty", "silent"}
Headers == {"ok", "nohost", "readerror", "malformed", "toomany", "unterminated"}

ASSUME ProxyAssumption ==
  /\ IsFiniteSet(Workers) /\ IsFiniteSet(Conns) /\ IsFiniteSet(Buffers)
  /\ Scenarios \subseteq [Conns -> [line : Lines, key : Keys, headers : Headers]]
  /\ MaxSize \in Nat
  /\ Chunks \in [Keys -> Nat]
  /\ Size \in [Keys -> 1 .. MaxSize]
  /\ SilentKeys \subseteq Keys /\ CutKeys \subseteq Keys
  /\ MaxAddrs \in Nat \ {0}
  /\ SbufSize \in Nat \ {0} /\ FdLimit \in Nat
  /\ NoConn \notin Conns /\ NoKey \notin Keys /\ NoBuf \notin Buffers

VARIABLES
  request,     \* what each client sends
  alive,       \* the process has not called exit
  mpc,         \* where main is
  listening,   \* Open_listenfd succeeded
  accepted,    \* main's connfd
  lruReady,    \* lru_init has been called
  queue,       \* sbuf: the descriptors between main and the workers
  open,        \* the connections accepted and not closed
  closed,      \* the connections closed by the proxy
  got,         \* what each client has been sent
  pc,          \* where each worker is
  conn,        \* its connfd
  uri,         \* its parsed uri
  resp,        \* its local variable resp
  filled,      \* its local variable num_filled
  addrs,       \* the addresses open_clientfd has left to try
  up,          \* the workers with an open clientfd
  lostFds,     \* clientfds no variable holds any more
  lru,         \* the response cache, most recently used first
  content      \* what is in each response buffer

mainVars == <<mpc, listening, accepted, lruReady>>
netVars == <<open, closed, got>>
fdVars == <<addrs, up, lostFds>>
cacheVars == <<lru, content>>
workerVars == <<pc, conn, uri, resp, filled>>
vars == <<request, alive, mainVars, queue, netVars, workerVars, fdVars, cacheVars>>

\* What a client can be sent: an error page, or a chunk of a response.
ErrorPage == <<"error", 0, TRUE>>
Chunk(k, i, whole) == <<k, i, whole>>
Garbage == <<"garbage", 0, TRUE>>

\* The response the origin has for a URI.
Origin(k) == [i \in 1 .. Chunks[k] |-> Chunk(k, i, TRUE)]

\* Descriptors in use besides the standard ones and listenfd.
FdsInUse == Cardinality(open) + Cardinality(up) + lostFds

Init ==
  /\ request \in Scenarios
  /\ alive = TRUE
  /\ mpc = "listen" /\ listening = FALSE /\ accepted = NoConn
  /\ lruReady = FALSE
  /\ queue = <<>>
  /\ open = {} /\ closed = {}
  /\ got = [c \in Conns |-> <<>>]
  /\ pc = [w \in Workers |-> "unborn"]
  /\ conn = [w \in Workers |-> NoConn]
  /\ uri = [w \in Workers |-> NoKey]
  /\ resp = [w \in Workers |-> NoBuf]
  /\ filled = [w \in Workers |-> 0]
  /\ addrs = [w \in Workers |-> 0]
  /\ up = {} /\ lostFds = 0
  /\ lru = <<>>
  /\ content = [b \in Buffers |-> Garbage]

----------------------------------------------------------------------------
(* main *)

MainGoto(from, to) == alive /\ mpc = from /\ mpc' = to

\* Open_listenfd reports a failure and returns; main does not look.
OpenListen ==
  /\ MainGoto("listen", "create")
  /\ \/ listening' = TRUE
     \/ MayFail /\ listening' = FALSE
  /\ UNCHANGED <<request, alive, accepted, lruReady, queue, netVars,
                 workerVars, fdVars, cacheVars>>

\* sbuf_init comes before; the threads run as soon as they are created.
CreateThread(w) ==
  /\ alive /\ mpc = "create"
  /\ pc[w] = "unborn"
  /\ pc' = [pc EXCEPT ![w] = "deque"]
  /\ UNCHANGED <<request, alive, mainVars, queue, netVars, conn, uri, resp,
                 filled, fdVars, cacheVars>>

LruInit ==
  /\ MainGoto("create", "accept")
  /\ \A w \in Workers : pc[w] # "unborn"
  /\ lruReady' = TRUE
  /\ UNCHANGED <<request, alive, listening, accepted, queue, netVars,
                 workerVars, fdVars, cacheVars>>

\* Mutant: main accepts before it has created the threads and the cache.
AcceptEarly(c) ==
  /\ alive /\ mpc \in {"create", "accept"} /\ mpc' = "enque"
  /\ listening
  /\ c \notin open \cup closed
  /\ FdsInUse < FdLimit
  /\ accepted' = c
  /\ open' = open \cup {c}
  /\ UNCHANGED <<request, alive, listening, lruReady, queue, closed, got,
                 workerVars, fdVars, cacheVars>>

\* When no descriptor is free accept fails, and main tries again.
Accept(c) ==
  /\ MainGoto("accept", "enque")
  /\ listening
  /\ c \notin open \cup closed
  /\ FdsInUse < FdLimit
  /\ accepted' = c
  /\ open' = open \cup {c}
  /\ UNCHANGED <<request, alive, listening, lruReady, queue, closed, got,
                 workerVars, fdVars, cacheVars>>

Enque ==
  /\ MainGoto("enque", "accept")
  /\ Len(queue) < SbufSize
  /\ queue' = Append(queue, accepted)
  /\ accepted' = NoConn
  /\ UNCHANGED <<request, alive, listening, lruReady, netVars, workerVars,
                 fdVars, cacheVars>>

----------------------------------------------------------------------------
(* A worker *)

Goto(w, from, to) == alive /\ pc[w] = from /\ pc' = [pc EXCEPT ![w] = to]

\* Rio_writen to the client; whether it succeeds makes no difference.
Send(w, x) == got' = [got EXCEPT ![conn[w]] = Append(@, x)]

\* Mutant: the descriptor stays in the queue.
DequePeek(w) ==
  /\ Goto(w, "deque", "read")
  /\ queue # <<>>
  /\ conn' = [conn EXCEPT ![w] = Head(queue)]
  /\ UNCHANGED <<request, alive, mainVars, queue, netVars, uri, resp, filled,
                 fdVars, cacheVars>>

Deque(w) ==
  /\ Goto(w, "deque", "read")
  /\ queue # <<>>
  /\ conn' = [conn EXCEPT ![w] = Head(queue)]
  /\ queue' = Tail(queue)
  /\ UNCHANGED <<request, alive, mainVars, netVars, uri, resp, filled, fdVars,
                 cacheVars>>

\* Malloc(MAXLINE), read_req_line.  Rio_readlineb returns 0 for a client that
\* closes without sending, which read_req_line does not take for an error: it
\* parses an uninitialized line, which may be that of an earlier request.
ReadOk(w, k) ==
  /\ Goto(w, "read", "get")
  /\ LET r == request[conn[w]]
     IN  \/ r.line = "ok" /\ r.key = k
         \/ r.line = "empty"
  /\ uri' = [uri EXCEPT ![w] = k]
  /\ UNCHANGED <<request, alive, mainVars, queue, netVars, conn, resp, filled,
                 fdVars, cacheVars>>

ReadReset(w) ==
  /\ Goto(w, "read", "close")
  /\ request[conn[w]].line = "readerror"
  /\ UNCHANGED <<request, alive, mainVars, queue, netVars, conn, uri, resp,
                 filled, fdVars, cacheVars>>

ReadBad(w) ==
  /\ Goto(w, "read", "close")
  /\ request[conn[w]].line \in {"malformed", "notget", "baduri", "empty"}
  /\ Send(w, ErrorPage)
  /\ UNCHANGED <<request, alive, mainVars, queue, open, closed, conn, uri,
                 resp, filled, fdVars, cacheVars>>

\* lru_get finds the uri; resp is an alias of the cached buffer.
GetHit(w) ==
  /\ Goto(w, "get", "hit")
  /\ Lookup(lru, uri[w]) # None
  /\ resp' = [resp EXCEPT ![w] = Lookup(lru, uri[w])]
  /\ lru' = Touch(lru, uri[w])
  /\ UNCHANGED <<request, alive, mainVars, queue, netVars, conn, uri, filled,
                 fdVars, content>>

\* Mutant: doit does not return after a hit.
SendHitOn(w) ==
  /\ Goto(w, "hit", "connect")
  /\ Send(w, content[resp[w]])
  /\ UNCHANGED <<request, alive, mainVars, queue, open, closed, conn, uri,
                 resp, filled, fdVars, cacheVars>>

SendHit(w) ==
  /\ Goto(w, "hit", "close")
  /\ Send(w, content[resp[w]])
  /\ UNCHANGED <<request, alive, mainVars, queue, open, closed, conn, uri,
                 resp, filled, fdVars, cacheVars>>

\* The buffers the cache owns, and those a worker has malloc'ed to fill.  A
\* buffer a worker abandons is never freed; nothing refers to it, so the model
\* gives its address out again.
Cached == {lru[i].resp : i \in DOMAIN lru}
Filling == {"connect", "socket", "dial", "process", "relay", "put"}
\* Mutant: responses are read into a static buffer.
OwnedNone == {}

Owned == Cached \cup {resp[w] : w \in {v \in Workers : pc[v] \in Filling}}

\* lru_get finds nothing; resp = Malloc(MAX_OBJECT_SIZE).
GetMiss(w, b) ==
  /\ Goto(w, "get", "connect")
  /\ Lookup(lru, uri[w]) = None
  /\ b \notin Owned
  /\ resp' = [resp EXCEPT ![w] = b]
  /\ content' = [content EXCEPT ![b] = Garbage]
  /\ UNCHANGED <<request, alive, mainVars, queue, netVars, conn, uri, filled,
                 fdVars, lru>>

\* Open_clientfd: getaddrinfo gives a list of addresses, or fails.
Resolve(w, n) ==
  /\ Goto(w, "connect", "socket")
  /\ addrs' = [addrs EXCEPT ![w] = n]
  /\ UNCHANGED <<request, alive, mainVars, queue, netVars, conn, uri, resp,
                 filled, up, lostFds, cacheVars>>

ResolveFails(w) ==
  /\ Goto(w, "connect", "close")
  /\ MayFail
  /\ Send(w, ErrorPage)
  /\ UNCHANGED <<request, alive, mainVars, queue, open, closed, conn, uri,
                 resp, filled, fdVars, cacheVars>>

\* A descriptor is taken before connect is called, and held while it blocks.
Socket(w) ==
  /\ Goto(w, "socket", "dial")
  /\ FdsInUse < FdLimit
  /\ up' = up \cup {w}
  /\ UNCHANGED <<request, alive, mainVars, queue, netVars, conn, uri, resp,
                 filled, addrs, lostFds, cacheVars>>

Connect(w) ==
  /\ Goto(w, "dial", "process")
  /\ addrs' = [addrs EXCEPT ![w] = 0]
  /\ UNCHANGED <<request, alive, mainVars, queue, netVars, conn, uri, resp,
                 filled, up, lostFds, cacheVars>>

\* socket finds no descriptor, or connect fails and its socket is closed.
AddrFails(w) ==
  \/ pc[w] = "socket" /\ FdsInUse >= FdLimit /\ UNCHANGED up
  \/ pc[w] = "dial" /\ MayFail /\ up' = up \ {w}

TryNext(w) ==
  /\ alive /\ AddrFails(w)
  /\ addrs[w] > 1
  /\ pc' = [pc EXCEPT ![w] = "socket"]
  /\ addrs' = [addrs EXCEPT ![w] = @ - 1]
  /\ UNCHANGED <<request, alive, mainVars, queue, netVars, conn, uri, resp,
                 filled, lostFds, cacheVars>>

\* No address is left: Open_clientfd returns -1.
ConnectFails(w) ==
  /\ alive /\ AddrFails(w)
  /\ addrs[w] = 1
  /\ pc' = [pc EXCEPT ![w] = "close"]
  /\ addrs' = [addrs EXCEPT ![w] = 0]
  /\ Send(w, ErrorPage)
  /\ UNCHANGED <<request, alive, mainVars, queue, open, closed, conn, uri,
                 resp, filled, lostFds, cacheVars>>

\* process_req returns 0, and doit goes on to forward the response.
ProcessOk(w) ==
  /\ Goto(w, "process", "relay")
  /\ request[conn[w]].headers \in {"ok", "nohost"}
  /\ filled' = [filled EXCEPT ![w] = 0]
  /\ UNCHANGED <<request, alive, mainVars, queue, netVars, conn, uri, resp,
                 fdVars, cacheVars>>

\* It returns -2 (a write to the origin failed), -3, -4 or -5.
ProcessBad(w) ==
  /\ Goto(w, "process", "close")
  /\ \/ MayFail
     \/ request[conn[w]].headers \in {"malformed", "toomany", "unterminated"}
  /\ Send(w, ErrorPage)
  /\ up' = up \ {w}
  /\ UNCHANGED <<request, alive, mainVars, queue, open, closed, conn, uri,
                 resp, filled, addrs, lostFds, cacheVars>>

\* It returns -1, and doit returns without closing clientfd.
ProcessReset(w) ==
  /\ Goto(w, "process", "close")
  /\ request[conn[w]].headers = "readerror"
  /\ up' = up \ {w}
  /\ lostFds' = lostFds + 1
  /\ UNCHANGED <<request, alive, mainVars, queue, netVars, conn, uri, resp,
                 filled, addrs, cacheVars>>

\* The origin answers once it has seen the empty line that ends the headers.
\* process_req sends that line, except after a Host header of its own, where
\* its CRLF ends the Host line instead.
OriginAnswers(w) ==
  /\ uri[w] \notin SilentKeys
  /\ request[conn[w]].headers # "nohost"

\* One iteration of the loop: the next chunk overwrites resp and is forwarded.
RelayChunk(w, whole) ==
  LET x == Chunk(uri[w], filled[w] + 1, whole) IN
  /\ alive /\ pc[w] = "relay"
  /\ OriginAnswers(w)
  /\ filled[w] < Chunks[uri[w]]
  /\ filled[w] > 0 => content[resp[w]][3]
  /\ content' = [content EXCEPT ![resp[w]] = x]
  /\ filled' = [filled EXCEPT ![w] = @ + 1]
  /\ Send(w, x)
  /\ UNCHANGED <<request, alive, mainVars, queue, open, closed, pc, conn, uri,
                 resp, fdVars, lru>>

\* Mutant: whatever is in resp at the end of file is cached.
RelayEndAny(w) ==
  /\ Goto(w, "relay", IF filled[w] >= 1 THEN "put" ELSE "closeup")
  /\ UNCHANGED <<request, alive, mainVars, queue, netVars, conn, uri, resp,
                 filled, fdVars, cacheVars>>

\* End of file, after the whole response or before: the response is cached if
\* it came in one chunk.
RelayEnd(w) ==
  /\ Goto(w, "relay", IF filled[w] = 1 THEN "put" ELSE "closeup")
  /\ UNCHANGED <<request, alive, mainVars, queue, netVars, conn, uri, resp,
                 filled, fdVars, cacheVars>>

RelayEof(w) ==
  /\ RelayEnd(w)
  /\ OriginAnswers(w)
  /\ filled[w] = Chunks[uri[w]]

RelayCut(w) == uri[w] \in CutKeys /\ RelayEnd(w)

\* Rio_readnb fails: nothing is cached.
RelayError(w) ==
  /\ Goto(w, "relay", "closeup")
  /\ MayFail
  /\ UNCHANGED <<request, alive, mainVars, queue, netVars, conn, uri, resp,
                 filled, fdVars, cacheVars>>

\* lru_put: uri and resp are the cache's now.  It frees the buffers it evicts,
\* and what is in a freed buffer is indeterminate.
Put(w) ==
  /\ Goto(w, "put", "closeup")
  /\ lru' = Insert(lru, Item(uri[w], resp[w], Size[uri[w]]))
  /\ content' = [b \in Buffers |->
                   IF b \in Cached \ {lru'[i].resp : i \in DOMAIN lru'}
                   THEN Garbage ELSE content[b]]
  /\ UNCHANGED <<request, alive, mainVars, queue, netVars, conn, uri, resp,
                 filled, fdVars>>

CloseUp(w) ==
  /\ Goto(w, "closeup", "close")
  /\ up' = up \ {w}
  /\ UNCHANGED <<request, alive, mainVars, queue, netVars, conn, uri, resp,
                 filled, addrs, lostFds, cacheVars>>

\* Mutant: the thread returns after its first connection.
CloseAndExit(w) ==
  /\ Goto(w, "close", "exited")
  /\ open' = open \ {conn[w]}
  /\ closed' = closed \cup {conn[w]}
  /\ conn' = [conn EXCEPT ![w] = NoConn]
  /\ uri' = [uri EXCEPT ![w] = NoKey]
  /\ resp' = [resp EXCEPT ![w] = NoBuf]
  /\ filled' = [filled EXCEPT ![w] = 0]
  /\ UNCHANGED <<request, alive, mainVars, queue, got, fdVars, cacheVars>>

\* Back in thread: Close(connfd), and the next iteration.
Close(w) ==
  /\ Goto(w, "close", "deque")
  /\ open' = open \ {conn[w]}
  /\ closed' = closed \cup {conn[w]}
  /\ conn' = [conn EXCEPT ![w] = NoConn]
  /\ uri' = [uri EXCEPT ![w] = NoKey]
  /\ resp' = [resp EXCEPT ![w] = NoBuf]
  /\ filled' = [filled EXCEPT ![w] = 0]
  /\ UNCHANGED <<request, alive, mainVars, queue, got, fdVars, cacheVars>>

\* Malloc of the uri, of resp on a miss, or of the lru_item_t fails: unix_error
\* ends the process, and the checks for NULL after Malloc are never reached.
OutOfMemory(w) ==
  /\ MayOom
  /\ alive
  /\ \/ pc[w] = "read"
     \/ pc[w] = "get" /\ Lookup(lru, uri[w]) = None
     \/ pc[w] = "put"
  /\ alive' = FALSE
  /\ UNCHANGED <<request, mainVars, queue, netVars, workerVars, fdVars, cacheVars>>

----------------------------------------------------------------------------
Main == OpenListen \/ (\E w \in Workers : CreateThread(w)) \/ LruInit \/ Enque

\* The steps of a worker that wait for no peer.
Proceed(w) ==
  \/ Deque(w) \/ ReadReset(w) \/ ReadBad(w) \/ (\E k \in Keys : ReadOk(w, k))
  \/ GetHit(w) \/ SendHit(w) \/ (\E b \in Buffers : GetMiss(w, b))
  \/ (\E n \in 1 .. MaxAddrs : Resolve(w, n)) \/ ResolveFails(w)
  \/ Socket(w) \/ Connect(w) \/ TryNext(w) \/ ConnectFails(w)
  \/ ProcessOk(w) \/ ProcessBad(w) \/ ProcessReset(w)
  \/ RelayChunk(w, TRUE) \/ RelayEof(w)
  \/ Put(w) \/ CloseUp(w) \/ Close(w)

\* What peers may do and nothing makes them do.
PeerFault(w) ==
  \/ uri[w] \in CutKeys /\ RelayChunk(w, FALSE)
  \/ RelayCut(w)
  \/ RelayError(w)
  \/ OutOfMemory(w)

Next ==
  \/ Main
  \/ \E c \in Conns : Accept(c)
  \/ \E w \in Workers : Proceed(w) \/ PeerFault(w)

Spec == Init /\ [][Next]_vars

\* Threads run, and clients and origins that are not silent do what their
\* request says.  accept takes the first connection of the backlog: each is
\* accepted eventually, if main keeps calling accept with a free descriptor.
FairSpec ==
  /\ Spec
  /\ WF_vars(Main)
  /\ \A c \in Conns : SF_vars(Accept(c))
  /\ \A w \in Workers : WF_vars(Proceed(w))

----------------------------------------------------------------------------
TypeOK ==
  /\ request \in Scenarios
  /\ alive \in BOOLEAN /\ listening \in BOOLEAN /\ lruReady \in BOOLEAN
  /\ mpc \in {"listen", "create", "accept", "enque"}
  /\ accepted \in Conns \cup {NoConn}
  /\ queue \in Seq(Conns) /\ Len(queue) <= SbufSize
  /\ open \subseteq Conns /\ closed \subseteq Conns
  /\ pc \in [Workers -> {"unborn", "deque", "read", "get", "hit", "connect", "socket",
                         "dial", "process", "relay", "put", "closeup", "close"}]
  /\ conn \in [Workers -> Conns \cup {NoConn}]
  /\ uri \in [Workers -> Keys \cup {NoKey}]
  /\ resp \in [Workers -> Buffers \cup {NoBuf}]
  /\ filled \in [Workers -> Nat]
  /\ addrs \in [Workers -> 0 .. MaxAddrs]
  /\ up \subseteq Workers
  /\ lostFds \in 0 .. FdLimit
  /\ \A i \in DOMAIN lru : lru[i] \in [key : Keys, resp : Buffers, size : 1 .. MaxSize]

\* Who holds a connection: main before it enqueues, the queue, or a worker.
Holders(c) ==
  (IF accepted = c THEN {"main"} ELSE {})
    \cup {i \in DOMAIN queue : queue[i] = c}
    \cup {w \in Workers : conn[w] = c}

\* An open connection is held at exactly one place and a closed one at none:
\* no worker reads from, or closes, a descriptor that another one has, or that
\* has been closed and may since belong to another client.
OneHolder ==
  /\ TypeOK
  /\ \A c \in Conns : Cardinality(Holders(c)) = IF c \in open THEN 1 ELSE 0

\* main creates the workers before it calls lru_init; no worker reaches the
\* cache before that, because main enqueues nothing until then.
LruInitFirst == \A w \in Workers : pc[w] \in {"get", "put"} => lruReady

\* A buffer belongs to one cached item, or to one worker that fills it: none
\* is overwritten while it is cached, and none is freed twice.
BuffersDisjoint ==
  LET filling == {w \in Workers : pc[w] \in Filling} IN
  /\ \A i, j \in DOMAIN lru : lru[i].resp = lru[j].resp => i = j
  /\ \A w \in filling : resp[w] \notin Cached
  /\ \A v, w \in filling : resp[v] = resp[w] => v = w

\* A cached response is the whole response of its own URI, or what the origin
\* sent of it before it closed too early, in the first chunk or right behind it.
CachedIsOrigin ==
  \A i \in DOMAIN lru :
    LET x == content[lru[i].resp] IN
    \/ <<x>> = Origin(lru[i].key)
    \/ lru[i].key \in CutKeys /\ \E whole \in BOOLEAN : x = Chunk(lru[i].key, 1, whole)

\* What a client is sent next is the next chunk of the response to its own
\* request, as far as the origin sent it, or an error page in place of all: no
\* interleaving of misses, insertions and hits sends one client what belongs to
\* another, or twice.  The exception is a hit whose item has been evicted since.
ServedOrigin ==
  [][\A w \in Workers :
       LET c == conn[w]
           k == request[c].key
           x == got'[c][Len(got[c]) + 1]
       IN  c # NoConn /\ request[c].line # "empty" /\ got'[c] # got[c] =>
             \/ got'[c] = <<ErrorPage>>
             \/ x = Chunk(k, Len(got[c]) + 1, TRUE)
             \/ x = Chunk(k, Len(got[c]) + 1, FALSE) /\ k \in CutKeys
             \/ pc[w] = "hit" /\ Item(k, resp[w], Size[k]) \notin Range(lru)]_vars

\* The requests that reach the proxy and whose origin answers.
Prompt(c) ==
  request[c].line \notin {"silent", "empty"} /\ request[c].key \notin SilentKeys

\* Fewer connections than there are workers can block one for ever.
WorkersLeft == Cardinality({c \in Conns : ~Prompt(c)}) < Cardinality(Workers)

\* Every connection from a client that talks, to an origin that answers, is
\* served and closed, although others block some of the workers for ever.
PromptServed ==
  \A c \in Conns : listening /\ Prompt(c) /\ WorkersLeft ~> c \in closed
=============================================================================
