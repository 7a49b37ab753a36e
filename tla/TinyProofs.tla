----------------------------- MODULE TinyProofs ------------------------------
(***************************************************************************)
(* Proofs about tiny, for any number of clients, any requests and files,   *)
(* and buffers of any size: where the server stops reading a request, and  *)
(* that a polite client gets its response in order and once.               *)
(***************************************************************************)
EXTENDS Tiny, FiniteSetTheorems, SequenceTheorems, TLAPS

----------------------------------------------------------------------------
(* The inductive invariant *)

\* The bytes of requests and files, and what stands for those tiny sends itself,
\* which the provers do not know to be strings.
Byte == STRING \cup {"501", "404", "403", "type", "page", "200", "server", "length", "log",
                   "cr", "lf", "garbage"}
Bytes == Seq(Byte)
Answering == {"write", "open", "fork", "wait", "close"}
Readers ==
  {r \in [buf : Bytes, ptr : Nat, cnt : Int] :
     r.ptr <= Len(r.buf) /\ r.ptr + r.cnt <= Len(r.buf)}

TypeOK ==
  /\ request \in [Clients -> Bytes]
  /\ up \in [Clients -> [sent : Nat, read : Nat, ended : BOOLEAN, reset : BOOLEAN]]
  /\ down \in [Clients -> [data : Bytes, ended : BOOLEAN]]
  /\ backlog \in Seq(Clients)
  /\ pc \in {"accept", "request", "headers", "exited"} \cup Answering
  /\ rio \in Readers /\ usrbuf \in Bytes /\ buf \in Bytes /\ used \in Nat
  /\ todo \in Seq(Bytes)
  /\ files \subseteq DOMAIN Disk
  /\ reader \in [Polite -> [rio : Readers, got : Bytes, eof : BOOLEAN]]

\* What has arrived from the server: read, in the reader's buffer or on its way.
Arrived(c) == reader[c].got \o Unread(reader[c].rio) \o down[c].data

\* A connection is waiting, being served or closed.
ConnsOK ==
  /\ pc \in {"request", "headers"} \cup Answering => conn \in Clients
  /\ pc = "accept" => conn = None /\ usrbuf = <<>> /\ used = 0
  /\ \A i, j \in DOMAIN backlog : backlog[i] = backlog[j] => i = j
  /\ \A i \in DOMAIN backlog :
       /\ backlog[i] # conn
       /\ up[backlog[i]].read = 0
       /\ ~down[backlog[i]].ended
       /\ backlog[i] \in Polite => Arrived(backlog[i]) = <<>>
  /\ \A c \in Clients : down[c].ended => c # conn
  /\ \A c \in Clients : up[c].read <= up[c].sent /\ up[c].sent <= Len(request[c])
  /\ \A c \in Polite : /\ ~up[c].ended /\ ~up[c].reset
                       /\ Len(request[c]) > 1 /\ request[c][2] \notin {CR, LF}

\* While the request goes on: rio holds what follows the bytes used, usrbuf the
\* line so far, and the headers have not ended yet.
LineOK ==
  LET r == request[conn]
      start == used - Len(usrbuf)
  IN  pc \in {"request", "headers"} /\ ~up[conn].ended =>
        /\ IF rio.cnt > 0
           THEN /\ used + rio.cnt = up[conn].read
                /\ rio.ptr + rio.cnt <= Len(rio.buf)
                /\ \A k \in 1 .. rio.cnt : rio.buf[rio.ptr + k] = r[used + k]
           ELSE used = up[conn].read
        /\ Len(usrbuf) < MAXLINE - 1 /\ Len(usrbuf) <= used
        /\ \A k \in 1 .. Len(usrbuf) : usrbuf[k] = r[start + k] /\ usrbuf[k] # LF
        /\ LineStarts(r, start)
        /\ pc = "request" => start = 0
        /\ pc = "headers" => start > 0 /\ \A i \in HeaderEnds(r) : i > start

\* The uri is the one that was asked for.
UriOK ==
  conn \in Polite =>
    /\ pc = "headers" => request[conn][1] = "GET"
    /\ pc = "headers" => uri = request[conn][2]

\* The file that follows the headers.
Heads == {"type", "server"}

\* What Rio_writen can be given: a few buffers, the last of which names what
\* follows or holds none of the names.
Writable(s) ==
  /\ Len(s) \in 1 .. 4
  /\ \A k \in 1 .. Len(s) : s[k] # <<>>
  /\ Len(Last(s)) > 1 => \A k \in 1 .. Len(Last(s)) : Last(s)[k] \notin Heads

\* What is still to be written.
AnswerOK ==
  /\ child # None => pc = "wait"
  /\ pc = "wait" => child \in Bytes
  /\ pc = "write" => Writable(todo)
  /\ pc = "write" /\ Last(todo)[1] \in Heads => uri \in DOMAIN Disk
  /\ pc \in {"open", "fork"} => uri \in DOMAIN Disk

Owed ==
  CASE pc = "write" -> FlattenSeq(todo) \o
                         (IF Last(todo)[1] \in Heads THEN Disk[uri].data ELSE <<>>)
    [] pc \in {"open", "fork"} -> Disk[uri].data
    [] pc = "wait" -> child
    [] pc = "close" -> <<>>

\* What has arrived and what is owed is the response.
SentOK ==
  files = DOMAIN Disk =>
    \A c \in Polite :
      /\ \E rest \in Bytes : Arrived(c) \o rest = Response(request[c])
      /\ c = conn /\ pc \in {"request", "headers"} => Arrived(c) = <<>>
      /\ c = conn /\ pc \in Answering => Arrived(c) \o Owed = Response(request[c])
      /\ down[c].ended => Arrived(c) = Response(request[c])
EofOK ==
  \A c \in Polite : reader[c].eof =>
    /\ reader[c].rio.cnt <= 0
    /\ pc = "exited" \/ (down[c].ended /\ down[c].data = <<>>)

IInv == TypeOK /\ ConnsOK /\ LineOK /\ UriOK /\ StopsAtBlankLine /\ AnswerOK /\ SentOK /\ EofOK

----------------------------------------------------------------------------
(* Sequences *)

\* Concatenation is associative, and the empty sequence is neutral.
LEMMA Concat ==
  ASSUME NEW S, NEW a \in Seq(S), NEW b \in Seq(S), NEW c \in Seq(S)
  PROVE  /\ a \o b \in Seq(S) /\ (a \o b) \o c = a \o (b \o c)
         /\ a \o <<>> = a /\ <<>> \o a = a
BY ConcatAssociative, ConcatEmptySeq

\* A sequence consists of its first elements and the others.
LEMMA CutAt ==
  ASSUME NEW S, NEW s \in Seq(S), NEW n \in 0 .. Len(s)
  PROVE  /\ SubSeq(s, 1, n) \in Seq(S) /\ SubSeq(s, n + 1, Len(s)) \in Seq(S)
         /\ SubSeq(s, 1, n) \o SubSeq(s, n + 1, Len(s)) = s
<1> DEFINE a == SubSeq(s, 1, n)
           b == SubSeq(s, n + 1, Len(s))
<1>1. Len(s) \in Nat /\ n \in Nat /\ n <= Len(s)
  OBVIOUS
<1>2. a \in Seq(S) /\ Len(a) = n /\ \A i \in 1 .. n : a[i] = s[i]
  BY <1>1
<1>3. b \in Seq(S) /\ Len(b) = Len(s) - n /\ \A i \in 1 .. Len(s) - n : b[i] = s[n + i]
  BY <1>1
<1> HIDE DEF a, b
<1> DEFINE c == a \o b
<1>4. /\ c \in Seq(S) /\ Len(c) = Len(a) + Len(b)
      /\ \A i \in 1 .. Len(a) + Len(b) : c[i] = IF i <= Len(a) THEN a[i] ELSE b[i - Len(a)]
  <2>1. a \in Seq(S) /\ b \in Seq(S)
    BY <1>2, <1>3
  <2> QED BY ONLY <2>1
<1> HIDE DEF c
<1>5. Len(c) = Len(s)
  BY <1>1, <1>2, <1>3, <1>4
<1>6. ASSUME NEW i \in 1 .. Len(s) PROVE c[i] = s[i]
  <2>1. c[i] = IF i <= n THEN a[i] ELSE b[i - n]
    BY <1>1, <1>2, <1>4, <1>5
  <2>2. CASE i <= n
    BY <1>1, <1>2, <2>1, <2>2
  <2>3. CASE ~(i <= n)
    <3>1. i - n \in 1 .. Len(s) - n /\ n + (i - n) = i
      BY <1>1, <2>3
    <3> QED BY <1>3, <2>1, <2>3, <3>1
  <2> QED BY <2>2, <2>3
<1>7. c = s
  BY <1>4, <1>5, <1>6, SeqEqual
<1> QED BY <1>2, <1>3, <1>7 DEF a, b, c

\* What is followed by something is a prefix of the whole.
LEMMA PrefixOf ==
  ASSUME NEW S, NEW a \in Seq(S), NEW b \in Seq(S)
  PROVE  IsPrefix(a, a \o b)
<1>1. /\ a \o b \in Seq(S) /\ Len(a) \in Nat /\ Len(b) \in Nat
      /\ Len(a \o b) = Len(a) + Len(b)
      /\ \A i \in 1 .. Len(a) : (a \o b)[i] = a[i]
  BY ConcatProperties
<1>2. SubSeq(a, 1, Len(a)) = SubSeq(a \o b, 1, Len(a))
  <2> DEFINE t == a \o b
  <2> HIDE DEF t
  <2>1. t \in Seq(S) /\ Len(a) <= Len(t) /\ \A i \in 1 .. Len(a) : t[i] = a[i]
    BY <1>1 DEF t
  <2> QED BY <1>1, <2>1 DEF t
<1> QED BY <1>1, <1>2 DEF IsPrefix

\* FlattenSeq of a few sequences.
LEMMA FlattenFew ==
  ASSUME NEW S, NEW s \in Seq(Seq(S)), Len(s) \in 1 .. 4
  PROVE  /\ Len(s) = 1 => FlattenSeq(s) = s[1]
         /\ Len(s) = 2 => FlattenSeq(s) = s[1] \o s[2]
         /\ Len(s) = 3 => FlattenSeq(s) = (s[1] \o s[2]) \o s[3]
         /\ Len(s) = 4 => FlattenSeq(s) = ((s[1] \o s[2]) \o s[3]) \o s[4]
<1> DEFINE n == Len(s)
           Eq(f) == f = [i \in 1 .. n |-> IF i = 1 THEN s[i] ELSE f[i - 1] \o s[i]]
           one == s[1]
           two == one \o s[2]
           three == two \o s[3]
           four == three \o s[4]
           g == [i \in 1 .. n |-> IF i = 1 THEN one ELSE IF i = 2 THEN two ELSE
                                   IF i = 3 THEN three ELSE four]
           h == CHOOSE f : Eq(f)
<1>1. FlattenSeq(s) = h[n] /\ n \in 1 .. 4
  BY DEF FlattenSeq
<1> HIDE DEF n
<1>2. \A i \in 1 .. n : g[i] = IF i = 1 THEN s[i] ELSE g[i - 1] \o s[i]
  <2> TAKE i \in 1 .. n
  <2>1. i \in 1 .. 4 /\ (i # 1 => i - 1 \in 1 .. n)
    BY ONLY <1>1, i \in 1 .. n
  <2>2. /\ 1 \in 1 .. n => g[1] = one
        /\ 2 \in 1 .. n => g[2] = two
        /\ 3 \in 1 .. n => g[3] = three
        /\ 4 \in 1 .. n => g[4] = four
    <3> HIDE DEF one, two, three, four
    <3> QED OBVIOUS
  <2> HIDE DEF g
  <2>3. CASE i = 1
    BY <2>2, <2>3
  <2>4. CASE i = 2
    <3>1. i # 1 /\ i - 1 = 1 /\ g[1] = one
      BY <2>1, <2>2, <2>4
    <3>2. g[i] = one \o s[i]
      BY <2>2, <2>4
    <3> QED BY ONLY <3>1, <3>2
  <2>5. CASE i = 3
    <3>1. i # 1 /\ i - 1 = 2 /\ 2 \in 1 .. n
      BY ONLY <1>1, <2>5, i \in 1 .. n
    <3>3. g[2] = two
      BY <2>2, <3>1, Zenon
    <3>2. g[i] = two \o s[i]
      BY <2>2, <2>5
    <3> QED BY ONLY <3>1, <3>2, <3>3
  <2>6. CASE i = 4
    <3>1. i # 1 /\ i - 1 = 3 /\ 3 \in 1 .. n
      BY ONLY <1>1, <2>6, i \in 1 .. n
    <3>3. g[3] = three
      BY <2>2, <3>1, Zenon
    <3>2. g[i] = three \o s[i]
      BY <2>2, <2>6
    <3> QED BY ONLY <3>1, <3>2, <3>3
  <2> QED BY <2>1, <2>3, <2>4, <2>5, <2>6
<1>3. Eq(g)
  <2>1. g = [i \in 1 .. n |-> g[i]]
    OBVIOUS
  <2> HIDE DEF g
  <2> QED BY <1>2, <2>1
<1>4. Eq(h)
  <2> HIDE DEF Eq, g
  <2> QED BY <1>3
<1> HIDE DEF h
<1>5. \A i \in 1 .. n : h[i] = IF i = 1 THEN s[i] ELSE h[i - 1] \o s[i]
  BY <1>4
<1>6. /\ 1 \in 1 .. n => h[1] = one
      /\ 2 \in 1 .. n => h[2] = h[1] \o s[2]
      /\ 3 \in 1 .. n => h[3] = h[2] \o s[3]
      /\ 4 \in 1 .. n => h[4] = h[3] \o s[4]
  <2>1. 2 - 1 = 1 /\ 3 - 1 = 2 /\ 4 - 1 = 3 /\ 2 # 1 /\ 3 # 1 /\ 4 # 1
    OBVIOUS
  <2> QED BY ONLY <1>5, <2>1, Zenon
<1>7. /\ n = 1 => h[n] = s[1]
      /\ n = 2 => h[n] = s[1] \o s[2]
      /\ n = 3 => h[n] = (s[1] \o s[2]) \o s[3]
      /\ n = 4 => h[n] = ((s[1] \o s[2]) \o s[3]) \o s[4]
  <2>1. /\ n = 1 => 1 \in 1 .. n
        /\ n = 2 => 1 \in 1 .. n /\ 2 \in 1 .. n
        /\ n = 3 => 1 \in 1 .. n /\ 2 \in 1 .. n /\ 3 \in 1 .. n
        /\ n = 4 => 1 \in 1 .. n /\ 2 \in 1 .. n /\ 3 \in 1 .. n /\ 4 \in 1 .. n
    BY ONLY TRUE
  <2> QED BY ONLY <1>6, <2>1, Zenon
<1> QED BY <1>1, <1>7, Zenon DEF n

\* The others behind the first.
LEMMA ConcatThree ==
  ASSUME NEW S, NEW a \in Seq(S), NEW b \in Seq(S), NEW c \in Seq(S)
  PROVE  /\ (a \o b) \o c = a \o (b \o c)
         /\ b \o c \in Seq(S) /\ a \o (b \o c) \in Seq(S)
<1> DEFINE bc == b \o c
<1>1. bc \in Seq(S) /\ (a \o b) \o c = a \o bc
  BY ConcatAssociative
<1> HIDE DEF bc
<1>2. a \o bc \in Seq(S)
  BY <1>1
<1> QED BY <1>1, <1>2 DEF bc

LEMMA ConcatFour ==
  ASSUME NEW S, NEW a \in Seq(S), NEW b \in Seq(S), NEW c \in Seq(S), NEW d \in Seq(S)
  PROVE  /\ ((a \o b) \o c) \o d = a \o ((b \o c) \o d)
         /\ (b \o c) \o d \in Seq(S) /\ ((a \o b) \o c) \o d \in Seq(S)
<1>1. b \o c \in Seq(S) /\ a \o b \in Seq(S) /\ (a \o b) \o c = a \o (b \o c)
  BY Concat, ConcatThree
<1> DEFINE bc == b \o c
<1> HIDE DEF bc
<1>2. bc \in Seq(S)
  BY <1>1 DEF bc
<1>3. /\ bc \o d \in Seq(S) /\ (a \o bc) \o d = a \o (bc \o d)
      /\ a \o (bc \o d) \in Seq(S)
  BY <1>2, ConcatThree
<1>4. (a \o b) \o c = a \o bc
  BY <1>1 DEF bc
<1> QED BY <1>3, <1>4, Zenon DEF bc

\* A flattened sequence starts with its head.
LEMMA FlattenHead ==
  ASSUME NEW S, NEW s \in Seq(Seq(S)), Len(s) \in 1 .. 4
  PROVE  /\ FlattenSeq(s) = Head(s) \o FlattenSeq(Tail(s))
         /\ FlattenSeq(s) \in Seq(S) /\ FlattenSeq(Tail(s)) \in Seq(S)
<1> DEFINE t == Tail(s)
<1>1. /\ t \in Seq(Seq(S)) /\ Len(t) = Len(s) - 1 /\ Head(s) = s[1]
      /\ \A i \in 1 .. Len(s) - 1 : t[i] = s[i + 1]
      /\ \A i \in 1 .. Len(s) : s[i] \in Seq(S)
  <2>1. s # <<>>
    OBVIOUS
  <2> QED BY <2>1, HeadTailProperties, ElementOfSeq
<1> HIDE DEF t
<1>2. CASE Len(s) = 1
  <2>1. t = <<>> /\ 1 \in 1 .. Len(s)
    BY <1>1, <1>2
  <2>2. FlattenSeq(t) = <<>>
    BY <2>1 DEF FlattenSeq
  <2>3. FlattenSeq(s) = s[1] /\ s[1] \in Seq(S)
    BY <1>1, <1>2, <2>1, FlattenFew
  <2>4. s[1] \o <<>> = s[1] /\ <<>> \in Seq(S)
    BY <2>3
  <2> QED BY <1>1, <2>2, <2>3, <2>4, Zenon DEF t
<1>3. CASE Len(s) = 2
  <2>1. /\ {1, 2} \subseteq 1 .. Len(s) /\ 1 \in 1 .. Len(s) - 1
        /\ Len(t) = 1 /\ 1 \in 1 .. 4
    BY <1>1, <1>3
  <2>2. s[1] \in Seq(S) /\ s[2] \in Seq(S) /\ t[1] = s[2]
    BY <1>1, <2>1
  <2>3. FlattenSeq(t) = t[1] /\ FlattenSeq(s) = s[1] \o s[2]
    BY <1>1, <1>3, <2>1, FlattenFew, Zenon
  <2>4. s[1] \o s[2] \in Seq(S)
    BY <2>2, Concat, Zenon
  <2>5. FlattenSeq(t) = s[2] /\ FlattenSeq(s) = Head(s) \o s[2]
    BY ONLY <1>1, <2>2, <2>3, Zenon
  <2> QED BY ONLY <2>2, <2>3, <2>4, <2>5, Zenon DEF t
<1>4. CASE Len(s) = 3
  <2>1. /\ {1, 2, 3} \subseteq 1 .. Len(s)
        /\ {1, 2} \subseteq 1 .. Len(s) - 1 /\ Len(t) = 2 /\ 2 \in 1 .. 4
    BY <1>1, <1>4
  <2>2. /\ s[1] \in Seq(S) /\ s[2] \in Seq(S) /\ s[3] \in Seq(S)
        /\ t[1] = s[2] /\ t[2] = s[3]
    BY <1>1, <2>1
  <2>3. FlattenSeq(t) = t[1] \o t[2] /\ FlattenSeq(s) = (s[1] \o s[2]) \o s[3]
    BY <1>1, <1>4, <2>1, FlattenFew, Zenon
  <2>4. /\ s[2] \o s[3] \in Seq(S) /\ (s[1] \o s[2]) \o s[3] = s[1] \o (s[2] \o s[3])
        /\ s[1] \o (s[2] \o s[3]) \in Seq(S)
    <3> DEFINE one == s[1]
               two == s[2]
               three == s[3]
    <3>1. one \in Seq(S) /\ two \in Seq(S) /\ three \in Seq(S)
      BY <2>2
    <3> HIDE DEF one, two, three
    <3>2. /\ two \o three \in Seq(S) /\ (one \o two) \o three = one \o (two \o three)
          /\ one \o (two \o three) \in Seq(S)
      BY ONLY <3>1, ConcatThree
    <3> QED BY <3>2 DEF one, two, three
  <2>5. FlattenSeq(t) = s[2] \o s[3]
    BY <2>2, <2>3, Zenon
  <2> QED BY <1>1, <2>3, <2>4, <2>5, Zenon DEF t
<1>5. CASE Len(s) = 4
  <2>1. /\ {1, 2, 3, 4} \subseteq 1 .. Len(s) /\ {1, 2, 3} \subseteq 1 .. Len(s) - 1
        /\ Len(t) = 3 /\ 3 \in 1 .. 4
    BY <1>1, <1>5
  <2>2. /\ s[1] \in Seq(S) /\ s[2] \in Seq(S) /\ s[3] \in Seq(S) /\ s[4] \in Seq(S)
        /\ t[1] = s[2] /\ t[2] = s[3] /\ t[3] = s[4]
    BY <1>1, <2>1
  <2>3. /\ FlattenSeq(t) = (t[1] \o t[2]) \o t[3]
        /\ FlattenSeq(s) = ((s[1] \o s[2]) \o s[3]) \o s[4]
    BY <1>1, <1>5, <2>1, FlattenFew, Zenon
  <2>4. FlattenSeq(t) = (s[2] \o s[3]) \o s[4]
    BY <2>2, <2>3, Zenon
  <2>5. /\ ((s[1] \o s[2]) \o s[3]) \o s[4] = s[1] \o ((s[2] \o s[3]) \o s[4])
        /\ (s[2] \o s[3]) \o s[4] \in Seq(S) /\ ((s[1] \o s[2]) \o s[3]) \o s[4] \in Seq(S)
    BY <2>2, ConcatFour, Zenon
  <2> QED BY <1>1, <2>3, <2>4, <2>5, Zenon DEF t
<1> QED BY <1>2, <1>3, <1>4, <1>5

----------------------------------------------------------------------------
(* Lines and the ends of headers *)

\* Two multiples of n are n apart or equal, and so is what is n further.
LEMMA Multiples ==
  ASSUME NEW n \in Nat \ {0}, NEW a \in Nat, NEW b \in Nat,
         a % n = 0, b % n = 0
  PROVE  /\ a < b => b - a >= n
         /\ (a + n) % n = 0
<1> DEFINE qa == a \div n
           qb == b \div n
<1>1. a = n * qa /\ qa \in Nat
  OBVIOUS
<1>2. b = n * qb /\ qb \in Nat
  OBVIOUS
<1> HIDE DEF qa, qb
<1>3. a < b => b - a >= n
  <2>1. SUFFICES ASSUME a < b PROVE b - a >= n
    OBVIOUS
  <2>2. qb > qa
    BY <1>1, <1>2, <2>1
  <2>3. qb - qa >= 1 /\ b - a = n * (qb - qa)
    BY <1>1, <1>2, <2>2
  <2> QED BY <1>1, <1>2, <2>3
<1>4. (a + n) % n = 0
  <2>1. a + n = n * (qa + 1)
    BY <1>1
  <2> QED BY <1>1, <2>1
<1> QED BY <1>3, <1>4

\* A line starts at one place.
LEMMA OneStart ==
  ASSUME NEW r, NEW i \in Nat, NEW s \in 1 .. i + 1, NEW t \in 1 .. i + 1,
         s = 1 \/ r[s - 1] = LF, \A k \in s .. i : r[k] # LF,
         t = 1 \/ r[t - 1] = LF, \A k \in t .. i : r[k] # LF
  PROVE  s = t
<1>1. CASE s < t
  <2>1. t - 1 \in s .. i /\ t # 1
    BY <1>1
  <2> QED BY <2>1
<1>2. CASE t < s
  <2>1. s - 1 \in t .. i /\ s # 1
    BY <1>2
  <2> QED BY <2>1
<1> QED BY <1>1, <1>2

\* A line starts whole buffers behind a newline, or behind the request's start.
LEMMA LineFrom ==
  ASSUME NEW r, NEW i \in Nat, LineStarts(r, i)
  PROVE  \E s \in 1 .. i + 1, a \in Nat :
            /\ a = i + 1 - s /\ a % (MAXLINE - 1) = 0
            /\ s = 1 \/ r[s - 1] = LF
            /\ \A k \in s .. i : r[k] # LF
<1> DEFINE n == MAXLINE - 1
<1>1. n \in Nat \ {0}
  BY TinyAssumption
<1>2. PICK s \in 1 .. i + 1 : /\ s = 1 \/ r[s - 1] = LF
                             /\ \A k \in s .. i : r[k] # LF
                             /\ (i + 1 - s) % n = 0
  BY DEF LineStarts
<1> DEFINE a == i + 1 - s
<1> HIDE DEF n
<1>3. a \in Nat /\ a = i + 1 - s
  OBVIOUS
<1>4. a % n = 0
  BY <1>1, <1>2
<1> HIDE DEF a
<1> QED BY <1>2, <1>3, <1>4, Zenon DEF n

\* When rio_readlineb returns the bytes from i + 1 to u, no headers have ended in
\* between, unless it returns a blank line; and the next line may start there.
LEMMA LineOf ==
  ASSUME NEW r \in Bytes, NEW i \in Nat, NEW u \in Nat,
         i < u, u <= Len(r), u - i <= MAXLINE - 1,
         LineStarts(r, i), \A k \in i + 1 .. u - 1 : r[k] # LF
  PROVE  /\ \A e \in HeaderEnds(r) : e <= i \/ e > u \/ (e = u /\ u = i + 2)
         /\ r[u] = LF \/ u - i = MAXLINE - 1 => LineStarts(r, u)
<1> DEFINE n == MAXLINE - 1
<1>1. n \in Nat \ {0} /\ n > 1
  BY TinyAssumption
<1>2. PICK s \in 1 .. i + 1, a \in Nat :
            /\ a = i + 1 - s /\ a % n = 0
            /\ s = 1 \/ r[s - 1] = LF
            /\ \A k \in s .. i : r[k] # LF
  BY LineFrom, Zenon DEF n
<1> HIDE DEF n
<1>7. a \in Nat /\ a % n = 0 /\ a = i + 1 - s
  BY <1>2, Zenon
<1>3. \A k \in s .. u - 1 : r[k] # LF
  BY <1>2
<1>4. ASSUME NEW e \in HeaderEnds(r)
      PROVE  e <= i \/ e > u \/ (e = u /\ u = i + 2)
  <2>1. SUFFICES ASSUME e > i, e <= u PROVE e = u /\ u = i + 2
    BY DEF HeaderEnds
  <2>2. e \in 3 .. Len(r) /\ r[e - 1] = CR /\ r[e] = LF /\ LineStarts(r, e - 2)
    <3>1. e \in 3 .. Len(r) /\ SubSeq(r, e - 1, e) = <<CR, LF>> /\ LineStarts(r, e - 2)
      BY DEF HeaderEnds, Blank
    <3>2. SubSeq(r, e - 1, e)[1] = r[e - 1] /\ SubSeq(r, e - 1, e)[2] = r[e]
      BY <3>1 DEF Bytes
    <3>3. <<CR, LF>>[1] = CR /\ <<CR, LF>>[2] = LF
      OBVIOUS
    <3> QED BY ONLY <3>1, <3>2, <3>3
  <2>10. PICK t \in 1 .. e - 2 + 1, b \in Nat :
              /\ b = e - 2 + 1 - t /\ b % n = 0
              /\ t = 1 \/ r[t - 1] = LF
              /\ \A k \in t .. e - 2 : r[k] # LF
    <3>1. e - 2 \in Nat
      BY <2>2
    <3>2. LineStarts(r, e - 2)
      BY <2>2
    <3> QED BY ONLY <3>1, <3>2, LineFrom, Zenon DEF n
  <2>3. /\ t \in 1 .. e - 1
        /\ t = 1 \/ r[t - 1] = LF
        /\ \A k \in t .. e - 2 : r[k] # LF
    <3>1. e - 2 + 1 = e - 1
      BY <2>2
    <3> QED BY <2>10, <3>1
  <2>7. b \in Nat /\ b % n = 0 /\ b = e - 1 - t
    <3>1. b % n = 0
      BY <2>10, Zenon
    <3>2. b = e - 1 - t
      BY <2>2, <2>10
    <3> QED BY <3>1, <3>2
  <2>4. e = u
    <3>1. SUFFICES ASSUME e < u PROVE FALSE
      BY <2>1, <2>2
    <3>2. e \in s .. u - 1
      BY <1>2, <2>1, <2>2, <3>1
    <3> QED BY <1>3, <2>2, <3>2
  <2>8. (b < a => a - b >= n) /\ (a < b => b - a >= n)
    BY <1>1, <1>7, <2>7, Multiples
  <2>5. CASE e = i + 1
    <3>1. \A k \in t .. e - 1 : r[k] # LF
      <4>1. r[e - 1] # LF
        BY <2>2 DEF CR, LF
      <4>2. \A k \in t .. e - 1 : k = e - 1 \/ k \in t .. e - 2
        BY <2>2
      <4> QED BY <2>3, <4>1, <4>2
    <3>2. e - 1 = i /\ t \in 1 .. i + 1
      BY <2>2, <2>3, <2>5
    <3>3. s = t
      BY <1>2, <2>3, <3>1, <3>2, OneStart
    <3>4. a - b = 1
      BY <1>7, <2>5, <2>7, <3>3
    <3> QED BY <1>1, <1>7, <2>7, <2>8, <3>4
  <2>6. CASE e > i + 1
    <3>1. e - 2 \in Nat /\ s \in 1 .. (e - 2) + 1 /\ t \in 1 .. (e - 2) + 1
      BY <2>2, <2>3, <2>6
    <3>2. \A k \in s .. e - 2 : r[k] # LF
      BY <1>3, <2>1, <2>2
    <3>3. s = t
      BY <1>2, <2>3, <3>1, <3>2, OneStart
    <3>4. b - a = e - 2 - i
      BY <1>7, <2>2, <2>7, <3>3
    <3>5. u - i <= n
      BY DEF n
    <3>6. e \in Int
      BY <2>2
    <3> QED BY ONLY <1>1, <1>7, <2>4, <2>6, <2>7, <2>8, <3>4, <3>5, <3>6, i \in Nat, u \in Nat
  <2>9. e = i + 1 \/ e > i + 1
    <3>1. e \in Int /\ e > i
      BY <2>1, <2>2
    <3> QED BY ONLY <3>1, i \in Nat
  <2> QED BY <2>5, <2>6, <2>9
<1>5. ASSUME r[u] = LF PROVE LineStarts(r, u)
  <2>1. u + 1 \in 1 .. u + 1 /\ r[(u + 1) - 1] = LF /\ (u + 1) .. u = {} /\ (u + 1 - (u + 1)) % n = 0
    BY <1>1, <1>5
  <2> QED BY <2>1 DEF LineStarts, n
<1>6. ASSUME u - i = n, r[u] # LF PROVE LineStarts(r, u)
  <2>1. s \in 1 .. u + 1 /\ u + 1 - s = a + n
    BY <1>1, <1>2, <1>6, <1>7
  <2>2. (u + 1 - s) % n = 0
    <3>1. (a + n) % n = 0
      BY <1>1, <1>7, Multiples
    <3> QED BY ONLY <2>1, <3>1
  <2>3. \A k \in s .. u : r[k] # LF
    BY <1>3, <1>6
  <2> QED BY <1>2, <2>1, <2>2, <2>3 DEF LineStarts, n
<1> QED BY <1>4, <1>5, <1>6 DEF n

----------------------------------------------------------------------------
(* Readers *)

LEMMA NewReader == rio_readinitb \in Readers /\ Unread(rio_readinitb) = <<>>
BY DEF rio_readinitb, Readers, Bytes, Unread

\* Once there is nothing left to read.
LEMMA NothingLeft ==
  ASSUME NEW r \in Readers, r.cnt <= 0
  PROVE  /\ Unread(r) = <<>>
         /\ Interrupt(r) \in Readers /\ Interrupt(r).cnt = -1
         /\ Drain(r) \in Readers /\ Drain(r).cnt = 0
BY DEF Readers, Bytes, Unread, Interrupt, Drain

\* Another buffer.
LEMMA Refilled ==
  ASSUME NEW r \in Readers, NEW b \in Bytes
  PROVE  /\ Refill(r, b) \in Readers /\ Unread(Refill(r, b)) = b
         /\ Refill(r, b).ptr = 0 /\ Refill(r, b).cnt = Len(b)
         /\ \A k \in 1 .. Len(b) : Refill(r, b).buf[k] = b[k]
<1> DEFINE back == SubSeq(r.buf, Len(b) + 1, Len(r.buf))
           all == b \o back
<1>1. r.buf \in Seq(Byte) /\ b \in Seq(Byte) /\ Len(b) \in Nat
  BY DEF Readers, Bytes
<1>2. back \in Seq(Byte)
  BY <1>1
<1> HIDE DEF back
<1>3. /\ all \in Seq(Byte) /\ Len(all) = Len(b) + Len(back) /\ Len(back) \in Nat
      /\ \A k \in 1 .. Len(b) : all[k] = b[k]
  BY <1>1, <1>2
<1>4. Refill(r, b) = [buf |-> all, ptr |-> 0, cnt |-> Len(b)]
  BY DEF Refill, Overwrite, back
<1> HIDE DEF all
<1>5. SubSeq(all, 0 + 1, 0 + Len(b)) = b
  BY <1>1, <1>3, SeqEqual
<1> QED BY <1>1, <1>3, <1>4, <1>5 DEF Unread, Readers, Bytes

\* One byte is taken.
LEMMA OneByte ==
  ASSUME NEW r \in Readers, r.cnt > 0
  PROVE  /\ Copied(r, 1) = <<r.buf[r.ptr + 1]>> /\ r.buf[r.ptr + 1] \in Byte
         /\ Consume(r, 1) \in Readers /\ Consume(r, 1).buf = r.buf
         /\ Consume(r, 1).ptr = r.ptr + 1 /\ Consume(r, 1).cnt = r.cnt - 1
<1>1. r.buf \in Seq(Byte) /\ r.ptr \in Nat /\ r.cnt \in Int /\ r.ptr + r.cnt <= Len(r.buf)
  BY DEF Readers, Bytes
<1>2. MinOf(1, r.cnt) = 1
  BY <1>1 DEF MinOf
<1>3. Copied(r, 1) = SubSeq(r.buf, r.ptr + 1, r.ptr + 1)
  BY <1>2 DEF Copied
<1>4. Consume(r, 1) = [buf |-> r.buf, ptr |-> r.ptr + 1, cnt |-> r.cnt - 1]
  <2>1. Consume(r, 1) = [r EXCEPT !.ptr = @ + 1, !.cnt = @ - 1]
    BY <1>2 DEF Consume
  <2>2. r = [buf |-> r.buf, ptr |-> r.ptr, cnt |-> r.cnt]
    BY DEF Readers
  <2> QED BY <2>1, <2>2
<1>5. r.buf[r.ptr + 1] \in Byte /\ r.ptr + 1 \in 1 .. Len(r.buf)
  BY <1>1
<1>6. SubSeq(r.buf, r.ptr + 1, r.ptr + 1) = <<r.buf[r.ptr + 1]>>
  <2> DEFINE b == r.buf
             i == r.ptr + 1
             s == SubSeq(b, i, i)
             t == <<b[i]>>
  <2>1. b \in Seq(Byte) /\ i \in 1 .. Len(b) /\ b[i] \in Byte
    BY <1>1, <1>5
  <2> HIDE DEF b, i
  <2>2. s \in Seq(Byte) /\ Len(s) = 1 /\ s[1] = b[i]
    BY <2>1
  <2>3. t \in Seq(Byte) /\ Len(t) = 1 /\ t[1] = b[i]
    BY <2>1
  <2> HIDE DEF s, t
  <2>4. s = t
    BY <2>2, <2>3, SeqEqual
  <2> QED BY <2>4 DEF s, t, b, i
<1>7. Consume(r, 1) \in Readers
  BY <1>1, <1>4 DEF Readers, Bytes
<1>8. /\ Consume(r, 1).buf = r.buf /\ Consume(r, 1).ptr = r.ptr + 1
      /\ Consume(r, 1).cnt = r.cnt - 1
  BY <1>4
<1>9. Copied(r, 1) = <<r.buf[r.ptr + 1]>>
  BY <1>3, <1>6, Zenon
<1> QED BY <1>5, <1>7, <1>8, <1>9, Zenon

\* All that is left is taken.
LEMMA AllTaken ==
  ASSUME NEW r \in Readers, r.cnt > 0
  PROVE  /\ Copied(r, r.cnt) = Unread(r) /\ Unread(r) \in Bytes
         /\ Consume(r, r.cnt) \in Readers /\ Consume(r, r.cnt).cnt = 0
         /\ Unread(Consume(r, r.cnt)) = <<>>
<1>1. r.buf \in Seq(Byte) /\ r.ptr \in Nat /\ r.cnt \in Int /\ r.ptr + r.cnt <= Len(r.buf)
  BY DEF Readers, Bytes
<1>2. MinOf(r.cnt, r.cnt) = r.cnt
  BY DEF MinOf
<1>3. Copied(r, r.cnt) = Unread(r) /\ Unread(r) \in Bytes
  BY <1>1, <1>2 DEF Copied, Unread, Bytes
<1>4. Consume(r, r.cnt) = [buf |-> r.buf, ptr |-> r.ptr + r.cnt, cnt |-> 0]
  <2>1. Consume(r, r.cnt) = [r EXCEPT !.ptr = @ + r.cnt, !.cnt = @ - r.cnt]
    BY <1>2 DEF Consume
  <2>2. r.cnt - r.cnt = 0
    BY <1>1
  <2>3. r = [buf |-> r.buf, ptr |-> r.ptr, cnt |-> r.cnt]
    BY DEF Readers
  <2> QED BY <2>1, <2>2, <2>3
<1>5. Consume(r, r.cnt) \in Readers /\ Consume(r, r.cnt).cnt = 0
  BY <1>1, <1>4 DEF Readers, Bytes
<1> QED BY <1>3, <1>5, NothingLeft

LEMMA UnreadType ==
  ASSUME NEW r \in Readers
  PROVE  Unread(r) \in Bytes
BY DEF Readers, Unread, Bytes

LEMMA ArrivedType ==
  ASSUME IInv, NEW c \in Polite
  PROVE  Arrived(c) \in Bytes
<1> DEFINE g == reader[c].got
           u == Unread(reader[c].rio)
           d == down[c].data
           gu == g \o u
<1>1. g \in Bytes /\ u \in Bytes /\ d \in Bytes
  BY UnreadType, TinyAssumption DEF IInv, TypeOK
<1> HIDE DEF g, u, d
<1>2. gu \in Bytes
  BY <1>1, Concat DEF Bytes
<1> HIDE DEF gu
<1>3. gu \o d \in Bytes
  BY <1>1, <1>2, Concat DEF Bytes
<1> QED BY <1>3 DEF Arrived, gu, g, u, d

----------------------------------------------------------------------------
(* Answers *)

\* Buffers of one byte each.
LEMMA Singles ==
  ASSUME NEW s \in Seq(Bytes), Len(s) \in 1 .. 4, \A k \in 1 .. Len(s) : Len(s[k]) = 1
  PROVE  Writable(s)
<1>1. \A k \in 1 .. Len(s) : s[k] # <<>>
  <2>1. Len(<<>>) # 1
    OBVIOUS
  <2> QED BY <2>1
<1>2. Len(s) \in 1 .. Len(s)
  OBVIOUS
<1>3. Len(Last(s)) = 1
  BY <1>2 DEF Last
<1> QED BY <1>1, <1>3 DEF Writable

LEMMA OneByteIs ==
  ASSUME NEW e \in Byte
  PROVE  <<e>> \in Bytes /\ Len(<<e>>) = 1 /\ <<e>>[1] = e
<1>1. ASSUME NEW S, NEW x \in S
      PROVE  <<x>> \in Seq(S) /\ Len(<<x>>) = 1 /\ <<x>>[1] = x
  OBVIOUS
<1> QED BY <1>1 DEF Bytes

\* The page of an error.
LEMMA PageIs ==
  ASSUME NEW e \in Byte
  PROVE  /\ ClientError(e) \in Seq(Bytes) /\ Writable(ClientError(e))
         /\ Last(ClientError(e))[1] \notin Heads
<1> DEFINE a == <<e>>
           b == <<"type">>
           c == <<"page">>
           s == <<a, b, c>>
<1>1. /\ a \in Bytes /\ b \in Bytes /\ c \in Bytes
      /\ Len(a) = 1 /\ Len(b) = 1 /\ Len(c) = 1 /\ c[1] = "page"
  <2>1. e \in Byte /\ "type" \in Byte /\ "page" \in Byte
    BY DEF Byte
  <2> QED BY <2>1, OneByteIs, Zenon
<1>2. ClientError(e) = s
  BY DEF ClientError
<1> HIDE DEF a, b, c
<1>3. s \in Seq(Bytes) /\ Len(s) = 3 /\ s[1] = a /\ s[2] = b /\ s[3] = c
  BY <1>1
<1> HIDE DEF s
<1>4. \A k \in 1 .. Len(s) : Len(s[k]) = 1
  BY <1>1, <1>3
<1>5. Writable(s) /\ Last(s) = c
  BY <1>3, <1>4, Singles DEF Last
<1> QED BY <1>1, <1>2, <1>3, <1>5 DEF Heads

\* The lines before a body or the output of a program.
LEMMA HeadsAre ==
  LET static == OkLines \o << <<"length">>, <<"type">> >>
  IN  /\ OkLines \in Seq(Bytes) /\ Writable(OkLines) /\ Last(OkLines)[1] = "server"
      /\ static \in Seq(Bytes) /\ Writable(static) /\ Last(static)[1] = "type"
<1> DEFINE a == <<"200">>
           b == <<"server">>
           c == <<"length">>
           d == <<"type">>
           s == <<a, b>>
           t == <<c, d>>
           u == s \o t
<1>1. /\ a \in Bytes /\ b \in Bytes /\ c \in Bytes /\ d \in Bytes
      /\ Len(a) = 1 /\ Len(b) = 1 /\ Len(c) = 1 /\ Len(d) = 1
      /\ b[1] = "server" /\ d[1] = "type"
  <2>1. /\ "200" \in Byte /\ "server" \in Byte
        /\ "length" \in Byte /\ "type" \in Byte
    BY DEF Byte
  <2> QED BY <2>1, OneByteIs, Zenon
<1>2. OkLines = s /\ OkLines \o << <<"length">>, <<"type">> >> = u
  BY DEF OkLines
<1> HIDE DEF a, b, c, d
<1>3. /\ s \in Seq(Bytes) /\ Len(s) = 2 /\ s[1] = a /\ s[2] = b
      /\ t \in Seq(Bytes) /\ Len(t) = 2 /\ t[1] = c /\ t[2] = d
  BY <1>1
<1> HIDE DEF s, t
<1>4. /\ u \in Seq(Bytes) /\ Len(u) = 4
      /\ u[1] = a /\ u[2] = b /\ u[3] = c /\ u[4] = d
  <2>1. /\ u \in Seq(Bytes) /\ Len(u) = Len(s) + Len(t)
        /\ \A i \in 1 .. Len(s) + Len(t) : u[i] = IF i <= Len(s) THEN s[i] ELSE t[i - Len(s)]
    <3>1. s \in Seq(Bytes) /\ t \in Seq(Bytes)
      BY <1>3
    <3> QED BY ONLY <3>1
  <2> HIDE DEF u
  <2>2. Len(u) = 4
    BY <1>3, <2>1
  <2>3. u[1] = s[1] /\ u[2] = s[2] /\ u[3] = t[1] /\ u[4] = t[2]
    BY <1>3, <2>1
  <2> QED BY <1>3, <2>1, <2>2, <2>3
<1> HIDE DEF u
<1>5. Writable(s) /\ Last(s) = b
  <2>1. \A k \in 1 .. Len(s) : Len(s[k]) = 1
    BY <1>1, <1>3
  <2> QED BY <1>3, <2>1, Singles DEF Last
<1>6. Writable(u) /\ Last(u) = d
  <2>1. \A k \in 1 .. Len(u) : Len(u[k]) = 1
    BY <1>1, <1>4
  <2> QED BY <1>4, <2>1, Singles DEF Last
<1> QED BY <1>1, <1>2, <1>3, <1>4, <1>5, <1>6

\* An answer is an error page, or it announces a file that may be served.
LEMMA AnswerIs ==
  ASSUME NEW u
  PROVE  /\ Answer(u) \in Seq(Bytes) /\ Writable(Answer(u))
         /\ Last(Answer(u))[1] \in Heads <=>
              (IF u \in files THEN Disk[u].mode ELSE "none")
                = (IF u \in CgiUris THEN "exec" ELSE "read")
<1> DEFINE static == OkLines \o << <<"length">>, <<"type">> >>
           mode == IF u \in files THEN Disk[u].mode ELSE "none"
<1>1. /\ ClientError("404") \in Seq(Bytes) /\ Writable(ClientError("404"))
      /\ Last(ClientError("404"))[1] \notin Heads
      /\ ClientError("403") \in Seq(Bytes) /\ Writable(ClientError("403"))
      /\ Last(ClientError("403"))[1] \notin Heads
  <2>1. "404" \in Byte /\ "403" \in Byte
    BY DEF Byte
  <2> QED BY <2>1, PageIs, Zenon
<1>2. /\ OkLines \in Seq(Bytes) /\ Writable(OkLines) /\ Last(OkLines)[1] \in Heads
      /\ static \in Seq(Bytes) /\ Writable(static) /\ Last(static)[1] \in Heads
  BY HeadsAre DEF Heads
<1>3. CASE mode = "none"
  <2>1. Answer(u) = ClientError("404")
    BY <1>3 DEF Answer
  <2> QED BY <1>1, <1>3, <2>1
<1>4. CASE mode # "none" /\ u \in CgiUris /\ mode # "exec"
  <2>1. Answer(u) = ClientError("403")
    BY <1>4 DEF Answer
  <2> QED BY <1>1, <1>4, <2>1
<1>5. CASE mode # "none" /\ u \notin CgiUris /\ mode # "read"
  <2>1. Answer(u) = ClientError("403")
    BY <1>5 DEF Answer
  <2> QED BY <1>1, <1>5, <2>1
<1>6. CASE u \in CgiUris /\ mode = "exec"
  <2>1. Answer(u) = OkLines
    BY <1>6 DEF Answer
  <2> QED BY <1>2, <1>6, <2>1
<1>7. CASE u \notin CgiUris /\ mode = "read"
  <2>1. Answer(u) = static
    BY <1>7 DEF Answer
  <2> QED BY <1>2, <1>7, <2>1
<1> QED BY <1>3, <1>4, <1>5, <1>6, <1>7

\* What a write leaves.
LEMMA WrittenIs ==
  ASSUME todo \in Seq(Bytes), Writable(todo), NEW n \in 1 .. Len(Head(todo))
  PROVE  /\ Written(n) \in Seq(Bytes)
         /\ SubSeq(Head(todo), 1, n) \in Bytes /\ FlattenSeq(Written(n)) \in Bytes
         /\ FlattenSeq(todo) = SubSeq(Head(todo), 1, n) \o FlattenSeq(Written(n))
         /\ Written(n) # <<>> =>
              /\ Writable(Written(n))
              /\ Last(Written(n))[1] \in Heads <=> Last(todo)[1] \in Heads
<1> DEFINE h == Head(todo)
           r == Tail(todo)
           a == SubSeq(h, 1, n)
           b == SubSeq(h, n + 1, Len(h))
           t == <<b>> \o r
<1>1. /\ Len(todo) \in 1 .. 4 /\ h \in Bytes /\ h = todo[1] /\ r \in Seq(Bytes)
      /\ Len(r) = Len(todo) - 1 /\ \A k \in 1 .. Len(todo) - 1 : r[k] = todo[k + 1]
  <2>1. Len(todo) \in 1 .. 4 /\ todo # <<>>
    BY DEF Writable
  <2> QED BY <2>1, HeadTailProperties, ElementOfSeq
<1>2. FlattenSeq(todo) = h \o FlattenSeq(r) /\ FlattenSeq(r) \in Bytes
  BY <1>1, FlattenHead DEF Bytes
<1> HIDE DEF h, r
<1>3. a \in Bytes /\ b \in Bytes /\ a \o b = h
  <2>1. Len(h) \in Nat /\ n \in 0 .. Len(h)
    BY <1>1 DEF Bytes, h
  <2> QED BY <1>1, <2>1, CutAt DEF Bytes
<1>4. CASE n = Len(h)
  <2>1. Written(n) = r
    BY <1>4 DEF Written, h, r
  <2>2. a = h
    BY <1>1, <1>4 DEF Bytes
  <2>3. r # <<>> => /\ Writable(r) /\ Last(r) = Last(todo)
    <3>1. SUFFICES ASSUME r # <<>> PROVE Writable(r) /\ Last(r) = Last(todo)
      OBVIOUS
    <3>2. Len(r) \in 1 .. 4 /\ Len(todo) = Len(r) + 1
      BY <1>1, <3>1
    <3>3. Last(r) = Last(todo)
      BY <1>1, <3>2 DEF Last
    <3>4. \A k \in 1 .. Len(r) : r[k] # <<>>
      BY <1>1, <3>2 DEF Writable
    <3> QED BY <3>2, <3>3, <3>4 DEF Writable
  <2> HIDE DEF a
  <2> QED BY <1>1, <1>2, <1>3, <2>1, <2>2, <2>3 DEF h, a
<1>5. CASE n # Len(h)
  <2>1. Written(n) = t
    BY <1>5 DEF Written, h, r
  <2>2. /\ b # <<>> /\ Len(b) = Len(h) - n /\ Len(h) > 1 /\ Len(h) \in Nat
        /\ \A k \in 1 .. Len(b) : b[k] = h[n + k] /\ n + k \in 1 .. Len(h)
    <3>1. h \in Seq(Byte) /\ n \in 1 .. Len(h) /\ n < Len(h)
      BY <1>1, <1>5 DEF Bytes, h
    <3>2. Len(b) = Len(h) - n /\ \A k \in 1 .. Len(h) - n : b[k] = h[n + k]
      <4> HIDE DEF h
      <4> QED BY ONLY <3>1
    <3> HIDE DEF b
    <3>3. Len(b) # 0
      BY <3>1, <3>2
    <3> QED BY <3>1, <3>2, <3>3
  <2> HIDE DEF b
  <2>3. /\ t \in Seq(Bytes) /\ Len(t) = Len(todo) /\ t[1] = b
        /\ \A k \in 2 .. Len(todo) : t[k] = todo[k]
    <3> DEFINE s == <<b>>
    <3>1. s \in Seq(Bytes) /\ Len(s) = 1 /\ s[1] = b
      BY <1>3
    <3> HIDE DEF s
    <3> DEFINE u == s \o r
    <3>2. /\ u \in Seq(Bytes) /\ Len(u) = Len(s) + Len(r)
          /\ \A i \in 1 .. Len(s) + Len(r) : u[i] = IF i <= Len(s) THEN s[i] ELSE r[i - Len(s)]
      <4>1. s \in Seq(Bytes) /\ r \in Seq(Bytes)
        BY <1>1, <3>1
      <4> QED BY ONLY <4>1
    <3> HIDE DEF u
    <3>3. Len(u) = Len(todo)
      BY <1>1, <3>1, <3>2
    <3>4. u[1] = b
      BY <1>1, <3>1, <3>2
    <3>5. ASSUME NEW k \in 2 .. Len(todo) PROVE u[k] = todo[k]
      <4>1. k - 1 \in 1 .. Len(todo) - 1 /\ (k - 1) + 1 = k
        BY <1>1
      <4>2. u[k] = r[k - 1]
        BY <1>1, <3>1, <3>2, <3>3
      <4> QED BY <1>1, <4>1, <4>2
    <3> QED BY <3>2, <3>3, <3>4, <3>5 DEF u, s
  <2>4. Head(t) = b /\ Tail(t) = r
    BY <1>1, <1>3
  <2> HIDE DEF t
  <2>5. FlattenSeq(t) = b \o FlattenSeq(r) /\ FlattenSeq(t) \in Bytes
    BY <1>1, <2>3, <2>4, FlattenHead DEF Bytes
  <2>6. FlattenSeq(todo) = a \o FlattenSeq(t)
    <3> DEFINE f == FlattenSeq(r)
    <3>1. f \in Bytes
      BY <1>2
    <3> HIDE DEF f, a
    <3>2. (a \o b) \o f = a \o (b \o f)
      <4>1. a \in Seq(Byte) /\ b \in Seq(Byte) /\ f \in Seq(Byte)
        BY <1>3, <3>1 DEF Bytes
      <4> QED BY ONLY <4>1, ConcatAssociative
    <3> QED BY <1>2, <1>3, <2>5, <3>2 DEF f
  <2>7. Writable(t) /\ (Last(t)[1] \in Heads <=> Last(todo)[1] \in Heads)
    <3>1. \A k \in 1 .. Len(t) : t[k] # <<>>
      BY <1>1, <2>2, <2>3 DEF Writable
    <3>2. CASE Len(todo) = 1
      <4>1. Last(t) = b /\ Last(todo) = h
        BY <1>1, <2>3, <3>2 DEF Last
      <4>2. \A k \in 1 .. Len(h) : h[k] \notin Heads
        BY <2>2, <4>1 DEF Writable
      <4>3. \A k \in 1 .. Len(b) : b[k] \notin Heads
        BY <2>2, <4>2
      <4>4. 1 \in 1 .. Len(b) /\ 1 \in 1 .. Len(h)
        BY <2>2, <1>1 DEF h
      <4> QED BY <1>1, <2>3, <3>1, <4>1, <4>2, <4>3, <4>4 DEF Writable
    <3>3. CASE Len(todo) # 1
      <4>1. Last(t) = Last(todo)
        BY <1>1, <2>3, <3>3 DEF Last
      <4> QED BY <1>1, <2>3, <3>1, <4>1 DEF Writable
    <3> QED BY <3>2, <3>3
  <2> HIDE DEF a
  <2> QED BY <1>3, <2>1, <2>3, <2>5, <2>6, <2>7 DEF a, h
<1> QED BY <1>4, <1>5

\* What is flattened is a sequence of bytes.
LEMMA FlatType ==
  ASSUME NEW s \in Seq(Bytes), Writable(s)
  PROVE  FlattenSeq(s) \in Bytes
BY FlattenHead DEF Writable, Bytes

LEMMA DataType ==
  ASSUME NEW f \in DOMAIN Disk
  PROVE  /\ Disk[f].data \in Bytes
         /\ \A k \in 1 .. Len(Disk[f].data) : Disk[f].data[k] \notin Heads
<1> DEFINE d == Disk[f].data
<1>1. d \in Seq(STRING \ Heads)
  BY TinyAssumption DEF Heads
<1> HIDE DEF d
<1>2. STRING \ Heads \subseteq Byte
  BY DEF Byte
<1>3. d \in Seq(Byte)
  BY <1>1, <1>2, SeqMonotonic
<1>4. \A k \in 1 .. Len(d) : d[k] \in STRING \ Heads
  BY <1>1
<1> QED BY <1>3, <1>4 DEF Bytes, d

LEMMA LinesType == Blank \in Bytes /\ Garbage \in Bytes
<1>1. CR \in Byte /\ LF \in Byte /\ "garbage" \in Byte
  BY DEF Byte, CR, LF
<1> QED BY <1>1 DEF Bytes, Blank, Garbage

\* The response is the answer and what it announces.
LEMMA ResponseIs ==
  ASSUME NEW r, files = DOMAIN Disk
  PROVE  /\ Response(r) \in Bytes
         /\ r[1] # "GET" => Response(r) = FlattenSeq(ClientError("501"))
         /\ r[1] = "GET" =>
              Response(r) = FlattenSeq(Answer(r[2])) \o
                (IF Last(Answer(r[2]))[1] \in Heads THEN Disk[r[2]].data ELSE <<>>)
         /\ Last(Answer(r[2]))[1] \in Heads => r[2] \in DOMAIN Disk
<1> DEFINE u == r[2]
           body == IF u \in DOMAIN Disk THEN Disk[u] ELSE [mode |-> "none"]
           wanted == IF u \in CgiUris THEN "exec" ELSE "read"
           rest == IF Last(Answer(u))[1] \in Heads THEN Disk[u].data ELSE <<>>
<1>1. /\ FlattenSeq(ClientError("501")) \in Bytes
      /\ FlattenSeq(Answer(u)) \in Bytes
  <2>1. "501" \in Byte
    BY DEF Byte
  <2> QED BY <2>1, PageIs, AnswerIs, FlatType
<1>2. Last(Answer(u))[1] \in Heads <=> u \in DOMAIN Disk /\ Disk[u].mode = wanted
  BY AnswerIs
<1>3. body.mode = wanted <=> u \in DOMAIN Disk /\ Disk[u].mode = wanted
  OBVIOUS
<1>4. r[1] = "GET" => Response(r) = FlattenSeq(Answer(u)) \o rest
  <2>1. r[1] = "GET" => Response(r) = FlattenSeq(Answer(u)) \o
                          (IF body.mode = wanted THEN body.data ELSE <<>>)
    BY DEF Response
  <2>2. (IF body.mode = wanted THEN body.data ELSE <<>>) = rest
    BY <1>2, <1>3
  <2> QED BY <2>1, <2>2
<1>5. r[1] # "GET" => Response(r) = FlattenSeq(ClientError("501"))
  BY DEF Response
<1>6. rest \in Bytes
  BY <1>2, DataType DEF Bytes
<1>7. FlattenSeq(Answer(u)) \o rest \in Bytes
  <2> DEFINE a == FlattenSeq(Answer(u))
  <2> HIDE DEF a, rest
  <2> QED BY <1>1, <1>6, Concat DEF Bytes, a
<1> QED BY <1>1, <1>2, <1>4, <1>5, <1>7

\* What the server does with a line.
LEMMA LineReadIs ==
  ASSUME TypeOK, pc \in {"request", "headers"}, NEW line \in Bytes, LineRead(line)
  PROVE  /\ buf' \in Bytes
         /\ \/ /\ pc = "request" /\ line[1] # "GET" /\ buf' = line
               /\ pc' = "write" /\ todo' = ClientError("501")
            \/ /\ pc = "request" /\ line[1] = "GET"
               /\ pc' = "headers" /\ todo' = todo
               /\ (Len(line) > 1 /\ line[2] \notin {CR, LF} => uri' = line[2])
            \/ /\ pc = "headers" /\ line = Blank /\ buf' = line
               /\ pc' = "write" /\ todo' = Answer(uri) /\ uri' = uri
            \/ /\ pc = "headers" /\ line # Blank /\ buf' = line
               /\ pc' = "headers" /\ todo' = todo /\ uri' = uri
         /\ todo' \in Seq(Bytes)
         /\ pc' = "write" => Writable(todo')
         /\ pc' = "write" /\ Last(todo')[1] \in Heads => uri' \in DOMAIN Disk
<1>1. "501" \in Byte
  BY DEF Byte
<1>2. CASE pc = "request" /\ line[1] # "GET"
  BY <1>1, <1>2, PageIs DEF LineRead
<1>3. CASE pc = "request" /\ line[1] = "GET"
  BY <1>3, LinesType DEF LineRead, TypeOK
<1>4. CASE pc = "headers" /\ line = Blank
  <2>1. Last(Answer(uri))[1] \in Heads => uri \in files
    BY AnswerIs
  <2> QED BY <1>4, <2>1, AnswerIs DEF LineRead, TypeOK
<1>5. CASE pc = "headers" /\ line # Blank
  BY <1>5 DEF LineRead, TypeOK
<1> QED BY <1>2, <1>3, <1>4, <1>5

----------------------------------------------------------------------------
(* The clients *)

\* What the server has and what has arrived does not change.
LEMMA UpChange ==
  ASSUME IInv,
         UNCHANGED <<request, down, backlog, server, files, reader>>,
         up' \in [Clients -> [sent : Nat, read : Nat, ended : BOOLEAN, reset : BOOLEAN]],
         \A d \in Clients : /\ up'[d].read = up[d].read
                            /\ up[d].sent <= up'[d].sent /\ up'[d].sent <= Len(request[d])
                            /\ up[d].ended => up'[d].ended,
         \A d \in Polite : up'[d].ended = up[d].ended /\ up'[d].reset = up[d].reset
  PROVE  IInv'
<1> USE DEF server
<1>1. Polite \subseteq Clients
  BY TinyAssumption
<1>2. TypeOK'
  BY DEF IInv, TypeOK
<1>3. \A d : Arrived(d)' = Arrived(d)
  BY DEF Arrived
<1>4. ConnsOK'
  <2>1. \A i \in DOMAIN backlog : backlog[i] \in Clients
    BY DEF IInv, TypeOK
  <2>2. \A d \in Clients : up'[d].read <= up'[d].sent
    BY DEF IInv, ConnsOK, TypeOK
  <2> QED BY <1>1, <1>3, <2>1, <2>2 DEF IInv, ConnsOK
<1>5. LineOK'
  BY DEF IInv, LineOK, ConnsOK, LineStarts, HeaderEnds
<1>6. UriOK' /\ AnswerOK' /\ EofOK'
  BY DEF IInv, UriOK, AnswerOK, EofOK
<1>7. StopsAtBlankLine'
  BY DEF IInv, StopsAtBlankLine, ConnsOK, Answering, HeaderEnds, LineStarts
<1>8. SentOK'
  <2>1. Owed' = Owed
    BY DEF Owed
  <2>2. \A r : Response(r)' = Response(r)
    BY DEF Response, Answer
  <2> QED BY <1>3, <2>1, <2>2 DEF IInv, SentOK
<1> QED BY <1>2, <1>4, <1>5, <1>6, <1>7, <1>8 DEF IInv

LEMMA SendStep ==
  ASSUME IInv, NEW c \in Clients, Send(c)
  PROVE  IInv'
<1>1. PICK n \in up[c].sent + 1 .. Len(request[c]) : up' = [up EXCEPT ![c].sent = n]
  BY DEF Send
<1>2. /\ up[c].sent \in Nat /\ Len(request[c]) \in Nat /\ n \in Nat
      /\ up[c].sent <= n /\ n <= Len(request[c])
  BY DEF IInv, TypeOK, Bytes
<1>3. up' \in [Clients -> [sent : Nat, read : Nat, ended : BOOLEAN, reset : BOOLEAN]]
  BY <1>1, <1>2 DEF IInv, TypeOK
<1>4. ASSUME NEW d \in Clients
      PROVE  /\ up'[d].read = up[d].read /\ up'[d].ended = up[d].ended
             /\ up'[d].reset = up[d].reset
             /\ up'[d].sent = IF d = c THEN n ELSE up[d].sent
  BY <1>1, <1>2 DEF IInv, TypeOK
<1>5. \A d \in Clients : up[d].sent \in Nat /\ up[d].sent <= Len(request[d])
  BY DEF IInv, TypeOK, ConnsOK
<1>6. \A d \in Clients : /\ up'[d].read = up[d].read
                         /\ up[d].sent <= up'[d].sent /\ up'[d].sent <= Len(request[d])
                         /\ up[d].ended => up'[d].ended
  BY <1>2, <1>4, <1>5
<1>7. \A d \in Polite : up'[d].ended = up[d].ended /\ up'[d].reset = up[d].reset
  BY <1>4, TinyAssumption
<1> QED BY <1>3, <1>6, <1>7, UpChange DEF Send

LEMMA EndStep ==
  ASSUME IInv, NEW c \in Clients, End(c) \/ Reset(c)
  PROVE  IInv'
<1>1. /\ c \notin Polite
      /\ up' = [up EXCEPT ![c].ended = TRUE] \/ up' = [up EXCEPT ![c].reset = TRUE]
      /\ UNCHANGED <<request, down, backlog, server, files, reader>>
  BY DEF End, Reset
<1>2. up' \in [Clients -> [sent : Nat, read : Nat, ended : BOOLEAN, reset : BOOLEAN]]
  <2>1. CASE up' = [up EXCEPT ![c].ended = TRUE]
    BY <2>1 DEF IInv, TypeOK
  <2>2. CASE up' = [up EXCEPT ![c].reset = TRUE]
    BY <2>2 DEF IInv, TypeOK
  <2> QED BY <1>1, <2>1, <2>2
<1>3. \A d \in Clients : up[d].sent \in Nat /\ up[d].sent <= Len(request[d])
  BY DEF IInv, TypeOK, ConnsOK
<1>4. \A d \in Clients : /\ up'[d].read = up[d].read /\ up'[d].sent = up[d].sent
                         /\ up[d].ended => up'[d].ended
  <2>1. CASE up' = [up EXCEPT ![c].ended = TRUE]
    BY <2>1 DEF IInv, TypeOK
  <2>2. CASE up' = [up EXCEPT ![c].reset = TRUE]
    BY <2>2 DEF IInv, TypeOK
  <2> QED BY <1>1, <2>1, <2>2
<1>5. \A d \in Polite : up'[d].ended = up[d].ended /\ up'[d].reset = up[d].reset
  BY <1>1, TinyAssumption DEF IInv, TypeOK
<1>6. \A d \in Clients : /\ up'[d].read = up[d].read
                         /\ up[d].sent <= up'[d].sent /\ up'[d].sent <= Len(request[d])
                         /\ up[d].ended => up'[d].ended
  BY <1>3, <1>4
<1> QED BY <1>1, <1>2, <1>5, <1>6, UpChange

\* What the other clients take concerns nobody else.
LEMMA TakeStep ==
  ASSUME IInv, NEW c \in Clients, Take(c)
  PROVE  IInv'
<1> USE DEF server
<1>1. /\ c \notin Polite /\ Polite \subseteq Clients
      /\ UNCHANGED <<request, up, backlog, server, files, reader>>
  BY TinyAssumption DEF Take
<1>2. PICK n \in 1 .. Len(down[c].data) :
        down' = [down EXCEPT ![c].data = SubSeq(@, n + 1, Len(@))]
  BY DEF Take
<1> DEFINE data == SubSeq(down[c].data, n + 1, Len(down[c].data))
<1>3. data \in Bytes
  BY CutAt DEF IInv, TypeOK, Bytes
<1>4. /\ down' \in [Clients -> [data : Bytes, ended : BOOLEAN]]
      /\ \A d \in Clients : down'[d].ended = down[d].ended
      /\ \A d \in Clients : d # c => down'[d] = down[d]
  <2>1. down' = [down EXCEPT ![c].data = data]
    BY <1>2
  <2> HIDE DEF data
  <2> QED BY <1>3, <2>1 DEF IInv, TypeOK
<1>5. \A d \in Polite : d \in Clients /\ down'[d] = down[d]
  BY <1>1, <1>4
<1>6. \A d \in Polite : Arrived(d)' = Arrived(d)
  BY <1>1, <1>5 DEF Arrived
<1>7. TypeOK'
  BY <1>1, <1>4 DEF IInv, TypeOK
<1>8. ConnsOK'
  <2>1. \A i \in DOMAIN backlog : backlog[i] \in Clients
    BY DEF IInv, TypeOK
  <2> QED BY <1>1, <1>4, <1>6, <2>1 DEF IInv, ConnsOK
<1>9. LineOK' /\ UriOK' /\ AnswerOK' /\ StopsAtBlankLine'
  <2>1. LineOK'
    BY <1>1 DEF IInv, LineOK, LineStarts, HeaderEnds
  <2>2. StopsAtBlankLine'
    BY <1>1 DEF IInv, StopsAtBlankLine, LineStarts, HeaderEnds
  <2>3. UriOK' /\ AnswerOK'
    BY <1>1 DEF IInv, UriOK, AnswerOK
  <2> QED BY <2>1, <2>2, <2>3
<1>10. SentOK'
  <2>1. Owed' = Owed
    BY <1>1 DEF Owed
  <2>2. \A x : Response(x)' = Response(x)
    BY <1>1 DEF Response, Answer
  <2> QED BY <1>1, <1>5, <1>6, <2>1, <2>2 DEF IInv, SentOK
<1>11. EofOK'
  BY <1>1, <1>5 DEF IInv, EofOK
<1> QED BY <1>7, <1>8, <1>9, <1>10, <1>11 DEF IInv

\* What has arrived moves on to the client.
LEMMA ReadStep ==
  ASSUME IInv, NEW c \in Polite, Read(c)
  PROVE  IInv'
<1> USE DEF server
<1>1. c \in Clients /\ Polite \subseteq Clients
  BY TinyAssumption
<1>2. UNCHANGED <<request, up, backlog, server, files>>
  BY DEF Read
<1> DEFINE r == reader[c]
           data == down[c].data
           size == MinOf(Len(data), RIO_BUFSIZE)
<1>3. /\ r.rio \in Readers /\ r.got \in Bytes /\ r.eof \in BOOLEAN
      /\ data \in Bytes /\ Len(data) \in Nat /\ down[c].ended \in BOOLEAN
  BY <1>1 DEF IInv, TypeOK, Bytes
<1>4. size \in 0 .. Len(data) /\ (size = 0 => Len(data) = 0)
  BY <1>3, TinyAssumption DEF MinOf
<1> DEFINE now == reader'[c]
<1>5. /\ TypeOK'
      /\ \A d \in Polite : d # c => reader'[d] = reader[d]
      /\ \A d \in Clients : d # c => down'[d] = down[d]
      /\ down'[c].ended = down[c].ended
      /\ now.got \o Unread(now.rio) \o down'[c].data = r.got \o Unread(r.rio) \o data
      /\ now.eof => now.rio.cnt <= 0
      /\ now.eof => pc = "exited" \/ (down'[c].ended /\ down'[c].data = <<>>)
  <2> DEFINE
      Copies ==  /\ r.rio.cnt > 0
                 /\ reader' = [reader EXCEPT ![c].got = @ \o Copied(r.rio, r.rio.cnt),
                                            ![c].rio = Consume(@, r.rio.cnt)]
                 /\ UNCHANGED down
      Fetches == /\ r.rio.cnt <= 0 /\ size > 0
                 /\ reader' = [reader EXCEPT ![c].rio = Refill(@, SubSeq(data, 1, size))]
                 /\ down' = [down EXCEPT ![c].data = SubSeq(@, size + 1, Len(@))]
      Ends ==    /\ r.rio.cnt <= 0 /\ size = 0 /\ (down[c].ended \/ pc = "exited")
                 /\ reader' = [reader EXCEPT ![c].eof = TRUE]
                 /\ UNCHANGED down
  <2>1. CASE Copies
    <3>1. /\ Copied(r.rio, r.rio.cnt) = Unread(r.rio) /\ Unread(r.rio) \in Bytes
          /\ Consume(r.rio, r.rio.cnt) \in Readers /\ Consume(r.rio, r.rio.cnt).cnt = 0
          /\ Unread(Consume(r.rio, r.rio.cnt)) = <<>>
      BY <1>3, <2>1, AllTaken
    <3>2. /\ now.got = r.got \o Unread(r.rio) /\ now.rio = Consume(r.rio, r.rio.cnt)
          /\ now.eof = r.eof
      <4>1. now = [r EXCEPT !.got = r.got \o Copied(r.rio, r.rio.cnt),
                            !.rio = Consume(r.rio, r.rio.cnt)]
        BY <2>1 DEF IInv, TypeOK
      <4>2. r = [rio |-> r.rio, got |-> r.got, eof |-> r.eof]
        BY DEF IInv, TypeOK
      <4> QED BY <3>1, <4>1, <4>2
    <3>3. now.got \in Bytes /\ now.got \o <<>> = now.got
      <4> DEFINE u == Unread(r.rio)
                 g == r.got
      <4>1. u \in Bytes /\ g \in Bytes
        BY <1>3, <3>1
      <4> HIDE DEF u, g
      <4>2. g \o u \in Bytes /\ (g \o u) \o <<>> = g \o u
        BY <4>1, Concat DEF Bytes
      <4> QED BY <3>2, <4>2 DEF u, g
    <3>4. now \in [rio : Readers, got : Bytes, eof : BOOLEAN]
      <4>1. now = [r EXCEPT !.got = now.got, !.rio = now.rio]
        BY <2>1, <3>2 DEF IInv, TypeOK
      <4> QED BY <1>3, <3>1, <3>2, <3>3, <4>1 DEF IInv, TypeOK
    <3>5. reader' \in [Polite -> [rio : Readers, got : Bytes, eof : BOOLEAN]]
      <4>1. reader' = [reader EXCEPT ![c] = now]
        BY <2>1 DEF IInv, TypeOK
      <4> HIDE DEF now
      <4> QED BY <3>4, <4>1 DEF IInv, TypeOK
    <3>6. TypeOK'
      BY <1>2, <2>1, <3>5 DEF IInv, TypeOK
    <3>7. ~r.eof
      BY DEF Read
    <3>8. \A d \in Polite : d # c => reader'[d] = reader[d]
      BY <2>1 DEF IInv, TypeOK
    <3>9. now.got \o Unread(now.rio) \o down'[c].data = r.got \o Unread(r.rio) \o data
      BY <2>1, <3>1, <3>2, <3>3
    <3> QED BY <2>1, <3>2, <3>6, <3>7, <3>8, <3>9
  <2>2. CASE Fetches
    <3> DEFINE a == SubSeq(data, 1, size)
               b == SubSeq(data, size + 1, Len(data))
    <3>1. a \in Bytes /\ b \in Bytes /\ a \o b = data
      BY <1>3, <1>4, CutAt DEF Bytes
    <3>2. /\ now.got = r.got /\ now.eof = r.eof /\ now.rio = Refill(r.rio, a)
          /\ down'[c].data = b /\ down'[c].ended = down[c].ended
      BY <1>1, <1>3, <2>2 DEF IInv, TypeOK
    <3> HIDE DEF a, b
    <3>3. now.rio \in Readers /\ Unread(now.rio) = a
      BY <1>3, <3>1, <3>2, Refilled
    <3>4. /\ reader' = [reader EXCEPT ![c].rio = now.rio]
          /\ down' = [down EXCEPT ![c].data = b]
      BY <2>2, <3>2 DEF b
    <3>5. reader' \in [Polite -> [rio : Readers, got : Bytes, eof : BOOLEAN]]
      BY <3>3, <3>4 DEF IInv, TypeOK
    <3>6. down' \in [Clients -> [data : Bytes, ended : BOOLEAN]]
      BY <3>1, <3>4 DEF IInv, TypeOK
    <3>7. TypeOK'
      BY <1>2, <3>5, <3>6 DEF IInv, TypeOK
    <3>8. ~r.eof /\ Unread(r.rio) = <<>>
      BY <1>3, <2>2, NothingLeft DEF Read
    <3>9. now.got \o Unread(now.rio) \o down'[c].data = r.got \o Unread(r.rio) \o data
      <4> DEFINE g == r.got
      <4>1. g \in Bytes
        BY <1>3
      <4> HIDE DEF g
      <4>2. (g \o a) \o b = g \o (a \o b) /\ g \o <<>> = g
        <5>1. g \in Seq(Byte) /\ a \in Seq(Byte) /\ b \in Seq(Byte)
          BY <3>1, <4>1 DEF Bytes
        <5> QED BY ONLY <5>1, Concat
      <4> QED BY <3>1, <3>2, <3>3, <3>8, <4>2 DEF g
    <3>10. /\ \A d \in Polite : d # c => reader'[d] = reader[d]
           /\ \A d \in Clients : d # c => down'[d] = down[d]
      BY <3>4 DEF IInv, TypeOK
    <3> QED BY <3>2, <3>7, <3>8, <3>9, <3>10
  <2>3. CASE Ends
    <3>1. now.got = r.got /\ now.rio = r.rio
      BY <1>3, <2>3 DEF IInv, TypeOK
    <3>2. reader' \in [Polite -> [rio : Readers, got : Bytes, eof : BOOLEAN]]
      BY <2>3 DEF IInv, TypeOK
    <3>3. TypeOK'
      BY <1>2, <2>3, <3>2 DEF IInv, TypeOK
    <3>4. data = <<>>
      BY <1>3, <1>4, <2>3 DEF Bytes
    <3>5. \A d \in Polite : d # c => reader'[d] = reader[d]
      BY <2>3 DEF IInv, TypeOK
    <3>6. down' = down /\ r.rio.cnt <= 0 /\ (down[c].ended \/ pc = "exited")
      BY <2>3
    <3> HIDE DEF now, r
    <3>7. now.got \o Unread(now.rio) \o down'[c].data = r.got \o Unread(r.rio) \o data
      BY <3>1, <3>6
    <3>8. now.rio.cnt <= 0 /\ (pc = "exited" \/ (down'[c].ended /\ down'[c].data = <<>>))
      BY <3>1, <3>4, <3>6
    <3>9. \A d \in Clients : down'[d] = down[d]
      BY <3>6
    <3> HIDE DEF data, size
    <3> QED BY <3>3, <3>5, <3>6, <3>7, <3>8, <3>9
  <2>4. Copies \/ Fetches \/ Ends
    BY DEF Read
  <2> HIDE DEF Copies, Fetches, Ends
  <2> QED BY <2>1, <2>2, <2>3, <2>4
<1>6. \A d \in Polite : Arrived(d)' = Arrived(d)
  <2> TAKE d \in Polite
  <2>1. CASE d = c
    BY <1>5, <2>1 DEF Arrived
  <2>2. CASE d # c
    BY <1>1, <1>5, <2>2 DEF Arrived
  <2> QED BY <2>1, <2>2
<1>7. \A d \in Clients : down'[d].ended = down[d].ended
  BY <1>5
<1>8. ConnsOK'
  <2>1. \A i \in DOMAIN backlog : backlog[i] \in Clients
    BY DEF IInv, TypeOK
  <2> QED BY <1>1, <1>2, <1>6, <1>7, <2>1 DEF IInv, ConnsOK
<1>9. LineOK' /\ UriOK' /\ AnswerOK' /\ StopsAtBlankLine'
  <2>1. LineOK'
    BY <1>2 DEF IInv, LineOK, LineStarts, HeaderEnds
  <2>2. StopsAtBlankLine'
    BY <1>2 DEF IInv, StopsAtBlankLine, LineStarts, HeaderEnds
  <2>3. UriOK' /\ AnswerOK'
    BY <1>2 DEF IInv, UriOK, AnswerOK
  <2> QED BY <2>1, <2>2, <2>3
<1>10. SentOK'
  <2>1. Owed' = Owed
    BY <1>2 DEF Owed
  <2>2. \A x : Response(x)' = Response(x)
    BY <1>2 DEF Response, Answer
  <2> QED BY <1>1, <1>2, <1>6, <1>7, <2>1, <2>2 DEF IInv, SentOK
<1>11. EofOK'
  <2> SUFFICES ASSUME NEW d \in Polite, reader'[d].eof
               PROVE  /\ reader'[d].rio.cnt <= 0
                      /\ pc' = "exited" \/ (down'[d].ended /\ down'[d].data = <<>>)
    BY DEF EofOK
  <2>1. CASE d = c
    <3>1. now.eof
      BY <2>1
    <3> HIDE DEF now
    <3>2. now.rio.cnt <= 0 /\ (pc = "exited" \/ (down'[c].ended /\ down'[c].data = <<>>))
      BY <1>5, <3>1
    <3> QED BY <1>2, <2>1, <3>2 DEF now
  <2>2. CASE d # c
    BY <1>1, <1>2, <1>5, <2>2 DEF IInv, EofOK
  <2> QED BY <2>1, <2>2
<1> QED BY <1>5, <1>8, <1>9, <1>10, <1>11 DEF IInv

LEMMA UnlinkStep ==
  ASSUME IInv, Unlink
  PROVE  IInv'
<1> USE DEF server
<1>1. /\ uri \in files /\ files' = files \ {uri}
      /\ UNCHANGED <<request, up, down, backlog, server, reader>>
  BY DEF Unlink
<1>2. TypeOK'
  BY <1>1 DEF IInv, TypeOK
<1>3. ConnsOK'
  BY <1>1 DEF IInv, ConnsOK, Arrived
<1>4. LineOK' /\ UriOK' /\ AnswerOK' /\ StopsAtBlankLine' /\ EofOK'
  <2>1. LineOK'
    BY <1>1 DEF IInv, LineOK, LineStarts, HeaderEnds
  <2>2. StopsAtBlankLine'
    BY <1>1 DEF IInv, StopsAtBlankLine, LineStarts, HeaderEnds
  <2>3. UriOK' /\ AnswerOK' /\ EofOK'
    BY <1>1 DEF IInv, UriOK, AnswerOK, EofOK
  <2> QED BY <2>1, <2>2, <2>3
<1>5. SentOK'
  BY <1>1 DEF IInv, TypeOK, SentOK
<1> QED BY <1>2, <1>3, <1>4, <1>5 DEF IInv

----------------------------------------------------------------------------
(* The server reads *)

\* What reading changes is up to the line and to what follows it.
LEMMA ReadingStep ==
  ASSUME IInv, pc \in {"request", "headers"},
         UNCHANGED <<request, up, down, backlog, conn, child, files, reader>>,
         pc' \in {"request", "headers", "write", "close"},
         TypeOK', LineOK', UriOK', StopsAtBlankLine',
         pc' = "write" => Writable(todo'),
         pc' = "write" /\ Last(todo')[1] \in Heads => uri' \in DOMAIN Disk,
         conn \in Polite /\ files = DOMAIN Disk /\ pc' \in Answering
           => Owed' = Response(request[conn])
  PROVE  IInv'
<1>1. Polite \subseteq Clients
  BY TinyAssumption
<1>2. \A d : Arrived(d)' = Arrived(d)
  BY DEF Arrived
<1>3. conn \in Clients
  BY DEF IInv, ConnsOK
<1>4. ConnsOK'
  BY <1>2, <1>3 DEF IInv, ConnsOK
<1>5. AnswerOK'
  BY DEF IInv, AnswerOK
<1>6. EofOK'
  BY DEF IInv, EofOK
<1>7. SentOK'
  <2> SUFFICES ASSUME files = DOMAIN Disk, NEW c \in Polite
               PROVE  /\ \E rest \in Bytes : Arrived(c) \o rest = Response(request[c])
                      /\ c = conn /\ pc' \in {"request", "headers"} => Arrived(c) = <<>>
                      /\ c = conn /\ pc' \in Answering => Arrived(c) \o Owed' = Response(request[c])
                      /\ down[c].ended => Arrived(c) = Response(request[c])
    <3>1. \A x : Response(x)' = Response(x)
      BY DEF Response, Answer
    <3> QED BY <1>2, <3>1 DEF SentOK
  <2>1. c = conn => Arrived(c) = <<>>
    BY DEF IInv, SentOK
  <2>2. Response(request[c]) \in Bytes
    BY ResponseIs
  <2>3. <<>> \o Response(request[c]) = Response(request[c])
    BY <2>2, Concat DEF Bytes
  <2> QED BY <2>1, <2>3 DEF IInv, SentOK
<1> QED BY <1>4, <1>5, <1>6, <1>7 DEF IInv

LEMMA InterruptedStep ==
  ASSUME IInv, Interrupted
  PROVE  IInv'
<1>1. /\ pc \in {"request", "headers"} /\ rio.cnt <= 0 /\ rio' = Interrupt(rio)
      /\ UNCHANGED <<request, up, down, backlog, conn, pc, usrbuf, buf, used, uri, todo, child,
                     files, reader>>
  BY DEF Interrupted, Reading
<1>2. rio' \in Readers /\ rio'.cnt = -1
  BY <1>1, NothingLeft DEF IInv, TypeOK
<1>3. TypeOK'
  BY <1>1, <1>2 DEF IInv, TypeOK
<1>4. LineOK'
  <2>1. ~(rio'.cnt > 0) /\ ~(rio.cnt > 0)
    BY <1>1, <1>2 DEF IInv, TypeOK, Readers
  <2> QED BY <1>1, <2>1 DEF IInv, LineOK, LineStarts, HeaderEnds
<1>5. UriOK' /\ StopsAtBlankLine'
  BY <1>1 DEF IInv, UriOK, StopsAtBlankLine, LineStarts, HeaderEnds
<1>6. pc' \notin Answering /\ pc' # "write"
  BY <1>1 DEF Answering
<1> QED BY <1>1, <1>3, <1>4, <1>5, <1>6, ReadingStep

\* The line with another byte, while the request goes on: it is what follows the
\* place where it starts.
LEMMA LongerLine ==
  ASSUME IInv, pc \in {"request", "headers"}, rio.cnt > 0, ~up[conn].ended,
         NEW line, line = usrbuf \o Copied(rio, 1)
  PROVE  LET r == request[conn]
             start == used - Len(usrbuf)
             after == Consume(rio, 1)
         IN  /\ Len(line) = Len(usrbuf) + 1 /\ Len(line) <= MAXLINE - 1 /\ start \in Nat
             /\ used + 1 = start + Len(line) /\ used + 1 <= Len(r)
             /\ \A k \in 1 .. Len(line) : line[k] = r[start + k]
             /\ \A k \in 1 .. Len(line) - 1 : line[k] # LF
             /\ used + 1 + after.cnt = up[conn].read
             /\ after.ptr + after.cnt <= Len(after.buf)
             /\ \A k \in 1 .. after.cnt : after.buf[after.ptr + k] = r[used + 1 + k]
<1> DEFINE r == request[conn]
           start == used - Len(usrbuf)
           after == Consume(rio, 1)
           b == rio.buf[rio.ptr + 1]
           n == Len(usrbuf)
<1>1. /\ conn \in Clients /\ rio \in Readers /\ usrbuf \in Seq(Byte) /\ used \in Nat /\ n \in Nat
      /\ rio.cnt \in Int /\ rio.ptr \in Nat /\ Len(rio.buf) \in Nat
      /\ r \in Seq(Byte) /\ Len(r) \in Nat /\ up[conn].read \in Nat /\ up[conn].sent \in Nat
      /\ up[conn].read <= up[conn].sent /\ up[conn].sent <= Len(r)
  BY DEF IInv, TypeOK, ConnsOK, Bytes, Readers
<1>2. /\ Copied(rio, 1) = <<b>> /\ b \in Byte /\ after.buf = rio.buf
      /\ after.ptr = rio.ptr + 1 /\ after.cnt = rio.cnt - 1
  BY <1>1, OneByte
<1>3. /\ used + rio.cnt = up[conn].read /\ rio.ptr + rio.cnt <= Len(rio.buf)
      /\ \A k \in 1 .. rio.cnt : rio.buf[rio.ptr + k] = r[used + k]
      /\ n < MAXLINE - 1 /\ n <= used
      /\ \A k \in 1 .. n : usrbuf[k] = r[start + k] /\ usrbuf[k] # LF
  BY DEF IInv, LineOK
<1>4. b = r[used + 1]
  <2>1. 1 \in 1 .. rio.cnt
    BY <1>1
  <2> QED BY <1>3, <2>1
<1>5. /\ Len(line) = n + 1 /\ line[n + 1] = b
      /\ \A k \in 1 .. n : line[k] = usrbuf[k]
  <2> DEFINE s == <<b>>
  <2>1. s \in Seq(Byte) /\ Len(s) = 1 /\ s[1] = b
    BY <1>2, OneByteIs DEF Bytes
  <2>2. line = usrbuf \o s
    BY <1>2
  <2> HIDE DEF s, b, n
  <2>3. /\ Len(line) = Len(usrbuf) + Len(s)
        /\ \A i \in 1 .. Len(usrbuf) + Len(s) :
             line[i] = IF i <= Len(usrbuf) THEN usrbuf[i] ELSE s[i - Len(usrbuf)]
    <3>1. usrbuf \in Seq(Byte) /\ s \in Seq(Byte)
      BY <1>1, <2>1
    <3> QED BY ONLY <2>2, <3>1
  <2>4. Len(line) = n + 1
    BY <2>1, <2>3 DEF n
  <2>5. line[n + 1] = b
    <3>1. n + 1 \in 1 .. n + 1 /\ ~(n + 1 <= n) /\ n + 1 - n = 1
      BY <1>1
    <3> QED BY <2>1, <2>3, <3>1 DEF n
  <2>6. \A k \in 1 .. n : line[k] = usrbuf[k]
    <3>1. \A k \in 1 .. n : k \in 1 .. n + 1 /\ k <= n
      BY <1>1
    <3> QED BY <2>1, <2>3, <3>1 DEF n
  <2> QED BY <2>4, <2>5, <2>6
<1>6. start \in Nat /\ start + n = used /\ used + 1 = start + Len(line)
  <2>1. start = used - n
    OBVIOUS
  <2> HIDE DEF start, n
  <2>2. used \in Nat /\ n \in Nat /\ n <= used
    BY <1>1, <1>3
  <2> QED BY ONLY <1>5, <2>1, <2>2
<1>7. MAXLINE \in Nat
  BY TinyAssumption
<1> HIDE DEF b, start, r, after, n
<1>8. \A k \in 1 .. Len(line) : line[k] = r[start + k]
  <2> TAKE k \in 1 .. Len(line)
  <2>1. k \in 1 .. n \/ k = n + 1
    BY <1>1, <1>5
  <2>2. start + (n + 1) = used + 1
    BY <1>1, <1>6
  <2> QED BY <1>3, <1>4, <1>5, <2>1, <2>2
<1>9. \A k \in 1 .. Len(line) - 1 : line[k] # LF
  <2>1. \A k \in 1 .. Len(line) - 1 : k \in 1 .. n
    BY <1>1, <1>5
  <2> QED BY <1>3, <1>5, <2>1
<1>10. \A k \in 1 .. after.cnt : after.buf[after.ptr + k] = r[used + 1 + k]
  <2> TAKE k \in 1 .. after.cnt
  <2>1. /\ k + 1 \in 1 .. rio.cnt /\ rio.ptr + (k + 1) = after.ptr + k
        /\ used + (k + 1) = used + 1 + k
    <3>1. after.ptr = rio.ptr + 1 /\ after.cnt = rio.cnt - 1
      BY <1>2
    <3>2. used \in Nat /\ rio.cnt \in Int /\ rio.ptr \in Nat
      BY <1>1
    <3> QED BY ONLY <3>1, <3>2, k \in 1 .. after.cnt
  <2>2. rio.buf[rio.ptr + (k + 1)] = r[used + (k + 1)]
    BY <1>3, <2>1
  <2> QED BY <1>2, <2>1, <2>2
<1>11. /\ Len(line) <= MAXLINE - 1 /\ used + 1 <= Len(r)
       /\ used + 1 + after.cnt = up[conn].read
       /\ after.ptr + after.cnt <= Len(after.buf)
  <2>1. Len(line) <= MAXLINE - 1
    BY ONLY <1>1, <1>3, <1>5, <1>7
  <2>2. after.cnt = rio.cnt - 1 /\ after.ptr = rio.ptr + 1 /\ after.buf = rio.buf
    BY <1>2
  <2>3. used + 1 + after.cnt = up[conn].read /\ used + 1 <= up[conn].read
    <3>1. used + rio.cnt = up[conn].read /\ used \in Nat /\ rio.cnt \in Int /\ rio.cnt > 0
      BY <1>1, <1>3
    <3> QED BY ONLY <2>2, <3>1
  <2>4. used + 1 <= Len(r)
    <3>1. /\ up[conn].read \in Nat /\ up[conn].sent \in Nat /\ Len(r) \in Nat /\ used \in Nat
          /\ up[conn].read <= up[conn].sent /\ up[conn].sent <= Len(r)
      BY <1>1
    <3> QED BY ONLY <2>3, <3>1
  <2>5. after.ptr + after.cnt <= Len(after.buf)
    <3>1. rio.ptr + rio.cnt <= Len(rio.buf) /\ rio.cnt \in Int /\ rio.ptr \in Nat
      BY <1>1, <1>3
    <3>2. after.ptr + after.cnt = rio.ptr + rio.cnt
      BY ONLY <2>2, <3>1
    <3> QED BY <2>2, <3>1, <3>2
  <2> QED BY <2>1, <2>3, <2>4, <2>5
<1> QED BY <1>5, <1>6, <1>8, <1>9, <1>10, <1>11 DEF r, start, after, n

LEMMA BlankIs ==
  /\ Len(Blank) = 2 /\ Blank[1] = CR /\ Blank[2] = LF
  /\ \A t \in Bytes : Len(t) = 2 /\ t[1] = CR /\ t[2] = LF => t = Blank
<1> DEFINE s == <<CR, LF>>
<1>1. s \in Seq(Byte) /\ Len(s) = 2 /\ s[1] = CR /\ s[2] = LF
  <2>1. CR \in Byte /\ LF \in Byte
    BY DEF Byte, CR, LF
  <2> QED BY ONLY <2>1
<1> HIDE DEF s
<1>2. ASSUME NEW t \in Seq(Byte), Len(t) = 2, t[1] = CR, t[2] = LF
      PROVE  t = s
  <2>1. \A i \in 1 .. 2 : t[i] = s[i]
    BY <1>1, <1>2
  <2>2. Len(t) = Len(s) /\ \A i \in 1 .. Len(t) : t[i] = s[i]
    BY <1>1, <1>2, <2>1
  <2> QED BY <1>1, <2>2, SeqEqual
<1> QED BY <1>1, <1>2 DEF Blank, Bytes, s

\* A line is complete: the headers end behind it, or they end further on.
LEMMA LineEnded ==
  ASSUME IInv, pc \in {"request", "headers"}, rio.cnt > 0, ~up[conn].ended,
         NEW line, line = usrbuf \o Copied(rio, 1), LineEnds(line, MAXLINE)
  PROVE  LET r == request[conn]
             u == used + 1
         IN  /\ LineStarts(r, u)
             /\ pc = "request" => \A e \in HeaderEnds(r) : e > u
             /\ pc = "headers" /\ line # Blank => \A e \in HeaderEnds(r) : e > u
             /\ pc = "headers" /\ line = Blank => u = Min(HeaderEnds(r))
<1> DEFINE r == request[conn]
           u == used + 1
           start == used - Len(usrbuf)
           n == Len(line)
<1>1. /\ n \in Nat \ {0} /\ n <= MAXLINE - 1 /\ start \in Nat
      /\ u = start + n /\ u <= Len(r) /\ u \in Nat
      /\ \A k \in 1 .. n : line[k] = r[start + k]
      /\ \A k \in 1 .. n - 1 : line[k] # LF
  <2>1. used \in Nat /\ Len(usrbuf) \in Nat
    BY DEF IInv, TypeOK, Bytes
  <2>2. /\ Len(line) = Len(usrbuf) + 1 /\ Len(line) <= MAXLINE - 1
        /\ used - Len(usrbuf) \in Nat
        /\ used + 1 = used - Len(usrbuf) + Len(line) /\ used + 1 <= Len(request[conn])
        /\ \A k \in 1 .. Len(line) : line[k] = request[conn][used - Len(usrbuf) + k]
        /\ \A k \in 1 .. Len(line) - 1 : line[k] # LF
    BY LongerLine
  <2>3. n \in Nat \ {0}
    BY <2>1, <2>2
  <2> QED BY <2>1, <2>2, <2>3
<1>2. /\ r \in Bytes /\ LineStarts(r, start)
      /\ pc = "request" => start = 0
      /\ pc = "headers" => start > 0 /\ \A e \in HeaderEnds(r) : e > start
  BY DEF IInv, TypeOK, ConnsOK, LineOK
<1>3. line[n] = LF \/ n = MAXLINE - 1
  BY DEF LineEnds, Last
<1> HIDE DEF r, u, start, n
<1>4. /\ \A e \in HeaderEnds(r) : e <= start \/ e > u \/ (e = u /\ u = start + 2)
      /\ LineStarts(r, u)
  <2>1. \A k \in start + 1 .. u - 1 : r[k] # LF
    <3> TAKE k \in start + 1 .. u - 1
    <3>1. k - start \in 1 .. n - 1 /\ k - start \in 1 .. n /\ start + (k - start) = k
      BY <1>1
    <3>2. line[k - start] # LF /\ line[k - start] = r[start + (k - start)]
      BY <1>1, <3>1
    <3> QED BY <3>1, <3>2
  <2>2. start < u /\ u - start = n
    BY <1>1
  <2>3. r[u] = LF \/ u - start = MAXLINE - 1
    <3>1. line[n] = r[start + n]
      <4>1. n \in 1 .. n
        BY <1>1
      <4> QED BY <1>1, <4>1
    <3> QED BY <1>1, <1>3, <2>2, <3>1
  <2> QED BY <1>1, <1>2, <2>1, <2>2, <2>3, LineOf
<1>5. \A e \in HeaderEnds(r) : e \in Nat /\ e >= 3
  <2>1. \A e \in HeaderEnds(r) : e \in 3 .. Len(r)
    BY DEF HeaderEnds
  <2>2. Len(r) \in Nat
    BY <1>2 DEF Bytes
  <2> QED BY <2>1, <2>2
<1>6. ASSUME pc = "request" PROVE \A e \in HeaderEnds(r) : e > u
  BY <1>1, <1>2, <1>4, <1>5, <1>6
<1>7. pc = "headers" => \A e \in HeaderEnds(r) : e > u \/ (e = u /\ u = start + 2)
  BY <1>1, <1>2, <1>4, <1>5
<1>8. ASSUME pc = "headers", line # Blank PROVE \A e \in HeaderEnds(r) : e > u
  <2> SUFFICES ASSUME NEW e \in HeaderEnds(r), e = u, u = start + 2 PROVE FALSE
    BY <1>7, <1>8
  <2>1. u \in 3 .. Len(r) /\ SubSeq(r, u - 1, u) = Blank
    BY DEF HeaderEnds
  <2>2. n = 2 /\ line[1] = r[u - 1] /\ line[2] = r[u]
    <3>1. n = 2 /\ start + 1 = u - 1
      BY <1>1
    <3>2. 1 \in 1 .. n /\ 2 \in 1 .. n
      BY <3>1
    <3> QED BY <1>1, <3>1, <3>2
  <2>3. SubSeq(r, u - 1, u)[1] = r[u - 1] /\ SubSeq(r, u - 1, u)[2] = r[u]
    BY <1>2, <2>1 DEF Bytes
  <2>5. line \in Seq(Byte)
    <3>1. rio \in Readers /\ usrbuf \in Seq(Byte)
      BY DEF IInv, TypeOK, Bytes
    <3>2. Copied(rio, 1) \in Seq(Byte)
      BY <3>1, OneByte, OneByteIs DEF Bytes
    <3> QED BY ONLY <3>1, <3>2, line = usrbuf \o Copied(rio, 1)
  <2>6. line = Blank
    <3>1. line[1] = CR /\ line[2] = LF
      BY <2>1, <2>2, <2>3, BlankIs, Zenon
    <3> QED BY <2>2, <2>5, <3>1, BlankIs DEF n, Bytes
  <2> QED BY <1>8, <2>6
<1>9. ASSUME pc = "headers", line = Blank PROVE u = Min(HeaderEnds(r))
  <2>1. n = 2 /\ line[1] = CR /\ line[2] = LF
    BY <1>9, BlankIs DEF n
  <2>2. u = start + 2 /\ r[u - 1] = CR /\ r[u] = LF /\ u >= 3
    <3>1. u = start + 2 /\ start + 1 = u - 1 /\ u >= 3
      BY <1>1, <1>2, <1>9, <2>1
    <3>2. 1 \in 1 .. n /\ 2 \in 1 .. n
      BY <2>1
    <3> QED BY <1>1, <2>1, <3>1, <3>2
  <2>3. SubSeq(r, u - 1, u) = Blank
    <3> DEFINE t == SubSeq(r, u - 1, u)
    <3>1. u \in 3 .. Len(r)
      BY <1>1, <2>2
    <3>2. t \in Seq(Byte) /\ Len(t) = 2 /\ t[1] = r[u - 1] /\ t[2] = r[u]
      BY <1>2, <3>1 DEF Bytes
    <3> HIDE DEF t
    <3>4. t = Blank
      BY <2>2, <3>2, BlankIs DEF Bytes
    <3> QED BY <3>4 DEF t
  <2>4. u \in HeaderEnds(r)
    <3>1. u - 2 = start /\ u \in 3 .. Len(r)
      BY <1>1, <1>2, <2>2 DEF Bytes
    <3> QED BY <1>2, <2>3, <3>1 DEF HeaderEnds
  <2>5. \A e \in HeaderEnds(r) : e >= u /\ e \in Nat
    BY <1>1, <1>5, <1>7, <1>9
  <2>6. \A m \in HeaderEnds(r) : (\A e \in HeaderEnds(r) : m <= e) => m = u
    BY <1>1, <2>4, <2>5
  <2> QED BY <2>4, <2>5, <2>6 DEF Min
<1> QED BY <1>4, <1>6, <1>8, <1>9 DEF r, u

\* What there is to show of the next state.
LEMMA LineNext ==
  ASSUME NEW r, r = request'[conn'], NEW start, start = used' - Len(usrbuf'),
         IF rio'.cnt > 0
         THEN /\ used' + rio'.cnt = up'[conn'].read
              /\ rio'.ptr + rio'.cnt <= Len(rio'.buf)
              /\ \A k \in 1 .. rio'.cnt : rio'.buf[rio'.ptr + k] = r[used' + k]
         ELSE used' = up'[conn'].read,
         Len(usrbuf') < MAXLINE - 1, Len(usrbuf') <= used',
         \A k \in 1 .. Len(usrbuf') : usrbuf'[k] = r[start + k] /\ usrbuf'[k] # LF,
         LineStarts(r, start),
         pc' = "request" => start = 0,
         pc' = "headers" => start > 0 /\ \A i \in HeaderEnds(r) : i > start
  PROVE  LineOK'
BY DEF LineOK, LineStarts, HeaderEnds

LEMMA ReadByteStep ==
  ASSUME IInv, ReadByte
  PROVE  IInv'
<1> DEFINE line == usrbuf \o Copied(rio, 1)
           r == request[conn]
<1>1. /\ pc \in {"request", "headers"} /\ rio.cnt > 0
      /\ rio' = Consume(rio, 1) /\ used' = used + 1
      /\ UNCHANGED <<request, up, down, backlog, conn, child, files, reader>>
  BY DEF ReadByte, Reading
<1>2. /\ rio' \in Readers /\ rio'.cnt \in Int /\ rio'.cnt >= 0 /\ used' \in Nat
      /\ conn \in Clients /\ conn # None
  <2>1. rio \in Readers /\ used \in Nat /\ conn \in Clients
    BY <1>1 DEF IInv, TypeOK, ConnsOK
  <2>2. rio' \in Readers /\ rio'.cnt = rio.cnt - 1 /\ rio.cnt \in Int
    BY <1>1, <2>1, OneByte DEF Readers
  <2> QED BY <1>1, <2>1, <2>2, TinyAssumption
<1>3. line \in Bytes /\ usrbuf \in Bytes
  <2> DEFINE b == Copied(rio, 1)
  <2>1. b \in Bytes /\ usrbuf \in Bytes
    <3>1. rio \in Readers /\ usrbuf \in Bytes
      BY DEF IInv, TypeOK
    <3>2. b = <<rio.buf[rio.ptr + 1]>> /\ rio.buf[rio.ptr + 1] \in Byte
      BY <1>1, <3>1, OneByte
    <3> QED BY <3>1, <3>2, OneByteIs, Zenon
  <2> HIDE DEF b
  <2>2. usrbuf \o b \in Bytes
    BY <2>1, Concat DEF Bytes
  <2> QED BY <2>1, <2>2 DEF b
<1>4. conn \in Polite => ~up[conn].ended /\ Len(r) > 1 /\ r[2] \notin {CR, LF}
  BY DEF IInv, ConnsOK
<1>5. MAXLINE \in Nat /\ MAXLINE > 2
  BY TinyAssumption
<1>6. ~up[conn].ended =>
        /\ Len(line) = Len(usrbuf) + 1 /\ Len(line) <= MAXLINE - 1
        /\ used - Len(usrbuf) \in Nat /\ used + 1 = used - Len(usrbuf) + Len(line)
        /\ \A k \in 1 .. Len(line) : line[k] = r[used - Len(usrbuf) + k]
        /\ \A k \in 1 .. Len(line) - 1 : line[k] # LF
  BY <1>1, LongerLine
\* What rio holds follows the byte.
<1>7. ~up[conn].ended =>
        IF rio'.cnt > 0
        THEN /\ used' + rio'.cnt = up[conn].read
             /\ rio'.ptr + rio'.cnt <= Len(rio'.buf)
             /\ \A k \in 1 .. rio'.cnt : rio'.buf[rio'.ptr + k] = r[used' + k]
        ELSE used' = up[conn].read
  <2> SUFFICES ASSUME ~up[conn].ended
               PROVE  IF rio'.cnt > 0
                      THEN /\ used' + rio'.cnt = up[conn].read
                           /\ rio'.ptr + rio'.cnt <= Len(rio'.buf)
                           /\ \A k \in 1 .. rio'.cnt : rio'.buf[rio'.ptr + k] = r[used' + k]
                      ELSE used' = up[conn].read
    OBVIOUS
  <2>1. /\ used' + rio'.cnt = up[conn].read
        /\ rio'.ptr + rio'.cnt <= Len(rio'.buf)
        /\ \A k \in 1 .. rio'.cnt : rio'.buf[rio'.ptr + k] = r[used' + k]
    BY <1>1, LongerLine
  <2>2. ~(rio'.cnt > 0) => used' + rio'.cnt = used'
    BY <1>2
  <2> QED BY <2>1, <2>2
<1> HIDE DEF line
<1>8. CASE ~LineEnds(line, MAXLINE)
  <2>1. usrbuf' = line /\ UNCHANGED <<pc, todo, buf, uri>>
    BY <1>8 DEF ReadByte, line
  <2>2. TypeOK'
    BY <1>1, <1>2, <1>3, <2>1 DEF IInv, TypeOK
  <2>3. LineOK'
    <3> SUFFICES ASSUME ~up[conn].ended PROVE LineOK'
      BY <1>1, <2>1 DEF LineOK
    <3>1. used' - Len(usrbuf') = used - Len(usrbuf) /\ Len(usrbuf') <= used'
      <4>1. used \in Nat /\ Len(usrbuf) \in Nat /\ Len(line) = Len(usrbuf) + 1
        BY <1>3, <1>6 DEF IInv, TypeOK, Bytes
      <4>2. used' = used + 1 /\ Len(usrbuf') = Len(usrbuf) + 1
        BY <1>1, <2>1, <4>1
      <4>3. Len(usrbuf) <= used
        BY <1>1 DEF IInv, LineOK
      <4> QED BY ONLY <4>1, <4>2, <4>3
    <3>2. Len(usrbuf') < MAXLINE - 1 /\ line[Len(line)] # LF
      <4>1. Len(line) # MAXLINE - 1 /\ line[Len(line)] # LF
        BY <1>8 DEF LineEnds, Last
      <4>2. Len(line) \in Nat /\ Len(line) <= MAXLINE - 1
        BY <1>3, <1>6 DEF Bytes
      <4> QED BY <1>5, <2>1, <4>1, <4>2
    <3>3. \A k \in 1 .. Len(usrbuf') : usrbuf'[k] = r[used - Len(usrbuf) + k] /\ usrbuf'[k] # LF
      <4> TAKE k \in 1 .. Len(usrbuf')
      <4>1. Len(line) \in Nat /\ k \in 1 .. Len(line)
        BY <1>3, <2>1 DEF Bytes
      <4>2. k \in 1 .. Len(line) - 1 \/ k = Len(line)
        BY <4>1
      <4> QED BY <1>6, <2>1, <3>2, <4>1, <4>2
    <3>4. /\ LineStarts(r, used - Len(usrbuf))
          /\ pc = "request" => used - Len(usrbuf) = 0
          /\ pc = "headers" => /\ used - Len(usrbuf) > 0
                               /\ \A i \in HeaderEnds(r) : i > used - Len(usrbuf)
      BY <1>1 DEF IInv, LineOK
    <3> DEFINE start == used - Len(usrbuf)
    <3> HIDE DEF start
    <3>5. /\ used' - Len(usrbuf') = start
          /\ \A k \in 1 .. Len(usrbuf') : usrbuf'[k] = r[start + k] /\ usrbuf'[k] # LF
          /\ LineStarts(r, start)
          /\ pc = "request" => start = 0
          /\ pc = "headers" => start > 0 /\ \A i \in HeaderEnds(r) : i > start
      BY <3>1, <3>3, <3>4 DEF start
    <3>6. r' = r /\ up' = up /\ conn' = conn /\ pc' = pc
      BY <1>1, <2>1
    <3>7. IF rio'.cnt > 0
          THEN /\ used' + rio'.cnt = up'[conn'].read
               /\ rio'.ptr + rio'.cnt <= Len(rio'.buf)
               /\ \A k \in 1 .. rio'.cnt : rio'.buf[rio'.ptr + k] = r[used' + k]
          ELSE used' = up'[conn'].read
      BY <1>7, <3>6
    <3> HIDE DEF r
    <3>8. r = request'[conn']
      BY <3>6 DEF r
    <3> QED BY ONLY <3>1, <3>2, <3>5, <3>6, <3>7, <3>8, LineNext
  <2>4. UriOK' /\ StopsAtBlankLine'
    BY <1>1, <2>1 DEF IInv, UriOK, StopsAtBlankLine, LineStarts, HeaderEnds
  <2>5. pc' \notin Answering /\ pc' # "write"
    BY <1>1, <2>1 DEF Answering
  <2> QED BY <1>1, <2>1, <2>2, <2>3, <2>4, <2>5, ReadingStep
<1>9. CASE LineEnds(line, MAXLINE)
  <2>1. LineRead(line) /\ usrbuf' = <<>>
    BY <1>9 DEF ReadByte, line
  <2>2. /\ buf' \in Bytes
        /\ \/ /\ pc = "request" /\ line[1] # "GET" /\ buf' = line
              /\ pc' = "write" /\ todo' = ClientError("501")
           \/ /\ pc = "request" /\ line[1] = "GET"
              /\ pc' = "headers" /\ todo' = todo
              /\ (Len(line) > 1 /\ line[2] \notin {CR, LF} => uri' = line[2])
           \/ /\ pc = "headers" /\ line = Blank /\ buf' = line
              /\ pc' = "write" /\ todo' = Answer(uri) /\ uri' = uri
           \/ /\ pc = "headers" /\ line # Blank /\ buf' = line
              /\ pc' = "headers" /\ todo' = todo /\ uri' = uri
        /\ todo' \in Seq(Bytes)
        /\ pc' = "write" => Writable(todo')
        /\ pc' = "write" /\ Last(todo')[1] \in Heads => uri' \in DOMAIN Disk
    BY <1>1, <1>3, <2>1, LineReadIs DEF IInv
  <2>3. pc' \in {"headers", "write"}
    BY <2>2
  <2>4. TypeOK'
    <3>1. <<>> \in Bytes
      BY DEF Bytes
    <3> QED BY <1>1, <1>2, <2>1, <2>2, <2>3, <3>1 DEF IInv, TypeOK, Answering
  \* The next line may start here, and the headers have not ended unless this is
  \* the blank line.
  <2>5. ~up[conn].ended =>
          /\ LineStarts(r, used + 1)
          /\ pc = "request" => \A e \in HeaderEnds(r) : e > used + 1
          /\ pc = "headers" /\ line # Blank => \A e \in HeaderEnds(r) : e > used + 1
          /\ pc = "headers" /\ line = Blank => used + 1 = Min(HeaderEnds(r))
    BY <1>1, <1>9, LineEnded DEF line
  <2>6. pc = "request" /\ ~up[conn].ended => line[1] = r[1] /\ (Len(line) > 1 => line[2] = r[2])
    <3> SUFFICES ASSUME pc = "request", ~up[conn].ended
                 PROVE  line[1] = r[1] /\ (Len(line) > 1 => line[2] = r[2])
      OBVIOUS
    <3>1. used - Len(usrbuf) = 0
      BY DEF IInv, LineOK
    <3>2. \A k \in 1 .. Len(line) : line[k] = r[k]
      <4>1. \A k \in 1 .. Len(line) : 0 + k = k
        BY <1>3 DEF Bytes
      <4> QED BY <1>6, <3>1, <4>1
    <3>3. Len(line) \in Nat \ {0}
      BY <1>3, <1>6 DEF Bytes
    <3> QED BY <3>2, <3>3
  <2>7. LineOK'
    <3> SUFFICES ASSUME ~up[conn].ended, pc' = "headers" PROVE LineOK'
      BY <1>1, <2>3 DEF LineOK
    <3>1. used' - Len(usrbuf') = used' /\ Len(usrbuf') = 0 /\ 0 <= used' /\ 0 < MAXLINE - 1
      <4>1. Len(usrbuf') = 0
        BY <2>1
      <4>2. used' \in Nat
        BY <1>2
      <4>3. used' - 0 = used' /\ 0 <= used'
        <5>1. ASSUME NEW u \in Nat PROVE u - 0 = u /\ 0 <= u
          OBVIOUS
        <5> QED BY <4>2, <5>1, Zenon
      <4>4. 0 < MAXLINE - 1
        BY ONLY <1>5
      <4> QED BY <4>1, <4>3, <4>4, Zenon
    <3>2. used' > 0
      BY <1>1 DEF IInv, TypeOK
    <3>3. LineStarts(r, used') /\ \A e \in HeaderEnds(r) : e > used'
      BY <1>1, <2>2, <2>5
    <3>4. r = request'[conn'] /\ up'[conn'].read = up[conn].read
      BY <1>1
    <3>5. \A k \in 1 .. Len(usrbuf') : FALSE
      BY <3>1
    <3>6. IF rio'.cnt > 0
          THEN /\ used' + rio'.cnt = up'[conn'].read
               /\ rio'.ptr + rio'.cnt <= Len(rio'.buf)
               /\ \A k \in 1 .. rio'.cnt : rio'.buf[rio'.ptr + k] = r[used' + k]
          ELSE used' = up'[conn'].read
      BY <1>7, <3>4, Zenon
    <3>7. Len(usrbuf') < MAXLINE - 1 /\ Len(usrbuf') <= used' /\ pc' # "request"
      BY <3>1
    <3> HIDE DEF r
    <3> QED BY ONLY <3>1, <3>2, <3>3, <3>4, <3>5, <3>6, <3>7, LineNext
  <2>8. UriOK'
    <3> SUFFICES ASSUME conn \in Polite, pc' = "headers"
                 PROVE  r[1] = "GET" /\ uri' = r[2]
      BY <1>1 DEF UriOK
    <3>1. CASE pc = "headers"
      BY <2>2, <3>1 DEF IInv, UriOK
    <3>2. CASE pc = "request"
      <4>1. line[1] = "GET" /\ (Len(line) > 1 /\ line[2] \notin {CR, LF} => uri' = line[2])
        BY <2>2, <3>2
      <4>2. Len(line) > 1
        <5>1. line[1] # LF
          BY <4>1 DEF LF
        <5>2. Len(line) = 1 => FALSE
          BY <1>5, <1>9, <5>1 DEF LineEnds, Last
        <5>3. Len(line) \in Nat /\ Len(line) # 0
          BY <1>3, <1>4, <1>6 DEF Bytes
        <5> QED BY <5>2, <5>3
      <4> QED BY <1>4, <2>6, <3>2, <4>1, <4>2
    <3> QED BY <1>1, <3>1, <3>2
  <2>9. StopsAtBlankLine'
    <3> SUFFICES ASSUME ~up[conn].ended, r[1] = "GET", pc' = "write", buf' = Blank
                 PROVE  used' = Min(HeaderEnds(r))
      BY <1>1, <2>3 DEF StopsAtBlankLine, HeaderEnds, LineStarts
    <3>1. pc = "headers" /\ line = Blank
      BY <2>2, <2>6
    <3> QED BY <1>1, <2>5, <3>1
  <2>10. ASSUME conn \in Polite, files = DOMAIN Disk, pc' \in Answering
         PROVE  Owed' = Response(r)
    <3>1. pc' = "write"
      BY <2>3, <2>10 DEF Answering
    <3>2. Owed' = FlattenSeq(todo') \o (IF Last(todo')[1] \in Heads THEN Disk[uri'].data ELSE <<>>)
      BY <3>1 DEF Owed
    <3>3. CASE pc = "request"
      <4>1. r[1] # "GET" /\ todo' = ClientError("501")
        BY <1>4, <2>2, <2>6, <2>10, <3>1, <3>3
      <4>2. /\ ClientError("501") \in Seq(Bytes) /\ Writable(ClientError("501"))
            /\ Last(ClientError("501"))[1] \notin Heads
        <5>1. "501" \in Byte
          BY DEF Byte
        <5> QED BY <5>1, PageIs
      <4>3. Owed' = FlattenSeq(ClientError("501")) \o <<>>
        BY <3>2, <4>1, <4>2
      <4>4. FlattenSeq(ClientError("501")) \o <<>> = FlattenSeq(ClientError("501"))
        <5> DEFINE a == FlattenSeq(ClientError("501"))
        <5>1. a \in Bytes
          BY <4>2, FlatType
        <5> HIDE DEF a
        <5>2. a \o <<>> = a
          BY <5>1, Concat DEF Bytes
        <5> QED BY <5>2 DEF a
      <4>5. Response(r) = FlattenSeq(ClientError("501"))
        BY <2>10, <4>1, ResponseIs
      <4> QED BY <4>3, <4>4, <4>5, Zenon
    <3>4. CASE pc = "headers"
      <4>1. r[1] = "GET" /\ uri = r[2]
        BY <2>10, <3>4 DEF IInv, UriOK
      <4>2. todo' = Answer(r[2]) /\ uri' = r[2]
        BY <2>2, <3>1, <3>4, <4>1
      <4>3. Response(r) = FlattenSeq(Answer(r[2])) \o
              (IF Last(Answer(r[2]))[1] \in Heads THEN Disk[r[2]].data ELSE <<>>)
        BY <2>10, <4>1, ResponseIs
      <4> QED BY <3>2, <4>2, <4>3, Zenon
    <3> QED BY <1>1, <3>3, <3>4
  <2> QED BY <1>1, <2>2, <2>3, <2>4, <2>7, <2>8, <2>9, <2>10, ReadingStep
<1> QED BY <1>8, <1>9

LEMMA FillStep ==
  ASSUME IInv, Fill
  PROVE  IInv'
<1> DEFINE r == request[conn]
           read == up[conn].read
           last == MinOf(up[conn].sent, read + RIO_BUFSIZE)
           b == SubSeq(r, read + 1, last)
<1>1. /\ pc \in {"request", "headers"} /\ rio.cnt <= 0 /\ read + 1 <= last
      /\ rio' = Refill(rio, b) /\ up' = [up EXCEPT ![conn].read = last]
      /\ UNCHANGED <<request, down, backlog, conn, pc, usrbuf, buf, used, uri, todo, child,
                     files, reader>>
  BY DEF Fill, Reading
<1>2. /\ conn \in Clients /\ rio \in Readers /\ r \in Seq(Byte) /\ Len(r) \in Nat
      /\ read \in Nat /\ up[conn].sent \in Nat /\ up[conn].sent <= Len(r) /\ used \in Nat
  BY <1>1 DEF IInv, TypeOK, ConnsOK, Bytes
<1>3. last \in Nat /\ last <= up[conn].sent
  <2>1. RIO_BUFSIZE \in Nat
    BY TinyAssumption
  <2> HIDE DEF r, read
  <2> QED BY <1>2, <2>1 DEF MinOf
<1>4. /\ up' \in [Clients -> [sent : Nat, read : Nat, ended : BOOLEAN, reset : BOOLEAN]]
      /\ \A c \in Clients : /\ up'[c].sent = up[c].sent /\ up'[c].ended = up[c].ended
                            /\ up'[c].reset = up[c].reset
                            /\ up'[c].read = IF c = conn THEN last ELSE up[c].read
  <2> HIDE DEF last
  <2> QED BY <1>1, <1>2, <1>3 DEF IInv, TypeOK
<1> HIDE DEF last, read, r
<1>5. /\ b \in Bytes /\ Len(b) = last - read
      /\ \A k \in 1 .. last - read : b[k] = r[read + k]
  <2>1. read + 1 \in 1 .. Len(r) + 1 /\ last \in 0 .. Len(r) /\ last >= read
    BY <1>1, <1>2, <1>3
  <2>2. /\ b \in Seq(Byte) /\ Len(b) = last - (read + 1) + 1
        /\ \A k \in 1 .. last - (read + 1) + 1 : b[k] = r[(read + 1) + k - 1]
    <3> DEFINE m == read + 1
    <3>1. m \in 1 .. Len(r) + 1 /\ last \in m - 1 .. Len(r) /\ r \in Seq(Byte)
      BY ONLY <1>2, <1>3, <2>1
    <3> HIDE DEF m
    <3>2. /\ SubSeq(r, m, last) \in Seq(Byte) /\ Len(SubSeq(r, m, last)) = last - m + 1
          /\ \A k \in 1 .. last - m + 1 : SubSeq(r, m, last)[k] = r[m + k - 1]
      BY ONLY <3>1, <1>2, <1>3, SubSeqProperties
    <3> QED BY <3>2 DEF m
  <2>3. last - (read + 1) + 1 = last - read
    BY <1>2, <1>3
  <2>4. \A k \in 1 .. last - read : (read + 1) + k - 1 = read + k
    BY <1>2, <1>3
  <2> HIDE DEF b
  <2> QED BY <2>2, <2>3, <2>4 DEF Bytes
<1> HIDE DEF b
<1>6. /\ rio' \in Readers /\ rio'.ptr = 0 /\ rio'.cnt = last - read
      /\ rio'.cnt > 0 /\ Len(b) <= Len(rio'.buf)
      /\ \A k \in 1 .. last - read : rio'.buf[k] = r[read + k]
  <2>1. /\ rio' \in Readers /\ rio'.ptr = 0 /\ rio'.cnt = Len(b)
        /\ \A k \in 1 .. Len(b) : rio'.buf[k] = b[k]
    BY <1>1, <1>2, <1>5, Refilled
  <2>2. 0 + rio'.cnt <= Len(rio'.buf)
    BY <2>1 DEF Readers
  <2>3. last - read > 0
    BY <1>1, <1>2, <1>3
  <2> QED BY <1>5, <2>1, <2>2, <2>3
<1>7. TypeOK'
  BY <1>1, <1>4, <1>6 DEF IInv, TypeOK
<1>8. Polite \subseteq Clients /\ \A d : Arrived(d)' = Arrived(d)
  BY <1>1, TinyAssumption DEF Arrived
<1>9. ConnsOK'
  <2>1. \A i \in DOMAIN backlog : backlog[i] \in Clients /\ backlog[i] # conn
    BY DEF IInv, TypeOK, ConnsOK
  <2>2. \A c \in Clients : up'[c].read <= up'[c].sent /\ up'[c].sent <= Len(request[c])
    BY <1>3, <1>4 DEF IInv, ConnsOK
  <2> QED BY <1>1, <1>4, <1>8, <2>1, <2>2 DEF IInv, ConnsOK
<1>10. LineOK'
  <2> SUFFICES ASSUME ~up[conn].ended PROVE LineOK'
    BY <1>1, <1>2, <1>4 DEF LineOK
  <2>1. used = read
    BY <1>1, <1>2 DEF IInv, LineOK, Readers, read
  <2>2. /\ used' + rio'.cnt = up'[conn].read
        /\ rio'.ptr + rio'.cnt <= Len(rio'.buf)
        /\ \A k \in 1 .. rio'.cnt : rio'.buf[rio'.ptr + k] = r[used' + k]
    <3>1. used' + rio'.cnt = up'[conn].read
      <4>1. up'[conn].read = last /\ used' = read
        BY <1>1, <1>2, <1>4, <2>1
      <4>2. read + (last - read) = last
        BY <1>2, <1>3
      <4> QED BY <1>6, <4>1, <4>2
    <3>2. rio'.ptr + rio'.cnt <= Len(rio'.buf)
      BY <1>6 DEF Readers
    <3>3. \A k \in 1 .. rio'.cnt : rio'.buf[rio'.ptr + k] = r[used' + k]
      <4> TAKE k \in 1 .. rio'.cnt
      <4>1. k \in 1 .. last - read
        BY <1>6
      <4>2. 0 + k = k
        BY <1>2, <1>3, <4>1
      <4> QED BY <1>1, <1>6, <2>1, <4>1, <4>2
    <3> QED BY <3>1, <3>2, <3>3
  <2>3. r = request'[conn'] /\ r = request[conn]
    BY <1>1 DEF r
  <2>4. /\ Len(usrbuf) < MAXLINE - 1 /\ Len(usrbuf) <= used
        /\ \A k \in 1 .. Len(usrbuf) : usrbuf[k] = r[used - Len(usrbuf) + k] /\ usrbuf[k] # LF
        /\ LineStarts(r, used - Len(usrbuf))
        /\ pc = "request" => used - Len(usrbuf) = 0
        /\ pc = "headers" => /\ used - Len(usrbuf) > 0
                             /\ \A i \in HeaderEnds(r) : i > used - Len(usrbuf)
    BY <1>1, <2>3 DEF IInv, LineOK
  <2>5. usrbuf' = usrbuf /\ used' = used /\ pc' = pc /\ conn' = conn /\ rio'.cnt > 0
    BY <1>1, <1>6
  <2> DEFINE start == used - Len(usrbuf)
  <2>6. start = used' - Len(usrbuf')
    BY <2>5
  <2> HIDE DEF start
  <2>7. /\ Len(usrbuf) < MAXLINE - 1 /\ Len(usrbuf) <= used
        /\ \A k \in 1 .. Len(usrbuf) : usrbuf[k] = r[start + k] /\ usrbuf[k] # LF
        /\ LineStarts(r, start)
        /\ pc = "request" => start = 0
        /\ pc = "headers" => start > 0 /\ \A i \in HeaderEnds(r) : i > start
    BY <2>4, Zenon DEF start
  <2>8. IF rio'.cnt > 0
        THEN /\ used' + rio'.cnt = up'[conn'].read
             /\ rio'.ptr + rio'.cnt <= Len(rio'.buf)
             /\ \A k \in 1 .. rio'.cnt : rio'.buf[rio'.ptr + k] = r[used' + k]
        ELSE used' = up'[conn'].read
    BY <2>2, <2>5
  <2> QED BY ONLY <2>3, <2>5, <2>6, <2>7, <2>8, LineNext
<1>11. UriOK' /\ AnswerOK' /\ EofOK'
  BY <1>1 DEF IInv, UriOK, AnswerOK, EofOK
<1>12. StopsAtBlankLine'
  BY <1>1 DEF StopsAtBlankLine
<1>13. SentOK'
  <2>1. Owed' = Owed
    BY <1>1 DEF Owed
  <2>2. \A x : Response(x)' = Response(x)
    BY <1>1 DEF Response, Answer
  <2> QED BY <1>1, <1>8, <2>1, <2>2 DEF IInv, SentOK
<1> QED BY <1>7, <1>9, <1>10, <1>11, <1>12, <1>13 DEF IInv

LEMMA FindEndStep ==
  ASSUME IInv, FindEnd
  PROVE  IInv'
<1>1. /\ pc \in {"request", "headers"} /\ rio.cnt <= 0 /\ up[conn].ended
      /\ rio' = Drain(rio) /\ usrbuf' = <<>>
      /\ UNCHANGED <<request, up, down, backlog, conn, used, child, files, reader>>
  BY DEF FindEnd, Reading
<1>2. rio' \in Readers /\ conn \in Clients /\ usrbuf \in Bytes /\ buf \in Bytes /\ <<>> \in Bytes
  BY <1>1, NothingLeft DEF IInv, TypeOK, ConnsOK, Bytes
<1>3. conn \notin Polite
  BY <1>1 DEF IInv, ConnsOK
<1>4. \/ \E line \in Bytes : LineRead(line)
      \/ pc' = "close" /\ UNCHANGED <<buf, uri, todo>>
  BY <1>1, <1>2 DEF FindEnd
<1>5. /\ buf' \in Bytes /\ todo' \in Seq(Bytes) /\ pc' \in {"headers", "write", "close"}
      /\ pc' = "write" => Writable(todo')
      /\ pc' = "write" /\ Last(todo')[1] \in Heads => uri' \in DOMAIN Disk
  <2>1. CASE \E line \in Bytes : LineRead(line)
    <3>1. PICK line \in Bytes : LineRead(line)
      BY <2>1
    <3>2. /\ buf' \in Bytes /\ todo' \in Seq(Bytes) /\ pc' \in {"headers", "write"}
          /\ pc' = "write" => Writable(todo')
          /\ pc' = "write" /\ Last(todo')[1] \in Heads => uri' \in DOMAIN Disk
      BY <1>1, <3>1, LineReadIs DEF IInv
    <3> QED BY <3>2
  <2>2. CASE pc' = "close" /\ UNCHANGED <<buf, uri, todo>>
    BY <2>2 DEF IInv, TypeOK
  <2> QED BY <1>4, <2>1, <2>2
<1>6. TypeOK'
  BY <1>1, <1>2, <1>5 DEF IInv, TypeOK, Answering
<1>7. LineOK' /\ StopsAtBlankLine' /\ UriOK'
  BY <1>1, <1>3 DEF LineOK, StopsAtBlankLine, UriOK
<1> QED BY <1>1, <1>3, <1>5, <1>6, <1>7, ReadingStep

----------------------------------------------------------------------------
(* The server exits, or accepts a connection *)

LEMMA ExitStep ==
  ASSUME IInv, pc \in {"request", "headers", "write", "open"}, Exit,
         UNCHANGED <<request, up, down, backlog, files, reader>>
  PROVE  IInv'
<1>1. pc' = "exited" /\ UNCHANGED <<conn, rio, usrbuf, buf, used, uri, todo, child>>
  BY DEF Exit
<1>2. TypeOK'
  BY <1>1 DEF IInv, TypeOK
<1>3. \A d : Arrived(d)' = Arrived(d)
  BY DEF Arrived
<1>4. ConnsOK'
  BY <1>1, <1>3 DEF IInv, ConnsOK, Answering
<1>5. LineOK' /\ StopsAtBlankLine' /\ UriOK' /\ EofOK'
  BY <1>1 DEF IInv, LineOK, StopsAtBlankLine, UriOK, EofOK
<1>6. AnswerOK'
  BY <1>1 DEF IInv, AnswerOK
<1>7. SentOK'
  <2>1. \A x : Response(x)' = Response(x)
    BY DEF Response, Answer
  <2> QED BY <1>1, <1>3, <2>1 DEF IInv, SentOK, Answering
<1> QED BY <1>2, <1>4, <1>5, <1>6, <1>7 DEF IInv

\* The client of a new connection has sent nothing the server has read, and
\* nothing has arrived from the server.
LEMMA AcceptStep ==
  ASSUME IInv, Accept
  PROVE  IInv'
<1> DEFINE c == Head(backlog)
<1>1. /\ pc = "accept" /\ backlog # <<>> /\ conn' = c /\ backlog' = Tail(backlog)
      /\ pc' = "request" /\ rio' = rio_readinitb
      /\ UNCHANGED <<request, up, down, usrbuf, buf, used, uri, todo, child, files, reader>>
  BY DEF Accept
<1>2. backlog \in Seq(Clients) /\ Len(backlog) \in Nat /\ Len(backlog) > 0
  BY <1>1 DEF IInv, TypeOK
<1>3. /\ c \in Clients /\ c = backlog[1] /\ 1 \in DOMAIN backlog
      /\ backlog' \in Seq(Clients)
      /\ DOMAIN backlog = 1 .. Len(backlog) /\ DOMAIN backlog' = 1 .. Len(backlog) - 1
      /\ \A i \in 1 .. Len(backlog) - 1 : backlog'[i] = backlog[i + 1]
  BY <1>1, <1>2, HeadTailProperties, ElementOfSeq
<1>4. \A i \in DOMAIN backlog' : i + 1 \in DOMAIN backlog /\ i + 1 # 1 /\ backlog'[i] = backlog[i + 1]
  BY <1>2, <1>3
<1> HIDE DEF c
<1>5. rio' \in Readers /\ rio'.cnt = 0 /\ usrbuf = <<>> /\ used = 0
  BY <1>1, NewReader DEF IInv, ConnsOK, rio_readinitb
<1>6. TypeOK'
  BY <1>1, <1>3, <1>5 DEF IInv, TypeOK
<1>7. \A d : Arrived(d)' = Arrived(d)
  BY <1>1 DEF Arrived
<1>8. /\ up[c].read = 0 /\ ~down[c].ended /\ (c \in Polite => Arrived(c) = <<>>)
  BY <1>3 DEF IInv, ConnsOK
<1>9. ConnsOK'
  <2>1. \A i, j \in DOMAIN backlog' : backlog'[i] = backlog'[j] => i = j
    <3> SUFFICES ASSUME NEW i \in DOMAIN backlog', NEW j \in DOMAIN backlog',
                        backlog'[i] = backlog'[j]
                 PROVE  i = j
      OBVIOUS
    <3>1. i + 1 = j + 1
      BY <1>4 DEF IInv, ConnsOK
    <3> QED BY <1>2, <1>3, <3>1
  <2>2. \A i \in DOMAIN backlog' : backlog'[i] # c
    BY <1>3, <1>4 DEF IInv, ConnsOK
  <2>3. \A i \in DOMAIN backlog' :
          /\ up[backlog'[i]].read = 0
          /\ ~down[backlog'[i]].ended
          /\ backlog'[i] \in Polite => Arrived(backlog'[i]) = <<>>
    BY <1>4 DEF IInv, ConnsOK
  <2>4. \A d \in Clients : down[d].ended => d # c
    BY <1>8
  <2> QED BY <1>1, <1>3, <1>7, <2>1, <2>2, <2>3, <2>4 DEF IInv, ConnsOK
<1>10. LineOK'
  <2>1. Len(usrbuf') = 0 /\ used' = 0 /\ used' - Len(usrbuf') = 0 /\ used' = up'[conn'].read
        /\ ~(rio'.cnt > 0) /\ pc' = "request"
    <3>1. usrbuf' = <<>> /\ used' = 0 /\ up'[conn'].read = 0 /\ rio'.cnt = 0
      BY <1>1, <1>5, <1>8
    <3>2. Len(usrbuf') = 0
      BY <3>1
    <3>3. 0 - 0 = 0 /\ ~(0 > 0)
      OBVIOUS
    <3> QED BY <1>1, <3>1, <3>2, <3>3, Zenon
  <2>2. 0 < MAXLINE - 1 /\ LineStarts(request'[conn'], 0)
    <3>1. 1 \in 1 .. 0 + 1 /\ 1 .. 0 = {} /\ 0 + 1 - 1 = 0 /\ 0 % (MAXLINE - 1) = 0
          /\ 0 < MAXLINE - 1
      BY TinyAssumption
    <3> QED BY <3>1 DEF LineStarts
  <2>3. 1 .. Len(usrbuf') = {}
    BY <2>1
  <2> QED BY ONLY <2>1, <2>2, <2>3 DEF LineOK, LineStarts, HeaderEnds
<1>11. UriOK' /\ StopsAtBlankLine' /\ EofOK'
  BY <1>1 DEF IInv, UriOK, StopsAtBlankLine, EofOK
<1>12. AnswerOK'
  BY <1>1 DEF IInv, AnswerOK
<1>13. SentOK'
  <2>1. \A x : Response(x)' = Response(x)
    BY <1>1 DEF Response, Answer
  <2>2. ASSUME files = DOMAIN Disk, NEW d \in Polite, d = c PROVE Arrived(d) = <<>>
    BY <1>8, <2>2
  <2> QED BY <1>1, <1>7, <2>1, <2>2 DEF IInv, SentOK, Answering
<1> QED BY <1>6, <1>9, <1>10, <1>11, <1>12, <1>13 DEF IInv

----------------------------------------------------------------------------
(* The server writes *)

\* What it writes moves from what it owes to what has arrived.
LEMMA AnsweringStep ==
  ASSUME IInv, pc \in Answering, pc' \in Answering, NEW out \in Bytes,
         UNCHANGED <<request, up, backlog, conn, rio, usrbuf, buf, used, files, reader>>,
         down' \in [Clients -> [data : Bytes, ended : BOOLEAN]],
         \A d \in Clients : d # conn => down'[d] = down[d],
         down'[conn].ended = down[conn].ended,
         todo' \in Seq(Bytes), AnswerOK',
         conn \in Polite /\ files = DOMAIN Disk =>
           /\ down'[conn].data = down[conn].data \o out
           /\ Owed' \in Bytes /\ Owed = out \o Owed'
  PROVE  IInv'
<1>1. Polite \subseteq Clients /\ conn \in Clients
  BY TinyAssumption DEF IInv, ConnsOK
<1>2. TypeOK'
  BY DEF IInv, TypeOK
<1>3. \A d \in Polite : d # conn => Arrived(d)' = Arrived(d)
  BY <1>1 DEF Arrived
<1>4. \A d \in Clients : down'[d].ended = down[d].ended
  BY <1>1
<1>5. ConnsOK'
  <2>1. \A i \in DOMAIN backlog : backlog[i] \in Clients /\ backlog[i] # conn
    BY DEF IInv, TypeOK, ConnsOK
  <2>2. pc' \notin {"accept", "request", "headers"}
    BY DEF Answering
  <2> QED BY <1>1, <1>3, <1>4, <2>1, <2>2 DEF IInv, ConnsOK
<1>6. LineOK' /\ UriOK'
  BY DEF LineOK, UriOK, Answering
<1>7. StopsAtBlankLine'
  BY DEF IInv, StopsAtBlankLine, Answering, HeaderEnds, LineStarts
<1>8. \A d \in Polite : reader[d].eof => down[d].ended /\ d # conn
  BY <1>1 DEF IInv, EofOK, ConnsOK, Answering
<1>9. EofOK'
  <2> SUFFICES ASSUME NEW d \in Polite, reader[d].eof
               PROVE  reader[d].rio.cnt <= 0 /\ down'[d].ended /\ down'[d].data = <<>>
    BY DEF EofOK
  <2>1. /\ reader[d].rio.cnt <= 0 /\ down[d].ended /\ down[d].data = <<>>
    BY DEF IInv, EofOK, Answering
  <2> QED BY <1>1, <1>8, <2>1
<1>10. ASSUME files = DOMAIN Disk, conn \in Polite
       PROVE  Arrived(conn)' \o Owed' = Response(request[conn]) /\ Owed' \in Bytes
  <2> DEFINE g == reader[conn].got
             u == Unread(reader[conn].rio)
             d == down[conn].data
             o == Owed'
             resp == Response(request[conn])
  <2>1. g \in Bytes /\ u \in Bytes /\ d \in Bytes
    BY <1>1, <1>10, UnreadType DEF IInv, TypeOK
  <2>2. o \in Bytes /\ Owed = out \o o /\ Arrived(conn)' = g \o u \o (d \o out)
    BY <1>10 DEF Arrived
  <2>3. (g \o u \o d) \o Owed = resp
    BY <1>10 DEF IInv, SentOK, Arrived
  <2> HIDE DEF g, u, d, o, resp
  <2>4. (g \o u \o (d \o out)) \o o = (g \o u \o d) \o (out \o o)
    <3> DEFINE gu == g \o u
               gud == gu \o d
    <3>1. gu \in Bytes /\ gud \in Bytes
      <4>1. gu \in Seq(Byte)
        BY <2>1, Concat DEF Bytes
      <4> HIDE DEF gu
      <4>2. gud \in Seq(Byte)
        BY <2>1, <4>1, Concat DEF Bytes
      <4> QED BY <4>1, <4>2 DEF Bytes
    <3> HIDE DEF gu
    <3>2. gu \o (d \o out) = gud \o out
      <4>1. gu \in Seq(Byte) /\ d \in Seq(Byte) /\ out \in Seq(Byte)
        BY <2>1, <3>1 DEF Bytes
      <4> QED BY <4>1, ConcatAssociative
    <3> HIDE DEF gud
    <3>3. (gud \o out) \o o = gud \o (out \o o)
      <4>1. gud \in Seq(Byte) /\ o \in Seq(Byte) /\ out \in Seq(Byte)
        BY <2>2, <3>1 DEF Bytes
      <4> QED BY <4>1, ConcatAssociative
    <3> QED BY <3>2, <3>3, Zenon DEF gu, gud
  <2>5. Arrived(conn)' \o o = resp
    BY <2>2, <2>3, <2>4, Zenon
  <2> QED BY <2>2, <2>5 DEF o, resp
<1>11. SentOK'
  <2> SUFFICES ASSUME files = DOMAIN Disk, NEW c \in Polite
               PROVE  /\ \E rest \in Bytes : Arrived(c)' \o rest = Response(request[c])
                      /\ c = conn => Arrived(c)' \o Owed' = Response(request[c])
                      /\ down[c].ended => Arrived(c)' = Response(request[c])
    <3>1. \A x : Response(x)' = Response(x)
      BY DEF Response, Answer
    <3>2. pc' \notin {"request", "headers"}
      BY DEF Answering
    <3> QED BY <1>1, <1>4, <3>1, <3>2 DEF SentOK
  <2>1. CASE c = conn
    <3>1. Arrived(conn)' \o Owed' = Response(request[conn]) /\ Owed' \in Bytes
      BY <1>10, <2>1
    <3>2. ~down[conn].ended
      BY <1>1 DEF IInv, ConnsOK
    <3> QED BY <2>1, <3>1, <3>2, Zenon
  <2>2. CASE c # conn
    BY <1>3, <2>2 DEF IInv, SentOK
  <2> QED BY <2>1, <2>2
<1> QED BY <1>2, <1>5, <1>6, <1>7, <1>9, <1>11 DEF IInv

\* What is owed is a sequence of bytes.
LEMMA OwedType ==
  ASSUME IInv, pc \in Answering
  PROVE  Owed \in Bytes
<1>1. CASE pc = "write"
  <2> DEFINE a == FlattenSeq(todo)
             b == IF Last(todo)[1] \in Heads THEN Disk[uri].data ELSE <<>>
  <2>1. a \in Bytes
    BY <1>1, FlatType DEF IInv, TypeOK, AnswerOK
  <2>2. b \in Bytes
    BY <1>1, DataType DEF IInv, AnswerOK, Bytes
  <2>3. Owed = a \o b
    BY <1>1 DEF Owed
  <2> HIDE DEF a, b
  <2> QED BY <2>1, <2>2, <2>3, Concat DEF Bytes
<1>2. CASE pc \in {"open", "fork"}
  BY <1>2, DataType DEF IInv, AnswerOK, Owed
<1>3. CASE pc = "wait"
  BY <1>3 DEF IInv, AnswerOK, Owed
<1>4. CASE pc = "close"
  BY <1>4 DEF Owed, Bytes
<1> QED BY <1>1, <1>2, <1>3, <1>4 DEF Answering

\* Nothing is written.
LEMMA SilentStep ==
  ASSUME IInv, pc \in Answering, pc' \in Answering,
         UNCHANGED <<request, up, down, backlog, conn, rio, usrbuf, buf, used, files, reader>>,
         todo' \in Seq(Bytes), AnswerOK',
         conn \in Polite /\ files = DOMAIN Disk => Owed' = Owed
  PROVE  IInv'
<1>1. <<>> \in Bytes /\ conn \in Clients
  BY DEF Bytes, IInv, ConnsOK
<1>2. down[conn].data \o <<>> = down[conn].data
  <2> DEFINE d == down[conn].data
  <2>1. d \in Bytes
    BY <1>1 DEF IInv, TypeOK
  <2> HIDE DEF d
  <2>2. d \o <<>> = d
    BY <2>1, Concat DEF Bytes
  <2> QED BY <2>2 DEF d
<1>3. Owed \in Bytes /\ Owed = <<>> \o Owed
  <2> DEFINE o == Owed
  <2>1. o \in Bytes
    BY OwedType
  <2> HIDE DEF o
  <2>2. o = <<>> \o o
    BY <2>1, Concat DEF Bytes
  <2> QED BY <2>1, <2>2 DEF o
<1>4. down' \in [Clients -> [data : Bytes, ended : BOOLEAN]] /\ down' = down
  BY DEF IInv, TypeOK
<1>5. conn \in Polite /\ files = DOMAIN Disk =>
        /\ down'[conn].data = down[conn].data \o <<>>
        /\ Owed' \in Bytes /\ Owed = <<>> \o Owed'
  BY <1>2, <1>3, <1>4, Zenon
<1> QED BY <1>1, <1>4, <1>5, AnsweringStep

LEMMA WriteStep ==
  ASSUME IInv, Write
  PROVE  IInv'
<1> DEFINE Writes(n) ==
        /\ down' = [down EXCEPT ![conn].data = @ \o SubSeq(Head(todo), 1, n)]
        /\ todo' = Written(n)
        /\ pc' = IF todo' # <<>> THEN pc
                 ELSE IF Last(todo)[1] = "type" THEN "open"
                 ELSE IF Last(todo)[1] = "server" THEN "fork" ELSE "close"
           len == Len(Head(todo))
           room == Room(conn)
<1>0. room \in Int /\ len \in Nat
  <2>1. pc = "write" /\ conn \in Clients /\ todo \in Seq(Bytes) /\ todo # <<>>
    BY DEF Write, IInv, ConnsOK, TypeOK, Answering
  <2>2. Len(down[conn].data) \in Nat
    BY <2>1 DEF IInv, TypeOK, Bytes
  <2>3. Head(todo) \in Bytes
    BY <2>1, HeadTailProperties
  <2> QED BY <2>2, <2>3, TinyAssumption DEF Room, Bytes
<1>1. PICK n \in 1 .. len : Writes(n)
  <2>1. PICK n \in 1 .. MinOf(len, room) : Writes(n)
    BY DEF Write
  <2> HIDE DEF Writes, len, room
  <2>2. n \in 1 .. len
    BY <1>0 DEF MinOf
  <2> QED BY <2>1, <2>2
<1> DEFINE out == SubSeq(Head(todo), 1, n)
           rest == IF Last(todo)[1] \in Heads THEN Disk[uri].data ELSE <<>>
<1>2. /\ pc = "write" /\ conn \in Clients /\ todo \in Seq(Bytes) /\ Writable(todo)
      /\ UNCHANGED <<request, up, backlog, conn, rio, usrbuf, buf, used, uri, child,
                     files, reader>>
  BY DEF Write, IInv, ConnsOK, TypeOK, AnswerOK, Answering
<1>3. /\ todo' \in Seq(Bytes) /\ out \in Bytes /\ FlattenSeq(todo') \in Bytes
      /\ FlattenSeq(todo) = out \o FlattenSeq(todo')
      /\ todo' # <<>> => /\ Writable(todo')
                         /\ Last(todo')[1] \in Heads <=> Last(todo)[1] \in Heads
  BY <1>1, <1>2, WrittenIs
<1>4. /\ down' \in [Clients -> [data : Bytes, ended : BOOLEAN]]
      /\ \A d \in Clients : d # conn => down'[d] = down[d]
      /\ down'[conn].ended = down[conn].ended
      /\ down'[conn].data = down[conn].data \o out
  <2> DEFINE d == down[conn].data \o out
             old == down[conn].data
  <2>1. old \in Bytes
    BY <1>2 DEF IInv, TypeOK
  <2> HIDE DEF out, old
  <2>2. old \o out \in Bytes
    BY <1>3, <2>1, Concat DEF Bytes
  <2>3. d \in Bytes
    BY <2>2 DEF old
  <2>4. down' = [down EXCEPT ![conn].data = d]
    BY <1>1 DEF out
  <2> HIDE DEF d
  <2>5. /\ down' \in [Clients -> [data : Bytes, ended : BOOLEAN]]
        /\ \A e \in Clients : e # conn => down'[e] = down[e]
        /\ down'[conn].ended = down[conn].ended /\ down'[conn].data = d
    BY <1>2, <2>3, <2>4 DEF IInv, TypeOK
  <2> QED BY <2>5 DEF d
<1> HIDE DEF out
<1>5. pc' \in Answering /\ (pc' \in {"open", "fork"} => Last(todo)[1] \in Heads)
      /\ (pc' = "write" => todo' # <<>>) /\ (pc' # "write" => todo' = <<>>)
      /\ (pc' = "close" => Last(todo)[1] \notin Heads) /\ pc' # "wait"
  BY <1>1, <1>2 DEF Answering, Heads
<1>6. AnswerOK'
  <2>1. Last(todo)[1] \in Heads => uri \in DOMAIN Disk
    BY <1>2 DEF IInv, AnswerOK
  <2>2. child = None
    BY <1>2 DEF IInv, AnswerOK
  <2> QED BY <1>2, <1>3, <1>5, <2>1, <2>2 DEF AnswerOK, Answering
<1>7. Owed = FlattenSeq(todo) \o rest /\ rest \in Bytes
  <2>1. rest \in Bytes
    BY <1>2, DataType DEF IInv, AnswerOK, Bytes
  <2> QED BY <1>2, <2>1 DEF Owed
<1>8. Owed' = FlattenSeq(todo') \o rest
  <2>1. CASE pc' = "write"
    BY <1>2, <1>3, <1>5, <2>1 DEF Owed
  <2>2. CASE pc' # "write"
    <3>1. FlattenSeq(todo') = <<>>
      BY <1>5, <2>2 DEF FlattenSeq
    <3>2. <<>> \o rest = rest
      <4> HIDE DEF rest
      <4> QED BY <1>7, Concat DEF Bytes
    <3>3. Owed' = rest
      <4>1. CASE pc' \in {"open", "fork"}
        BY <1>2, <1>5, <4>1 DEF Owed
      <4>2. CASE pc' = "close"
        BY <1>5, <4>2 DEF Owed
      <4> QED BY <1>5, <2>2, <4>1, <4>2 DEF Answering
    <3> QED BY <3>1, <3>2, <3>3, Zenon
  <2> QED BY <2>1, <2>2
<1>9. Owed' \in Bytes /\ Owed = out \o Owed'
  <2> DEFINE f == FlattenSeq(todo')
             g == FlattenSeq(todo)
             o == Owed
             p == Owed'
  <2>1. f \in Bytes /\ out \in Bytes /\ rest \in Bytes /\ g = out \o f /\ o = g \o rest /\ p = f \o rest
    BY <1>3, <1>7, <1>8, Zenon
  <2> HIDE DEF f, g, o, p, rest
  <2>2. p \in Bytes /\ (out \o f) \o rest = out \o (f \o rest)
    <3>1. f \in Seq(Byte) /\ out \in Seq(Byte) /\ rest \in Seq(Byte)
      BY <2>1 DEF Bytes
    <3> QED BY ONLY <2>1, <3>1, Concat, ConcatAssociative DEF Bytes
  <2>3. o = out \o p
    BY <2>1, <2>2, Zenon
  <2> QED BY <2>2, <2>3 DEF o, p
<1>10. pc \in Answering
  BY <1>2 DEF Answering
<1> QED BY <1>2, <1>3, <1>4, <1>5, <1>6, <1>9, <1>10, AnsweringStep

LEMMA OpenFileStep ==
  ASSUME IInv, OpenFile
  PROVE  IInv'
<1>1. pc = "open" /\ UNCHANGED <<request, up, down, backlog, files, reader, faults>>
  BY DEF OpenFile
<1>2. CASE Exit
  BY <1>1, <1>2, ExitStep
<1>3. CASE ~Exit
  <2> DEFINE data == Disk[uri].data
             s == <<data>>
  <2>1. /\ data # <<>> /\ pc' = "write" /\ todo' = s
        /\ UNCHANGED <<conn, rio, usrbuf, buf, used, uri, child>>
    BY <1>3 DEF OpenFile
  <2>2. uri \in DOMAIN Disk
    BY <1>1 DEF IInv, AnswerOK
  <2>3. data \in Bytes /\ \A k \in 1 .. Len(data) : data[k] \notin Heads
    BY <2>2, DataType
  <2>4. Owed = data
    BY <1>1 DEF Owed
  <2> HIDE DEF data
  <2>5. s \in Seq(Bytes) /\ Len(s) = 1 /\ s[1] = data
    BY <2>3
  <2> HIDE DEF s
  <2>6. Last(s) = data /\ Writable(s)
    <3>1. Last(s) = data
      BY <2>5 DEF Last
    <3> QED BY <2>1, <2>3, <2>5, <3>1 DEF Writable
  <2>7. data[1] \notin Heads
    <3>1. 1 \in 1 .. Len(data)
      BY <2>1, <2>3 DEF Bytes
    <3> QED BY <2>3, <3>1
  <2>8. AnswerOK'
    <3>1. child = None
      BY <1>1 DEF IInv, AnswerOK
    <3> QED BY <2>1, <2>6, <2>7, <3>1 DEF AnswerOK
  <2>9. Owed' = Owed
    <3>1. FlattenSeq(s) = data
      <4>1. s \in Seq(Seq(Byte)) /\ Len(s) \in 1 .. 4
        BY <2>5 DEF Bytes
      <4>2. FlattenSeq(s) = s[1]
        BY <2>5, <4>1, FlattenFew
      <4> QED BY <2>5, <4>2
    <3>2. Owed' = FlattenSeq(s) \o <<>>
      BY <2>1, <2>6, <2>7 DEF Owed
    <3>3. data \o <<>> = data
      BY <2>3, Concat DEF Bytes
    <3> QED BY <2>4, <3>1, <3>2, <3>3, Zenon
  <2>10. pc \in Answering /\ pc' \in Answering
    BY <1>1, <2>1 DEF Answering
  <2> QED BY <1>1, <2>1, <2>5, <2>8, <2>9, <2>10, SilentStep
<1> QED BY <1>2, <1>3

LEMMA ForkStep ==
  ASSUME IInv, Fork
  PROVE  IInv'
<1>1. /\ pc = "fork" /\ pc' = "wait"
      /\ child' \in IF uri \in files THEN {Disk[uri].data} ELSE {<<>>, <<"log">>}
      /\ UNCHANGED <<request, up, down, backlog, conn, rio, usrbuf, buf, used, uri, todo,
                     files, reader>>
  BY DEF Fork
<1>2. uri \in DOMAIN Disk /\ Disk[uri].data \in Bytes
  BY <1>1, DataType DEF IInv, AnswerOK
<1>3. child' \in Bytes
  <2>1. <<>> \in Bytes
    BY DEF Bytes
  <2>2. <<"log">> \in Bytes
    <3>1. "log" \in Byte
      BY DEF Byte
    <3> QED BY <3>1, OneByteIs
  <2> QED BY <1>1, <1>2, <2>1, <2>2
<1>4. AnswerOK'
  BY <1>1, <1>3 DEF AnswerOK
<1>5. files = DOMAIN Disk => Owed' = Owed
  BY <1>1, <1>2 DEF Owed
<1>6. pc \in Answering /\ pc' \in Answering /\ todo' \in Seq(Bytes)
  BY <1>1 DEF Answering, IInv, TypeOK
<1> QED BY <1>1, <1>4, <1>5, <1>6, SilentStep

LEMMA ChildWriteStep ==
  ASSUME IInv, ChildWrite
  PROVE  IInv'
<1>1. /\ child # None /\ child # <<>>
      /\ UNCHANGED <<request, up, backlog, conn, pc, rio, usrbuf, buf, used, uri, todo,
                     files, reader>>
  BY DEF ChildWrite
<1>2. /\ pc = "wait" /\ child \in Bytes /\ conn \in Clients /\ pc \in Answering
      /\ todo \in Seq(Bytes)
  BY <1>1 DEF IInv, AnswerOK, ConnsOK, TypeOK, Answering
<1>3. CASE up[conn].reset
  <2>1. child' = <<>> /\ down' = down
    BY <1>3 DEF ChildWrite
  <2>2. conn \notin Polite
    BY <1>3 DEF IInv, ConnsOK
  <2>3. <<>> \in Bytes
    BY DEF Bytes
  <2>4. AnswerOK'
    BY <1>1, <1>2, <2>1, <2>3 DEF AnswerOK
  <2> QED BY <1>1, <1>2, <2>1, <2>2, <2>4, SilentStep
<1>4. CASE ~up[conn].reset
  <2> DEFINE h == Head(child)
             out == <<h>>
             old == down[conn].data
             t == Tail(child)
  <2>1. child' = t /\ down' = [down EXCEPT ![conn].data = Append(@, h)]
    BY <1>4 DEF ChildWrite
  <2>2. h \in Byte /\ t \in Bytes /\ old \in Bytes
    BY <1>1, <1>2, HeadTailProperties DEF Bytes, IInv, TypeOK
  <2>3. child = out \o t
    <3>1. child \in Seq(Byte) /\ child # <<>>
      BY <1>1, <1>2 DEF Bytes
    <3>2. Len(child) \in Nat /\ Len(child) > 0
      BY <3>1
    <3>3. SubSeq(child, 1, 1) \o SubSeq(child, 1 + 1, Len(child)) = child
      BY <3>1, <3>2, CutAt
    <3>4. SubSeq(child, 1, 1) = out
      <4> DEFINE s == SubSeq(child, 1, 1)
      <4>1. s \in Seq(Byte) /\ Len(s) = 1 /\ s[1] = child[1]
        BY <3>1, <3>2
      <4>2. h = child[1]
        BY <3>1, <3>2
      <4> HIDE DEF s, h
      <4>3. out \in Seq(Byte) /\ Len(out) = 1 /\ out[1] = h
        BY <2>2, OneByteIs DEF Bytes
      <4>4. s = out
        <5> HIDE DEF out
        <5> QED BY <4>1, <4>2, <4>3, SeqEqual
      <4> QED BY <4>4 DEF s
    <3>5. SubSeq(child, 1 + 1, Len(child)) = t
      BY <3>1, <3>2
    <3> QED BY <3>3, <3>4, <3>5, Zenon
  <2> HIDE DEF h, t
  <2>4. out \in Bytes
    BY <2>2, OneByteIs
  <2>5. Append(old, h) = old \o out /\ Append(old, h) \in Bytes
    <3> HIDE DEF old
    <3> QED BY <2>2, AppendIsConcat, AppendProperties DEF Bytes
  <2> DEFINE d == Append(old, h)
  <2>6. down' = [down EXCEPT ![conn].data = d]
    BY <2>1
  <2> HIDE DEF d
  <2>7. /\ down' \in [Clients -> [data : Bytes, ended : BOOLEAN]]
        /\ \A e \in Clients : e # conn => down'[e] = down[e]
        /\ down'[conn].ended = down[conn].ended /\ down'[conn].data = d
    BY <1>2, <2>5, <2>6 DEF IInv, TypeOK, d
  <2>8. AnswerOK'
    BY <1>1, <1>2, <2>1, <2>2 DEF AnswerOK
  <2>9. Owed' \in Bytes /\ Owed = out \o Owed'
    BY <1>1, <1>2, <2>1, <2>2, <2>3 DEF Owed
  <2>10. down'[conn].data = down[conn].data \o out
    BY <2>5, <2>7 DEF d
  <2> HIDE DEF out
  <2> QED BY <1>1, <1>2, <2>4, <2>7, <2>8, <2>9, <2>10, AnsweringStep
<1> QED BY <1>3, <1>4

LEMMA WaitStep ==
  ASSUME IInv, Wait
  PROVE  IInv'
<1>1. /\ pc = "wait" /\ child = <<>> /\ pc' = "close" /\ child' = None
      /\ UNCHANGED <<request, up, down, backlog, conn, rio, usrbuf, buf, used, uri, todo,
                     files, reader>>
  BY DEF Wait
<1>2. AnswerOK'
  BY <1>1 DEF AnswerOK
<1>3. Owed' = Owed
  BY <1>1 DEF Owed
<1>4. pc \in Answering /\ pc' \in Answering /\ todo' \in Seq(Bytes)
  BY <1>1 DEF Answering, IInv, TypeOK
<1> QED BY <1>1, <1>2, <1>3, <1>4, SilentStep

\* The whole response has arrived when the connection is closed.
LEMMA CloseStep ==
  ASSUME IInv, Close
  PROVE  IInv'
<1>1. /\ pc = "close" /\ pc' = "accept" /\ conn' = None
      /\ rio' = rio_readinitb /\ usrbuf' = <<>> /\ buf' = Garbage /\ used' = 0 /\ uri' = None
      /\ down' = [down EXCEPT ![conn].ended = TRUE]
      /\ UNCHANGED <<request, up, backlog, todo, child, files, reader>>
  BY DEF Close, Return
<1>2. conn \in Clients /\ Polite \subseteq Clients /\ None \notin Clients
  BY <1>1, TinyAssumption DEF IInv, ConnsOK, Answering
<1>3. /\ down' \in [Clients -> [data : Bytes, ended : BOOLEAN]]
      /\ \A d \in Clients : /\ down'[d].data = down[d].data
                            /\ d # conn => down'[d].ended = down[d].ended
  BY <1>1 DEF IInv, TypeOK
<1>4. TypeOK'
  <2>1. <<>> \in Bytes
    BY DEF Bytes
  <2> QED BY <1>1, <1>3, <2>1, NewReader, LinesType DEF IInv, TypeOK
<1>5. \A d \in Polite : Arrived(d)' = Arrived(d)
  BY <1>1, <1>2, <1>3 DEF Arrived
<1>6. ConnsOK'
  <2>1. \A i \in DOMAIN backlog : backlog[i] \in Clients /\ backlog[i] # conn
    BY DEF IInv, TypeOK, ConnsOK
  <2> QED BY <1>1, <1>2, <1>3, <1>5, <2>1 DEF IInv, ConnsOK, Answering
<1>7. LineOK' /\ UriOK' /\ StopsAtBlankLine'
  BY <1>1 DEF LineOK, UriOK, StopsAtBlankLine
<1>8. AnswerOK'
  BY <1>1 DEF IInv, AnswerOK
<1>9. EofOK'
  <2> SUFFICES ASSUME NEW d \in Polite, reader[d].eof
               PROVE  reader[d].rio.cnt <= 0 /\ down'[d].ended /\ down'[d].data = <<>>
    BY <1>1 DEF EofOK
  <2>1. /\ reader[d].rio.cnt <= 0 /\ down[d].ended /\ down[d].data = <<>> /\ d # conn
    BY <1>1, <1>2 DEF IInv, EofOK, ConnsOK
  <2> QED BY <1>2, <1>3, <2>1
<1>10. SentOK'
  <2> SUFFICES ASSUME files = DOMAIN Disk, NEW c \in Polite
               PROVE  /\ \E rest \in Bytes : Arrived(c) \o rest = Response(request[c])
                      /\ down'[c].ended => Arrived(c) = Response(request[c])
    <3>1. \A x : Response(x)' = Response(x)
      BY <1>1 DEF Response, Answer
    <3> QED BY <1>1, <1>2, <1>5, <3>1 DEF SentOK
  <2>1. \E rest \in Bytes : Arrived(c) \o rest = Response(request[c])
    BY DEF IInv, SentOK
  <2>2. c = conn => Arrived(c) = Response(request[c])
    <3> SUFFICES ASSUME c = conn PROVE Arrived(c) = Response(request[c])
      OBVIOUS
    <3>1. Arrived(c) \o <<>> = Response(request[c])
      BY <1>1 DEF IInv, SentOK, Owed, Answering
    <3>2. Arrived(c) \o <<>> = Arrived(c)
      <4> DEFINE a == Arrived(c)
      <4>1. a \in Bytes
        BY ArrivedType
      <4> HIDE DEF a
      <4>2. a \o <<>> = a
        BY <4>1, Concat DEF Bytes
      <4> QED BY <4>2 DEF a
    <3> QED BY <3>1, <3>2, Zenon
  <2>3. c # conn => down'[c].ended = down[c].ended
    BY <1>2, <1>3
  <2> QED BY <2>1, <2>2, <2>3 DEF IInv, SentOK
<1> QED BY <1>4, <1>6, <1>7, <1>8, <1>9, <1>10 DEF IInv

----------------------------------------------------------------------------
(* The invariant *)

LEMMA InitOK == Init => IInv
<1> SUFFICES ASSUME Init PROVE IInv
  OBVIOUS
<1>1. Polite \subseteq Clients /\ None \notin Clients
  BY TinyAssumption
<1>2. request \in [Clients -> Bytes]
  <2>1. request \in [Clients -> Seq(STRING)]
    BY TinyAssumption DEF Init
  <2>2. \A c \in Clients : request[c] \in Seq(Byte)
    <3>1. STRING \subseteq Byte
      BY DEF Byte
    <3> QED BY <2>1, <3>1, SeqMonotonic
  <2> QED BY <2>1, <2>2 DEF Bytes
<1>3. backlog \in Seq(Clients) /\ \A i, j \in DOMAIN backlog : backlog[i] = backlog[j] => i = j
  <2> DEFINE n == Cardinality(Clients)
  <2>1. n \in Nat
    BY TinyAssumption, FS_CardinalityType
  <2>2. backlog \in SetToSeqs(Clients)
    BY DEF Init
  <2> HIDE DEF n
  <2>3. /\ backlog \in [1 .. n -> Clients]
        /\ \A i, j \in 1 .. n : i # j => backlog[i] # backlog[j]
    BY <2>2 DEF SetToSeqs, n
  <2> QED BY <2>1, <2>3
<1>4. <<>> \in Bytes /\ <<>> \in Seq(Bytes)
  BY DEF Bytes
<1>5. up \in [Clients -> [sent : Nat, read : Nat, ended : BOOLEAN, reset : BOOLEAN]]
  BY DEF Init
<1>6. down \in [Clients -> [data : Bytes, ended : BOOLEAN]]
  BY <1>4 DEF Init
<1>7. reader \in [Polite -> [rio : Readers, got : Bytes, eof : BOOLEAN]]
  BY <1>4, NewReader DEF Init
<1>8. TypeOK
  BY <1>2, <1>3, <1>4, <1>5, <1>6, <1>7, NewReader, LinesType DEF Init, TypeOK
<1>9. \A c \in Polite : Arrived(c) = <<>>
  <2> SUFFICES ASSUME NEW c \in Polite PROVE Arrived(c) = <<>>
    OBVIOUS
  <2>1. reader[c].got = <<>> /\ reader[c].rio = rio_readinitb /\ down[c].data = <<>>
    BY <1>1 DEF Init
  <2>2. Unread(reader[c].rio) = <<>>
    BY <2>1, NewReader
  <2>3. <<>> \o <<>> \o <<>> = <<>>
    BY <1>4, Concat DEF Bytes
  <2> QED BY <2>1, <2>2, <2>3, Zenon DEF Arrived
<1>10. ConnsOK
  <2>1. \A i \in DOMAIN backlog : backlog[i] \in Clients
    BY <1>3
  <2>2. conn = None /\ pc = "accept" /\ usrbuf = <<>> /\ used = 0
    BY DEF Init
  <2>3. \A c \in Clients : /\ up[c].read = 0 /\ up[c].sent = 0 /\ ~up[c].ended /\ ~up[c].reset
                           /\ ~down[c].ended
    BY DEF Init
  <2>4. \A c \in Clients : Len(request[c]) \in Nat
    BY <1>2 DEF Bytes
  <2>5. \A c \in Polite : Len(request[c]) > 1 /\ request[c][2] \notin {CR, LF}
    BY TinyAssumption DEF Init
  <2> QED BY <1>1, <1>3, <1>9, <2>1, <2>2, <2>3, <2>4, <2>5 DEF ConnsOK, Answering
<1>11. LineOK /\ UriOK /\ StopsAtBlankLine /\ AnswerOK
  BY DEF Init, LineOK, UriOK, StopsAtBlankLine, AnswerOK
<1>12. SentOK
  <2> SUFFICES ASSUME files = DOMAIN Disk, NEW c \in Polite
               PROVE  \E rest \in Bytes : Arrived(c) \o rest = Response(request[c])
    BY <1>1 DEF Init, SentOK, Answering
  <2> DEFINE w == Response(request[c])
  <2>1. w \in Bytes
    BY ResponseIs
  <2> HIDE DEF w
  <2>2. <<>> \o w = w
    BY <2>1, Concat DEF Bytes
  <2> QED BY <1>9, <2>1, <2>2 DEF w
<1>13. EofOK
  BY DEF Init, EofOK
<1> QED BY <1>8, <1>10, <1>11, <1>12, <1>13 DEF IInv

LEMMA NextOK == IInv /\ [Next]_vars => IInv'
<1> SUFFICES ASSUME IInv, [Next]_vars PROVE IInv'
  OBVIOUS
<1>1. CASE Server
  <2>1. CASE Accept
    BY <2>1, AcceptStep
  <2>2. CASE ReadByte
    BY <2>2, ReadByteStep
  <2>3. CASE Fill
    BY <2>3, FillStep
  <2>4. CASE FindEnd
    BY <2>4, FindEndStep
  <2>5. CASE ReadError
    BY <2>5, ExitStep DEF ReadError, Reading
  <2>6. CASE Write
    BY <2>6, WriteStep
  <2>7. CASE WriteError
    BY <2>7, ExitStep DEF WriteError
  <2>8. CASE OpenFile
    BY <2>8, OpenFileStep
  <2>9. CASE Fork
    BY <2>9, ForkStep
  <2>10. CASE Wait
    BY <2>10, WaitStep
  <2>11. CASE Close
    BY <2>11, CloseStep
  <2> QED BY <1>1, <2>1, <2>2, <2>3, <2>4, <2>5, <2>6, <2>7, <2>8, <2>9, <2>10, <2>11 DEF Server
<1>2. CASE Interrupted
  BY <1>2, InterruptedStep
<1>3. CASE ChildWrite
  BY <1>3, ChildWriteStep
<1>4. CASE Unlink
  BY <1>4, UnlinkStep
<1>5. ASSUME NEW c \in Clients, Send(c) \/ End(c) \/ Reset(c) \/ Take(c) PROVE IInv'
  BY <1>5, SendStep, EndStep, TakeStep
<1>6. ASSUME NEW c \in Polite, Read(c) PROVE IInv'
  BY <1>6, ReadStep
<1>7. CASE UNCHANGED vars
  <2> USE <1>7 DEF vars, server
  <2>1. TypeOK' /\ UriOK' /\ AnswerOK' /\ EofOK'
    BY DEF IInv, TypeOK, UriOK, AnswerOK, EofOK
  <2>2. \A d : Arrived(d)' = Arrived(d)
    BY DEF Arrived
  <2>3. ConnsOK'
    BY <2>2 DEF IInv, ConnsOK
  <2>4. LineOK'
    BY DEF IInv, LineOK, LineStarts, HeaderEnds
  <2>5. StopsAtBlankLine'
    BY DEF IInv, StopsAtBlankLine, LineStarts, HeaderEnds
  <2>6. SentOK'
    <3>1. Owed' = Owed
      BY DEF Owed
    <3>2. \A x : Response(x)' = Response(x)
      BY DEF Response, Answer
    <3> QED BY <2>2, <3>1, <3>2 DEF IInv, SentOK
  <2> QED BY <2>1, <2>3, <2>4, <2>5, <2>6 DEF IInv
<1> QED BY <1>1, <1>2, <1>3, <1>4, <1>5, <1>6, <1>7 DEF Next

\* In every reachable state the server's reader and the line it is collecting hold
\* the request behind the bytes used, and what has arrived at a polite client and
\* what is owed to it make up its response.
THEOREM Invariance == Spec => []IInv
BY InitOK, NextOK, PTL DEF Spec

\* Whatever the size of the buffers and the pieces in which a request arrives,
\* read_requesthdrs stops at the first line that is "\r\n" and no further, unless
\* the client ends its request early.  The end of a line that fills its buffers
\* before its "\r\n" counts as such a line.
THEOREM StopsAtBlankLineHolds == Spec => []StopsAtBlankLine
<1>1. IInv => StopsAtBlankLine
  BY DEF IInv
<1> QED BY <1>1, Invariance, PTL

\* Across short writes of Rio_writen, reads of any size and the refills of the
\* reader's buffer, a client gets the bytes of its response in order and once, and
\* all of them if it sees the end of the connection.
THEOREM DeliveredHolds == Spec => []Delivered
<1>1. IInv => Delivered
  <2> SUFFICES ASSUME IInv, NEW c \in Polite, files = DOMAIN Disk
               PROVE  /\ IsPrefix(reader[c].got, Response(request[c]))
                      /\ reader[c].eof /\ pc # "exited" => reader[c].got = Response(request[c])
    BY DEF Delivered
  <2> DEFINE g == reader[c].got
             u == Unread(reader[c].rio)
             d == down[c].data
             w == Response(request[c])
  <2>1. c \in Clients /\ reader[c].rio \in Readers /\ g \in Bytes /\ u \in Bytes /\ d \in Bytes
    BY TinyAssumption, UnreadType DEF IInv, TypeOK
  <2>2. PICK rest \in Bytes : (g \o u \o d) \o rest = w
    BY DEF IInv, SentOK, Arrived
  <2>3. reader[c].eof /\ pc # "exited" => u = <<>> /\ d = <<>> /\ g \o u \o d = w
    BY <2>1, NothingLeft DEF IInv, EofOK, SentOK, Arrived
  <2> HIDE DEF g, u, d, w
  <2>4. IsPrefix(g, w)
    <3> DEFINE gu == g \o u
    <3>1. gu \in Bytes
      BY <2>1, Concat DEF Bytes
    <3>2. gu \o d = g \o (u \o d) /\ u \o d \in Bytes
      BY <2>1, Concat DEF Bytes
    <3> HIDE DEF gu
    <3> DEFINE ud == u \o d
    <3>3. gu \o d = g \o ud /\ ud \in Bytes
      BY <3>2
    <3> HIDE DEF ud
    <3>4. (g \o ud) \o rest = g \o (ud \o rest) /\ ud \o rest \in Bytes
      <4>1. g \in Seq(Byte) /\ ud \in Seq(Byte) /\ rest \in Seq(Byte)
        BY <2>1, <2>2, <3>3 DEF Bytes
      <4>2. (g \o ud) \o rest = g \o (ud \o rest) /\ ud \o rest \in Seq(Byte)
        BY ONLY <4>1, ConcatThree
      <4> QED BY <4>2 DEF Bytes
    <3>5. w = g \o (ud \o rest)
      BY <2>2, <3>3, <3>4, Zenon DEF gu
    <3> DEFINE more == ud \o rest
    <3>6. more \in Bytes /\ w = g \o more
      BY <3>4, <3>5
    <3> HIDE DEF more
    <3> QED BY <2>1, <3>6, PrefixOf DEF Bytes
  <2>5. reader[c].eof /\ pc # "exited" => g = w
    <3>1. g \o <<>> = g
      BY <2>1, Concat DEF Bytes
    <3> QED BY <2>3, <3>1, Zenon
  <2> QED BY <2>4, <2>5 DEF g, w
<1> QED BY <1>1, Invariance, PTL
=============================================================================
