-------------------------------- MODULE Tiny --------------------------------
(***************************************************************************)
(* Tiny, the iterative origin server of tiny/tiny.c, with clients that     *)
(* read as the proxy does.  The requests and responses pass through        *)
(* sockets in pieces of any size, and a response no faster than its client *)
(* takes it; a client may stop sending or reading, end or reset its        *)
(* connection at any point.                                                *)
(***************************************************************************)
EXTENDS Rio, FiniteSetsExt

CONSTANTS
    Clients,     \* one connection each
    Polite,      \* the clients that ask for a URI, send all of it and read on
    Scenarios,   \* what the clients may ask for: per client, bytes
    Disk,        \* the files: [mode, data]
    CgiUris,     \* the URIs with "cgi-bin" in them
    MAXLINE,     \* size of a line buffer
    RIO_BUFSIZE, \* size of rio_buf
    SEGMENT,     \* requests arrive in multiples of this many bytes
    SNDBUF,      \* bytes of a response that the sockets hold at most
    MaxFaults,   \* bound on interrupted system calls and removed files
    None

CR == "cr"
Blank == <<CR, LF>>
Garbage == <<"garbage">>

\* A line buffer holds a blank line, and no byte of a file is one of the names
\* that stand for the ends of tiny's headers.
ASSUME TinyAssumption ==
    /\ Polite \subseteq Clients /\ None \notin Clients /\ IsFiniteSet(Clients)
    /\ Scenarios \subseteq [Clients -> Seq(STRING)]
    /\ \A s \in Scenarios, c \in Polite : Len(s[c]) > 1 /\ s[c][2] \notin {CR, LF}
    /\ \A f \in DOMAIN Disk : Disk[f].data \in Seq(STRING \ {"type", "server"})
    /\ MAXLINE \in Nat /\ MAXLINE > 2
    /\ {RIO_BUFSIZE, SEGMENT, SNDBUF} \subseteq Nat \ {0} /\ MaxFaults \in Nat

VARIABLES
    request,  \* per client, the bytes of its request
    up,       \* the stream to the server: bytes sent, bytes read, ended or reset
    down,     \* the stream to the client: bytes not read yet, and its end
    backlog,  \* connections to be accepted
    conn,     \* connfd, as the client at its other end
    pc,       \* where doit is
    rio,      \* the server's reader
    usrbuf,   \* the line rio_readlineb is collecting
    buf,      \* buf of doit and read_requesthdrs: the last line
    used,     \* bytes of the request taken from rio
    uri,      \* uri of doit
    todo,     \* the buffers Rio_writen is still to write, the first one in part
    child,    \* what the CGI program has still to write, or None
    files,    \* the files that exist now
    reader,   \* per polite client: its reader, what it got, and whether it saw the end
    faults    \* system calls interrupted and files removed

server == <<conn, pc, rio, usrbuf, buf, used, uri, todo, child>>
vars == <<request, up, down, backlog, server, files, reader, faults>>

Uris == DOMAIN Disk \cup CgiUris

Init ==
    /\ request \in Scenarios
    /\ up = [c \in Clients |-> [sent |-> 0, read |-> 0, ended |-> FALSE, reset |-> FALSE]]
    /\ down = [c \in Clients |-> [data |-> <<>>, ended |-> FALSE]]
    /\ backlog \in SetToSeqs(Clients) /\ conn = None /\ pc = "accept"
    /\ rio = rio_readinitb /\ usrbuf = <<>> /\ buf = Garbage /\ used = 0
    /\ uri = None /\ todo = <<>> /\ child = None
    /\ files = DOMAIN Disk
    /\ reader = [c \in Polite |-> [rio |-> rio_readinitb, got |-> <<>>, eof |-> FALSE]]
    /\ faults = 0

----------------------------------------------------------------------------
(* The clients *)

\* A client acts while it is served: what it does before Accept has the effect
\* of doing it right after.
Alive(c) == c = conn /\ ~up[c].reset

Send(c) ==
    /\ Alive(c) /\ ~up[c].ended
    /\ \E n \in up[c].sent + 1 .. Len(request[c]) :
         /\ n % SEGMENT = 0 \/ n = Len(request[c])
         /\ up' = [up EXCEPT ![c].sent = n]
    /\ UNCHANGED <<request, down, backlog, server, files, reader, faults>>

\* shutdown, or a close that the server sees as the end of the request.
End(c) ==
    /\ c \notin Polite /\ Alive(c) /\ ~up[c].ended
    /\ up' = [up EXCEPT ![c].ended = TRUE]
    /\ UNCHANGED <<request, down, backlog, server, files, reader, faults>>

Reset(c) ==
    /\ c \notin Polite /\ Alive(c)
    /\ up' = [up EXCEPT ![c].reset = TRUE]
    /\ UNCHANGED <<request, down, backlog, server, files, reader, faults>>

\* A client that need not read takes some of its response.
Take(c) ==
    /\ c \notin Polite /\ Alive(c)
    /\ \E n \in 1 .. Len(down[c].data) :
         down' = [down EXCEPT ![c].data = SubSeq(@, n + 1, Len(@))]
    /\ UNCHANGED <<request, up, backlog, server, files, reader, faults>>

\* rio_readnb with room for all that may come: a read() when rio_buf is empty,
\* then a copy of all it holds.
Read(c) ==
    LET r == reader[c]
        data == down[c].data
        size == MinOf(Len(data), RIO_BUFSIZE)
    IN  /\ ~r.eof
        /\ \/ /\ r.rio.cnt > 0
              /\ reader' = [reader EXCEPT ![c].got = @ \o Copied(r.rio, r.rio.cnt),
                                         ![c].rio = Consume(@, r.rio.cnt)]
              /\ UNCHANGED down
           \/ /\ r.rio.cnt <= 0 /\ size > 0
              /\ reader' = [reader EXCEPT ![c].rio = Refill(@, SubSeq(data, 1, size))]
              /\ down' = [down EXCEPT ![c].data = SubSeq(@, size + 1, Len(@))]
           \/ /\ r.rio.cnt <= 0 /\ size = 0 /\ (down[c].ended \/ pc = "exited")
              /\ reader' = [reader EXCEPT ![c].eof = TRUE]
              /\ UNCHANGED down
        /\ UNCHANGED <<request, up, backlog, server, files, faults>>

\* Somebody removes the file about to be served.
Unlink ==
    /\ faults < MaxFaults /\ faults' = faults + 1
    /\ uri \in files /\ files' = files \ {uri}
    /\ UNCHANGED <<request, up, down, backlog, server, reader>>

----------------------------------------------------------------------------
(* main and the reads of doit *)

Accept ==
    /\ pc = "accept" /\ backlog # <<>>
    /\ conn' = Head(backlog) /\ backlog' = Tail(backlog)
    /\ pc' = "request" /\ rio' = rio_readinitb
    /\ UNCHANGED <<request, up, down, usrbuf, buf, used, uri, todo, child, files, reader, faults>>

Reading == pc \in {"request", "headers"}

\* A wrapper of csapp.c ends the process, and the kernel its connections.
Exit ==
    /\ pc' = "exited"
    /\ UNCHANGED <<conn, rio, usrbuf, buf, used, uri, todo, child>>

\* What Rio_writen writes one buffer after another; the five lines of an error
\* page count as one.
ClientError(errnum) == << <<errnum>>, <<"type">>, <<"page">> >>
OkLines == << <<"200">>, <<"server">> >>

\* The body and the output of a program follow once Open or Fork has succeeded.
Answer(u) ==
    LET is_static == u \notin CgiUris
        mode == IF u \in files THEN Disk[u].mode ELSE "none"
    IN  CASE mode = "none" -> ClientError("404")
          [] mode # "none" /\ is_static /\ mode # "read" -> ClientError("403")
          [] mode # "none" /\ ~is_static /\ mode # "exec" -> ClientError("403")
          [] is_static /\ mode = "read" -> OkLines \o << <<"length">>, <<"type">> >>
          [] ~is_static /\ mode = "exec" -> OkLines

\* A line is complete: what doit and read_requesthdrs do with it.
LineRead(line) ==
    IF pc = "request"
    THEN IF line[1] # "GET"
         THEN /\ pc' = "write" /\ todo' = ClientError("501")
              /\ buf' = line /\ UNCHANGED uri
         ELSE \* read_requesthdrs has a buf of its own, which starts as garbage;
              \* sscanf leaves uri as it was when the line ends too early.
              /\ pc' = "headers" /\ buf' \in {Blank, Garbage}
              /\ uri' \in IF Len(line) > 1 /\ line[2] \notin {CR, LF} THEN {line[2]} ELSE Uris
              /\ UNCHANGED todo
    ELSE /\ buf' = line /\ UNCHANGED uri
         /\ IF line = Blank THEN pc' = "write" /\ todo' = Answer(uri) ELSE UNCHANGED <<pc, todo>>

\* rio_readlineb takes one byte out of rio_buf.
ReadByte ==
    /\ Reading /\ rio.cnt > 0
    /\ rio' = Consume(rio, 1) /\ used' = used + 1
    /\ LET line == usrbuf \o Copied(rio, 1)
       IN  IF LineEnds(line, MAXLINE)
           THEN LineRead(line) /\ usrbuf' = <<>>
           ELSE usrbuf' = line /\ UNCHANGED <<pc, todo, buf, uri>>
    /\ UNCHANGED <<request, up, down, backlog, conn, child, files, reader, faults>>

\* rio_read refills rio_buf.
Fill ==
    /\ Reading /\ rio.cnt <= 0 /\ ~up[conn].reset
    /\ LET first == up[conn].read + 1
           last == MinOf(up[conn].sent, up[conn].read + RIO_BUFSIZE)
       IN  /\ first <= last
           /\ rio' = Refill(rio, SubSeq(request[conn], first, last))
           /\ up' = [up EXCEPT ![conn].read = last]
    /\ UNCHANGED <<request, down, backlog, conn, pc, usrbuf, buf, used, uri, todo, child,
                   files, reader, faults>>

Interrupted ==
    /\ Reading /\ rio.cnt <= 0
    /\ faults < MaxFaults /\ faults' = faults + 1
    /\ rio' = Interrupt(rio)
    /\ UNCHANGED <<request, up, down, backlog, conn, pc, usrbuf, buf, used, uri, todo, child,
                   files, reader>>

\* The end of the stream gives the line so far, or 0 and leaves buf as it is:
\* a read_requesthdrs whose buf is not the blank line then reads on for ever.
FindEnd ==
    /\ Reading /\ rio.cnt <= 0 /\ ~up[conn].reset
    /\ up[conn].ended /\ up[conn].read = up[conn].sent
    /\ rio' = Drain(rio) /\ usrbuf' = <<>>
    /\ CASE usrbuf # <<>> -> LineRead(usrbuf)
         [] usrbuf = <<>> /\ pc = "request" -> pc' = "close" /\ UNCHANGED <<buf, uri, todo>>
         [] usrbuf = <<>> /\ pc = "headers" -> LineRead(buf)
    /\ UNCHANGED <<request, up, down, backlog, conn, used, child, files, reader, faults>>

ReadError ==
    /\ Reading /\ rio.cnt <= 0 /\ up[conn].reset
    /\ Exit
    /\ UNCHANGED <<request, up, down, backlog, files, reader, faults>>

----------------------------------------------------------------------------
(* The writes of doit *)

\* Mutant: a short write is followed by the bytes it has written already.
WrittenAgain(n) ==
    IF n = Len(Head(todo)) THEN Tail(todo)
    ELSE <<SubSeq(Head(todo), 1, Len(Head(todo)) - n)>> \o Tail(todo)

\* What a write() of n bytes leaves of the buffers.
Written(n) ==
    IF n = Len(Head(todo)) THEN Tail(todo)
    ELSE <<SubSeq(Head(todo), n + 1, Len(Head(todo)))>> \o Tail(todo)

\* What the sockets can still take for a client: write() blocks on one that
\* does not read.
Room(c) == SNDBUF - Len(down[c].data)

\* write() takes some of the bytes, and Rio_writen goes on with the others.
Write ==
    /\ pc = "write" /\ todo # <<>> /\ ~up[conn].reset
    /\ \E n \in 1 .. MinOf(Len(Head(todo)), Room(conn)) :
         /\ down' = [down EXCEPT ![conn].data = @ \o SubSeq(Head(todo), 1, n)]
         /\ todo' = Written(n)
         /\ pc' = IF todo' # <<>> THEN pc
                  ELSE IF Last(todo)[1] = "type" THEN "open"
                  ELSE IF Last(todo)[1] = "server" THEN "fork" ELSE "close"
    /\ UNCHANGED <<request, up, backlog, conn, rio, usrbuf, buf, used, uri, child,
                   files, reader, faults>>

WriteError ==
    /\ pc = "write" /\ up[conn].reset
    /\ Exit
    /\ UNCHANGED <<request, up, down, backlog, files, reader, faults>>

\* Open fails if the file has gone since stat, Mmap if it is empty.
OpenFile ==
    /\ pc = "open"
    /\ IF uri \in files /\ Disk[uri].data # <<>>
       THEN pc' = "write" /\ todo' = <<Disk[uri].data>>
            /\ UNCHANGED <<conn, rio, usrbuf, buf, used, uri, child>>
       ELSE Exit
    /\ UNCHANGED <<request, up, down, backlog, files, reader, faults>>

\* The child runs the program with the connection as its output.  If the file
\* has gone it exits instead, and what tiny has printed but not flushed goes out.
Fork ==
    /\ pc = "fork" /\ pc' = "wait"
    /\ child' \in IF uri \in files THEN {Disk[uri].data} ELSE {<<>>, <<"log">>}
    /\ UNCHANGED <<request, up, down, backlog, conn, rio, usrbuf, buf, used, uri, todo,
                   files, reader, faults>>

\* A program that writes to a lost connection is killed.
ChildWrite ==
    /\ child \notin {None, <<>>}
    /\ IF up[conn].reset THEN child' = <<>> /\ UNCHANGED down
       ELSE /\ Room(conn) > 0 /\ child' = Tail(child)
            /\ down' = [down EXCEPT ![conn].data = Append(@, Head(child))]
    /\ UNCHANGED <<request, up, backlog, conn, pc, rio, usrbuf, buf, used, uri, todo,
                   files, reader, faults>>

Wait ==
    /\ pc = "wait" /\ child = <<>>
    /\ pc' = "close" /\ child' = None
    /\ UNCHANGED <<request, up, down, backlog, conn, rio, usrbuf, buf, used, uri, todo,
                   files, reader, faults>>

\* The variables of doit are gone.
Return ==
    /\ pc' = "accept" /\ conn' = None
    /\ rio' = rio_readinitb /\ usrbuf' = <<>> /\ buf' = Garbage /\ used' = 0 /\ uri' = None
    /\ UNCHANGED <<todo, child>>

\* Mutant: doit returns without the Close of main.
CloseLeaks ==
    /\ pc = "close" /\ Return
    /\ UNCHANGED <<request, up, down, backlog, files, reader, faults>>

Close ==
    /\ pc = "close" /\ Return
    /\ down' = [down EXCEPT ![conn].ended = TRUE]
    /\ UNCHANGED <<request, up, backlog, files, reader, faults>>

Server == \/ Accept \/ ReadByte \/ Fill \/ FindEnd \/ ReadError
          \/ Write \/ WriteError \/ OpenFile \/ Fork \/ Wait \/ Close

Next == \/ Server \/ Interrupted \/ ChildWrite \/ Unlink
        \/ \E c \in Clients : Send(c) \/ End(c) \/ Reset(c) \/ Take(c)
        \/ \E c \in Polite : Read(c)

\* The processes run while the sockets let them; polite clients send what they
\* owe and read what arrives.  The others need do nothing.
Fairness ==
    /\ WF_vars(Server) /\ WF_vars(ChildWrite)
    /\ \A c \in Polite : WF_vars(Send(c)) /\ WF_vars(Read(c))

Spec == Init /\ [][Next]_vars /\ Fairness

----------------------------------------------------------------------------
(* Properties *)

\* A line of rio_readlineb may start behind i bytes of the request: behind a
\* newline, or as many full buffers behind one.
LineStarts(r, i) ==
    \E s \in 1 .. i + 1 :
        /\ s = 1 \/ r[s - 1] = LF
        /\ \A k \in s .. i : r[k] # LF
        /\ (i + 1 - s) % (MAXLINE - 1) = 0

\* Where the headers may end: behind a blank line, or behind the end of a line
\* that fills the buffers before it.
HeaderEnds(r) == {i \in 3 .. Len(r) : SubSeq(r, i - 1, i) = Blank /\ LineStarts(r, i - 2)}

\* Whatever the pieces in which a request arrives, the server answers a GET when
\* it has read the first blank line behind the request line, and not before:
\* unless the request ends early, or one of its lines splits right before its
\* CR LF, which then passes for the blank line.
StopsAtBlankLine ==
    /\ pc \in {"write", "open", "fork", "wait", "close"} /\ buf = Blank
    /\ ~up[conn].ended /\ request[conn][1] = "GET"
    => used = Min(HeaderEnds(request[conn]))

\* The answer to a whole request while no file has been removed.
Response(r) ==
    IF r[1] # "GET" THEN FlattenSeq(ClientError("501"))
    ELSE LET body == IF r[2] \in DOMAIN Disk THEN Disk[r[2]] ELSE [mode |-> "none"]
             wanted == IF r[2] \in CgiUris THEN "exec" ELSE "read"
         IN  FlattenSeq(Answer(r[2])) \o (IF body.mode = wanted THEN body.data ELSE <<>>)

\* A client gets the bytes of its response in order and once, and all of them
\* if it sees the end while the server is alive: across short writes, reads of
\* any size and refills of the reader's buffer.
Delivered ==
    \A c \in Polite : files = DOMAIN Disk =>
        /\ IsPrefix(reader[c].got, Response(request[c]))
        /\ reader[c].eof /\ pc # "exited" => reader[c].got = Response(request[c])

\* The server waits for a client that does not go on, spins because the client
\* has ended its request within the headers, or is blocked, in write() or waiting
\* for the CGI program, by a client that does not read.
Hung == /\ conn \notin Polite
        /\ Reading \/ (pc \in {"write", "wait"} /\ Room(conn) <= 0)

\* The server has exited with a reason: the client it was serving has reset its
\* connection, or asked for a file that is empty or was removed meanwhile.
Excused ==
    /\ pc = "exited"
    /\ \/ up[conn].reset
       \/ uri \in DOMAIN Disk /\ (uri \notin files \/ Disk[uri].data = <<>>)

\* Every polite client reads on to the end of its whole response, unless the
\* server hangs on another client for ever or exits for one of these reasons.
Answered ==
    \A c \in Polite :
        \/ <>[]Hung
        \/ <>(reader[c].eof /\ (reader[c].got = Response(request[c]) \/ files # DOMAIN Disk))
        \/ <>(reader[c].eof /\ Excused)
=============================================================================
