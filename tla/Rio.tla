-------------------------------- MODULE Rio ---------------------------------
(***************************************************************************)
(* The robust buffered I/O of csapp.c, one system call at a time.  A       *)
(* stream is a sequence of bytes; a reader keeps the bytes of its last     *)
(* read() in rio_buf and hands them out until none is left.                *)
(***************************************************************************)
EXTENDS Integers, SequencesExt

LF == "lf"

\* rio_buf, the offset of rio_bufptr in it, and rio_cnt.
rio_readinitb == [buf |-> <<>>, ptr |-> 0, cnt |-> 0]

Unread(rio) == SubSeq(rio.buf, rio.ptr + 1, rio.ptr + rio.cnt)

\* read() puts some bytes at the start of rio_buf and leaves what lies behind.
Overwrite(buf, bytes) == bytes \o SubSeq(buf, Len(bytes) + 1, Len(buf))

\* read() returns some bytes.
Refill(rio, bytes) == [buf |-> Overwrite(rio.buf, bytes), ptr |-> 0, cnt |-> Len(bytes)]

\* read() is interrupted: rio_cnt holds its -1 until the loop calls it again.
Interrupt(rio) == [rio EXCEPT !.cnt = -1]

\* read() finds the end of the stream.
Drain(rio) == [rio EXCEPT !.cnt = 0]

MinOf(a, b) == IF a < b THEN a ELSE b

\* The copy at the end of rio_read: the bytes it gives ...
Copied(rio, n) == SubSeq(rio.buf, rio.ptr + 1, rio.ptr + MinOf(n, rio.cnt))

\* ... and what it leaves.
Consume(rio, n) ==
    LET cnt == MinOf(n, rio.cnt)
    IN  [rio EXCEPT !.ptr = @ + cnt, !.cnt = @ - cnt]

\* Mutant: the line may fill the buffer.
LineEndsFull(usrbuf, maxlen) == Last(usrbuf) = LF \/ Len(usrbuf) = maxlen

\* rio_readlineb has its line: a newline, or no room but for the final 0.
LineEnds(usrbuf, maxlen) == Last(usrbuf) = LF \/ Len(usrbuf) = maxlen - 1
=============================================================================
