# Formal models of csapp3e

`src/` is one author's solutions to the labs of *Computer Systems: A
Programmer's Perspective*.  The labs are separate programs that share no code;
the ones with state, concurrency or an algorithm of their own are modelled
here, most intricate first.  Line numbers in this file are those of `src/`.

## 1. Inventory

### 1.1 Proxy (`proxylab-handout/`)

A caching HTTP/1.0 proxy: `main` accepts connections and hands their
descriptors to `NUM_THREADS` (2) workers through a bounded buffer; a worker
serves one request from the cache or from the origin server.

| part | state | operations | interacts with |
|---|---|---|---|
| `sbuf.c` | `buf`, `n`, `front`, `rear`; semaphores `mutex`, `slots`, `items` | `sbuf_init`, `sbuf_enque`, `sbuf_deque`, `sbuf_destroy` (never called) | called by `main` and by every worker |
| `cache.c` | a doubly linked list between two sentinels, `size`, semaphore `mutex` | `lru_init`, `lru_get`, `lru_put`, `lru_destroy` (never called) | called by every worker; owns the `uri` and `resp` buffers it is given |
| `proxy.c` | per worker: `connfd`, `clientfd`, `uri`, `resp`; per process: open descriptors | `main`, `thread`, `doit`, `read_req_line`, `process_req`, `parse_url`, `clienterror` | clients, origin servers, the two packages above |
| `csapp.c` | `rio_t` buffers | semaphore, socket, malloc wrappers; the `rio` package | everything |
| `tiny/` | none | an iterative origin server | the proxy's peer in the tests |

Hard: threads interleave at every access to a shared word; a hit returns the
cached buffer itself and gives up the mutex; buffers change owner (worker,
cache, freed); the workers exist before the cache does; peers are slow, silent,
close early or reset; descriptors run out.

Correct means: the queue delivers each descriptor once and in order and never
blocks for want of a wakeup; the cache is an atomic least-recently-used list
within its byte budget; a connection has one holder from accept to close; a
client is sent the response to its own request; a silent peer holds up one
worker and nobody else.

### 1.2 Shell (`shlab-handout/tsh.c`)

State: the job table `jobs[MAXJOBS]`, `nextjid`, and in the kernel the
children, their process groups, pending `SIGCHLD` (one bit) and the signal
mask.  Operations: `eval`, `do_bgfg`, `waitfg`, the handlers for `SIGCHLD`,
`SIGINT` and `SIGTSTP`, and the job-list helpers.  Hard: handlers run between
any two steps of `eval`; `SIGCHLD`s coalesce; a child may stop, continue or die
at any time; a job may be reaped between being found and being used.  Correct
means: the table agrees with the children once the signals are handled, one
job at most is in the foreground, and `waitfg` returns.

### 1.3 Allocator (`malloclab-handout/mm.c`, `memlib.c`)

State: a heap of words tiled by blocks with header and footer tags, segregated
free lists threaded through the free blocks, `LAST_FREE_BP`.  Operations:
`mm_init`, `mm_malloc`, `mm_free`, `mm_realloc`, with `coalesce`, `place`,
`find_fit`, `extend_heap`.  Hard: long sequences of legal calls; one step
changes tags and two lists; the limit of the heap; data that moves within a
block that was just freed.  Correct means: blocks tile the heap, the lists hold
exactly the free blocks of their sizes, payloads never overlap (what
`mdriver.c` checks on its traces), the heap does not grow while a free block has
room, and `mm_realloc` keeps the contents.

### 1.4 Y86-64 tools and processors (`archlab-handout/sim/`)

`yas` assembles a source file, `load_mem` loads it, and three simulators run it:
`yis` one instruction at a time (`step_state` of `isa.c`), `ssim` as the
sequential processor SEQ, `psim` as the five-stage pipeline PIPE.  State: memory,
registers, condition codes, status; in PIPE also the five pipe registers and the
writes that wait for the clock edge; in `yas` the symbol table and the output.
Hard: in PIPE five instructions are in flight, so a value is forwarded from one of
several stages, and stalls, bubbles, branches predicted wrongly and exceptions
coincide; in `yas` two passes must agree on every address.  Correct means: the
simulators compute what `step_state` computes, which is what their option `-t`
compares, and the simulators fetch what was written in the source.

### 1.5 Cache lab (`cachelab-handout/`)

`csim.c` simulates a set-associative cache on a trace; `trans.c` transposes
matrices in blocks; `test-trans.c` and `tracegen.c` call the transpose between two
marker stores and count the misses of what lies between with the simulator.  State: the array of
lines, its capacity and the totals; the matrices and what lies behind them.
Hard: replacement by access numbers over a flat array; matrices whose sides are
not multiples of the block; the rows behind a matrix used as temporaries; the
order of accesses, which decides the misses.  Correct means: csim counts what a
least-recently-used cache does, the result is the transpose, within the misses
`driver.py` asks for, and nothing but the transpose and its call is counted.

### 1.6 Data lab (`datalab-handout/`)

`bits.c` holds thirteen word functions, `tests.c` what they should return, and
`btest.c` compares the two over windows of arguments.  Hard: overflow at the
boundaries of 32 bits, the exponents at which a float changes its kind, and
faults between the windows.  Correct means: puzzle and test function agree on
every argument.

### 1.7 Tiny (`proxylab-handout/tiny/`)

The iterative web server the proxy is tested against, on the buffered I/O of
`csapp.c` (`rio_t`).  State: the reader's buffer, the line collected so far, the
descriptor, a CGI child, and what is still to be written.  Hard: requests and
responses arrive in pieces of any size; a client may stop sending or reading, end
or reset its connection; a write blocks when the sockets are full; every failed
system call ends the process.  Correct means: a request
ends at its blank line, a response arrives complete and in order, a client
that keeps to the protocol is answered unless another one blocks the server, and
the server ends only for the reasons it may have.

### 1.8 The rest

| part | why it is not modelled |
|---|---|
| `bomb-handout`, `target1` | binaries with the author's inputs: no source |
| `*.pl`, `driver.*`, timing packages | supplied test code; what it expects is used as properties |
| HCL compilers, `pipe-1w`, `-btfnt`, `-lf`, `-nt`, `-nobypass`, `-broken`, `seq-std`, `seq+-std` | generated code, and exercise variants of the control logic that is modelled |

## 2. Modules

    BoundedFifo   abstract queue           LruList   pure list operators
        ^ implemented by                       ^ used by
    Sbuf  <- SbufProofs                    LruSpec   atomic cache
        \                                      ^ implemented by
         \  atomic queue                   LruCache  pointers and mutex
          \                                   /    <- LruCacheProofs
           `------->  Proxy  <---------------'  atomic cache
                        ^ ProxyProofs

    Rio  ->  Tiny  <- TinyProofs           an origin server and its clients
    Tsh  <- TshProofs                      the shell
    Mm  <- MmProofs                        the allocator and its client

    Isa  ->  Yis   the instruction set as a machine
     |        ^ implemented by SEQ and by PIPE
     +-> Hcl -> Seq, Pipe ->  Y86  <- Yas  the tool chain on one program
                               ^ Y86Proofs

    Csim, Trans  ->  Cachelab              ^ implements LruSets
    Bits, BitTests  ->  Btest
    BitTests, Cachelab  <- LabProofs       the theorems of both labs

Each module `M` that is run has `MCM` (the instance) and `MCM*.cfg`.
`Proxy` uses the queue and the cache at the level of their abstract
specifications; `IsFifo` and `RefinesLru` are what justifies that.

**Sbuf** keeps the variables of `sbuf_t` and three semaphores.  A call of
`sbuf_enque` is six or seven steps: `P(&slots)` (`EnqWaitSlot`), `P(&mutex)`
(`EnqLock`), load of `rear` (`EnqLoad`), write of `rear + 1` (`EnqInc`), store
in the slot (`EnqStore`), `V(&mutex)`, `V(&items)`.  `rear++` is two steps
because it is two memory accesses: without the mutex they would race, which is
what the mutants show.  `sbuf_deque` is the mirror image.  Integers wrap at
`IntMax` as `int` does on the machines this is built for.

**LruCache** keeps `next`, `prev`, `key`, `size` per address and the fields of
`lru_t`.  A step is a semaphore operation, one iteration of the scan, one
iteration of the eviction loop, or one call of `remove_item` or
`move_item_front`; only the holder of the mutex touches the list, so finer steps would give no
new interleaving.  `malloc` may return any free address, so an evicted item's
address can come back at once.  A worker calls `lru_put` only after a miss and
with the same key, as `doit` does.

**Proxy** has `main`, the workers, the descriptors and the response buffers.
A worker's step is one call that blocks or that another thread can observe:
dequeue, read the request, look up, send the hit, resolve the origin's name, make
a socket and connect it to one address after the other (`open_clientfd`), process
the headers, relay one chunk, insert, close.  A request is abstracted to how far
`read_req_line` and `process_req` get with it; a response to its chunks of
`MAX_OBJECT_SIZE` bytes and whether each arrived whole.  Buffers have addresses
and contents: a hit keeps the address after the mutex is released, and
`lru_put` frees what it evicts (its content becomes `Garbage`).

**Tsh** has the main flow of the shell (`eval`, `do_bgfg`, `waitfg`), a stack of
signal handlers over it, the job table they share, and the children.  The main
flow moves only while the stack is empty, so a handler can run between any two
of its steps; `Signal()` leaves `sa_mask` empty, so a handler of another signal
can run on top of one (`KeyEnter` needs only that its own signal is not
running).  `SIGCHLD` is one pending bit and one mask bit.  The steps of `eval`
are block, fork, add the job, unblock, then report or wait; those of `do_bgfg`
are find the job, set its state through the pointer, read its pid through the
pointer, signal the group.  The `SIGCHLD` handler is entered, calls `waitpid`
once, and updates the table.  A child before `setpgid` is in no group of its
own (`GroupExists`); a stopped child that `waitpid` has reported is in `told`.
`addjob`, `deletejob`, `maxjid` and `fgpid` are translated as they are, the job
IDs that wrap and the free slot whose state is `FG` included.  The signals
themselves are not delivered to children: a child may stop, go on, exit or be
killed at any time, whoever asked for it.  The user's choices (which command,
which job, which key) are nondeterministic.

**Mm** is the heap itself: words that are block tags, links or payload,
`mem_brk`, `LAST_FREE_BP` and the segregated lists.  The functions of `mm.c` are
operators from a heap to a heap, composed as the code composes them
(`mm_free` is the tags, `add_to_free_list`, then `coalesce`), and the actions
are the calls of a client, which is `eval_mm_valid` of `mdriver.c`: it keeps the
list of the payloads' ranges and gives up when a new one overlaps (`add_range`,
which does not notice a range that encloses another), fills each block with its
index and looks for the index after a reallocation (`kept`).  The driver goes from
one trace to the next (`Reset`) however the last one has ended, as mdriver.c:588
does, and may be run again (`Restart`), with static variables that are new.  A
reset does not touch `LAST_FREE_BP`; if it still names a block other than the first,
`mm_init` writes beyond the end of the new heap.  The model records that
(`stale`) and what came before it: whether the trace had split a block in use or
had left blocks (`untidy`).  What the code does on such a heap is not followed.
  `mm_check` is the
heap checker that `mm.c` has but does not call.  The unit is a word of 8 bytes, so `ALIGN` has nothing to do.  A list
is the sequence of its blocks; its links still overwrite the first two words of
the block, and its sentinels, which nothing else touches, are left out.  `place`
is where sizes meet: an offset that leaves a free block in front, a remainder
that becomes one behind.

**Isa** translates `isa.c`: memory, registers, the ALU and its condition codes,
fetching, and `step_state`.  `Yis` is the loop around it and the specification
that `Seq` and `Pipe` implement.  **Hcl** holds the control signals that
`seq-full.hcl` and `pipe-full.hcl` share.  **Seq** is one `sim_step`: the state
written by an instruction is committed at the start of the next one.  **Pipe** is
one `sim_step_pipe`: the clock edge (`update_pipes`, `update_state`), the stages
in the order of the code (decode comes last, since it reads what execute and
memory forward), and the stall and bubble of each register.  The processor is a
record, and a step an operator from a record to a record, as in the code.
**Yas** is both passes from the tokens of a line on, and the loader.  **Y86** is
`run_tty_sim`: it assembles a program, runs SEQ, then PIPE, each up to
`instr_limit`, and compares with `step_state`.  `SeqView` and `PipeView`
are the refinement mappings: the architectural state with the writes that have
retired but wait for the clock edge.

**Csim** is the array of lines, with its capacity, and the search for a hit and a
victim; `run` takes one trace line.  **LruSets** says what the totals should
be, without numbers: each set is the sequence of its blocks by recency.  **Trans**
gives the accesses of `transpose_submit`, a sequence per iteration of an inner
loop (`Iteration`), and the way from one access to the next (`Advance`).
**Cachelab** makes one access per step between the two markers (`StartMarker`,
`EndMarker`): the loads of the function pointer, `M` and `N` in the call at
tracegen.c:98 (`Call`), which is built with `-O0`, then those of the transpose
(`Load`, `Store`).  Where the linker puts `tracegen`'s variables (`Static`) and in which
order the build loads the operands (`Operands`) are constants.  It filters each access as
`eval_perf` does (`Traced`) and feeds it to the simulator at once, where the code
goes through a file.  The accesses of `initMatrix` and `validate`, outside the
markers, are one step each.  A job may also be a trace file of arbitrary lines
(`ReadLine`).

**Bits** represents a word as the set of its one bits; addition is by carries.
**BitTests** are the functions of `tests.c`, with `float` arithmetic as numbers
`m * 2^e`.  **Btest** generates the windows, or takes the arguments given on the
command line, and goes through the combinations; the alarm may go off between
any two, and that of the puzzle before while the values are generated.

**Rio** is the buffer of `rio_t`, one system call at a time: `rio_cnt`, the bytes
behind `rio_bufptr`, and what an interrupted or short call leaves.  **Tiny** uses it
for the server's request and for the client's response: `read` and `write` take any
number of bytes up to the buffer, the client sends in segments.  The sockets hold
`SNDBUF` bytes of a response: with no room left `Write`, or the `ChildWrite` of a
CGI program that the server waits for, is blocked until the client reads (`Read`,
`Take`) or resets.  A request is
its tokens and line ends; `MAXLINE` is a small number, so lines do fill the
buffer.

## 3. Runs

| run | instance | question |
|---|---|---|
| `sbuf` | 2 producers, 2 workers, 2 slots, 4 calls | do the three semaphores protect the indices and slots; is it a bounded FIFO; does every call return |
| `lru` | 2 workers, 2 keys, sizes 1 and 2, capacity 3, 5 addresses | is the list well linked and counted, eviction safe, duplication bounded; is it the atomic cache |
| `proxy` | 2 workers, 3 connections, one of them with any bad request, capacity 2, sizes 1 and 2, 2 addresses per origin, 4 descriptors, any fault | has each connection one holder; is the cache initialised before it is used; do cached buffers belong to the cache alone and hold whole responses; is each client sent its own |
| `proxy_live` | 3 connections, one to a silent origin, 3 descriptors, queue of 1 | are the others served |
| `tsh` | 2 children, table of 2, ctrl-c | do the table and the children agree; is no stop lost; is the foreground right at each prompt; is the invariant of the proof one; does `waitfg` return |
| `tsh_reap` | the same | does the handler reap every zombie (no: section 6) |
| `mm` | 3 blocks of 2, 5 or 8 words, 3 pages of 8, 2 lists | do the blocks tile the heap, does `mm_check` pass, do the lists hold the free blocks, the payloads survive; does the heap grow only when it must |
| `mm_realloc` | the same as `mm` | does a reallocated block keep its data (no: section 6) |
| `y86` | every program of three statements from a menu of 14 in a fixed frame that is comparable (below); words of 2 bytes, memory of 64 | does `yas` write what is fetched, labels before `.align` and `.pos` included; do SEQ and PIPE implement the instruction set; do stalls and bubbles conflict; are cycles lost only where they must be |
| `cachelab` | the sizes of `driver.py`, six sizes with residual blocks, and every trace of five lines on three small caches | is B the transpose, within the misses asked for; are only the transpose and its call counted; is csim true LRU |
| `bits` | windows of 4, 2 and 1 values, and 532 given triples of arguments at every boundary | is each puzzle exact but for its faulty numbers; do the windows miss those |
| `tiny` | 2 clients, one of which may stop sending or reading, end or reset; lines of 4 bytes, buffer of 2, segments of 3, sockets of 2; one interrupted call or removed file | does a request end at its blank line; does a response arrive whole; is a polite client answered unless the server has one of its excuses |

Why the bounds are enough to meet the interesting cases:

- `sbuf`: two producers exceed what `proxy.c` uses (one) and cover `sbuf` as a
  package; four calls on two slots fill the buffer and wrap both indices; every
  pair of roles meets at the mutex;
- `lru`: capacity 3 with sizes 1 and 2 gives lists of three items (a hit at the
  front, in the middle and at the end), insertions that evict none, one or two,
  and room for more copies of a key than there are workers, so that
  `DuplicatesBounded` is not a consequence of the capacity;
- `proxy`: three connections over two workers let one worker serve a second
  client while the other still holds a buffer from the first; a response of size
  2 in a cache of 2 evicts everything, also an item that is being sent; four
  descriptors are fewer than the connections and their origins need; of two
  addresses the first may fail at the socket or at the connection, or both fail;
- `tsh`: two children fill a table of two and leave the `SIGCHLD`s of two
  children to coalesce; a child without a job, and a slot reused while `do_bgfg`
  holds a pointer to it, are beyond this instance and covered by the proof, which
  holds for any set of processes and any `MAXJOBS`.  A process ID is used once,
  so a pid that comes back to another child is not covered; ctrl-z differs from
  ctrl-c only in what it makes a child do, and a child may do either at any time;
- `mm`: blocks of 4, 7 and 10 words under pages of 8 and lists from 4 and from 8
  words give every outcome of `place` (no offset or one, a remainder or none) and
  of `coalesce`, blocks in both lists, an extension in `find_fit` and in
  `mm_realloc`, and a heap that is full; shrinking to a smaller size leaves two free
  blocks that touch, and with them a `LAST_FREE_BP` that outlives all blocks.  The heap of three pages is small next
  to `MAX_HEAP`, but a call touches three neighbours and two lists at most;
- `y86`: three statements are the distance over which the pipeline forwards, so
  every pair and triple of hazards the menu can make is there: load/use in front of
  `ret`, `ret` on a path predicted wrongly, `popq %rsp`, `pushq %rsp`, a conditional
  move that does not happen, a refused address behind instructions in flight.
  Two bytes per word keep the arithmetic with wrap and overflow;
- `cachelab`: the sizes are those of the code, nothing is scaled, and the variables
  lie as the linker of the build puts them; the small
  caches overflow a set, and the array must double;
- `bits`: words have their 32 bits; `Given` holds both sides of every exponent
  at which a float puzzle changes its case, and the extremes of `int`;
- `tiny`: a buffer shorter than a line and segments that are no multiple of it
  end a piece at every place of a line; every response but none of its lines is
  longer than what the sockets hold, so a client that does not read blocks each
  kind of writer; two requests have a line that fills one
  buffer, or two, exactly before its line end.

Assumptions the instances make, all of them about the environment:

- `mm`: a request is for two words or more, because a block for fewer is smaller
  than `MIN_FREE_SIZE` (section 6).  `View` leaves out the words that nobody reads before they are
  written again, so that what is left in a free block does not multiply the states;
- `y86`: `Comparable` is what the simulators need to agree with `step_state` at
  all.  Every instruction is `WellFormed`: its constant and the bytes PIPE reads
  behind it are in memory, its operands name registers (a memory operand has a base),
  the stack stays in memory, and it is not `POP2`, which no assembler writes.
  Nothing is stored over an instruction that has run, and the program ends in
  time for its last instruction to leave the pipeline before `InstrLimit`
  (section 6 lists what happens otherwise).  MCY86 takes every program of its menu that
  is `Comparable`; the theorems have it as their hypothesis;
- `cachelab`: in `Geometry` a cache has a line at least, an index of one bit at
  least and bits left for the tag, without which a shift of `compute_id` is undefined
  (section 6); a matrix fits the arrays of `tracegen` (`MAXN`); no variable lies
  over a marker (`LayoutAssumption`), and the call loads each of its operands once
  (`OperandsAssumption`), as unoptimised code does, with its locals on the stack,
  which `eval_perf` drops; a trace line is
  one the scanner accepts, with its line end (csim.c:189 drops a last line without
  one), and a trace has no more lines than an `int` counts;
- `bits`: signed overflow, undefined in C, wraps as it does in the build; no alarm
  goes off between two calls of `test_function` (btest.c:350; section 6);
- `tiny`: a client acts while it is served (what it did earlier has the same
  effect); a polite one asks for a uri; a line holds two bytes at least
  (`MAXLINE` is 8192); a file's contents do not hold the names that stand
  for the lines that `serve_static` and `serve_dynamic` write just before them.
  The sockets hold a whole request, so no client is blocked in sending it.  That the kernel answers a close over unread data with a reset is left
  out, so `Delivered` is about what `tiny` writes;
- `proxy`: only the origin of `CutKeys` may close early; such a response is
  cached, as the code cannot tell (section 7).  `proxy_live` has clients with a
  Host header.

Bounds on counters: `MaxCalls` (calls of `sbuf_enque`), `InstrLimit` (the
simulators' own), `MaxLines` (of a free trace), `MaxTimeouts` (alarms),
`MaxFaults` (interrupted calls and removed files of `Tiny`).  `Conns` bounds the
proxy's clients, each with one request, since the proxy closes a connection after
one, and `Pids` the shell's children.  Symmetry is used in the runs without
liveness of `LruCache`, `Proxy` (workers, connections, buffers) and `Mm`, and in no
run with a liveness property.  `CHECK_DEADLOCK FALSE` is set where the system may
stop: `Proxy` and `Tiny`, where every client may have been served, `Tsh`, where
the shell exits or crashes, and `Y86`, `Cachelab` and `Btest`, which are programs that end.

## 4. Fairness

Threads are scheduled by the kernel, so each thread's next step is weakly fair;
nothing forces a client to connect, so `EnqCall` is not fair.  Weak fairness of
the semaphore waits is enough although they are contended: with one producer,
as in `proxy.c`, whoever overtakes a waiter uses up an item or a slot that only
the waiter's side can replace, so nobody is overtaken for ever; with two
producers it is `MaxCalls` that bounds how often one overtakes the other, and
POSIX semaphores promise no more.  In `Proxy`
workers are weakly fair in the steps that wait for nobody (`Proceed`); what a
peer may do (`PeerFault`) is never required, and a silent client or origin
blocks its worker for ever.  `accept` is strongly fair per connection: the
backlog is served in order whenever a descriptor is free.

In `Tsh` the shell's thread runs and the kernel delivers a pending signal that
is not masked.  The main flow and the `SIGCHLD` handler are strongly fair
because another handler disables them while it runs, and a user who types
ctrl-c for ever still leaves them some time.  The prompt, the keyboard and the
children are not fair.  `WaitfgReturns` therefore says what the shell owes: it
needs the end of its job to be announced, and no other child with something to
report (the exception is the finding of `tsh_reap`).  The run has ctrl-c only:
with both keys the handlers could keep the main flow from ever running.

In `Tiny` the server's process, the CGI child, and the clients of `Polite` are
weakly fair; no other client is required to do anything, to read included, and no call is required
to be interrupted or to succeed at once.  A write is enabled only while the sockets have
room, so its fairness asks nothing of a client.  `Answered` excepts a server that hangs on another
client for ever (`Hung`: in a read, in a write, or in the wait for a CGI program that cannot write), and one
that has exited for a reason the code has (`Excused`: the client it serves has reset its connection, or the file
is empty or was removed); both are in section 6.  An exit for any other reason, or a
client that is passed over, violates it.  `Y86` is weakly
fair in its only process.

## 5. What is proved

`SbufProofs` proves, for any finite sets of producers and workers, any `N > 0`
and any items, under the one hypothesis `MaxCalls <= IntMax` (the indices have
not wrapped):

| theorem | says |
|---|---|
| `IInvHolds` | `Spec => []IInv`, the inductive invariant |
| `TypeCorrect` | types and ranges; the semaphores stay within `0 .. N` |
| `MutexTheorem` | one thread at most between `P(&mutex)` and `V(&mutex)` |
| `SlotsTheorem` | every slot is free, filled or owned by one thread |
| `NoClashTheorem` | no slot is read before it is stored or stored over an unread item |
| `FifoTheorem` | `Spec => IsFifo`: `sbuf` implements the abstract queue |

Mutual exclusion alone is not inductive, and the safety of a slot depends on
semaphores that are not updated with the indices.  `IInv` closes the gap with
five counting facts: `MutexCounts` (mutex plus threads inside is 1),
`SlotsConserved` (the `N` slots), `IndicesCount` (`rear - front` is `items`
plus the producers that have advanced `rear` and not yet posted plus the
consumers that have taken an item and not yet advanced `front`),
`LoadedCurrent` (an index loaded under the mutex is still current when it is
written back) and `RearCountsCalls` (which bounds `rear`).  Each step moves one
thread from one set of labels to another; the lemmas `CountMove`, `Alone` and
`Counts` turn that into arithmetic.  `Window` derives from `IInv` that the
undelivered positions span at most `N` slots, `ModDistinct` that they are
different slots; `StorePuts` and `ReadTakes` then map the store and the read to
the abstract `Put` and `Take`, `WindowStays` everything else to a stutter.

`TshProofs` proves the whole safety of `Tsh`, for any set of processes, any
`MAXJOBS > 0` and any of the keyboard signals:

| theorem | says |
|---|---|
| `InductiveInvariant` | `Spec => []IInv` |
| `TypeCorrect` | types; job IDs stay natural numbers however they wrap |
| `Foreground` | one foreground job at most, and only while the shell is about to wait for it |
| `TableCorrect` | the job table and the children agree |
| `StopsCorrect` | a reported stop is on the table until the child goes on |

The table is right because `SIGCHLD` is blocked around `fork` and `addjob`, and
that takes four facts of its own: `Masked` (it is blocked there, and no handler
of it is on the stack), `Adding` (so the child to add is unreaped, unreported
and without a job), `FramesReaped` (a handler that is about to delete a job has
reaped its child) and `ToldStopped`.  `SlotKept` is what saves `do_bgfg`, which
does not block `SIGCHLD`: the slot it points to may be cleared but not filled
by another job, since only the main flow adds jobs.  The lemmas go bottom up:
least and largest numbers (`Least`, `Bounded`, `LargestJid`, for the slots and
job IDs that `CHOOSE` picks), the stack (`Pushed`, `Popped`), what each action
does to the stack and to the table, and then one lemma per conjunct of `IInv`
with a step per action.

`LabProofs` holds the theorems of the data lab and of the cache lab.  About the puzzles it proves
for every word of 32 bits, of which TLC can only try some:

| theorem | says |
|---|---|
| `NegateExact` | `~x + 1` keeps `x` up to its lowest one and inverts the bits above, which is `-x` |
| `ConditionalExact` | the mask of `conditional` selects `y` or `z` |
| `IsLessOrEqualExact` | the sign of `x - y`, guarded by the signs, is the comparison of the test |
| `LogicalNegExact` | folding all bits onto bit 0 gives `!x` |
| `HowManyBitsExact` | the five halvings find the highest bit that differs from the sign |

and, more simply, `BitXorExact` and `AllOddBitsExact`.  The argument is about the lowest or
highest bit in which two words differ: a carry chain starts there and ends there.
`Least` supplies that bit, the least element of a non-empty set of numbers,
which needs an induction.  `isTmax`, `isAsciiDigit`
and the float puzzles, which compare with constants or go case by case over
exponents, are only model-checked.

About the cache lab it proves, for any width of an address, any geometry whose shifts are defined
(`Geometry`), matrices of all sizes up to the arrays of `tracegen`, and any trace of well-formed lines:

| theorem | says |
|---|---|
| `ArrayOfLines` | `Spec => []LinesFit`: no overflow of the array, no line twice, no set too full, a unique victim |
| `MatrixTransposed` | `Spec => []Transposed`: `B` is the transpose of `A`, residual blocks and the 64*64 case included |
| `CountedAccesses` | `Spec => []OnlyTransposeCounted`: hits and misses add up to the accesses of the transpose, the three loads of its call and two markers, for any layout of the variables |
| `CsimIsLru` | `Spec => ImplementsLru`: the flat array with access numbers is a least-recently-used cache |

The hypotheses are the assumptions of `Csim` and `Cachelab`, which TLC evaluates on every run of them; none is
added.  `Transposed` and `OnlyTransposeCounted` speak of the end of a run; the inductive invariant
`LabInv` says how far it has come.  `Fits` is the array's part: its types, its capacity, and
that `id` is what `compute_id` makes of `addr`.  `Position` is where the loops can stand, and `Copied` what has
been copied when they stand at `p`: every element is in its place in `B` (`Stored`), or in its spare
cell (`Parked`, the 64*64 case), or in a temporary, or was not yet loaded.  A block is copied in one of
four ways; `ItemAt` and `MovedAt` reduce them to one, the element that slot `j` of iteration `i` moves, so that `CopiedLoad`
and `CopiedStore` need not know which.  `SpareUnique` shows that no spare cell is used
twice before it is read back, `CellOf` that two elements of `B` are two cells.  `Accesses` counts the accesses
before `p` without a sum: whole rows of blocks, the blocks before in this one (`BlockAccesses`), the iterations
before in this block.

For the refinement the sets of `LruSets` are read off the array: a set's lines in the order of their access numbers, which are
different.  `Ranked` shows that a finite set of different numbers has exactly one `k`-th member for each
`k`, so that `BlocksOf` is a sequence of all its lines; `BlocksMove` and `TakenFrom` show that giving line `i` the
largest number moves its block to the front and leaves the order of the others, whether line `i` was found,
evicted or appended; `TouchImplements` is one access, `TouchAgain` the second of a modification, and
`RunImplements` a line of the trace.  That a block, a set index and a tag determine each other is
arithmetic on powers of two (`Digits`, `DivideUnique`, `IdOfBlock`).

Two changes of the model made this possible.  An iteration of an inner loop used to be one step, a fold over its
accesses, about which nothing can be proved; now an access is a step.  And `Jobs`
and `FreeLines` had no assumptions: `JobsAssumption` and `TracesAssumption` name what the harness grants.

The list operators of the cache are proved about for any list, at the head of
`ProxyProofs` and of `LruCacheProofs`:
`TouchMoves` and `TouchPermutes` (a hit moves one item to the front and keeps the
others in order), `InsertKeeps`, `TrimKeeps`, `TrimAll` and `TrimLast` (an
insertion evicts from the end, as few as it must), `FirstHit`, and the arithmetic
of sizes.  A sum over a list is a fold, which has to be shown to exist and to be
unique before anything can be said of it: `SumExists` and `SumUnique` do it by
a minimal counterexample (`Largest`, `Least`), and `TotalIs`, `TotalWithout`
say what adding or removing an item does to the sum.

`LruCacheProofs` proves the cache, for any finite set of addresses, any keys, sizes
and threads, and any capacity:

| theorem | says |
|---|---|
| `IInvHolds` | `Spec => []IInv` |
| `WellLinkedHolds` | `prev` and `next` are one list, and what is allocated is on it once, or in one thread's hands |
| `SizeIsSumHolds` | `lru->size` is the sum of the items, and the eviction loop stops before the sentinel |
| `DuplicatesBoundedHolds` | copies of a key, with those being fetched, are never more than the threads |
| `RefinesLruHolds` | `Spec => RefinesLru`: the linked list under its mutex is the atomic cache on sequences |

`WellLinked` speaks of links; the other properties and the refinement speak of the
sequence that the links make (`Chain`).  The bridge is a characterisation: if the
links agree with a list `c` of different addresses in both directions (`Links`), then
following them from the head gives `c` and nothing else (`ChainIs`).  `UnlinkKeeps` and
`FrontKeeps` then show that `remove_item` and `move_item_front`, four assignments each, take
an address out of the list and put one at its head, the first, the last and the
only item included; `RemoveEffect`, `FrontEffect` and `EvictEffect` say so of `Chain`, and no
later proof looks at a link.  `IInv` needs,
beyond the list (`ListOK`), that one thread is inside (`MutexOK`), which addresses are allocated (`HeapOK`:
no address is in two hands, so `malloc` and `free` are right), what each thread's
position says of the item it holds (`CallsOK`: a scan that has come to the `i`-th item
has seen no hit before it), the sum (`SizeOK`, which counts an item being moved), and
`CopiesOK`, in which a thread that has missed counts before it gives the mutex back; with
`DuplicatesBounded` alone the step that gives it back adds one.  In the refinement
the abstract list is the list as it will be when the thread inside is done
(`AbsLru`): the step that gets the mutex is the abstract `DoGet` or `DoPut`, and each
iteration of the scan and of the eviction loop leaves `AbsLru` as it is, because
what is left to do shrinks by what has been done (`FirstHit`, `TrimLast`).

`ProxyProofs` proves the safety of the proxy over the abstract queue and the abstract cache, for
any workers, connections, buffers, keys and capacity, any limit of descriptors, and whatever
clients and origins do:

| theorem | says |
|---|---|
| `IInvHolds`, `TypesHold` | `Spec => []IInv`, and its types |
| `OneHolderHolds` | an open connection has one holder, a closed one none |
| `LruInitFirstHolds` | no worker reaches the cache before `lru_init` |
| `BuffersDisjointHolds` | a buffer belongs to one cached item or to one worker |
| `CachedIsOriginHolds` | what is cached is what the origin answered |
| `ServedOriginHolds` | what is sent is what the origin answered, but for a hit evicted meanwhile |

`OneHolder` counts holders; inductive are the pairwise facts `HeldOnce` and `HeldOpen`, with
`WorkersOK`, which ties the connection, the uri and the buffer of a worker to
where it is in `doit`.  `LruInitFirst` rests on `MainOK`: before `lru_init` the
queue is empty and no worker has gone beyond `sbuf_remove`.  What is cached depends on what was relayed
(`Relayed`: the buffer holds the last chunk, of the uri asked for; it is put only if it was the first
and the only one), and on `BuffersDisjoint`, without which another worker could
write to it; what is sent depends on how much has been sent (`Sent`).
The proof corrected the model: `CachedIsOrigin` used to say that a fragment in the
cache is shorter than a chunk, but an origin that closes right behind its first
full chunk leaves a whole one, which the code caches as well.

`MmProofs` proves the safety of the allocator, for any ids, sizes and number of lists, any
page of more than two words and any limit of the heap from a page up, over any number of traces, however each
ends, up to a reset that finds a stale `LAST_FREE_BP` (mm.c:96, section 6).  The one hypothesis is the
negation of a hazard of the code (section 6): `RequestsFit`, every request needs a block of at least
`2^MIN_FREE_SIZE` bytes (mm.c:151 makes smaller ones, whose links overwrite their
footers).  The run `mm` satisfies it.

| theorem | says |
|---|---|
| `Invariance` | `Spec => []IInv` |
| `HeapTiled` | the blocks tile the heap, `mm_check` has nothing to report, and no two free blocks touch unless the trace has split a block in use; a reset finds a stale `LAST_FREE_BP` only after a trace that has split one or has left blocks |
| `FreeListsExact` | the lists hold the free blocks of their sizes, each once; `LAST_FREE_BP` is the last one |
| `PayloadsSafe` | nothing but the client writes in its payloads; all other blocks are free |
| `GrowthNeeded` | the heap grows for `mm_malloc` only if every free block is too small |
| `NoBadRange` | `add_range` refuses no range: the driver gives up only on NULL |

The properties speak of a walk over tags in memory.  The invariant says instead
that some *layout* describes the heap: a function `L` from the addresses of blocks to their tags
that tiles the words from the prologue to the epilogue (`Tiles`), whose tags are in memory
(`Tagged`) and whose free blocks are in the lists (`Listed`).  `WalkIs` shows that the walk then
sees exactly `DOMAIN L`.  Within an operation memory and lists lag behind: between
two `PUT`s a block has one tag of the old layout and one of the new, and a block
that is being joined is in no list.  So `Good(h, L, T, F)` names apart the blocks `T`
that have their tags and the blocks `F` that are listed; `Sound` is the case of all blocks and all free
ones.  A layout changes in four ways (`RetagTiles`, `CutTiles`, `JoinTiles`, `GrowTiles`), each of which
drops the blocks concerned from `T` and `F`; `Tagging`, `Adding` and `Removing` put them back, one per helper
of `mm.c`.  `Keeps` carries what a call owes the client, that the words of the other blocks
in use are as they were: blocks of a tiling have no word in common (`Apart`), and every write stays within
its block (`OnlyIn`).  On these stand one lemma per function, in the
order of the calls: `Coalescing`, `Freeing`, `Extending`, `Finding`, `Placing`, `Allocating`, then the
branches of `mm_realloc` (`Absorbing`, `Stretching`, `Moving`, `Reallocating`) and
`Starting`, where a `LAST_FREE_BP` that still names the first block does no harm, because the epilogue
written before it reads as a size of 0.  That it names no other one at the end of a trace that
has freed all it was given and split no block in use is the other half of `HeapTiled`: then no two free
blocks touch (`Parted`), so all that is left is one block (`OneBlock`), the first.  Every operation keeps
`Parted` (`Stays`; `PartedBut` while a block is being joined), but for a `place` within a block in use
whose remainder has a free block behind it; for the other calls of `place`, `Fenced` says that the
block behind is in use.  `Owns` ties the blocks in use to the ids of the client,
and `Settling` shows that what is returned is accepted and filled.  What a call promises is
named (`Served`, `Found`, `Placed`, `GrewBy`), so that the proofs above use the name and not
the formula.

`TinyProofs` proves the safety of `tiny`, for any clients and requests, any files, any sizes
of the reader's buffer, of a line (above two bytes), of a segment and of what the sockets hold, and however a
client that is not polite stops, ends or resets:

| theorem | says |
|---|---|
| `Invariance` | `Spec => []IInv` |
| `StopsAtBlankLineHolds` | the headers end at the first blank line, in whatever pieces they came |
| `DeliveredHolds` | a polite client gets its response in order and once, and all of it if it sees the end |

`LineOK` is about the request: what `rio` holds is what follows the bytes used, `usrbuf` is the
request from `start` on, a line may start at `start` (`LineStarts`: behind a newline, or full
buffers behind one), and no headers have ended up to there.  `LineOf` is the step from
one line to the next: a line is returned at its newline or when its buffer is full, so a `CR LF` at
another place than behind the line's start or behind whole buffers would put two line starts less than a
buffer apart (`OneStart`, `Multiples`).  Stating this corrected the property, which excepted only
a line that splits once.  `SentOK` is about the response: what the client has read, what is in
its reader's buffer, what is on its way, and what the server owes it (`Owed`: the buffers of
`rio_writen` that are left and the file or the CGI output behind them) are the response, in this order.
A short write moves bytes from the third part to the second (`WrittenIs`, `FlattenHead`), a refill and a read from
there to the first (`Refilled`, `AllTaken`).  `ConnsOK` says that connections in the backlog are untouched and
`EofOK` that a client sees the end only when nothing is left.

`Y86Proofs` proves that the two processors implement the instruction set, for words and memories of any
size (up to the assumptions of `Isa`), any limit on instructions and any programs.  The one hypothesis of the
first theorem is that each program's bytes are loaded in memory (`ProgramsLoad`), of the others that each program is
`Comparable` (section 3); nothing is assumed of its length, its jumps or its hazards.

| theorem | says |
|---|---|
| `NeverStalledAndBubbled` | `Spec => []NoConflict`: no pipe register is asked for a stall and a bubble at once, and the types of both processors |
| `SeqImplements` | `Spec => SeqImplementsIsa`: a `sim_step` of SEQ is one step of `step_state` |
| `PipeImplements` | `Spec => PipeImplementsIsa`: a cycle of PIPE is one step of `step_state` or changes nothing a program sees |
| `SimulatorsAgree` | `Spec => []RunsAgree`: in the end registers, memory, condition codes and status are those of `step_state`, and PIPE has retired each instruction once and lost exactly the cycles of its hazards |

The instruction set and the processors are different programs: `step_state` is a switch over
instruction codes, a processor is a set of signals.  `IsaBySignals` closes that gap once for both: the state
after an instruction is what the signals write (`NextPC`, `NextR`, `NextM`, `NextCC`), with a case per
instruction code (`EffectBySignals`).  `Run` is the run of the program by `step_state`, `Run[n]` what it has
come to after `n` instructions; that the recursion defines such a function is itself proved
(`StepsExist`, by a minimal counterexample).  SEQ stands at `Run[icount]`
(`SeqFollows`), which is all its refinement needs.

PIPE holds up to five instructions, of which it may have fetched some in error.  The
inductive invariant `InPipe(q, f, N, n, c)` describes the registers `q` behind the `c`-th clock edge as a window on
the run `f` of `N` instructions: `n` of them are through write-back or in it, and each stage further back that holds no
bubble holds the next one of the run (`AtE`, `AtD`, `AtF`).  Its parts are

- `HoldsW` to `HoldsF`: what each stage holds is what its instruction computes in its state of the run (`Written`,
  `SameM`, `SameE`, `Ins`), unless the instruction is behind the last one of the run, or behind a branch that is going to be
  missed (`Astray`), where nothing is said of it;
- `Data`: the register file is behind the run by the instruction in W, the condition codes are ahead of
  it by the one in M;
- `Shape`: why a stage is empty.  Only bubbles follow a `ret` or a missed branch, and D is empty for no other reason;
- `Timing`: each instruction is in its stage in the cycle that `Leaves` foretells, which counts the bubbles of
  the run so far.  This is what makes the CPI exact, and what keeps PIPE off the limit (`CyclesBounded`).

`Flow` is what the proof needs of a run, so that from there on it speaks of `f` and `N` and no more of the
specification.  `EdgeKeeps` shows that a clock edge keeps the window, in one lemma per question: the
values forwarded are those of the run (`ForwardsRight`, by `RegistersAhead`, which gives the register file behind each
of the three instructions ahead); an instruction waits for a load exactly when the run says so (`WaitsForLoad`);
what is fetched is the next instruction, by the prediction, by the branch in M or by the return address in W (`FetchesRight`,
`FetchResumes`, `Predicts`); bubbles and cycles come out right (`TurnShape`, `TurnTiming`).  `StandsFor` shows that
`PipeView` maps a window to `Run[n].s`, `StepIsTurn` that the limit changes nothing, so a cycle
takes `n` to `n` or to `n + 1` (`PipeStepFollows`).

Proving this corrected the model twice.  `f_pc` and `Forward`, where the first of several conditions
decides in the HCL, were `CASE`s, which may take any guard that holds; TLC takes the first, so no run could tell.  And
`Comparable` was about too little: it allowed an ALU operand that names no register, which PIPE may forward
something to, and `POP2`, which `psim.c` does not count (psim.c:732).

Some theorems state what no run checks by name: `TypeCorrect` (of `Sbuf` and of `Tsh`) and `SlotsTheorem` are
conjuncts of `IInv`, `IInvHolds` of the cache and the proxy and `Invariance` of the allocator and of `tiny` are what the others follow
from, `NoBadRange` is about a test of `mdriver`, and the theorems about puzzles are cases of `AnswersExact`.

Model-checked only: the liveness properties (`EnqueueReturns`, `ItemsDelivered`,
`PromptServed`, `WaitfgReturns`, `Answered`), which are out of the prover's reach, what
`yas` writes (`CodeRoundTrips`), the misses of the transpose (`MissTarget`), and the
answers of all thirteen puzzles together and the windows of `btest` (`AnswersExact`, `WindowsMissFaults`).
`MissTarget` is about three sizes on one cache and their exact numbers of misses, which only
simulating them gives; `CodeRoundTrips` needs an induction over the lines of a source, and the float
puzzles go case by case over exponents.  `Yas`, `Btest` and a transpose of `Cachelab` are deterministic given
their input, so TLC has tried all there is for that input.

## 6. Where the code and its documents disagree

Two runs end in a violation:

- `tsh_reap`: the handler calls `waitpid` once per `SIGCHLD` and two may
  coalesce: a second zombie stays, and `waitfg` waits for ever if it was the
  foreground job (tsh.c:392 says it reaps all available zombies).
- `mm_realloc`: the payload is copied to the start of the free block found and
  `place` then allocates at an offset in it, so the data is lost (mm.c:267-269;
  mdriver.c:657 is the message of the check that fails).

The rest was met while modelling.  Where a property would fail for it, the
property names the exception or the instance leaves the case out; the way to see
it is in parentheses.

Proxy and tiny

- A hit's buffer can be evicted and freed by another worker's `lru_put` before it
  is sent (proxy.c:129; `ServedOrigin` excepts it; without the exception a hit, an
  insertion and a send violate it, while driver.sh:385 expects the origin's file).
- The Host header the proxy adds lacks its line end, so the request is never
  terminated and the worker waits for ever (proxy.c:317; `Scenarios` with a
  request without a Host header violate `PromptServed`).
- When the client resets within its headers `doit` returns without closing the
  connection to the origin (proxy.c:152; `ProcessReset`, `lostFds`).
- Past `INT_MAX` enqueues `front` and `rear` are negative, and so is the remainder
  that indexes `buf` (sbuf.c:23; `Slot`).
- `tiny` spins when a client ends its request within the headers: at the end of
  the stream `rio_readlineb` returns 0 and leaves the buffer as it was (tiny.c:108).
  It waits for ever in `write`, or for a CGI program that does, when a client does not
  read (csapp.c:782, tiny.c:214).  It exits when a client resets, when the file is empty (`Mmap` of length 0) or has
  gone since `stat`: the wrappers of `csapp.c` end the process.  A header line
  whose `CR LF` comes behind exactly `MAXLINE - 1` bytes, or a multiple, ends the
  headers early (`HeaderEnds`).

Shell

- A null pointer is dereferenced when a background job ends before it is reported
  (tsh.c:209; `Report`), and when the `SIGCHLD` handler finds no child or a child without a
  job and takes it for killed or stopped (tsh.c:403; `ChldDelete`, `ChldStop`).  The model then
  stands still in `up = "crashed"`: no property says that this does not happen.
- The shell exits when ctrl-c meets a child that is not yet, or no longer, a
  process group (tsh.c:427; `KeyKill`).
- `nextjid` wraps although the first job may still exist (tsh.c:498).

Allocator

- A request of up to 8 bytes gets a block of 24, where a free block needs 32: when
  it is freed, the links of its list overwrite its footer (mm.c:151; `Sizes = {1, 5}`
  violates `Tiled`).  The default traces contain such requests
  (random-bal.rep:568).
- `mm_init` does not reset `LAST_FREE_BP` (mm.c:96).  If a trace leaves blocks
  when the heap is reset (mdriver.c:588), or has made one smaller with `mm_realloc`,
  even if it frees everything afterwards (mm.c:212 does not join the remainder with the
  free block behind it), the pointer may name a block beyond the new heap, and
  `extend_heap` (mm.c:321) writes there (`Reset`, `stale`; `Tiled` says that only
  these traces do it; if it were `WellFormed /\ ~stale`, TLC would find a trace that leaves a
  block and, with `Reset` only when all are freed, one that has made a block smaller).  The
  default traces free all they allocate and make no block smaller; the original
  ones, given with `-f`, leave blocks.
- A reallocation that fails has freed the block (mm.c:260-264).
- The driver's `add_range` asks whether the ends of a payload lie in a known one
  and so misses a payload that encloses another (mdriver.c:406).

Y86-64

- Forwarding compares register IDs and does not exclude `RNONE`: an operand
  without a base register behind an instruction without a destination takes that
  one's ALU result (pipe-full.hcl:244).  Such programs are not `Comparable`.
- `push`, `pop` and `call` of `step_state` move `%rsp` before the access that is
  refused (isa.c:900); the processors do not.
- PIPE checks the last byte it might fetch, `valp + 5`, so an instruction at the
  end of memory is an address error to PIPE only (psim.c:1403).
- `gen_Stat` maps a bubble to `SAOK`, so `sim_run_pipe` counts cycles as
  instructions, and `instr_limit` cuts PIPE short earlier than SEQ.
- `pos + 8` overflows for an address within eight bytes of the largest word, which
  then passes the check of `get_word_val` and `set_word_val` (isa.c:314, 336);
  `WordOK` refuses it.
- `yas` writes past its token array on a line of many tokens (yas.c:450), and past its
  symbol table at the 1001st label.

Cache lab and data lab

- `csim -s 0` shifts a 64-bit address by 64, which is undefined (csim.c:247).
- The 64*64 transpose writes `B[64]` to `B[67]`, outside the array (trans.c:48);
  the buffers of `tracegen` are large enough.
- Three float puzzles are wrong where `btest` does not look: `floatScale2` turns
  the largest finite exponent into a NaN, `floatFloat2Int` halves integers of
  2^24 and more, `floatPower2` sets a bit nine places too high in the denormalized range.  `AnswersExact`
  says that they are wrong on exactly the numbers of `Faulty`, `WindowsMissFaults`
  that the windows miss them all.

- An alarm is not cancelled when its puzzle returns: going off in the next
  call it jumps to a frame that is gone and costs that puzzle its points
  (btest.c:350; `AlarmSet`).

`PROJECT.json` quotes the lines of the two findings, and lists every hazard.

## 7. Not modelled, and why

- `sbuf_destroy` and `lru_destroy` are never called; of `csapp.c` only the
  wrappers that the proxy and `tiny` call are modelled, most by their effect on
  an error (the process ends), `rio` and `open_clientfd` step by step.
- `Tsh` leaves out parsing, the built-in `jobs` and printing, which change no
  shared state.
- Leaked memory is not counted: `uri` and `resp` are freed only through the cache,
  which is evident from the code.  An origin that closes early cannot be told from
  one that has finished (HTTP/1.0, and the proxy reads no Content-length), so
  `CachedIsOrigin` allows a fragment for the keys of `CutKeys`.
- `mdriver`'s utilisation, timing and trace parsing; the timing packages:
  measurements, with no state to be right about.
- The simulators' graphical interface and reports, the generated scanners and
  parsers of `yas` and the HCL compilers, and the Verilog output: the models start
  from tokens, and take the control logic itself.
- The exercise variants of SEQ and PIPE: starting points that lack a part of
  the instruction set on purpose.
- The child processes and scores of the cache lab's harness; options of the data
  lab's that only choose puzzles.
- Programs, binaries without source and the container: nothing to model.

## 8. Plan

Done: every program of the repository that keeps state or has an algorithm of its
own has a module and a run; the whole safety of the proxy (buffer, cache, workers)
and of the shell, the allocator, `tiny` and the two processors is proved, the cache lab
but for its numbers of misses, and the integer puzzles.  Still worth doing, in this order:

1. proofs: the float puzzles of `bits.c`, `CodeRoundTrips` of `Y86`;
2. an abstract specification of the allocator, a set of disjoint payloads, with
   `Mm` as its implementation;
3. `Proxy` composed with `Tiny` through `Rio`;
4. the variants of PIPE as parameters of `Hcl` and `Pipe`.
