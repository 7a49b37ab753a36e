----------------------------- MODULE TshProofs -----------------------------
(***************************************************************************)
(* Proofs about Tsh, for any processes and any size of the job table.      *)
(***************************************************************************)
EXTENDS Tsh, WellFoundedInduction, TLAPS

----------------------------------------------------------------------------
(* Least and largest numbers *)

\* A set of numbers that is not empty has a least element.
LEMMA Least ==
  ASSUME NEW S \in SUBSET Nat, S # {}
  PROVE  \E m \in S : \A n \in S : m <= n
<1> DEFINE R == OpToRel(<, Nat)
<1>1. IsWellFoundedOn(R, Nat)
  BY NatLessThanWellFounded
<1>2. PICK m \in S : \A n \in S : <<n, m>> \notin R
  <2> HIDE DEF R
  <2> QED BY <1>1, WFMin
<1>3. \A n \in S : ~(n < m)
  <2> TAKE n \in S
  <2>1. n \in Nat /\ m \in Nat
    OBVIOUS
  <2>2. n < m => <<n, m>> \in R
    BY <2>1 DEF OpToRel
  <2> QED BY <1>2, <2>2
<1> QED BY <1>3

\* The first of some slots is one of them.
LEMMA FirstIn ==
  ASSUME NEW S \in SUBSET Slots, S # {}
  PROVE  First(S) \in S
<1>1. S \in SUBSET Nat
  BY TshAssumption DEF Slots
<1> QED BY <1>1, Least DEF First

\* Finitely many numbers have a bound.
LEMMA Bounded ==
  ASSUME NEW f, NEW k \in Nat, \A i \in 1 .. k : f[i] \in Nat
  PROVE  \E u \in Nat : \A i \in 1 .. k : f[i] <= u
<1> DEFINE Bad == {n \in 0 .. k : ~ \E u \in Nat : \A i \in 1 .. n : f[i] <= u}
<1>1. SUFFICES ASSUME k \in Bad PROVE FALSE
  <2>1. k \in 0 .. k
    OBVIOUS
  <2> QED BY <2>1, Zenon
<1>2. PICK n \in Bad : \A j \in Bad : n <= j
  <2>1. Bad \in SUBSET Nat
    OBVIOUS
  <2> HIDE DEF Bad
  <2> QED BY <1>1, <2>1, Least
<1>3. n \in 0 .. k /\ n # 0
  OBVIOUS
<1>4. n-1 \in 0 .. k /\ n-1 \notin Bad
  <2>1. n-1 \in 0 .. k /\ ~(n <= n-1)
    BY <1>3
  <2> HIDE DEF Bad
  <2> QED BY <1>2, <2>1
<1>5. PICK u \in Nat : \A i \in 1 .. n-1 : f[i] <= u
  BY <1>4
<1>6. f[n] \in Nat
  BY <1>3
<1>7. \A i \in 1 .. n : f[i] <= (IF f[n] <= u THEN u ELSE f[n])
  <2> TAKE i \in 1 .. n
  <2>1. CASE i = n
    BY <2>1, <1>6
  <2>2. CASE i # n
    <3>1. i \in 1 .. n-1 /\ f[i] \in Nat
      BY <2>2, <1>3
    <3>2. f[i] <= u
      BY <3>1, <1>5
    <3> QED BY <3>1, <3>2, <1>6
  <2> QED BY <2>1, <2>2
<1>8. (IF f[n] <= u THEN u ELSE f[n]) \in Nat
  BY <1>6
<1>9. \E v \in Nat : \A i \in 1 .. n : f[i] <= v
  BY <1>7, <1>8
<1> QED BY <1>9

\* maxjid is the largest job ID of a table.
LEMMA LargestJid ==
  ASSUME NEW t, \A i \in Slots : t[i].jid \in Nat
  PROVE  maxjid(t) \in Nat
<1> DEFINE J == {t[i].jid : i \in Slots}
           U == {u \in Nat : \A i \in Slots : t[i].jid <= u}
           f == [i \in Slots |-> t[i].jid]
<1>1. MaxJobs \in Nat /\ 1 \in Slots /\ Slots = 1 .. MaxJobs
  BY TshAssumption DEF Slots
<1>2. U # {}
  <2>1. \A i \in 1 .. MaxJobs : f[i] \in Nat
    BY <1>1
  <2>2. PICK u \in Nat : \A i \in 1 .. MaxJobs : f[i] <= u
    <3> HIDE DEF f
    <3> QED BY <2>1, <1>1, Bounded
  <2>3. u \in U
    BY <2>2, <1>1
  <2> QED BY <2>3
<1>3. PICK u \in U : \A v \in U : u <= v
  <2>1. U \in SUBSET Nat
    OBVIOUS
  <2> HIDE DEF U
  <2> QED BY <1>2, <2>1, Least
<1>4. \E i \in Slots : t[i].jid = u
  <2>1. SUFFICES ASSUME \A i \in Slots : t[i].jid # u PROVE FALSE
    OBVIOUS
  <2>2. u \in Nat /\ \A i \in Slots : t[i].jid < u
    BY <1>3, <2>1
  <2>3. u # 0
    BY <2>2, <1>1
  <2>4. u - 1 \in U
    BY <2>2, <2>3
  <2> QED BY <1>3, <2>2, <2>4
<1>5. \E n \in J : \A i \in Slots : t[i].jid <= n
  BY <1>3, <1>4
<1>6. maxjid(t) \in J
  BY <1>5 DEF maxjid
<1> QED BY <1>6

----------------------------------------------------------------------------
(* The stack of handlers *)

\* A handler is entered ...
LEMMA Pushed ==
  ASSUME NEW S, NEW s \in Seq(S), NEW x \in S
  PROVE  /\ Append(s, x) \in Seq(S)
         /\ Range(Append(s, x)) = Range(s) \cup {x}
<1> DEFINE t == Append(s, x)
<1>1. /\ t \in Seq(S) /\ DOMAIN t = 1 .. Len(s) + 1 /\ DOMAIN s = 1 .. Len(s)
      /\ Len(s) \in Nat
      /\ \A i \in 1 .. Len(s) : t[i] = s[i]
      /\ t[Len(s) + 1] = x
  OBVIOUS
<1> HIDE DEF t
<1>2. \A i \in DOMAIN t : i \in DOMAIN s \/ i = Len(s) + 1
  BY <1>1
<1>3. \A i \in DOMAIN s : i \in DOMAIN t
  BY <1>1
<1>4. Len(s) + 1 \in DOMAIN t
  BY <1>1
<1>5. Range(t) = Range(s) \cup {x}
  BY <1>1, <1>2, <1>3, <1>4 DEF Range
<1> QED BY <1>1, <1>5 DEF t

\* ... and the one last entered returns.
LEMMA Popped ==
  ASSUME NEW S, NEW s \in Seq(S), s # <<>>
  PROVE  /\ Front(s) \in Seq(S) /\ Last(s) \in S
         /\ Range(s) = Range(Front(s)) \cup {Last(s)}
<1> DEFINE t == Front(s)
           x == Last(s)
<1>1. Len(s) \in Nat \ {0} /\ DOMAIN s = 1 .. Len(s)
  OBVIOUS
<1>2. /\ t \in Seq(S) /\ DOMAIN t = 1 .. Len(s) - 1
      /\ \A i \in 1 .. Len(s) - 1 : t[i] = s[i]
  BY <1>1 DEF Front
<1>3. x = s[Len(s)] /\ x \in S
  BY <1>1 DEF Last
<1> HIDE DEF t, x
<1>4. \A i \in DOMAIN s : i \in DOMAIN t \/ i = Len(s)
  BY <1>1, <1>2
<1>5. \A i \in DOMAIN t : i \in DOMAIN s
  BY <1>1, <1>2
<1>6. Len(s) \in DOMAIN s
  BY <1>1
<1>7. Range(s) = Range(t) \cup {x}
  BY <1>2, <1>3, <1>4, <1>5, <1>6 DEF Range
<1> QED BY <1>2, <1>3, <1>7 DEF t, x

----------------------------------------------------------------------------
(* The job table *)

\* addjob changes nothing, or puts the process in a free slot.
LEMMA Added ==
  ASSUME TypeOK, NEW p \in Pids \cup {NoPid}, NEW st \in States, addjob(p, st)
  PROVE  /\ jobs' \in [Slots -> [pid : Pids \cup {NoPid}, jid : Nat, state : States]]
         /\ nextjid' \in Nat \ {0} /\ refused' \subseteq Pids
         /\ refused \subseteq refused'
         /\ p = NoPid => jobs' = jobs
         /\ p # NoPid =>
              \/ jobs' = jobs /\ p \in refused'
              \/ \E k \in Slots :
                   /\ jobs[k].pid = NoPid
                   /\ jobs'[k].pid = p /\ jobs'[k].state = st
                   /\ \A i \in Slots \ {k} : jobs'[i] = jobs[i]
<1> DEFINE free == {i \in Slots : jobs[i].pid = NoPid}
<1>1. CASE p = NoPid
  BY <1>1 DEF addjob, tableVars, TypeOK
<1>2. CASE p # NoPid /\ free = {}
  BY <1>2 DEF addjob, TypeOK
<1>3. CASE p # NoPid /\ free # {}
  <2>1. PICK k : k = First(free)
    OBVIOUS
  <2>2. k \in free
    <3> HIDE DEF free
    <3>1. free \in SUBSET Slots
      BY DEF free
    <3> QED BY <3>1, <2>1, <1>3, FirstIn
  <2>3. /\ jobs' = [jobs EXCEPT ![k] = [pid |-> p, jid |-> nextjid, state |-> st]]
        /\ nextjid' = IF nextjid + 1 > MaxJobs THEN 1 ELSE nextjid + 1
        /\ refused' = refused
    BY <1>3, <2>1 DEF addjob
  <2>4. nextjid' \in Nat \ {0}
    BY <2>3, TshAssumption DEF TypeOK
  <2>5. jobs' \in [Slots -> [pid : Pids \cup {NoPid}, jid : Nat, state : States]]
    BY <2>2, <2>3 DEF TypeOK
  <2>6. /\ jobs'[k].pid = p /\ jobs'[k].state = st
        /\ \A i \in Slots \ {k} : jobs'[i] = jobs[i]
    BY <2>2, <2>3 DEF TypeOK
  <2> QED BY <1>3, <2>2, <2>3, <2>4, <2>5, <2>6 DEF TypeOK
<1> QED BY <1>1, <1>2, <1>3

\* deletejob changes nothing, or frees a slot of the process.
LEMMA Deleted ==
  ASSUME TypeOK, NEW p \in Pids \cup {NoPid}, deletejob(p)
  PROVE  /\ jobs' \in [Slots -> [pid : Pids \cup {NoPid}, jid : Nat, state : States]]
         /\ nextjid' \in Nat \ {0} /\ refused' = refused
         /\ \/ SlotsOf(p) = {} /\ jobs' = jobs
            \/ \E k \in SlotsOf(p) :
                 /\ jobs'[k] = Cleared
                 /\ \A i \in Slots \ {k} : jobs'[i] = jobs[i]
<1>1. CASE SlotsOf(p) = {}
  BY <1>1 DEF deletejob, TypeOK
<1>2. CASE SlotsOf(p) # {}
  <2>1. PICK k : k = First(SlotsOf(p))
    OBVIOUS
  <2>2. k \in SlotsOf(p) /\ k \in Slots
    <3>1. SlotsOf(p) \in SUBSET Slots
      BY DEF SlotsOf
    <3> QED BY <3>1, <2>1, <1>2, FirstIn
  <2>3. /\ jobs' = [jobs EXCEPT ![k] = Cleared]
        /\ nextjid' = maxjid(jobs') + 1
        /\ refused' = refused
    BY <1>2, <2>1 DEF deletejob
  <2>4. Cleared \in [pid : Pids \cup {NoPid}, jid : Nat, state : States]
    BY DEF Cleared, States
  <2>5. jobs' \in [Slots -> [pid : Pids \cup {NoPid}, jid : Nat, state : States]]
    BY <2>2, <2>3, <2>4 DEF TypeOK
  <2>6. maxjid(jobs') \in Nat
    <3>1. \A i \in Slots : jobs'[i].jid \in Nat
      BY <2>5
    <3> QED BY <3>1, LargestJid
  <2>7. jobs'[k] = Cleared /\ \A i \in Slots \ {k} : jobs'[i] = jobs[i]
    BY <2>2, <2>3 DEF TypeOK
  <2> QED BY <2>2, <2>3, <2>5, <2>6, <2>7
<1> QED BY <1>1, <1>2
----------------------------------------------------------------------------
(* What each action does to the stack of handlers *)

\* The stack holds handlers' frames; none while the main flow runs.
LEMMA StackType ==
  TypeOK => OnStack \subseteq Frames /\ (stack = <<>> => OnStack = {})
<1>1. TypeOK => stack \in Seq(Frames)
  BY DEF TypeOK
<1>2. stack \in Seq(Frames) => \A i \in DOMAIN stack : stack[i] \in Frames
  OBVIOUS
<1> QED BY <1>1, <1>2 DEF OnStack, Range

\* The handler that runs is on it.
LEMMA StackTop == ASSUME TypeOK, stack # <<>> PROVE Top \in OnStack
<1>1. stack \in Seq(Frames)
  BY DEF TypeOK
<1> QED BY <1>1, Popped DEF OnStack, Top

\* A handler is entered ...
LEMMA Entered ==
  ASSUME TypeOK, NEW f \in Frames, stack' = Append(stack, f)
  PROVE  stack' \in Seq(Frames) /\ OnStack' = OnStack \cup {f}
BY Pushed DEF TypeOK, OnStack

\* ... or returns ...
LEMMA Returned ==
  ASSUME TypeOK, stack # <<>>, Return
  PROVE  /\ stack' \in Seq(Frames) /\ Top \in Frames /\ Top \in OnStack
         /\ OnStack' \subseteq OnStack /\ OnStack \subseteq OnStack' \cup {Top}
<1>1. stack \in Seq(Frames)
  BY DEF TypeOK
<1>2. stack' = Front(stack)
  BY DEF Return
<1> QED BY <1>1, <1>2, Popped DEF OnStack, Top

\* ... or goes on with what waitpid told it.
LEMMA Updated ==
  ASSUME TypeOK, stack # <<>>, NEW f \in Frames, stack' = Append(Front(stack), f)
  PROVE  /\ stack' \in Seq(Frames) /\ f \in OnStack' /\ Top \in OnStack
         /\ OnStack' \subseteq OnStack \cup {f} /\ OnStack \subseteq OnStack' \cup {Top}
<1>1. stack \in Seq(Frames)
  BY DEF TypeOK
<1>2. /\ Front(stack) \in Seq(Frames)
      /\ Range(stack) = Range(Front(stack)) \cup {Last(stack)}
  BY <1>1, Popped
<1>3. stack' \in Seq(Frames) /\ Range(stack') = Range(Front(stack)) \cup {f}
  BY <1>2, Pushed
<1> QED BY <1>2, <1>3 DEF OnStack, Top

\* fgpid returns a process or none.
LEMMA FgpidType == TypeOK => fgpid \in Pids \cup {NoPid}
<1> DEFINE fg == {i \in Slots : jobs[i].state = "FG"}
<1> SUFFICES ASSUME TypeOK, fg # {} PROVE jobs[First(fg)].pid \in Pids \cup {NoPid}
  BY DEF fgpid
<1>1. First(fg) \in Slots
  <2>1. fg \in SUBSET Slots
    OBVIOUS
  <2> HIDE DEF fg
  <2> QED BY <2>1, FirstIn
<1> QED BY <1>1 DEF TypeOK

\* A handler entered has not called waitpid yet; SIGCHLD's was not masked.
LEMMA EnterStack ==
  ASSUME TypeOK, ChldEnter \/ \E sig \in Keyboard : KeyEnter(sig)
  PROVE  /\ stack' \in Seq(Frames) /\ OnStack \subseteq OnStack'
         /\ \A f \in OnStack' \ OnStack : f.how = "entered" /\ (f.sig = "chld" => ~blocked)
<1>1. CASE ChldEnter
  <2> DEFINE f == Frame("chld", NoPid, "entered")
  <2>1. f \in Frames /\ f.how = "entered" /\ ~blocked
    BY <1>1 DEF Frames, Frame, ChldEnter
  <2>2. stack' \in Seq(Frames) /\ OnStack' = OnStack \cup {f}
    <3>1. stack' = Append(stack, f)
      BY <1>1 DEF ChldEnter
    <3> HIDE DEF f
    <3> QED BY <2>1, <3>1, Entered
  <2> QED BY <2>1, <2>2
<1>2. ASSUME NEW sig \in Keyboard, KeyEnter(sig)
      PROVE  /\ stack' \in Seq(Frames) /\ OnStack \subseteq OnStack'
             /\ \A f \in OnStack' \ OnStack :
                  f.how = "entered" /\ (f.sig = "chld" => ~blocked)
  <2> DEFINE f == Frame(sig, fgpid, "entered")
  <2>1. f \in Frames /\ f.how = "entered" /\ f.sig # "chld"
    BY FgpidType, TshAssumption DEF Frames, Frame
  <2>2. stack' \in Seq(Frames) /\ OnStack' = OnStack \cup {f}
    <3>1. stack' = Append(stack, f)
      BY <1>2 DEF KeyEnter
    <3> HIDE DEF f
    <3> QED BY <2>1, <3>1, Entered
  <2> QED BY <2>1, <2>2
<1> QED BY <1>1, <1>2

\* A handler that returns is the last one entered.
LEMMA ReturnStack ==
  ASSUME TypeOK, ChldNothing \/ ChldDelete \/ ChldStop \/ KeyKill
  PROVE  /\ stack' \in Seq(Frames) /\ Top \in Frames /\ Top \in OnStack
         /\ OnStack' \subseteq OnStack /\ OnStack \subseteq OnStack' \cup {Top}
<1>1. stack # <<>> /\ Return
  BY DEF ChldNothing, ChldDelete, ChldStop, KeyKill, AtWaitpid, AtUpdate
<1> QED BY <1>1, Returned

\* waitpid tells the handler of a child, or that there is none.
LEMMA WaitpidStack ==
  ASSUME TypeOK, NEW p \in Pids, ChldWaitpid(p)
  PROVE  /\ stack' \in Seq(Frames) /\ Frame("chld", p, kid[p]) \in OnStack'
         /\ OnStack' \subseteq OnStack \cup {Frame("chld", p, kid[p])}
         /\ OnStack \subseteq OnStack' \cup {Top}
         /\ Top \in OnStack /\ Top.sig = "chld" /\ Top.how = "entered"
<1> DEFINE f == Frame("chld", p, kid[p])
<1>1. f \in Frames
  BY DEF Frames, Frame, ChldWaitpid, Waitable, Zombie
<1>2. /\ stack # <<>> /\ stack' = Append(Front(stack), f)
      /\ Top.sig = "chld" /\ Top.how = "entered"
  BY DEF ChldWaitpid, AtWaitpid
<1> HIDE DEF f
<1>3. /\ stack' \in Seq(Frames) /\ f \in OnStack' /\ Top \in OnStack
      /\ OnStack' \subseteq OnStack \cup {f} /\ OnStack \subseteq OnStack' \cup {Top}
  BY <1>1, <1>2, Updated
<1> QED BY <1>2, <1>3 DEF f

LEMMA NoChildStack ==
  ASSUME TypeOK, ChldNoChild
  PROVE  /\ stack' \in Seq(Frames)
         /\ \A f \in OnStack' \ OnStack : f.pid = NoPid
         /\ OnStack \subseteq OnStack' \cup {Top}
         /\ Top \in OnStack /\ Top.sig = "chld" /\ Top.how = "entered"
<1>1. stack # <<>> /\ Top.sig = "chld" /\ Top.how = "entered"
  BY DEF ChldNoChild, AtWaitpid
<1>2. CASE Return
  BY <1>1, <1>2, Returned
<1>3. ASSUME NEW how \in {"exited", "killed", "stopped"},
             stack' = Append(Front(stack), Frame("chld", NoPid, how))
      PROVE  /\ stack' \in Seq(Frames)
             /\ \A f \in OnStack' \ OnStack : f.pid = NoPid
             /\ OnStack \subseteq OnStack' \cup {Top} /\ Top \in OnStack
  <2> DEFINE f == Frame("chld", NoPid, how)
  <2>1. f \in Frames /\ f.pid = NoPid
    BY DEF Frames, Frame, Zombie
  <2>2. stack' = Append(Front(stack), f)
    BY <1>3
  <2> HIDE DEF f
  <2>3. /\ stack' \in Seq(Frames) /\ OnStack' \subseteq OnStack \cup {f}
        /\ OnStack \subseteq OnStack' \cup {Top} /\ Top \in OnStack
    BY <1>1, <2>1, <2>2, Updated
  <2> QED BY <2>1, <2>3
<1> QED BY <1>1, <1>2, <1>3 DEF ChldNoChild

----------------------------------------------------------------------------
(* What each action does to the job table *)

\* The main flow adds at most one job, the child's; it adds it unless the table
\* is full.
LEMMA JobAdded ==
  ASSUME TypeOK, AddJob
  PROVE  /\ refused \subseteq refused'
         /\ \A i \in Slots :
              \/ jobs'[i] = jobs[i]
              \/ /\ jobs[i].pid = NoPid /\ pid # NoPid /\ jobs'[i].pid = pid
                 /\ jobs'[i].state = "FG" => ~bg
         /\ \A i, j \in Slots : jobs'[i] # jobs[i] /\ jobs'[j] # jobs[j] => i = j
         /\ pid \in Pids \ refused' => \E k \in Slots : jobs'[k].pid = pid
<1>1. PICK st \in States : addjob(pid, st) /\ (st = "FG" => ~bg)
  BY DEF AddJob, States, TypeOK
<1>2. pid \in Pids \cup {NoPid}
  BY DEF TypeOK
<1>3. /\ refused \subseteq refused'
      /\ pid = NoPid => jobs' = jobs
      /\ pid # NoPid =>
           \/ jobs' = jobs /\ pid \in refused'
           \/ \E k \in Slots :
                /\ jobs[k].pid = NoPid
                /\ jobs'[k].pid = pid /\ jobs'[k].state = st
                /\ \A i \in Slots \ {k} : jobs'[i] = jobs[i]
  BY <1>1, <1>2, Added
<1>4. CASE jobs' = jobs
  BY <1>3, <1>4, TshAssumption
<1>5. CASE jobs' # jobs
  <2>1. pid # NoPid
    BY <1>3, <1>5
  <2>2. PICK k \in Slots : /\ jobs[k].pid = NoPid
                           /\ jobs'[k].pid = pid /\ jobs'[k].state = st
                           /\ \A i \in Slots \ {k} : jobs'[i] = jobs[i]
    BY <1>3, <1>5, <2>1
  <2> QED BY <1>1, <1>3, <2>1, <2>2
<1> QED BY <1>4, <1>5

\* A handler frees slots of its child only, and all of them if they are one.
LEMMA JobDeleted ==
  ASSUME TypeOK, ChldDelete
  PROVE  /\ jobs' \in [Slots -> [pid : Pids \cup {NoPid}, jid : Nat, state : States]]
         /\ nextjid' \in Nat \ {0} /\ refused' = refused
         /\ \A i \in Slots :
              \/ jobs'[i] = jobs[i]
              \/ jobs'[i].pid = NoPid /\ jobs[i].pid = Top.pid
         /\ OneJob => \A i \in Slots : jobs'[i].pid = Top.pid => Top.pid = NoPid
<1>1. CASE Top.how = "killed" /\ SlotsOf(Top.pid) = {}
  BY <1>1 DEF ChldDelete, tableVars, TypeOK, SlotsOf
<1>2. CASE ~(Top.how = "killed" /\ SlotsOf(Top.pid) = {})
  <2>1. Top.pid \in Pids \cup {NoPid}
    BY ReturnStack DEF Frames
  <2>2. deletejob(Top.pid)
    BY <1>2 DEF ChldDelete
  <2>3. /\ jobs' \in [Slots -> [pid : Pids \cup {NoPid}, jid : Nat, state : States]]
        /\ nextjid' \in Nat \ {0} /\ refused' = refused
        /\ \/ SlotsOf(Top.pid) = {} /\ jobs' = jobs
           \/ \E k \in SlotsOf(Top.pid) :
                /\ jobs'[k] = Cleared
                /\ \A i \in Slots \ {k} : jobs'[i] = jobs[i]
    BY <2>1, <2>2, Deleted
  <2>4. CASE SlotsOf(Top.pid) = {} /\ jobs' = jobs
    BY <2>3, <2>4 DEF SlotsOf
  <2>5. ASSUME NEW k \in SlotsOf(Top.pid), jobs'[k] = Cleared,
               \A i \in Slots \ {k} : jobs'[i] = jobs[i]
        PROVE  /\ \A i \in Slots :
                    \/ jobs'[i] = jobs[i]
                    \/ jobs'[i].pid = NoPid /\ jobs[i].pid = Top.pid
               /\ OneJob => \A i \in Slots : jobs'[i].pid = Top.pid => Top.pid = NoPid
    BY <2>5 DEF SlotsOf, Cleared, OneJob, Live
  <2> QED BY <2>3, <2>4, <2>5
<1> QED BY <1>1, <1>2

\* A handler stops slots of its child only, and all of them if they are one.
LEMMA JobStopped ==
  ASSUME TypeOK, ChldStop
  PROVE  /\ jobs' \in [Slots -> [pid : Pids \cup {NoPid}, jid : Nat, state : States]]
         /\ \A i \in Slots :
              /\ jobs'[i].pid = jobs[i].pid
              /\ jobs'[i].state \in {jobs[i].state, "ST"}
         /\ OneJob => \A i \in Slots :
              Live(i) /\ jobs[i].pid = Top.pid => jobs'[i].state = "ST"
<1>1. CASE SlotsOf(Top.pid) = {}
  BY <1>1 DEF ChldStop, SlotsOf, Live, TypeOK
<1>2. CASE SlotsOf(Top.pid) # {}
  <2>1. PICK k : k = First(SlotsOf(Top.pid))
    OBVIOUS
  <2>2. SlotsOf(Top.pid) \in SUBSET Slots
    BY DEF SlotsOf
  <2>3. k \in SlotsOf(Top.pid)
    BY <1>2, <2>1, <2>2, FirstIn
  <2>4. k \in Slots /\ jobs[k].pid = Top.pid /\ Top.pid # NoPid
    BY <2>3 DEF SlotsOf
  <2>5. jobs' = [jobs EXCEPT ![k].state = "ST"]
    BY <1>2, <2>1 DEF ChldStop
  <2>6. /\ jobs' \in [Slots -> [pid : Pids \cup {NoPid}, jid : Nat, state : States]]
        /\ \A i \in Slots : jobs'[i].pid = jobs[i].pid
        /\ jobs'[k].state = "ST" /\ \A i \in Slots \ {k} : jobs'[i] = jobs[i]
    BY <2>4, <2>5 DEF TypeOK, States
  <2> QED BY <2>4, <2>6 DEF OneJob, Live
<1> QED BY <1>1, <1>2

\* There is a first slot.
LEMMA OneSlot == 1 \in Slots
BY TshAssumption DEF Slots

\* Every step keeps the types.
LEMMA TypeNext ==
  ASSUME TypeOK, [Next]_vars
  PROVE  TypeOK'
<1> USE DEF TypeOK, Resume, Becomes, Alive, Zombie, Goto, Done, Locals, tableVars,
            kidVars, sigVars, mainVars
<1>1. CASE UNCHANGED <<up, jobs, nextjid, refused, kid, told, pending, blocked,
                      stack, pc, bg, pid, slot>>
  BY <1>1
<1>2. CASE Block
  BY <1>2 DEF Block
<1>3. ASSUME NEW p \in Pids, Fork(p) PROVE TypeOK'
  BY <1>3 DEF Fork
<1>4. CASE ForkFails
  BY <1>4 DEF ForkFails
<1>5. CASE AddJob
  BY <1>5, Added DEF AddJob, States
<1>6. CASE Unblock
  BY <1>6 DEF Unblock
<1>7. CASE Report
  BY <1>7, OneSlot DEF Report
<1>8. CASE Waitfg
  BY <1>8, OneSlot DEF Waitfg
<1>9. ASSUME NEW i \in Slots, FindJob(i) PROVE TypeOK'
  BY <1>9 DEF FindJob
<1>10. CASE MarkJob
  BY <1>10 DEF MarkJob, States
<1>11. CASE LoadPid
  BY <1>11 DEF LoadPid
<1>12. CASE ContinueJob
  BY <1>12, OneSlot DEF ContinueJob
<1>13. CASE ChldEnter
  BY <1>13, EnterStack DEF ChldEnter
<1>14. ASSUME NEW p \in Pids, ChldWaitpid(p) PROVE TypeOK'
  BY <1>14, WaitpidStack DEF ChldWaitpid
<1>15. CASE ChldNothing
  BY <1>15, ReturnStack DEF ChldNothing
<1>16. CASE ChldNoChild
  BY <1>16, NoChildStack DEF ChldNoChild
<1>17. CASE ChldDelete
  BY <1>17, ReturnStack, JobDeleted DEF ChldDelete
<1>18. CASE ChldStop
  BY <1>18, ReturnStack, JobStopped DEF ChldStop
<1>19. CASE KeyKill
  BY <1>19, ReturnStack DEF KeyKill
<1>20. CASE Quit
  BY <1>20 DEF Quit
<1>21. ASSUME NEW sig \in Keyboard, KeyEnter(sig) PROVE TypeOK'
  BY <1>21, EnterStack DEF KeyEnter
<1>22. ASSUME NEW p \in Pids, ChildStarts(p) PROVE TypeOK'
  BY <1>22 DEF ChildStarts
<1>23. ASSUME NEW p \in Pids, ChildChanges(p) PROVE TypeOK'
  BY <1>23 DEF ChildChanges
<1> QED
  BY <1>1, <1>2, <1>3, <1>4, <1>5, <1>6, <1>7, <1>8, <1>9, <1>10, <1>11, <1>12,
     <1>13, <1>14, <1>15, <1>16, <1>17, <1>18, <1>19, <1>20, <1>21, <1>22, <1>23
  DEF Next, Eval, Handle, vars

\* SIGCHLD is blocked from before the fork until the job is added, and no handler
\* of it is entered meanwhile.
LEMMA MaskedNext ==
  ASSUME TypeOK, Masked, [Next]_vars
  PROVE  Masked'
<1> USE DEF Masked, Running, Goto, Done, Locals, tableVars, kidVars, sigVars,
            mainVars
<1>1. CASE UNCHANGED <<pc, blocked, stack>>
  BY <1>1 DEF OnStack
<1>2. CASE Block
  BY <1>2, StackType DEF Block, OnStack
<1>3. ASSUME NEW p \in Pids, Fork(p) PROVE Masked'
  BY <1>3 DEF Fork, OnStack
<1>4. CASE ForkFails
  BY <1>4 DEF ForkFails, OnStack
<1>5. CASE AddJob
  BY <1>5 DEF AddJob, OnStack
<1>6. CASE Unblock
  BY <1>6 DEF Unblock, OnStack
<1>7. CASE Report
  BY <1>7 DEF Report, OnStack
<1>8. CASE Waitfg
  BY <1>8 DEF Waitfg, OnStack
<1>9. ASSUME NEW i \in Slots, FindJob(i) PROVE Masked'
  BY <1>9 DEF FindJob, OnStack
<1>10. CASE MarkJob
  BY <1>10 DEF MarkJob, OnStack
<1>11. CASE LoadPid
  BY <1>11 DEF LoadPid, OnStack
<1>12. CASE ContinueJob
  <2>1. pc' \in {"prompt", "wait"} /\ blocked' = blocked /\ OnStack' = OnStack
    BY <1>12 DEF ContinueJob, OnStack
  <2> QED BY <2>1
<1>13. CASE ChldEnter
  BY <1>13, EnterStack DEF ChldEnter
<1>14. ASSUME NEW p \in Pids, ChldWaitpid(p) PROVE Masked'
  BY <1>14, WaitpidStack DEF ChldWaitpid, Frame
<1>15. CASE ChldNothing
  BY <1>15, ReturnStack DEF ChldNothing
<1>16. CASE ChldNoChild
  BY <1>16, NoChildStack DEF ChldNoChild
<1>17. CASE ChldDelete
  BY <1>17, ReturnStack DEF ChldDelete
<1>18. CASE ChldStop
  BY <1>18, ReturnStack DEF ChldStop
<1>19. CASE KeyKill
  BY <1>19, ReturnStack DEF KeyKill
<1>20. ASSUME NEW sig \in Keyboard, KeyEnter(sig) PROVE Masked'
  BY <1>20, EnterStack DEF KeyEnter
<1> QED
  BY <1>1, <1>2, <1>3, <1>4, <1>5, <1>6, <1>7, <1>8, <1>9, <1>10, <1>11, <1>12,
     <1>13, <1>14, <1>15, <1>16, <1>17, <1>18, <1>19, <1>20
  DEF Next, Eval, Handle, vars, Quit, ChildStarts, ChildChanges

\* A child whose stop was reported stays stopped until it is forgotten.
LEMMA ToldNext ==
  ASSUME TypeOK, ToldStopped, [Next]_vars
  PROVE  ToldStopped'
<1> USE DEF TypeOK, ToldStopped, Resume, Becomes, Goto, Done, Locals, tableVars,
            kidVars, sigVars, mainVars
<1>1. CASE UNCHANGED <<kid, told>>
  BY <1>1
<1>2. ASSUME NEW p \in Pids, Fork(p) PROVE ToldStopped'
  BY <1>2 DEF Fork
<1>3. CASE ContinueJob
  BY <1>3 DEF ContinueJob
<1>4. ASSUME NEW p \in Pids, ChldWaitpid(p) PROVE ToldStopped'
  BY <1>4 DEF ChldWaitpid
<1>5. ASSUME NEW p \in Pids, ChildStarts(p) PROVE ToldStopped'
  BY <1>5 DEF ChildStarts
<1>6. ASSUME NEW p \in Pids, ChildChanges(p) PROVE ToldStopped'
  BY <1>6 DEF ChildChanges
<1> QED
  BY <1>1, <1>2, <1>3, <1>4, <1>5, <1>6
  DEF Next, Eval, Handle, vars, Block, ForkFails, AddJob, Unblock, Report, Waitfg,
      FindJob, MarkJob, LoadPid, ChldEnter, ChldNothing, ChldNoChild, ChldDelete,
      ChldStop, KeyKill, Quit, KeyEnter

\* A child whose end was reported stays reaped.
LEMMA FramesNext ==
  ASSUME TypeOK, FramesReaped, [Next]_vars
  PROVE  FramesReaped'
<1> USE DEF TypeOK, FramesReaped, Resume, Becomes, Alive, Zombie, Goto, Done,
            Locals, tableVars, kidVars, sigVars, mainVars
<1>1. CASE UNCHANGED <<kid, stack>>
  BY <1>1 DEF OnStack
<1>2. ASSUME NEW p \in Pids, Fork(p) PROVE FramesReaped'
  BY <1>2, StackType DEF Fork, OnStack, Frames
<1>3. CASE ContinueJob
  BY <1>3, StackType DEF ContinueJob, OnStack, Frames
<1>4. CASE ChldEnter
  BY <1>4, EnterStack DEF ChldEnter
<1>5. ASSUME NEW p \in Pids, ChldWaitpid(p) PROVE FramesReaped'
  BY <1>5, WaitpidStack, StackType DEF ChldWaitpid, Frame, Frames
<1>6. CASE ChldNothing
  BY <1>6, ReturnStack DEF ChldNothing
<1>7. CASE ChldNoChild
  BY <1>7, NoChildStack DEF ChldNoChild
<1>8. CASE ChldDelete
  BY <1>8, ReturnStack DEF ChldDelete
<1>9. CASE ChldStop
  BY <1>9, ReturnStack DEF ChldStop
<1>10. CASE KeyKill
  BY <1>10, ReturnStack DEF KeyKill
<1>11. ASSUME NEW sig \in Keyboard, KeyEnter(sig) PROVE FramesReaped'
  BY <1>11, EnterStack DEF KeyEnter
<1>12. ASSUME NEW p \in Pids, ChildStarts(p) PROVE FramesReaped'
  BY <1>12, StackType DEF ChildStarts, OnStack, Frames
<1>13. ASSUME NEW p \in Pids, ChildChanges(p) PROVE FramesReaped'
  BY <1>13, StackType DEF ChildChanges, OnStack, Frames
<1> QED
  BY <1>1, <1>2, <1>3, <1>4, <1>5, <1>6, <1>7, <1>8, <1>9, <1>10, <1>11, <1>12,
     <1>13
  DEF Next, Eval, Handle, vars, Block, ForkFails, AddJob, Unblock, Report, Waitfg,
      FindJob, MarkJob, LoadPid, Quit

\* The job in the foreground is the one the main flow is dealing with.
LEMMA ForegroundNext ==
  ASSUME TypeOK, SlotKept, OneForeground, [Next]_vars
  PROVE  SlotKept' /\ OneForeground'
<1> USE DEF TypeOK, SlotKept, OneForeground, Live, SlotsOf, Goto, Done, Locals,
            tableVars, kidVars, sigVars, mainVars
<1>1. CASE UNCHANGED <<jobs, pc, bg, pid, slot>>
  BY <1>1
<1>2. CASE Block
  BY <1>2 DEF Block
<1>3. ASSUME NEW p \in Pids, Fork(p) PROVE SlotKept' /\ OneForeground'
  BY <1>3 DEF Fork
<1>4. CASE ForkFails
  BY <1>4 DEF ForkFails
<1>5. CASE AddJob
  BY <1>5, JobAdded DEF AddJob
<1>6. CASE Unblock
  BY <1>6 DEF Unblock
<1>7. CASE Report
  BY <1>7 DEF Report
<1>8. CASE Waitfg
  BY <1>8 DEF Waitfg
<1>9. ASSUME NEW i \in Slots, FindJob(i) PROVE SlotKept' /\ OneForeground'
  BY <1>9 DEF FindJob
<1>10. CASE MarkJob
  BY <1>10 DEF MarkJob
<1>11. CASE LoadPid
  BY <1>11 DEF LoadPid
<1>12. CASE ContinueJob
  BY <1>12 DEF ContinueJob
<1>13. CASE ChldDelete
  BY <1>13, JobDeleted DEF ChldDelete
<1>14. CASE ChldStop
  BY <1>14, JobStopped DEF ChldStop
<1> QED
  BY <1>1, <1>2, <1>3, <1>4, <1>5, <1>6, <1>7, <1>8, <1>9, <1>10, <1>11, <1>12,
     <1>13, <1>14
  DEF Next, Eval, Handle, vars, ChldEnter, ChldWaitpid, ChldNothing, ChldNoChild,
      KeyKill, Quit, KeyEnter, ChildStarts, ChildChanges

\* The SIGCHLD handler does not run while SIGCHLD is blocked.
LEMMA Unmasked ==
  ASSUME TypeOK, Masked,
         (\E p \in Pids : ChldWaitpid(p)) \/ ChldNoChild \/ ChldDelete \/ ChldStop
  PROVE  pc \notin {"fork", "add", "unblock"}
<1>1. stack # <<>> /\ Top.sig = "chld"
  BY DEF ChldWaitpid, ChldNoChild, ChldDelete, ChldStop, AtWaitpid, AtUpdate
<1>2. Top \in OnStack
  BY <1>1, StackTop
<1> QED BY <1>1, <1>2 DEF Masked, Running

\* While SIGCHLD is blocked, the child to add stays unreaped and without a job.
LEMMA AddingNext ==
  ASSUME TypeOK, Masked, Adding, JobsAreChildren, ToldStopped, FramesReaped, [Next]_vars
  PROVE  Adding'
<1> USE DEF TypeOK, Adding, Live, SlotsOf, Alive, Zombie, Goto, Done, Locals,
            tableVars, kidVars, sigVars, mainVars
<1>1. CASE UNCHANGED <<pc, pid, jobs, kid, told>>
  BY <1>1
<1>2. CASE Block
  BY <1>2 DEF Block
<1>3. ASSUME NEW p \in Pids, Fork(p) PROVE Adding'
  BY <1>3, StackType DEF Fork, JobsAreChildren, ToldStopped, FramesReaped, Updating, Frame
<1>4. CASE ForkFails
  BY <1>4 DEF ForkFails
<1>5. CASE AddJob
  BY <1>5 DEF AddJob
<1>6. CASE Unblock
  BY <1>6 DEF Unblock
<1>7. CASE Report
  BY <1>7 DEF Report
<1>8. CASE Waitfg
  BY <1>8 DEF Waitfg
<1>9. ASSUME NEW i \in Slots, FindJob(i) PROVE Adding'
  BY <1>9 DEF FindJob
<1>10. CASE MarkJob
  BY <1>10 DEF MarkJob
<1>11. CASE LoadPid
  BY <1>11 DEF LoadPid
<1>12. CASE ContinueJob
  BY <1>12 DEF ContinueJob, Resume
<1>13. ASSUME NEW p \in Pids, ChldWaitpid(p) PROVE Adding'
  BY <1>13, Unmasked DEF ChldWaitpid
<1>14. CASE ChldDelete
  BY <1>14, Unmasked DEF ChldDelete
<1>15. CASE ChldStop
  BY <1>15, Unmasked DEF ChldStop
<1>16. ASSUME NEW p \in Pids, ChildStarts(p) PROVE Adding'
  BY <1>16 DEF ChildStarts, Becomes
<1>17. ASSUME NEW p \in Pids, ChildChanges(p) PROVE Adding'
  BY <1>17 DEF ChildChanges, Becomes
<1> QED
  BY <1>1, <1>2, <1>3, <1>4, <1>5, <1>6, <1>7, <1>8, <1>9, <1>10, <1>11, <1>12,
     <1>13, <1>14, <1>15, <1>16, <1>17
  DEF Next, Eval, Handle, vars, ChldEnter, ChldNothing, ChldNoChild, KeyKill, Quit,
      KeyEnter

\* No process gets a second job.
LEMMA OneJobNext ==
  ASSUME TypeOK, Adding, OneJob, [Next]_vars
  PROVE  OneJob'
<1> USE DEF TypeOK, OneJob, Live, SlotsOf, Goto, Done, Locals, tableVars, kidVars,
            sigVars, mainVars
<1>1. CASE UNCHANGED <<jobs>>
  BY <1>1
<1>2. CASE AddJob
  BY <1>2, JobAdded DEF AddJob, Adding
<1>3. CASE MarkJob
  BY <1>3 DEF MarkJob
<1>4. CASE ChldDelete
  BY <1>4, JobDeleted DEF ChldDelete
<1>5. CASE ChldStop
  BY <1>5, JobStopped DEF ChldStop
<1> QED
  BY <1>1, <1>2, <1>3, <1>4, <1>5
  DEF Next, Eval, Handle, vars, Block, Fork, ForkFails, Unblock, Report, Waitfg,
      FindJob, LoadPid, ContinueJob, ChldEnter, ChldWaitpid, ChldNothing,
      ChldNoChild, KeyKill, Quit, KeyEnter, ChildStarts, ChildChanges

\* A job's child stays unreaped, or the handler that reaped it is yet to delete the job.
LEMMA JobsNext ==
  ASSUME TypeOK, Masked, Adding, OneJob, JobsAreChildren, [Next]_vars
  PROVE  JobsAreChildren'
<1> USE DEF TypeOK, JobsAreChildren, Updating, Live, Alive, Zombie, Goto, Done,
            Locals, tableVars, kidVars, sigVars, mainVars
<1>1. CASE UNCHANGED <<jobs, kid, stack>>
  BY <1>1 DEF OnStack
<1>2. ASSUME NEW p \in Pids, Fork(p) PROVE JobsAreChildren'
  BY <1>2 DEF Fork, OnStack
<1>3. CASE AddJob
  BY <1>3, JobAdded DEF AddJob, Adding, OnStack
<1>4. CASE MarkJob
  BY <1>4 DEF MarkJob, OnStack
<1>5. CASE ContinueJob
  BY <1>5 DEF ContinueJob, Resume, OnStack
<1>6. CASE ChldEnter
  BY <1>6, EnterStack DEF ChldEnter
<1>7. ASSUME NEW p \in Pids, ChldWaitpid(p) PROVE JobsAreChildren'
  BY <1>7, WaitpidStack DEF ChldWaitpid, Waitable, Frame
<1>8. CASE ChldNothing
  BY <1>8, ReturnStack DEF ChldNothing, AtWaitpid, Frame
<1>9. CASE ChldNoChild
  BY <1>9, NoChildStack DEF ChldNoChild, Frame
<1>10. CASE ChldDelete
  <2>1. UNCHANGED kid /\ OnStack \subseteq OnStack' \cup {Top}
    BY <1>10, ReturnStack DEF ChldDelete
  <2>2. \A p \in Pids, how \in Zombie : p # Top.pid /\ Updating(p, how) => Updating(p, how)'
    BY <2>1 DEF Frame
  <2>3. \A i \in Slots : Live(i)' => jobs'[i] = jobs[i] /\ jobs[i].pid # Top.pid
    BY <1>10, JobDeleted
  <2> QED BY <2>1, <2>2, <2>3
<1>11. CASE ChldStop
  <2>1. UNCHANGED kid /\ OnStack \subseteq OnStack' \cup {Top} /\ Top.how = "stopped"
    BY <1>11, ReturnStack DEF ChldStop
  <2>2. \A p \in Pids, how \in Zombie : Updating(p, how) => Updating(p, how)'
    BY <2>1 DEF Frame
  <2>3. \A i \in Slots : jobs'[i].pid = jobs[i].pid
    BY <1>11, JobStopped
  <2> QED BY <2>1, <2>2, <2>3
<1>12. CASE KeyKill
  BY <1>12, ReturnStack, TshAssumption DEF KeyKill, Frame
<1>13. ASSUME NEW sig \in Keyboard, KeyEnter(sig) PROVE JobsAreChildren'
  BY <1>13, EnterStack DEF KeyEnter
<1>14. ASSUME NEW p \in Pids, ChildStarts(p) PROVE JobsAreChildren'
  BY <1>14 DEF ChildStarts, Becomes, OnStack
<1>15. ASSUME NEW p \in Pids, ChildChanges(p) PROVE JobsAreChildren'
  BY <1>15 DEF ChildChanges, Becomes, OnStack
<1> QED
  BY <1>1, <1>2, <1>3, <1>4, <1>5, <1>6, <1>7, <1>8, <1>9, <1>10, <1>11, <1>12,
     <1>13, <1>14, <1>15
  DEF Next, Eval, Handle, vars, Block, ForkFails, Unblock, Report, Waitfg, FindJob,
      LoadPid, Quit

\* An unreaped child keeps its job: only the handler that reaped it deletes it.
LEMMA ChildrenNext ==
  ASSUME TypeOK, Masked, OneJob, FramesReaped, ChildrenHaveJobs, [Next]_vars
  PROVE  ChildrenHaveJobs'
<1> USE DEF TypeOK, ChildrenHaveJobs, SlotsOf, Alive, Zombie, Goto, Done, Locals,
            tableVars, kidVars, sigVars, mainVars
<1>1. CASE UNCHANGED <<jobs, refused, kid, pc, pid>>
  BY <1>1
<1>2. CASE Block
  BY <1>2 DEF Block
<1>3. ASSUME NEW p \in Pids, Fork(p) PROVE ChildrenHaveJobs'
  BY <1>3 DEF Fork
<1>4. CASE ForkFails
  BY <1>4 DEF ForkFails
<1>5. CASE AddJob
  <2>1. /\ UNCHANGED <<kid, pid>> /\ pc = "add" /\ refused \subseteq refused'
        /\ \A i \in Slots : jobs[i].pid # NoPid => jobs'[i] = jobs[i]
        /\ pid \in Pids \ refused' => \E k \in Slots : jobs'[k].pid = pid
    BY <1>5, JobAdded DEF AddJob
  <2>2. SUFFICES ASSUME NEW p \in Pids \ refused', kid[p] \in Alive \cup Zombie
                 PROVE  \E k \in Slots : jobs'[k].pid = p
    BY <2>1, TshAssumption
  <2>3. CASE p = pid
    BY <2>1, <2>3
  <2>4. CASE p # pid
    <3>1. PICK i \in Slots : jobs[i].pid = p
      BY <2>1, <2>2, <2>4
    <3> QED BY <2>1, <3>1, TshAssumption
  <2> QED BY <2>3, <2>4
<1>6. CASE Unblock
  BY <1>6 DEF Unblock
<1>7. CASE Report
  BY <1>7 DEF Report
<1>8. CASE Waitfg
  BY <1>8 DEF Waitfg
<1>9. ASSUME NEW i \in Slots, FindJob(i) PROVE ChildrenHaveJobs'
  BY <1>9 DEF FindJob
<1>10. CASE MarkJob
  BY <1>10 DEF MarkJob
<1>11. CASE LoadPid
  BY <1>11 DEF LoadPid
<1>12. CASE ContinueJob
  BY <1>12 DEF ContinueJob, Resume
<1>13. ASSUME NEW p \in Pids, ChldWaitpid(p) PROVE ChildrenHaveJobs'
  BY <1>13, Unmasked DEF ChldWaitpid, Waitable
<1>14. CASE ChldDelete
  <2>1. /\ UNCHANGED <<kid, pid, pc, refused>> /\ pc # "add"
        /\ \A i \in Slots : jobs'[i] = jobs[i] \/ jobs[i].pid = Top.pid
    BY <1>14, JobDeleted, Unmasked DEF ChldDelete
  <2>2. Top.pid \in Pids => kid[Top.pid] = "reaped"
    BY <1>14, ReturnStack, TshAssumption DEF ChldDelete, FramesReaped
  <2>3. SUFFICES ASSUME NEW p \in Pids \ refused, kid[p] \in Alive \cup Zombie
                 PROVE  \E k \in Slots : jobs'[k].pid = p
    BY <2>1, TshAssumption
  <2>4. PICK i \in Slots : jobs[i].pid = p
    BY <2>1, <2>3
  <2> QED BY <2>1, <2>2, <2>3, <2>4
<1>15. CASE ChldStop
  BY <1>15, JobStopped, Unmasked DEF ChldStop
<1>16. ASSUME NEW p \in Pids, ChildStarts(p) PROVE ChildrenHaveJobs'
  BY <1>16 DEF ChildStarts, Becomes
<1>17. ASSUME NEW p \in Pids, ChildChanges(p) PROVE ChildrenHaveJobs'
  BY <1>17 DEF ChildChanges, Becomes
<1> QED
  BY <1>1, <1>2, <1>3, <1>4, <1>5, <1>6, <1>7, <1>8, <1>9, <1>10, <1>11, <1>12,
     <1>13, <1>14, <1>15, <1>16, <1>17
  DEF Next, Eval, Handle, vars, ChldEnter, ChldNothing, ChldNoChild, KeyKill, Quit,
      KeyEnter

\* A stop that was reported stays on the table until the child goes on.
LEMMA StopsNext ==
  ASSUME TypeOK, Adding, SlotKept, ToldStopped, OneJob, ReportedStops, [Next]_vars
  PROVE  ReportedStops'
<1> USE DEF TypeOK, ReportedStops, Updating, Live, Zombie, Goto, Done, Locals,
            tableVars, kidVars, sigVars, mainVars
<1>1. CASE UNCHANGED <<jobs, kid, told, stack, pc, slot>>
  BY <1>1 DEF OnStack
<1>2. CASE Block
  BY <1>2 DEF Block, OnStack
<1>3. ASSUME NEW p \in Pids, Fork(p) PROVE ReportedStops'
  BY <1>3 DEF Fork, OnStack
<1>4. CASE ForkFails
  BY <1>4 DEF ForkFails, OnStack
<1>5. CASE AddJob
  BY <1>5, JobAdded DEF AddJob, Adding, OnStack
<1>6. CASE Unblock
  BY <1>6 DEF Unblock, OnStack
<1>7. CASE Report
  BY <1>7 DEF Report, OnStack
<1>8. CASE Waitfg
  BY <1>8 DEF Waitfg, OnStack
<1>9. ASSUME NEW i \in Slots, FindJob(i) PROVE ReportedStops'
  BY <1>9 DEF FindJob, OnStack
<1>10. CASE MarkJob
  BY <1>10 DEF MarkJob, OnStack
<1>11. CASE LoadPid
  BY <1>11 DEF LoadPid, OnStack
<1>12. CASE ContinueJob
  BY <1>12 DEF ContinueJob, Resume, OnStack, SlotKept, GroupExists
<1>13. CASE ChldEnter
  BY <1>13, EnterStack DEF ChldEnter
<1>14. ASSUME NEW p \in Pids, ChldWaitpid(p) PROVE ReportedStops'
  <2>1. /\ UNCHANGED <<jobs, pc, slot>>
        /\ kid[p] = "stopped" => kid' = kid /\ told' = told \cup {p}
        /\ kid[p] # "stopped" => kid' = [kid EXCEPT ![p] = "reaped"] /\ told' = told
    BY <1>14 DEF ChldWaitpid
  <2>2. kid[p] = "stopped" => Updating(p, "stopped")'
    BY WaitpidStack, <1>14
  <2>3. OnStack \subseteq OnStack' \cup {Top} /\ Top.how = "entered"
    BY WaitpidStack, <1>14
  <2>4. \A q \in Pids : Updating(q, "stopped") => Updating(q, "stopped")'
    BY <2>3 DEF Frame
  <2> QED BY <2>1, <2>2, <2>4
<1>15. CASE ChldNothing
  BY <1>15, ReturnStack DEF ChldNothing, AtWaitpid, Frame
<1>16. CASE ChldNoChild
  BY <1>16, NoChildStack DEF ChldNoChild, Frame
<1>17. CASE ChldDelete
  BY <1>17, ReturnStack, JobDeleted DEF ChldDelete, Frame
<1>18. CASE ChldStop
  BY <1>18, ReturnStack, JobStopped DEF ChldStop, AtUpdate, Frame
<1>19. CASE KeyKill
  BY <1>19, ReturnStack, TshAssumption DEF KeyKill, Frame
<1>20. ASSUME NEW sig \in Keyboard, KeyEnter(sig) PROVE ReportedStops'
  BY <1>20, EnterStack DEF KeyEnter
<1>21. ASSUME NEW p \in Pids, ChildStarts(p) PROVE ReportedStops'
  BY <1>21 DEF ChildStarts, Becomes, OnStack
<1>22. ASSUME NEW p \in Pids, ChildChanges(p) PROVE ReportedStops'
  BY <1>22 DEF ChildChanges, Becomes, OnStack
<1> QED
  BY <1>1, <1>2, <1>3, <1>4, <1>5, <1>6, <1>7, <1>8, <1>9, <1>10, <1>11, <1>12,
     <1>13, <1>14, <1>15, <1>16, <1>17, <1>18, <1>19, <1>20, <1>21, <1>22
  DEF Next, Eval, Handle, vars, Quit

----------------------------------------------------------------------------
(* The theorems *)

\* The shell starts in the invariant: there is no job, no child, no handler.
LEMMA InitIInv == Init => IInv
<1> SUFFICES ASSUME Init PROVE IInv
  OBVIOUS
<1>1. OnStack = {}
  BY DEF Init, OnStack, Range
<1>2. TypeOK
  <2>1. stack \in Seq(Frames)
    BY DEF Init
  <2>2. Cleared \in [pid : Pids \cup {NoPid}, jid : Nat, state : States]
    BY DEF Cleared, States
  <2>3. jobs \in [Slots -> [pid : Pids \cup {NoPid}, jid : Nat, state : States]]
    BY <2>2 DEF Init
  <2>4. kid \in [Pids -> {"unborn", "reaped"} \cup Alive \cup Zombie]
    BY DEF Init
  <2>5. /\ up \in {"up", "exited", "crashed"} /\ nextjid \in Nat \ {0}
        /\ refused \subseteq Pids /\ told \subseteq Pids
        /\ pc = "prompt" /\ pid = NoPid /\ slot \in Slots
    BY OneSlot DEF Init
  <2>6. pending \in BOOLEAN /\ blocked \in BOOLEAN /\ bg \in BOOLEAN
    BY DEF Init
  <2> QED BY <2>1, <2>3, <2>4, <2>5, <2>6 DEF TypeOK
<1> QED
  BY <1>1, <1>2, TshAssumption
  DEF Init, IInv, Masked, Adding, SlotKept, ToldStopped, FramesReaped, OneForeground,
      TableIsChildren, OneJob, JobsAreChildren, ChildrenHaveJobs, ReportedStops,
      Live, Cleared, Running, Alive, Zombie, Slots, SlotsOf

\* Whatever the shell, its handlers and its children do next, it holds again.
LEMMA NextIInv == IInv /\ [Next]_vars => IInv'
BY TypeNext, MaskedNext, AddingNext, ToldNext, FramesNext, ForegroundNext, OneJobNext,
   JobsNext, ChildrenNext, StopsNext
DEF IInv, TableIsChildren

\* The inductive invariant holds: however the signals, the children's ends and
\* stops and the steps of eval, do_bgfg and waitfg interleave.
THEOREM InductiveInvariant == Spec => []IInv
<1>1. Init => IInv
  BY InitIInv
<1>2. IInv /\ [Next]_vars => IInv'
  BY NextIInv
<1> QED BY <1>1, <1>2, PTL DEF Spec

\* Type correctness.
THEOREM TypeCorrect == Spec => []TypeOK
<1>1. IInv => TypeOK
  BY DEF IInv
<1> QED BY <1>1, InductiveInvariant, PTL

\* There is at most one foreground job, and only while eval or do_bgfg is about
\* to wait for it.
THEOREM Foreground == Spec => []OneForeground
<1>1. IInv => OneForeground
  BY DEF IInv
<1> QED BY <1>1, InductiveInvariant, PTL

\* The job table and the children agree: no child is added after the handler
\* has deleted it, none is lost, and no process has two jobs.
THEOREM TableCorrect == Spec => []TableIsChildren
<1>1. IInv => TableIsChildren
  BY DEF IInv
<1> QED BY <1>1, InductiveInvariant, PTL

\* A stop that waitpid has reported is on the table until the child goes on.
THEOREM StopsCorrect == Spec => []ReportedStops
<1>1. IInv => ReportedStops
  BY DEF IInv
<1> QED BY <1>1, InductiveInvariant, PTL
=============================================================================
