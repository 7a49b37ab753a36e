-------------------------------- MODULE Tsh --------------------------------
(***************************************************************************)
(* The job control of shlab-handout/tsh.c: eval, do_bgfg and waitfg on the *)
(* shell's only thread, the handlers of SIGCHLD, SIGINT and SIGTSTP that   *)
(* interrupt it, the job table they share, and the children.               *)
(*                                                                         *)
(* A handler can run between any two steps of the main flow and, as        *)
(* Signal() leaves sa_mask empty, of a handler of another signal.  A child *)
(* may stop, be continued, exit or be killed at any time: what a forwarded *)
(* SIGINT or SIGTSTP does to it is one of those.  SIGCHLD is one pending   *)
(* bit.                                                                    *)
(***************************************************************************)
EXTENDS Integers, Sequences, FiniteSets, SequencesExt

CONSTANTS
  Pids,      \* the process ids fork returns
  NoPid,     \* 0: the pid of a free slot, of no process
  MaxJobs,   \* MAXJOBS
  Keyboard   \* the keyboard signals typed: a subset of {"int", "tstp"}

ASSUME TshAssumption ==
  /\ NoPid \notin Pids
  /\ MaxJobs \in Nat \ {0}
  /\ Keyboard \subseteq {"int", "tstp"}

VARIABLES
  up,        \* "up", "exited" (unix_error), or "crashed" (a null pointer)
  jobs,      \* the job table
  nextjid,   \* the next job ID to allocate
  refused,   \* the children addjob found no slot for
  kid,       \* what each child does
  told,      \* the stopped children whose stop waitpid has reported
  pending,   \* SIGCHLD is pending
  blocked,   \* SIGCHLD is blocked
  stack,     \* the handlers on the stack, the running one last
  pc,        \* where the main flow is
  bg,        \* the command is for the background
  pid,       \* its pid: of the fork, or loaded from the job
  slot       \* the job that do_bgfg found

tableVars == <<jobs, nextjid, refused>>
kidVars == <<kid, told>>
sigVars == <<pending, blocked, stack>>
mainVars == <<pc, bg, pid, slot>>
vars == <<up, tableVars, kidVars, sigVars, mainVars>>

Slots == 1 .. MaxJobs
States == {"UNDEF", "FG", "BG", "ST"}

\* A child before setpgid, before execve (with the shell's handlers), running
\* its program, stopped, a zombie after exit or after a signal, reaped.
Alive == {"forked", "grouped", "running", "stopped"}
Zombie == {"exited", "killed"}

----------------------------------------------------------------------------
(* The job table *)

Cleared == [pid |-> NoPid, jid |-> 0, state |-> "UNDEF"]

\* initjobs, main before its first prompt
Init ==
  /\ up = "up"
  /\ jobs = [i \in Slots |-> Cleared]
  /\ nextjid = 1 /\ refused = {}
  /\ kid = [p \in Pids |-> "unborn"] /\ told = {}
  /\ pending = FALSE /\ blocked = FALSE /\ stack = <<>>
  /\ pc = "prompt" /\ bg = FALSE /\ pid = NoPid /\ slot = 1

First(S) == CHOOSE i \in S : \A j \in S : i <= j

\* getjobpid: the slots of a process, none for pid < 1.
SlotsOf(p) == {i \in Slots : jobs[i].pid = p /\ p # NoPid}

maxjid(t) == CHOOSE n \in {t[i].jid : i \in Slots} : \A i \in Slots : t[i].jid <= n

addjob(p, state) ==
  LET free == {i \in Slots : jobs[i].pid = NoPid} IN
  IF p = NoPid THEN UNCHANGED tableVars
  ELSE IF free = {} THEN refused' = refused \cup {p} /\ UNCHANGED <<jobs, nextjid>>
  ELSE /\ jobs' = [jobs EXCEPT ![First(free)] =
                     [pid |-> p, jid |-> nextjid, state |-> state]]
       /\ nextjid' = IF nextjid + 1 > MaxJobs THEN 1 ELSE nextjid + 1
       /\ UNCHANGED refused

deletejob(p) ==
  /\ IF SlotsOf(p) = {} THEN UNCHANGED <<jobs, nextjid>>
     ELSE /\ jobs' = [jobs EXCEPT ![First(SlotsOf(p))] = Cleared]
          /\ nextjid' = maxjid(jobs') + 1
  /\ UNCHANGED refused

\* fgpid: the pid in the first slot whose state is FG, even if it is NoPid.
fgpid ==
  LET fg == {i \in Slots : jobs[i].state = "FG"}
  IN  IF fg = {} THEN NoPid ELSE jobs[First(fg)].pid

----------------------------------------------------------------------------
(* The main flow: it runs while no handler does *)

Goto(from, to) == up = "up" /\ stack = <<>> /\ pc = from /\ pc' = to

\* The command is done, and its locals are gone.
Locals == <<bg, pid, slot>>
Done == bg' = FALSE /\ pid' = NoPid /\ slot' = 1

\* Mutant: SIGCHLD is not blocked.
BlockDropped ==
  /\ Goto("prompt", "fork")
  /\ bg' \in BOOLEAN
  /\ UNCHANGED <<up, tableVars, kidVars, sigVars, pid, slot>>

\* A command that is not built in: sigprocmask(SIG_BLOCK).  The other signals
\* in the uninitialized mask_child may be deferred as well: they come later.
Block ==
  /\ Goto("prompt", "fork")
  /\ bg' \in BOOLEAN
  /\ blocked' = TRUE
  /\ UNCHANGED <<up, tableVars, kidVars, pending, stack, pid, slot>>

\* Mutant: SIGCHLD is unblocked before the job is added.
ForkUnblocked(p) ==
  /\ Goto("fork", "add")
  /\ kid[p] = "unborn"
  /\ kid' = [kid EXCEPT ![p] = "forked"]
  /\ pid' = p
  /\ blocked' = FALSE
  /\ UNCHANGED <<up, tableVars, told, pending, stack, bg, slot>>

Fork(p) ==
  /\ Goto("fork", "add")
  /\ kid[p] = "unborn"
  /\ kid' = [kid EXCEPT ![p] = "forked"]
  /\ pid' = p
  /\ UNCHANGED <<up, tableVars, told, sigVars, bg, slot>>

\* fork returns -1, which eval takes for the pid of a child.
ForkFails ==
  /\ Goto("fork", "add")
  /\ pid' = NoPid
  /\ UNCHANGED <<up, tableVars, kidVars, sigVars, bg, slot>>

AddJob ==
  /\ Goto("add", "unblock")
  /\ addjob(pid, IF bg THEN "BG" ELSE "FG")
  /\ UNCHANGED <<up, kidVars, sigVars, bg, pid, slot>>

\* Mutant: SIGCHLD stays blocked while the shell waits.
UnblockBgOnly ==
  /\ Goto("unblock", IF bg THEN "report" ELSE "wait")
  /\ blocked' = ~bg
  /\ UNCHANGED <<up, tableVars, kidVars, pending, stack, bg, pid, slot>>

Unblock ==
  /\ Goto("unblock", IF bg THEN "report" ELSE "wait")
  /\ blocked' = FALSE
  /\ UNCHANGED <<up, tableVars, kidVars, pending, stack, bg, pid, slot>>

\* The job is looked up again to be reported; it may be gone.
Report ==
  /\ Goto("report", "prompt")
  /\ up' = IF SlotsOf(pid) = {} THEN "crashed" ELSE up
  /\ Done
  /\ UNCHANGED <<tableVars, kidVars, sigVars>>

\* Mutant: waitfg polls once.
WaitfgOnce ==
  /\ Goto("wait", "prompt")
  /\ Done
  /\ UNCHANGED <<up, tableVars, kidVars, sigVars>>

\* waitfg, polling once a second
Waitfg ==
  /\ Goto("wait", "prompt")
  /\ \A i \in SlotsOf(pid) : jobs[i].state # "FG"
  /\ Done
  /\ UNCHANGED <<up, tableVars, kidVars, sigVars>>

\* do_bgfg finds the job of a pid or a job ID ...
FindJob(i) ==
  /\ Goto("prompt", "mark")
  /\ jobs[i].pid # NoPid
  /\ slot' = i
  /\ bg' \in BOOLEAN
  /\ UNCHANGED <<up, tableVars, kidVars, sigVars, pid>>

\* ... sets its state through the pointer ...
MarkJob ==
  /\ Goto("mark", "load")
  /\ jobs' = [jobs EXCEPT ![slot].state = IF bg THEN "BG" ELSE "FG"]
  /\ UNCHANGED <<up, nextjid, refused, kidVars, sigVars, bg, pid, slot>>

\* ... reads its pid through it ...
LoadPid ==
  /\ Goto("load", "continue")
  /\ pid' = jobs[slot].pid
  /\ UNCHANGED <<up, tableVars, kidVars, sigVars, bg, slot>>

\* kill(-p, ...) finds the process group: not before the child's setpgid, and
\* not after it is reaped.  Group 0 is the shell's own.
GroupExists(p) ==
  p = NoPid \/ kid[p] \in {"grouped", "running", "stopped"} \cup Zombie

\* A stopped child goes on, which the kernel also reports by SIGCHLD.
Resume(p) ==
  IF p # NoPid /\ kid[p] = "stopped"
  THEN /\ kid' = [kid EXCEPT ![p] = "running"]
       /\ told' = told \ {p}
       /\ pending' = TRUE
  ELSE UNCHANGED <<kid, told, pending>>

\* Mutant: the signal does not reach the job.
ContinueNobody ==
  /\ Goto("continue", IF bg THEN "prompt" ELSE "wait")
  /\ IF bg THEN Done ELSE UNCHANGED Locals
  /\ UNCHANGED <<up, tableVars, kidVars, sigVars>>

\* ... and continues its process group.  The pid read again for waitfg is the
\* same one, unless the job is gone, when waitfg returns for either.
ContinueJob ==
  /\ Goto("continue", IF bg THEN "prompt" ELSE "wait")
  /\ IF GroupExists(pid) THEN Resume(pid) /\ UNCHANGED up
     ELSE up' = "exited" /\ UNCHANGED <<kid, told, pending>>
  /\ IF bg THEN Done ELSE UNCHANGED Locals
  /\ UNCHANGED <<tableVars, blocked, stack>>

\* quit, the end of the input, or SIGQUIT
Quit ==
  /\ up = "up"
  /\ up' = "exited"
  /\ UNCHANGED <<tableVars, kidVars, sigVars, mainVars>>

----------------------------------------------------------------------------
(* Handlers *)

OnStack == Range(stack)
Running(sig) == \E f \in OnStack : f.sig = sig
Top == Last(stack)
Return == stack' = Front(stack)

Frame(sig, p, how) == [sig |-> sig, pid |-> p, how |-> how]

\* The kernel delivers SIGCHLD.
ChldEnter ==
  /\ up = "up" /\ pending /\ ~blocked /\ ~Running("chld")
  /\ pending' = FALSE
  /\ stack' = Append(stack, Frame("chld", NoPid, "entered"))
  /\ UNCHANGED <<up, tableVars, kidVars, blocked, mainVars>>

Waitable(p) == kid[p] \in Zombie \/ (kid[p] = "stopped" /\ p \notin told)
Children == {p \in Pids : kid[p] \in Alive \cup Zombie}

AtWaitpid == up = "up" /\ stack # <<>> /\ Top.sig = "chld" /\ Top.how = "entered"

\* waitpid reports one child; a zombie is reaped.
ChldWaitpid(p) ==
  /\ AtWaitpid
  /\ Waitable(p)
  /\ stack' = Append(Front(stack), Frame("chld", p, kid[p]))
  /\ IF kid[p] = "stopped" THEN told' = told \cup {p} /\ UNCHANGED kid
     ELSE kid' = [kid EXCEPT ![p] = "reaped"] /\ UNCHANGED told
  /\ UNCHANGED <<up, tableVars, pending, blocked, mainVars>>

\* It returns 0: no child has anything to report.
ChldNothing ==
  /\ AtWaitpid
  /\ Children # {} /\ \A p \in Pids : ~Waitable(p)
  /\ Return
  /\ UNCHANGED <<up, tableVars, kidVars, pending, blocked, mainVars>>

\* It returns -1 for want of children, which the handler does not expect: the
\* status it goes on to test is uninitialized.
ChldNoChild ==
  /\ AtWaitpid
  /\ Children = {}
  /\ \/ Return
     \/ \E how \in {"exited", "killed", "stopped"} :
          stack' = Append(Front(stack), Frame("chld", NoPid, how))
  /\ UNCHANGED <<up, tableVars, kidVars, pending, blocked, mainVars>>

AtUpdate == up = "up" /\ stack # <<>> /\ Top.sig = "chld" /\ Top.how # "entered"

\* The message about a signal dereferences the job.
ChldDelete ==
  /\ AtUpdate
  /\ Top.how \in Zombie
  /\ IF Top.how = "killed" /\ SlotsOf(Top.pid) = {}
     THEN up' = "crashed" /\ UNCHANGED tableVars
     ELSE deletejob(Top.pid) /\ UNCHANGED up
  /\ Return
  /\ UNCHANGED <<kidVars, pending, blocked, mainVars>>

ChldStop ==
  /\ AtUpdate
  /\ Top.how = "stopped"
  /\ IF SlotsOf(Top.pid) = {} THEN up' = "crashed" /\ UNCHANGED jobs
     ELSE /\ jobs' = [jobs EXCEPT ![First(SlotsOf(Top.pid))].state = "ST"]
          /\ UNCHANGED up
  /\ Return
  /\ UNCHANGED <<nextjid, refused, kidVars, pending, blocked, mainVars>>

\* The user types ctrl-c or ctrl-z: the handler looks for the foreground job.
KeyEnter(sig) ==
  /\ up = "up" /\ ~Running(sig)
  /\ fgpid # NoPid
  /\ stack' = Append(stack, Frame(sig, fgpid, "entered"))
  /\ UNCHANGED <<up, tableVars, kidVars, pending, blocked, mainVars>>

\* It forwards the signal; a kill that fails ends the shell.
KeyKill ==
  /\ up = "up" /\ stack # <<>> /\ Top.sig \in Keyboard
  /\ up' = IF GroupExists(Top.pid) THEN up ELSE "exited"
  /\ Return
  /\ UNCHANGED <<tableVars, kidVars, pending, blocked, mainVars>>

----------------------------------------------------------------------------
(* Children: external to the shell, except for the first two steps *)

Becomes(p, from, to) == kid[p] \in from /\ kid' = [kid EXCEPT ![p] = to]

\* setpgid(0, 0), then execve, in the child
ChildStarts(p) ==
  /\ up = "up"
  /\ Becomes(p, {"forked"}, "grouped") \/ Becomes(p, {"grouped"}, "running")
  /\ UNCHANGED <<up, tableVars, told, sigVars, mainVars>>

\* The program ends, or it cannot be executed; a signal kills or stops it.
ChildChanges(p) ==
  /\ up = "up"
  /\ \/ Becomes(p, {"grouped", "running"}, "exited")
     \/ Becomes(p, {"running", "stopped"}, "killed")
     \/ Becomes(p, {"running"}, "stopped")
     \/ Becomes(p, {"stopped"}, "running")
  /\ told' = told \ {p}
  /\ pending' = TRUE
  /\ UNCHANGED <<up, tableVars, blocked, stack, mainVars>>

----------------------------------------------------------------------------
Eval ==
  \/ Block \/ (\E p \in Pids : Fork(p)) \/ ForkFails \/ AddJob \/ Unblock \/ Report
  \/ Waitfg
  \/ (\E i \in Slots : FindJob(i)) \/ MarkJob \/ LoadPid \/ ContinueJob

Handle ==
  \/ ChldEnter \/ (\E p \in Pids : ChldWaitpid(p)) \/ ChldNothing \/ ChldNoChild
  \/ ChldDelete \/ ChldStop \/ KeyKill

Next ==
  \/ Eval \/ Handle \/ Quit
  \/ \E sig \in Keyboard : KeyEnter(sig)
  \/ \E p \in Pids : ChildStarts(p) \/ ChildChanges(p)

Spec == Init /\ [][Next]_vars

\* The shell's thread is scheduled and the kernel delivers signals; a user who
\* types ctrl-c again and again does not keep the interrupted code from ever
\* running (strong fairness).  Nothing makes the user type or a child do
\* anything.
FairSpec ==
  /\ Spec
  /\ SF_vars(Eval /\ pc # "prompt")
  /\ WF_vars(ChldEnter)
  /\ SF_vars((\E p \in Pids : ChldWaitpid(p)) \/ ChldNothing \/ ChldNoChild)
  /\ SF_vars(ChldDelete \/ ChldStop)
  /\ WF_vars(KeyKill)

----------------------------------------------------------------------------
Frames == [sig : {"chld"} \cup Keyboard, pid : Pids \cup {NoPid},
           how : {"entered", "stopped"} \cup Zombie]

TypeOK ==
  /\ up \in {"up", "exited", "crashed"}
  /\ jobs \in [Slots -> [pid : Pids \cup {NoPid}, jid : Nat, state : States]]
  /\ nextjid \in Nat \ {0}
  /\ refused \subseteq Pids
  /\ kid \in [Pids -> {"unborn", "reaped"} \cup Alive \cup Zombie]
  /\ told \subseteq Pids
  /\ pending \in BOOLEAN /\ blocked \in BOOLEAN /\ bg \in BOOLEAN
  /\ stack \in Seq(Frames)
  /\ pc \in {"prompt", "fork", "add", "unblock", "report", "wait", "mark", "load",
             "continue"}
  /\ pid \in Pids \cup {NoPid}
  /\ slot \in Slots

Live(i) == jobs[i].pid # NoPid

\* The comment on job states: at most one job is in the FG state.  It is the
\* one the main flow has just added or marked and is about to wait for: the
\* shell never prompts with a job in the foreground.
OneForeground ==
  \A i \in Slots : Live(i) /\ jobs[i].state = "FG" =>
    /\ ~bg
    /\ \/ pc \in {"unblock", "wait"} /\ jobs[i].pid = pid
       \/ pc \in {"load", "continue"} /\ i = slot

\* The SIGCHLD handler has been told of p and has not yet acted on it.
Updating(p, how) == Frame("chld", p, how) \in OnStack

\* No process has two jobs.
OneJob == \A i, j \in Slots : Live(i) /\ jobs[i].pid = jobs[j].pid => i = j

\* A job's process is an unreaped child, or reaped by the handler that will
\* delete the job.
JobsAreChildren ==
  \A i \in Slots : Live(i) =>
    \/ kid[jobs[i].pid] \in Alive \cup Zombie
    \/ \E how \in Zombie : Updating(jobs[i].pid, how)

\* An unreaped child has a job, once main has added it, unless the table was
\* full when it did.
ChildrenHaveJobs ==
  \A p \in Pids \ refused :
    kid[p] \in Alive \cup Zombie => SlotsOf(p) # {} \/ (pc = "add" /\ pid = p)

\* The job table and the children agree.
TableIsChildren == OneJob /\ JobsAreChildren /\ ChildrenHaveJobs

\* A stop that waitpid has reported is on the table, until the child goes on:
\* the shell never takes a stopped job for a running one, except while the
\* handler is about to say so or do_bgfg to continue it.
ReportedStops ==
  \A i \in Slots : Live(i) /\ kid[jobs[i].pid] = "stopped" /\ jobs[i].pid \in told =>
    \/ jobs[i].state = "ST"
    \/ Updating(jobs[i].pid, "stopped")
    \/ pc \in {"load", "continue"} /\ slot = i

----------------------------------------------------------------------------
(* An inductive invariant (proved in TshProofs): why the above holds *)

\* SIGCHLD is blocked from before the fork until the job is added, and the
\* handler does not run while it is.
Masked ==
  /\ pc \in {"fork", "add", "unblock"} => blocked
  /\ blocked => ~Running("chld")

\* So the child to add has no job yet, is not reaped, and has not reported.
Adding ==
  pc = "add" =>
    /\ SlotsOf(pid) = {}
    /\ pid # NoPid => kid[pid] \in Alive \cup Zombie /\ pid \notin told

\* The job that do_bgfg found is the one whose pid it loaded, or gone.
SlotKept == pc = "continue" => jobs[slot].pid \in {pid, NoPid}

\* A child whose stop was reported is still stopped; one whose end the handler
\* knows of is reaped.
ToldStopped == \A p \in told : kid[p] = "stopped"
FramesReaped ==
  \A f \in OnStack : f.how \in Zombie /\ f.pid # NoPid => kid[f.pid] = "reaped"

\* The inductive invariant.
IInv ==
  /\ TypeOK /\ Masked /\ Adding /\ SlotKept /\ ToldStopped /\ FramesReaped
  /\ OneForeground /\ TableIsChildren /\ ReportedStops

----------------------------------------------------------------------------
\* The comment on sigchld_handler: it reaps all available zombie children.
ReapsAll ==
  up = "up" /\ stack = <<>> /\ ~pending => \A p \in Pids : kid[p] \notin Zombie

\* waitfg returns once its job has ended, if that is announced (a SIGCHLD is
\* pending) and no other child has anything to report.
WaitfgReturns ==
  \A p \in Pids :
    pc = "wait" /\ pid = p /\ kid[p] \in Zombie /\ pending
      ~> up # "up" \/ pc # "wait" \/ \E q \in Pids \ {p} : Waitable(q)
=============================================================================
