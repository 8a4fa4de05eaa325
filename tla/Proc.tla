-------------------------------- MODULE Proc --------------------------------
(***************************************************************************)
(* The process table of xv6 (proc.c) and the paths of the kernel that      *)
(* change it: the per-CPU scheduler, sched/yield/sleep/wakeup, fork, exit, *)
(* wait, kill, getppid, sys_sleep, and trap()'s tests of p->killed.        *)
(*                                                                         *)
(* A CPU runs either its scheduler loop or the kernel thread of one        *)
(* process.  A stretch of code that runs under ptable.lock is one step,    *)
(* cut where the CPU changes stacks (swtch): the lock is then held across  *)
(* the switch and released by whoever runs next.  What the code reads or   *)
(* writes without the lock (p->killed, a failing fork's p->state,          *)
(* np->parent, getppid's two loads) is a step of its own.                  *)
(***************************************************************************)
EXTENDS Integers

CONSTANTS NPROC,     \* slots of ptable.proc
          NCPU,      \* CPUs; CPU 0 takes the clock interrupt
          KillPids,  \* the arguments processes give to kill()
          MaxPid     \* bound: fork stops handing out pids after this one, long
                     \* before nextpid, a uint, wraps around

ASSUME NPROCAssumption == NPROC \in Nat \ {0}
ASSUME NCPUAssumption == NCPU \in Nat \ {0}
ASSUME PidAssumption == KillPids \subseteq Nat /\ MaxPid \in Nat

Proc == 1 .. NPROC
CPU == 0 .. NCPU - 1
NULL == 0            \* no process, or a null channel
NOCPU == -1          \* ptable.lock is free
Ticks == -1          \* the channel &ticks
InitProc == 1        \* userinit's allocproc() takes the first slot

VARIABLES
  lock,     \* ptable.lock: the CPU that holds it, or NOCPU
  state,    \* p->state
  pid,      \* p->pid
  parent,   \* p->parent
  chan,     \* p->chan
  killed,   \* p->killed
  kstack,   \* p->kstack # 0
  context,  \* where p->context resumes, "running" while p is switched in
  pc,       \* where p is in the code outside sched() and its callers
  np,       \* p's local pointer to another process (fork's np, getppid's parent)
  nextpid,
  cpc,      \* where the CPU is: "loop", "hlt", "scan" or "run" (on a process's stack)
  proc,     \* c->proc
  scan,     \* the scheduler's loop variable
  idle      \* the scheduler's idle flag

tableVars == <<state, pid, parent, chan, killed, kstack, nextpid>>
threadVars == <<context, pc, np>>
cpuVars == <<cpc, proc, scan, idle>>
vars == <<lock, tableVars, threadVars, cpuVars>>

ProcState == {"UNUSED", "EMBRYO", "SLEEPING", "RUNNABLE", "RUNNING", "ZOMBIE"}

\* A process that can still execute.
Live == {"SLEEPING", "RUNNABLE", "RUNNING"}

\* "syscall": past trap()'s first test of killed; "ret": before its second
\* one; "kstack", "copyuvm", "publish": the steps of fork; "ticks", "sleep":
\* sys_sleep's loop test and its call of sleep.
ForkPc == {"kstack", "copyuvm", "publish"}
Pc == ForkPc \cup {"user", "syscall", "ret", "wait", "ticks", "sleep",
                   "getppid", "exit", "panic"}

First(S, p) == p \in S /\ \A q \in S : p <= q

\* CPU c is on the kernel stack of p.
OnCpu(c, p) == cpc[c] = "run" /\ proc[c] = p

\* p executes its own code on c: it is not inside sched().
At(c, p, l) == OnCpu(c, p) /\ lock # c /\ pc[p] = l

Goto(p, l) == pc' = [pc EXCEPT ![p] = l]

(***************************************************************************)
(* main() has run userinit(): the first process is RUNNABLE and every CPU  *)
(* is about to enter scheduler().                                          *)
(***************************************************************************)
Init ==
  /\ lock = NOCPU
  /\ state = [p \in Proc |-> IF p = InitProc THEN "RUNNABLE" ELSE "UNUSED"]
  /\ pid = [p \in Proc |-> IF p = InitProc THEN 1 ELSE 0]
  /\ parent = [p \in Proc |-> NULL]
  /\ chan = [p \in Proc |-> NULL]
  /\ killed = [p \in Proc |-> FALSE]
  /\ kstack = [p \in Proc |-> p = InitProc]
  /\ context = [p \in Proc |-> "forkret"]
  /\ pc = [p \in Proc |-> "user"]
  /\ np = [p \in Proc |-> NULL]
  /\ nextpid = 2
  /\ cpc = [c \in CPU |-> "loop"]
  /\ proc = [c \in CPU |-> NULL]
  /\ scan = [c \in CPU |-> 1]
  /\ idle = [c \in CPU |-> TRUE]

-----------------------------------------------------------------------------
(***************************************************************************)
(* The scheduler.                                                          *)
(***************************************************************************)
SchedAcquire(c) ==
  /\ cpc[c] = "loop" /\ lock = NOCPU
  /\ lock' = c
  /\ cpc' = [cpc EXCEPT ![c] = "scan"]
  /\ scan' = [scan EXCEPT ![c] = 1]
  /\ idle' = [idle EXCEPT ![c] = TRUE]
  /\ UNCHANGED <<tableVars, threadVars, proc>>

\* The processes the rest of this pass over the table can still pick.
Candidates(c) == {p \in Proc : p >= scan[c] /\ state[p] = "RUNNABLE"}

\* Switch to the chosen process; it is its job to release ptable.lock.
SchedSwtch(c) ==
  /\ cpc[c] = "scan"
  /\ \E p \in Proc :
       /\ First(Candidates(c), p)
       /\ state' = [state EXCEPT ![p] = "RUNNING"]
       /\ proc' = [proc EXCEPT ![c] = p]
       /\ scan' = [scan EXCEPT ![c] = p + 1]
  /\ cpc' = [cpc EXCEPT ![c] = "run"]
  /\ idle' = [idle EXCEPT ![c] = FALSE]
  /\ UNCHANGED <<lock, pid, parent, chan, killed, kstack, nextpid, threadVars>>

\* The pass found nobody (else): release, and halt if it ran no process at all.
SchedRelease(c) ==
  /\ cpc[c] = "scan" /\ Candidates(c) = {}
  /\ lock' = NOCPU
  /\ cpc' = [cpc EXCEPT ![c] = IF idle[c] THEN "hlt" ELSE "loop"]
  /\ UNCHANGED <<tableVars, threadVars, proc, scan, idle>>

\* Any interrupt ends hlt.
Interrupt(c) ==
  /\ cpc[c] = "hlt"
  /\ cpc' = [cpc EXCEPT ![c] = "loop"]
  /\ UNCHANGED <<lock, tableVars, threadVars, proc, scan, idle>>

\* sched(): leave p's stack for the scheduler's, which clears c->proc.
Sched(c, p) ==
  /\ OnCpu(c, p) /\ lock = c /\ state[p] # "RUNNING"
  /\ cpc' = [cpc EXCEPT ![c] = "scan"]
  /\ proc' = [proc EXCEPT ![c] = NULL]
  /\ UNCHANGED <<lock, tableVars, threadVars, scan, idle>>

\* p has been switched in and is about to return from swtch into l.
Resumed(c, p, l) == OnCpu(c, p) /\ lock = c /\ state[p] = "RUNNING" /\ context[p] = l

\* A new child's first steps: forkret() releases the lock of scheduler().
ForkRet(c, p) ==
  /\ Resumed(c, p, "forkret")
  /\ lock' = NOCPU
  /\ context' = [context EXCEPT ![p] = "running"]
  /\ UNCHANGED <<tableVars, pc, np, cpuVars>>

-----------------------------------------------------------------------------
(***************************************************************************)
(* yield, sleep and wakeup.                                                *)
(***************************************************************************)

\* Fault: yield() makes p RUNNABLE without keeping the lock.
YieldUnlocked(c, p) ==
  /\ OnCpu(c, p) /\ lock = NOCPU /\ state[p] = "RUNNING" /\ pc[p] # "panic"
  /\ lock' = lock
  /\ state' = [state EXCEPT ![p] = "RUNNABLE"]
  /\ context' = [context EXCEPT ![p] = "yield"]
  /\ UNCHANGED <<pid, parent, chan, killed, kstack, nextpid, pc, np, cpuVars>>

\* The clock interrupt preempts p, in user space or in the kernel.
Yield(c, p) ==
  /\ OnCpu(c, p) /\ lock = NOCPU /\ state[p] = "RUNNING" /\ pc[p] # "panic"
  /\ lock' = c
  /\ state' = [state EXCEPT ![p] = "RUNNABLE"]
  /\ context' = [context EXCEPT ![p] = "yield"]
  /\ UNCHANGED <<pid, parent, chan, killed, kstack, nextpid, pc, np, cpuVars>>

YieldRet(c, p) ==
  /\ Resumed(c, p, "yield")
  /\ lock' = NOCPU
  /\ context' = [context EXCEPT ![p] = "running"]
  /\ UNCHANGED <<tableVars, pc, np, cpuVars>>

\* What wakeup1(ch) makes of the states st.
wakeup1(st, ch) ==
  [q \in Proc |-> IF st[q] = "SLEEPING" /\ chan[q] = ch THEN "RUNNABLE" ELSE st[q]]

\* sys_sleep's loop test: time is up, or p was killed, or it will sleep.
SysSleepTest(c, p) ==
  /\ At(c, p, "ticks")
  /\ \/ Goto(p, "ret")
     \/ ~killed[p] /\ Goto(p, "sleep")
  /\ UNCHANGED <<lock, tableVars, context, np, cpuVars>>

\* sleep(&ticks, 0), up to its call of sched().
Sleep(c, p) ==
  /\ At(c, p, "sleep") /\ lock = NOCPU
  /\ lock' = c
  /\ chan' = [chan EXCEPT ![p] = Ticks]
  /\ state' = [state EXCEPT ![p] = "SLEEPING"]
  /\ context' = [context EXCEPT ![p] = "sleep"]
  /\ UNCHANGED <<pid, parent, killed, kstack, nextpid, pc, np, cpuVars>>

SleepRet(c, p) ==
  /\ Resumed(c, p, "sleep") /\ pc[p] = "sleep"
  /\ chan' = [chan EXCEPT ![p] = NULL]
  /\ lock' = NOCPU
  /\ context' = [context EXCEPT ![p] = "running"]
  /\ Goto(p, "ticks")
  /\ UNCHANGED <<state, pid, parent, killed, kstack, nextpid, np, cpuVars>>

\* The clock interrupt on CPU 0: wakeup(&ticks).
Tick ==
  /\ lock = NOCPU
  /\ ~ \E p \in Proc : OnCpu(0, p) /\ pc[p] = "panic"
  /\ state' = wakeup1(state, Ticks)
  /\ UNCHANGED <<lock, pid, parent, chan, killed, kstack, nextpid, threadVars, cpuVars>>

-----------------------------------------------------------------------------
(***************************************************************************)
(* Traps: p->killed is tested without the lock on the way into a system    *)
(* call, on the way out, and by every interrupt taken in user space.       *)
(***************************************************************************)
Syscall(c, p) ==
  /\ At(c, p, "user")
  /\ Goto(p, IF killed[p] THEN "exit" ELSE "syscall")
  /\ UNCHANGED <<lock, tableVars, context, np, cpuVars>>

SysRet(c, p) ==
  /\ At(c, p, "ret")
  /\ Goto(p, IF killed[p] THEN "exit" ELSE "user")
  /\ UNCHANGED <<lock, tableVars, context, np, cpuVars>>

\* An interrupt in user space finds p killed.
TrapKilled(c, p) ==
  /\ At(c, p, "user") /\ killed[p]
  /\ Goto(p, "exit")
  /\ UNCHANGED <<lock, tableVars, context, np, cpuVars>>

\* A fault in user space.
UserFault(c, p) ==
  /\ At(c, p, "user") /\ p # InitProc
  /\ killed' = [killed EXCEPT ![p] = TRUE]
  /\ Goto(p, "exit")
  /\ UNCHANGED <<lock, state, pid, parent, chan, kstack, nextpid, context, np, cpuVars>>

\* The system call p asked for.  init.c calls fork and wait only, in an order that
\* is left open here.
Dispatch(c, p) ==
  /\ At(c, p, "syscall")
  /\ \/ Goto(p, "wait")
     \/ p # InitProc /\ \E l \in {"ticks", "exit"} : Goto(p, l)
  /\ UNCHANGED <<lock, tableVars, context, np, cpuVars>>

-----------------------------------------------------------------------------
(***************************************************************************)
(* fork.                                                                   *)
(***************************************************************************)

\* fork returned -1: init.c then exits.
ForkFailed(p) == Goto(p, IF p = InitProc THEN "exit" ELSE "ret")

Unused == {q \in Proc : state[q] = "UNUSED"}

\* allocproc() under the lock.
ForkAlloc(c, p) ==
  /\ At(c, p, "syscall") /\ lock = NOCPU
  /\ \/ /\ Unused = {}
        /\ ForkFailed(p)
        /\ UNCHANGED <<tableVars, np>>
     \/ /\ nextpid <= MaxPid
        /\ \E q \in Proc :
             /\ First(Unused, q)
             /\ state' = [state EXCEPT ![q] = "EMBRYO"]
             /\ pid' = [pid EXCEPT ![q] = nextpid]
             /\ np' = [np EXCEPT ![p] = q]
        /\ nextpid' = nextpid + 1
        /\ Goto(p, "kstack")
        /\ UNCHANGED <<parent, chan, killed, kstack>>
  /\ UNCHANGED <<lock, context, cpuVars>>

\* Fault: allocproc() leaves the context the last user of the slot had.
ForkKstackNoContext(c, p) ==
  /\ At(c, p, "kstack")
  /\ \/ /\ kstack' = [kstack EXCEPT ![np[p]] = TRUE]
        /\ Goto(p, "copyuvm")
        /\ UNCHANGED <<state, np, context>>
     \/ /\ state' = [state EXCEPT ![np[p]] = "UNUSED"]
        /\ np' = [np EXCEPT ![p] = NULL]
        /\ ForkFailed(p)
        /\ UNCHANGED <<kstack, context>>
  /\ UNCHANGED <<lock, pid, parent, chan, killed, nextpid, cpuVars>>

\* allocproc() after it released the lock: the kernel stack may not be had.
ForkKstack(c, p) ==
  /\ At(c, p, "kstack")
  /\ \/ /\ kstack' = [kstack EXCEPT ![np[p]] = TRUE]
        /\ context' = [context EXCEPT ![np[p]] = "forkret"]
        /\ Goto(p, "copyuvm")
        /\ UNCHANGED <<state, np>>
     \/ /\ state' = [state EXCEPT ![np[p]] = "UNUSED"]
        /\ np' = [np EXCEPT ![p] = NULL]
        /\ ForkFailed(p)
        /\ UNCHANGED <<kstack, context>>
  /\ UNCHANGED <<lock, pid, parent, chan, killed, nextpid, cpuVars>>

\* copyuvm() may run out of memory; otherwise the child gets its parent.
ForkCopy(c, p) ==
  /\ At(c, p, "copyuvm")
  /\ \/ /\ parent' = [parent EXCEPT ![np[p]] = p]
        /\ Goto(p, "publish")
        /\ UNCHANGED <<state, kstack, np>>
     \/ /\ kstack' = [kstack EXCEPT ![np[p]] = FALSE]
        /\ state' = [state EXCEPT ![np[p]] = "UNUSED"]
        /\ np' = [np EXCEPT ![p] = NULL]
        /\ ForkFailed(p)
        /\ UNCHANGED parent
  /\ UNCHANGED <<lock, pid, chan, killed, nextpid, context, cpuVars>>

\* The child starts in user space with its parent's registers.
ForkPublish(c, p) ==
  /\ At(c, p, "publish") /\ lock = NOCPU
  /\ state' = [state EXCEPT ![np[p]] = "RUNNABLE"]
  /\ pc' = [pc EXCEPT ![p] = "ret", ![np[p]] = "user"]
  /\ np' = [np EXCEPT ![p] = NULL]
  /\ UNCHANGED <<lock, pid, parent, chan, killed, kstack, nextpid, context, cpuVars>>

-----------------------------------------------------------------------------
(***************************************************************************)
(* exit, wait and kill.  Closing the files and dropping the directory is   *)
(* not part of this module.                                                *)
(***************************************************************************)
Children(p) == {q \in Proc : parent[q] = p}

\* Fault: exit() does not wake its parent.
ExitNoWakeup(c, p) ==
  /\ At(c, p, "exit") /\ p # InitProc /\ lock = NOCPU
  /\ lock' = c
  /\ LET woken == state
         adopted == IF \E q \in Children(p) : woken[q] = "ZOMBIE"
                    THEN wakeup1(woken, InitProc) ELSE woken
     IN  state' = [adopted EXCEPT ![p] = "ZOMBIE"]
  /\ parent' = [q \in Proc |-> IF q \in Children(p) THEN InitProc ELSE parent[q]]
  /\ UNCHANGED <<pid, chan, killed, kstack, nextpid, threadVars, cpuVars>>

\* Fault: exit() leaves its children to nobody.
ExitKeepsChildren(c, p) ==
  /\ At(c, p, "exit") /\ p # InitProc /\ lock = NOCPU
  /\ lock' = c
  /\ LET woken == wakeup1(state, parent[p])
         adopted == IF \E q \in Children(p) : woken[q] = "ZOMBIE"
                    THEN wakeup1(woken, InitProc) ELSE woken
     IN  state' = [adopted EXCEPT ![p] = "ZOMBIE"]
  /\ UNCHANGED <<pid, parent, chan, killed, kstack, nextpid, threadVars, cpuVars>>

Exit(c, p) ==
  /\ At(c, p, "exit") /\ p # InitProc /\ lock = NOCPU
  /\ lock' = c
  /\ LET woken == wakeup1(state, parent[p])
         adopted == IF \E q \in Children(p) : woken[q] = "ZOMBIE"
                    THEN wakeup1(woken, InitProc) ELSE woken
     IN  state' = [adopted EXCEPT ![p] = "ZOMBIE"]
  /\ parent' = [q \in Proc |-> IF q \in Children(p) THEN InitProc ELSE parent[q]]
  /\ UNCHANGED <<pid, chan, killed, kstack, nextpid, threadVars, cpuVars>>

\* panic("init exiting") disables interrupts and spins.
ExitPanic(c, p) ==
  /\ At(c, p, "exit") /\ p = InitProc
  /\ Goto(p, "panic")
  /\ UNCHANGED <<lock, tableVars, context, np, cpuVars>>

\* Fault: wait() takes any zombie for its child.
AnyZombie(p) == {q \in Proc : state[q] = "ZOMBIE"}

ZombieChildren(p) == {q \in Children(p) : state[q] = "ZOMBIE"}

\* wait()'s "Found one": the slot of the child is free again.
Reap(p) ==
  /\ \E q \in Proc :
       /\ First(ZombieChildren(p), q)
       /\ state' = [state EXCEPT ![q] = "UNUSED"]
       /\ kstack' = [kstack EXCEPT ![q] = FALSE]
       /\ pid' = [pid EXCEPT ![q] = 0]
       /\ parent' = [parent EXCEPT ![q] = NULL]
       /\ killed' = [killed EXCEPT ![q] = FALSE]
  /\ lock' = NOCPU
  /\ chan' = [chan EXCEPT ![p] = NULL]
  /\ context' = [context EXCEPT ![p] = "running"]
  /\ Goto(p, "ret")

WaitFailed(p) ==
  /\ ZombieChildren(p) = {}
  /\ Children(p) = {} \/ killed[p]
  /\ lock' = NOCPU
  /\ chan' = [chan EXCEPT ![p] = NULL]
  /\ context' = [context EXCEPT ![p] = "running"]
  /\ Goto(p, "ret")
  /\ UNCHANGED <<state, kstack, pid, parent, killed>>

\* sleep(curproc, &ptable.lock): the lock is kept.
WaitSleep(c, p) ==
  /\ ZombieChildren(p) = {} /\ Children(p) # {} /\ ~killed[p]
  /\ lock' = c
  /\ chan' = [chan EXCEPT ![p] = p]
  /\ state' = [state EXCEPT ![p] = "SLEEPING"]
  /\ context' = [context EXCEPT ![p] = "sleep"]
  /\ UNCHANGED <<kstack, pid, parent, killed, pc>>

\* One turn of wait()'s loop, entered with acquire or out of sleep.  time() has
\* the same loop, and treats the slot it reaps in the same way.
Wait(c, p) ==
  /\ pc[p] = "wait"
  /\ \/ At(c, p, "wait") /\ lock = NOCPU
     \/ Resumed(c, p, "sleep")
  /\ Reap(p) \/ WaitFailed(p) \/ WaitSleep(c, p)
  /\ UNCHANGED <<nextpid, np, cpuVars>>

\* Fault: kill() leaves a sleeping victim asleep.
KillNoWakeup(c, p) ==
  /\ At(c, p, "syscall") /\ p # InitProc /\ lock = NOCPU
  /\ \E k \in KillPids :
       LET hit == {q \in Proc : pid[q] = k}
       IN  \/ hit = {} /\ UNCHANGED <<state, killed>>
           \/ \E q \in Proc :
                /\ First(hit, q)
                /\ killed' = [killed EXCEPT ![q] = TRUE]
                /\ UNCHANGED state
  /\ Goto(p, "ret")
  /\ UNCHANGED <<lock, pid, parent, chan, kstack, nextpid, context, np, cpuVars>>

\* kill(k) takes the first slot whose pid is k, whatever its state.
Kill(c, p) ==
  /\ At(c, p, "syscall") /\ p # InitProc /\ lock = NOCPU
  /\ \E k \in KillPids :
       LET hit == {q \in Proc : pid[q] = k}
       IN  \/ hit = {} /\ UNCHANGED <<state, killed>>
           \/ \E q \in Proc :
                /\ First(hit, q)
                /\ killed' = [killed EXCEPT ![q] = TRUE]
                /\ state' = [state EXCEPT ![q] = IF @ = "SLEEPING" THEN "RUNNABLE" ELSE @]
  /\ Goto(p, "ret")
  /\ UNCHANGED <<lock, pid, parent, chan, kstack, nextpid, context, np, cpuVars>>

\* getppid(): myproc()->parent, then ->pid, with no lock around the two loads.
GetppidParent(c, p) ==
  /\ At(c, p, "syscall") /\ p # InitProc
  /\ np' = [np EXCEPT ![p] = parent[p]]
  /\ Goto(p, "getppid")
  /\ UNCHANGED <<lock, tableVars, context, cpuVars>>

GetppidPid(c, p) ==
  /\ At(c, p, "getppid")
  /\ np' = [np EXCEPT ![p] = NULL]
  /\ Goto(p, "ret")
  /\ UNCHANGED <<lock, tableVars, context, cpuVars>>

-----------------------------------------------------------------------------
Scheduler(c) == SchedAcquire(c) \/ SchedSwtch(c) \/ SchedRelease(c) \/ Interrupt(c)

\* Leaving or entering p's stack with the lock held.
Switch(c, p) == Sched(c, p) \/ ForkRet(c, p) \/ YieldRet(c, p) \/ SleepRet(c, p)

\* p's own progress through the kernel and user space.
Step(c, p) ==
  \/ Syscall(c, p) \/ SysRet(c, p) \/ TrapKilled(c, p) \/ UserFault(c, p)
  \/ Dispatch(c, p) \/ SysSleepTest(c, p) \/ Sleep(c, p)
  \/ ForkAlloc(c, p) \/ ForkKstack(c, p) \/ ForkCopy(c, p) \/ ForkPublish(c, p)
  \/ Exit(c, p) \/ ExitPanic(c, p) \/ Wait(c, p) \/ Kill(c, p)
  \/ GetppidParent(c, p) \/ GetppidPid(c, p)

Next ==
  \/ Tick
  \/ \E c \in CPU :
       \/ Scheduler(c)
       \/ \E p \in Proc : Switch(c, p) \/ Step(c, p) \/ Yield(c, p)

Spec == Init /\ [][Next]_vars

(***************************************************************************)
(* A CPU keeps executing and no CPU spins on ptable.lock for ever; a       *)
(* process makes some progress of its own in infinitely many of its time   *)
(* slices (SF of Step); the clock keeps interrupting, so a running process *)
(* is preempted (Yield) and sleepers on &ticks are woken (Tick).           *)
(***************************************************************************)
Fairness ==
  /\ SF_vars(Tick)
  /\ \A c \in CPU : SF_vars(Scheduler(c))
  /\ \A p \in Proc : /\ WF_vars(\E c \in CPU : Switch(c, p))
                     /\ SF_vars(\E c \in CPU : Step(c, p))
                     /\ SF_vars(\E c \in CPU : Yield(c, p))

FairSpec == Spec /\ Fairness

-----------------------------------------------------------------------------
(***************************************************************************)
(* Properties.                                                             *)
(***************************************************************************)

\* Every variable keeps to the range its C declaration and use give it.
TypeOK ==
  /\ lock \in CPU \cup {NOCPU}
  /\ state \in [Proc -> ProcState]
  /\ pid \in [Proc -> Nat]
  /\ parent \in [Proc -> Proc \cup {NULL}]
  /\ chan \in [Proc -> Proc \cup {NULL, Ticks}]
  /\ killed \in [Proc -> BOOLEAN]
  /\ kstack \in [Proc -> BOOLEAN]
  /\ context \in [Proc -> {"forkret", "yield", "sleep", "running"}]
  /\ pc \in [Proc -> Pc]
  /\ np \in [Proc -> Proc \cup {NULL}]
  /\ nextpid \in Nat
  /\ cpc \in [CPU -> {"loop", "hlt", "scan", "run"}]
  /\ proc \in [CPU -> Proc \cup {NULL}]
  /\ scan \in [CPU -> 1 .. NPROC + 1]
  /\ idle \in [CPU -> BOOLEAN]

\* While a CPU is on a kernel stack, that stack is allocated, no other CPU is
\* on it, and its process is RUNNING unless this CPU holds ptable.lock: exit,
\* yield and sleep keep the lock until the CPU has left the stack, so neither
\* another scheduler nor a parent in wait() can take the process before.
StackSafe ==
  \A c \in CPU, p \in Proc :
    OnCpu(c, p) => /\ kstack[p]
                   /\ state[p] \notin {"UNUSED", "EMBRYO"}
                   /\ lock # c => state[p] = "RUNNING"
                   /\ \A d \in CPU : OnCpu(d, p) => d = c

\* ptable.lock changes hands across swtch without being lost: its holder is a
\* scheduler in its scan, or is on the stack of a process that either is about
\* to switch away or resumes at a point that releases the lock.
HandOff ==
  \A c \in CPU :
    lock = c => \/ cpc[c] = "scan"
                \/ /\ cpc[c] = "run"
                   /\ state[proc[c]] = "RUNNING" =>
                        \/ context[proc[c]] \in {"forkret", "yield"}
                        \/ context[proc[c]] = "sleep" /\ pc[proc[c]] \in {"wait", "sleep"}

\* A process asleep in wait() has something to wait for and misses nothing: it
\* has not been killed, it has a child, and each of its children can still
\* run and so call exit(), which wakes it.
WaitSound ==
  \A p \in Proc :
    state[p] = "SLEEPING" /\ pc[p] = "wait" =>
      /\ ~killed[p]
      /\ Children(p) # {}
      /\ \A q \in Children(p) : state[q] \in Live

\* Every process but init has a parent that can still call wait() for it:
\* exit() hands its children to init, zombies included.
ParentLive ==
  \A q \in Proc \ {InitProc} :
    state[q] \in Live \cup {"ZOMBIE"} => /\ parent[q] \in Proc
                                        /\ state[parent[q]] \in Live

\* No two processes have the same pid, so kill() and wait() name one process, as
\* long as nextpid has not wrapped around.
UniquePids ==
  \A p, q \in Proc :
    p # q /\ state[p] # "UNUSED" /\ state[q] # "UNUSED" => pid[p] # pid[q]

\* A zombie keeps its slot until its own parent reaps it in wait(), an embryo
\* until the process forking it publishes it or gives it up.
SlotOwner ==
  [][\A q \in Proc :
       state'[q] # state[q] =>
         /\ state[q] = "ZOMBIE" => /\ state'[q] = "UNUSED"
                                   /\ parent[q] \in Proc
                                   /\ pc[parent[q]] = "wait"
                                   /\ \E c \in CPU : OnCpu(c, parent[q])
         /\ state[q] = "EMBRYO" => \E c \in CPU, p \in Proc :
                                     OnCpu(c, p) /\ pc[p] \in ForkPc /\ np[p] = q]_vars

\* An invariant the code does not have: a free slot carries no kill.  kill()
\* matches slots by pid whatever their state, and allocproc() does not clear
\* p->killed.
NoStaleKill == \A q \in Proc : state[q] = "UNUSED" => ~killed[q]

Panicked == pc[InitProc] = "panic"

\* init reaps every orphan: a zombie whose parent is init gets its slot freed,
\* unless init itself exits, which panics the kernel.
OrphansReaped ==
  \A p \in Proc \ {InitProc} :
    state[p] = "ZOMBIE" /\ parent[p] = InitProc ~> state[p] = "UNUSED" \/ Panicked

\* A killed process exits, wherever it was in fork, wait, sleep, kill, getppid or
\* exit when it was killed.
KilledExits ==
  \A p \in Proc \ {InitProc} :
    killed[p] /\ state[p] \in Live ~> state[p] = "ZOMBIE" \/ Panicked
=============================================================================
