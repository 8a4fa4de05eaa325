-------------------------------- MODULE Cli ---------------------------------
(***************************************************************************)
(* Interrupts and locks (spinlock.c, mycpu, sched): the nesting count and  *)
(* the saved interrupt flag belong to a CPU, the flag itself is meant to   *)
(* belong to the kernel thread, and threads move between CPUs.  A thread   *)
(* or a CPU's scheduler is a context; an interrupt runs on the stack of    *)
(* the context that it interrupts.  ptable.lock is modelled, the other     *)
(* locks are only counted.                                                 *)
(***************************************************************************)
EXTENDS Integers, FiniteSets

CONSTANTS Cpu, Thread,
          MaxHeld \* bound: other locks that a context holds at a time

ASSUME CliAssumption == Cpu \cap Thread = {} /\ "free" \notin Cpu \cup Thread /\ MaxHeld \in Nat

Context == Cpu \cup Thread
Flag == {"none", "on", "off"}
Level == {0, 1} \* the context itself, an interrupt handler on its stack

VARIABLES
  runs,                \* the context on each CPU
  fl, ncli, cpuIntena, \* FL_IF, ncli and intena of each CPU
  handler,             \* the contexts that are in an interrupt handler
  eflags,              \* pushcli's local variable, at each level
  held,                \* other locks of each context
  wants,               \* the contexts in acquire(&ptable.lock)'s loop
  ptLock,              \* the holder of ptable.lock, or "free"
  intena,              \* sched's local variable; "new" before forkret has returned
  ready,               \* RUNNABLE threads
  atTop                \* schedulers that have not yet executed sti()

cliVars == <<runs, fl, ncli, cpuIntena, handler, eflags, held, wants, ptLock, intena, ready, atTop>>

\* Every CPU enters scheduler(), and the threads are in forkret.
CliInit ==
  /\ runs = [c \in Cpu |-> c]
  /\ fl = [c \in Cpu |-> FALSE] /\ ncli = [c \in Cpu |-> 0] /\ cpuIntena = [c \in Cpu |-> FALSE]
  /\ handler = {} /\ wants = {} /\ ptLock = "free" /\ ready = Thread
  /\ eflags = [x \in Context |-> [v \in Level |-> "none"]]
  /\ held = [x \in Context |-> 0]
  /\ intena = [x \in Context |-> IF x \in Thread THEN "new" ELSE "none"]
  /\ atTop = Cpu

Lv(x) == IF x \in handler THEN 1 ELSE 0
Spins(c) == runs[c] \in wants
Forkret(x) == intena[x] = "new" /\ x \notin handler
Flags(b) == IF b THEN "on" ELSE "off"

-----------------------------------------------------------------------------
\* pushcli: readeflags().  An interrupt may come before cli().
PushRead(c) ==
  LET x == runs[c]
  IN  /\ ~Spins(c) /\ eflags[x][Lv(x)] = "none" /\ x \notin atTop \ handler /\ ~Forkret(x)
      /\ (held[x] < MaxHeld /\ x \notin Cpu \ handler) \/ ptLock # x
      /\ eflags' = [eflags EXCEPT ![x][Lv(x)] = Flags(fl[c])]
      /\ UNCHANGED <<runs, fl, ncli, cpuIntena, handler, held, wants, ptLock, intena, ready, atTop>>

\* The rest of pushcli, in acquire of ptable.lock or of another lock.  Nobody
\* acquires a lock that it has.
PushCli(c, pt) ==
  LET x == runs[c]
      v == Lv(x)
  IN  /\ eflags[x][v] # "none"
      /\ IF pt THEN ptLock # x ELSE held[x] < MaxHeld /\ x \notin Cpu \ handler
      /\ fl' = [fl EXCEPT ![c] = FALSE]
      /\ cpuIntena' = [cpuIntena EXCEPT ![c] = IF ncli[c] = 0 THEN eflags[x][v] = "on" ELSE @]
      /\ ncli' = [ncli EXCEPT ![c] = @ + 1]
      /\ eflags' = [eflags EXCEPT ![x][v] = "none"]
      /\ IF pt THEN wants' = wants \cup {x} /\ UNCHANGED held
         ELSE held' = [held EXCEPT ![x] = @ + 1] /\ UNCHANGED wants
      /\ UNCHANGED <<runs, handler, ptLock, intena, ready, atTop>>

\* acquire(&ptable.lock)'s loop ends.
TakeLock(c) ==
  /\ Spins(c) /\ ptLock = "free"
  /\ ptLock' = runs[c] /\ wants' = wants \ {runs[c]}
  /\ UNCHANGED <<runs, fl, ncli, cpuIntena, handler, eflags, held, intena, ready, atTop>>

\* Fault: every popcli enables interrupts, not only the last.
PopCliEager(c) ==
  /\ ncli' = [ncli EXCEPT ![c] = @ - 1]
  /\ fl' = [fl EXCEPT ![c] = cpuIntena[c]]

PopCli(c) ==
  /\ ncli' = [ncli EXCEPT ![c] = @ - 1]
  /\ fl' = [fl EXCEPT ![c] = ncli[c] = 1 /\ cpuIntena[c]]

\* release.  A scheduler goes back to the top of its loop.
Release(c, pt) ==
  LET x == runs[c]
  IN  /\ ~Spins(c) /\ eflags[x][Lv(x)] = "none"
      /\ IF pt THEN ptLock = x /\ ptLock' = "free" /\ UNCHANGED held
         ELSE held[x] > 0 /\ held' = [held EXCEPT ![x] = @ - 1] /\ UNCHANGED ptLock
      /\ PopCli(c)
      /\ atTop' = IF pt /\ x \in Cpu \ handler THEN atTop \cup {x} ELSE atTop
      /\ UNCHANGED <<runs, cpuIntena, handler, eflags, wants, intena, ready>>

-----------------------------------------------------------------------------
\* sti() at the top of scheduler's loop.
Sti(c) ==
  /\ runs[c] = c /\ c \in atTop \ handler
  /\ fl' = [fl EXCEPT ![c] = TRUE] /\ atTop' = atTop \ {c}
  /\ UNCHANGED <<runs, ncli, cpuIntena, handler, eflags, held, wants, ptLock, intena, ready>>

\* sched up to swtch; the thread keeps ptable.lock for the scheduler.  Its
\* callers hold no other lock, and it is RUNNABLE again or asleep until later.
Sched(c) ==
  LET t == runs[c]
  IN  /\ t \in Thread /\ ~Forkret(t) /\ ptLock = t /\ held[t] = 0 /\ eflags[t][Lv(t)] = "none"
      /\ intena' = [intena EXCEPT ![t] = Flags(cpuIntena[c])]
      /\ runs' = [runs EXCEPT ![c] = c] /\ ptLock' = c
      /\ ready' = ready \cup {t}
      /\ UNCHANGED <<fl, ncli, cpuIntena, handler, eflags, held, wants, atTop>>

\* What sched assigns to the CPU's intena when the thread runs again; a new
\* thread is in forkret, which assigns nothing.
Resume(c, t) ==
  IF Forkret(t) THEN cpuIntena ELSE [cpuIntena EXCEPT ![c] = intena[t] = "on"]

\* scheduler's swtch to t, which goes on in sched or in forkret.
SwtchTo(c, t) ==
  /\ runs[c] = c /\ ptLock = c /\ c \notin handler /\ eflags[c][0] = "none" /\ t \in ready
  /\ runs' = [runs EXCEPT ![c] = t] /\ ptLock' = t /\ ready' = ready \ {t}
  /\ cpuIntena' = Resume(c, t)
  /\ UNCHANGED <<fl, ncli, handler, eflags, held, wants, intena, atTop>>

\* An interrupt: the gate clears FL_IF.
Interrupt(c) ==
  /\ fl[c] /\ runs[c] \notin handler
  /\ handler' = handler \cup {runs[c]}
  /\ fl' = [fl EXCEPT ![c] = FALSE]
  /\ UNCHANGED <<runs, ncli, cpuIntena, eflags, held, wants, ptLock, intena, ready, atTop>>

\* iret restores it.
Iret(c) ==
  LET x == runs[c]
  IN  /\ x \in handler /\ ~Spins(c) /\ eflags[x][1] = "none" /\ held[x] = 0 /\ ptLock # x
      /\ handler' = handler \ {x}
      /\ fl' = [fl EXCEPT ![c] = TRUE]
      /\ UNCHANGED <<runs, ncli, cpuIntena, eflags, held, wants, ptLock, intena, ready, atTop>>

\* forkret has released ptable.lock and returns through trapret to user mode,
\* where interrupts are on.  Until then they are as the CPU's intena says.
ForkretIret(c) ==
  LET t == runs[c]
  IN  /\ Forkret(t) /\ ptLock # t
      /\ intena' = [intena EXCEPT ![t] = "none"]
      /\ fl' = [fl EXCEPT ![c] = TRUE]
      /\ UNCHANGED <<runs, ncli, cpuIntena, handler, eflags, held, wants, ptLock, ready, atTop>>

CliNext ==
  \E c \in Cpu :
    \/ PushRead(c) \/ TakeLock(c) \/ Sti(c) \/ Sched(c) \/ Interrupt(c) \/ Iret(c)
    \/ ForkretIret(c)
    \/ \E pt \in BOOLEAN : PushCli(c, pt) \/ Release(c, pt)
    \/ \E t \in Thread : SwtchTo(c, t)

CliSpec == CliInit /\ [][CliNext]_cliVars

-----------------------------------------------------------------------------
(***************************************************************************)
(* Properties.                                                             *)
(***************************************************************************)

\* Every lock that is held or waited for is counted on the CPU its context runs
\* on, and while there is one interrupts are off there: a handler never meets a
\* lock of the code it has interrupted.  sched finds ncli to be 1.
LocksMask ==
  \A c \in Cpu :
    LET x == runs[c]
        n == held[x] + (IF ptLock = x THEN 1 ELSE 0) + (IF x \in wants THEN 1 ELSE 0)
    IN  ncli[c] = n /\ (n > 0 => ~fl[c])

\* pushcli and popcli are matched: without locks a thread has interrupts on in
\* the kernel and off in a handler, also when it has slept or was preempted in
\* between, other threads have used the CPU, and it goes on with another CPU.
\* (forkret may run with either, depending on who ran before it.)
FlagsKept ==
  \A c \in Cpu :
    LET x == runs[c]
    IN  ncli[c] = 0 /\ x \notin atTop \ handler /\ ~Forkret(x) => fl[c] = (x \notin handler)

\* A CPU that holds or waits for a spinlock takes no interrupt, and gets its
\* interrupts back when, and only when, the last lock is released.
InterruptsMatched == LocksMask /\ FlagsKept
=============================================================================
