----------------------------- MODULE ProcProofs -----------------------------
(***************************************************************************)
(* Proofs about Proc for every number of slots and CPUs.                   *)
(***************************************************************************)
EXTENDS Proc, TLAPS

(***************************************************************************)
(* The inductive invariant.  StackSafe, HandOff, WaitSound, ParentLive and *)
(* UniquePids are not inductive alone: they rest on who may hold the lock  *)
(* (LockInv), on what a switched-out thread will do first (ResumeInv), on  *)
(* where a sleeper sleeps (SleepInv), on fork's exclusive ownership of the *)
(* slot it builds (ForkInv) and on when a slot has a parent (OrphanInv).   *)
(***************************************************************************)
LockInv ==
  \A c \in CPU :
    /\ cpc[c] = "scan" => lock = c
    /\ lock = c => cpc[c] \in {"scan", "run"}
    /\ cpc[c] = "run" <=> proc[c] # NULL

StackInv ==
  \A p \in Proc : state[p] \in Live \cup {"ZOMBIE"} => kstack[p]

Resumable(p) ==
  \/ context[p] \in {"forkret", "yield"}
  \/ context[p] = "sleep" /\ pc[p] \in {"wait", "sleep"}

ResumeInv ==
  /\ \A p \in Proc : state[p] \in {"SLEEPING", "RUNNABLE"} => Resumable(p)
  /\ \A c \in CPU : cpc[c] = "run" /\ lock = c /\ state[proc[c]] = "RUNNING"
                      => Resumable(proc[c])

SleepInv ==
  \A p \in Proc :
    state[p] = "SLEEPING" => \/ pc[p] = "wait" /\ chan[p] = p
                             \/ pc[p] = "sleep" /\ chan[p] = Ticks

ForkInv ==
  \A p \in Proc :
    pc[p] \in ForkPc =>
      /\ state[p] \in {"RUNNABLE", "RUNNING"}
      /\ np[p] \in Proc
      /\ state[np[p]] = "EMBRYO"
      /\ pc[p] # "kstack" => kstack[np[p]] /\ context[np[p]] = "forkret"
      /\ parent[np[p]] = IF pc[p] = "publish" THEN p ELSE NULL
      /\ \A q \in Proc : pc[q] \in ForkPc /\ np[q] = np[p] => q = p

OrphanInv ==
  \A q \in Proc :
    /\ parent[q] # q
    /\ q = InitProc \/ state[q] = "UNUSED" => parent[q] = NULL
    /\ state[q] = "EMBRYO" => \E p \in Proc : pc[p] \in ForkPc /\ np[p] = q

InitInv == state[InitProc] \in Live

PidInv == \A p \in Proc : pid[p] < nextpid

IInv ==
  /\ TypeOK /\ LockInv /\ StackSafe /\ StackInv /\ ResumeInv /\ SleepInv
  /\ ForkInv /\ OrphanInv /\ InitInv /\ ParentLive /\ WaitSound
  /\ PidInv /\ UniquePids

-----------------------------------------------------------------------------
LEMMA Constants ==
  /\ InitProc \in Proc /\ NULL \notin Proc /\ Ticks \notin Proc /\ Ticks # NULL
  /\ NOCPU \notin CPU /\ 0 \in CPU
BY NPROCAssumption, NCPUAssumption DEF Proc, CPU, NULL, NOCPU, Ticks, InitProc

USE Constants DEF OnCpu, Live, ForkPc

\* The part of IInv that a step leaving the table and the program counters
\* alone cannot disturb.
LEMMA TableFrame ==
  ASSUME IInv, UNCHANGED <<tableVars, pc, np>>
  PROVE  /\ StackInv' /\ SleepInv' /\ OrphanInv' /\ InitInv' /\ ParentLive'
         /\ WaitSound' /\ PidInv' /\ UniquePids'
BY DEF IInv, StackInv, SleepInv, OrphanInv, InitInv, ParentLive, WaitSound, PidInv,
       UniquePids, Children, tableVars

LEMMA SchedAcquireKeeps ==
  ASSUME IInv, NEW c \in CPU, SchedAcquire(c)
  PROVE  IInv'
<1> USE DEF IInv
<1>1. TypeOK'
  BY NPROCAssumption DEF TypeOK, SchedAcquire, tableVars, threadVars
<1>2. LockInv' /\ StackSafe'
  BY DEF TypeOK, LockInv, StackSafe, SchedAcquire, tableVars, threadVars
<1>3. ResumeInv' /\ ForkInv'
  BY DEF TypeOK, LockInv, StackSafe, ResumeInv, Resumable, ForkInv, SchedAcquire,
      tableVars, threadVars
<1> QED BY <1>1, <1>2, <1>3, TableFrame, Zenon DEF SchedAcquire, tableVars, threadVars

LEMMA SchedReleaseKeeps ==
  ASSUME IInv, NEW c \in CPU, SchedRelease(c)
  PROVE  IInv'
<1> USE DEF IInv
<1>1. TypeOK'
  BY Zenon DEF TypeOK, SchedRelease, tableVars, threadVars
<1>2. LockInv' /\ StackSafe'
  BY DEF TypeOK, LockInv, StackSafe, SchedRelease, tableVars, threadVars
<1>3. ResumeInv' /\ ForkInv'
  BY DEF TypeOK, LockInv, StackSafe, ResumeInv, Resumable, ForkInv, SchedRelease,
      tableVars, threadVars
<1> QED BY <1>1, <1>2, <1>3, TableFrame, Zenon DEF SchedRelease, tableVars, threadVars

LEMMA InterruptKeeps ==
  ASSUME IInv, NEW c \in CPU, Interrupt(c)
  PROVE  IInv'
<1> USE DEF IInv
<1>1. TypeOK'
  BY Zenon DEF TypeOK, Interrupt, tableVars, threadVars
<1>2. LockInv' /\ StackSafe'
  BY DEF TypeOK, LockInv, StackSafe, Interrupt, tableVars, threadVars
<1>3. ResumeInv' /\ ForkInv'
  BY DEF TypeOK, LockInv, StackSafe, ResumeInv, Resumable, ForkInv, Interrupt,
      tableVars, threadVars
<1> QED BY <1>1, <1>2, <1>3, TableFrame, Zenon DEF Interrupt, tableVars, threadVars

LEMMA SchedKeeps ==
  ASSUME IInv, NEW c \in CPU, NEW p \in Proc, Sched(c, p)
  PROVE  IInv'
<1> USE DEF IInv
<1>1. TypeOK'
  BY Zenon DEF TypeOK, Sched, tableVars, threadVars
<1>2. LockInv' /\ StackSafe'
  BY DEF TypeOK, LockInv, StackSafe, Sched, tableVars, threadVars
<1>3. ResumeInv' /\ ForkInv'
  BY DEF TypeOK, LockInv, StackSafe, ResumeInv, Resumable, ForkInv, Sched,
      tableVars, threadVars
<1> QED BY <1>1, <1>2, <1>3, TableFrame, Zenon DEF Sched, tableVars, threadVars

LEMMA ForkRetKeeps ==
  ASSUME IInv, NEW c \in CPU, NEW p \in Proc, ForkRet(c, p)
  PROVE  IInv'
<1> USE DEF IInv
<1>1. TypeOK'
  BY Zenon DEF TypeOK, ForkRet, Resumed, tableVars, cpuVars
<1>2. LockInv' /\ StackSafe'
  BY DEF TypeOK, LockInv, StackSafe, ForkRet, Resumed, tableVars, cpuVars
<1>3. ResumeInv' /\ ForkInv'
  BY DEF TypeOK, LockInv, StackSafe, ResumeInv, Resumable, ForkInv, ForkRet,
      Resumed, tableVars, cpuVars
<1> QED BY <1>1, <1>2, <1>3, TableFrame, Zenon DEF ForkRet, Resumed, tableVars, cpuVars

LEMMA YieldRetKeeps ==
  ASSUME IInv, NEW c \in CPU, NEW p \in Proc, YieldRet(c, p)
  PROVE  IInv'
<1> USE DEF IInv
<1>1. TypeOK'
  BY Zenon DEF TypeOK, YieldRet, Resumed, tableVars, cpuVars
<1>2. LockInv' /\ StackSafe'
  BY DEF TypeOK, LockInv, StackSafe, YieldRet, Resumed, tableVars, cpuVars
<1>3. ResumeInv' /\ ForkInv'
  BY DEF TypeOK, LockInv, StackSafe, ResumeInv, Resumable, ForkInv, YieldRet,
      Resumed, tableVars, cpuVars
<1> QED BY <1>1, <1>2, <1>3, TableFrame, Zenon DEF YieldRet, Resumed, tableVars, cpuVars

LEMMA SchedSwtchKeeps ==
  ASSUME IInv, NEW c \in CPU, SchedSwtch(c)
  PROVE  IInv'
<1> USE DEF IInv
<1>a. PICK p \in Proc :
        /\ First(Candidates(c), p)
        /\ state' = [state EXCEPT ![p] = "RUNNING"]
        /\ proc' = [proc EXCEPT ![c] = p]
        /\ scan' = [scan EXCEPT ![c] = p + 1]
  BY Zenon DEF SchedSwtch
<1>b. state[p] = "RUNNABLE" /\ p + 1 \in 1 .. NPROC + 1
  BY <1>a, NPROCAssumption DEF First, Candidates, Proc
<1> USE <1>a, <1>b DEF SchedSwtch, threadVars
<1>1. TypeOK'
  BY Zenon DEF TypeOK, Pc, ProcState
<1>2. LockInv' /\ StackSafe' /\ StackInv'
  BY SMTT(30) DEF LockInv, StackSafe, StackInv, TypeOK, ForkInv
<1>3. ResumeInv' /\ SleepInv'
  BY SMTT(30) DEF ResumeInv, Resumable, SleepInv, TypeOK, LockInv, StackSafe, ForkInv
<1>4. ForkInv' /\ OrphanInv'
  BY SMTT(30) DEF ForkInv, OrphanInv, TypeOK, StackSafe, InitInv
<1>5. InitInv' /\ ParentLive'
  BY SMTT(30) DEF InitInv, ParentLive, TypeOK, StackSafe, ForkInv, OrphanInv
<1>6. WaitSound'
  BY DEF WaitSound, Children, TypeOK, StackSafe, SleepInv, ForkInv, OrphanInv
<1>7. PidInv' /\ UniquePids'
  BY DEF PidInv, UniquePids, TypeOK, StackSafe, ForkInv
<1> QED BY <1>1, <1>2, <1>3, <1>4, <1>5, <1>6, <1>7, Zenon

LEMMA SleepRetKeeps ==
  ASSUME IInv, NEW c \in CPU, NEW p \in Proc, SleepRet(c, p)
  PROVE  IInv'
<1> USE DEF IInv
<1>1. TypeOK'
  BY Zenon DEF TypeOK, Pc, ProcState, SleepRet, Resumed, Goto, cpuVars
<1>2. LockInv' /\ StackSafe' /\ StackInv'
  BY SMTT(30) DEF LockInv, StackSafe, StackInv, TypeOK, ForkInv, SleepRet, Resumed, Goto,
      cpuVars
<1>3. ResumeInv' /\ SleepInv'
  BY DEF ResumeInv, Resumable, SleepInv, TypeOK, LockInv, StackSafe, ForkInv,
      SleepRet, Resumed, Goto, cpuVars
<1>4. ForkInv' /\ OrphanInv'
  BY DEF ForkInv, OrphanInv, TypeOK, StackSafe, InitInv, SleepRet, Resumed, Goto,
      cpuVars
<1>5. InitInv' /\ ParentLive'
  BY Zenon DEF InitInv, ParentLive, TypeOK, StackSafe, ForkInv, OrphanInv, SleepRet,
      Resumed, Goto, cpuVars
<1>6. WaitSound'
  BY DEF WaitSound, Children, TypeOK, StackSafe, SleepInv, ForkInv, OrphanInv,
      SleepRet, Resumed, Goto, cpuVars
<1>7. PidInv' /\ UniquePids'
  BY DEF PidInv, UniquePids, TypeOK, StackSafe, ForkInv, SleepRet, Resumed, Goto,
      cpuVars
<1> QED BY <1>1, <1>2, <1>3, <1>4, <1>5, <1>6, <1>7, Zenon

LEMMA YieldKeeps ==
  ASSUME IInv, NEW c \in CPU, NEW p \in Proc, Yield(c, p)
  PROVE  IInv'
<1> USE DEF IInv
<1>1. TypeOK'
  BY Zenon DEF TypeOK, Pc, ProcState, Yield, cpuVars
<1>2. LockInv' /\ StackSafe' /\ StackInv'
  BY SMTT(30) DEF LockInv, StackSafe, StackInv, TypeOK, ForkInv, Yield, cpuVars
<1>3. ResumeInv' /\ SleepInv'
  BY DEF ResumeInv, Resumable, SleepInv, TypeOK, LockInv, StackSafe, ForkInv, Yield,
      cpuVars
<1>4. ForkInv' /\ OrphanInv'
  BY DEF ForkInv, OrphanInv, TypeOK, StackSafe, InitInv, Yield, cpuVars
<1>5. InitInv' /\ ParentLive'
  BY DEF InitInv, ParentLive, TypeOK, StackSafe, ForkInv, OrphanInv, Yield, cpuVars
<1>6. WaitSound'
  BY DEF WaitSound, Children, TypeOK, StackSafe, SleepInv, ForkInv, OrphanInv,
      Yield, cpuVars
<1>7. PidInv' /\ UniquePids'
  BY DEF PidInv, UniquePids, TypeOK, StackSafe, ForkInv, Yield, cpuVars
<1> QED BY <1>1, <1>2, <1>3, <1>4, <1>5, <1>6, <1>7, Zenon

LEMMA SleepKeeps ==
  ASSUME IInv, NEW c \in CPU, NEW p \in Proc, Sleep(c, p)
  PROVE  IInv'
<1> USE DEF IInv
<1>1. TypeOK'
  BY Zenon DEF TypeOK, Pc, ProcState, Sleep, At, cpuVars
<1>2. LockInv' /\ StackSafe' /\ StackInv'
  BY SMTT(30) DEF LockInv, StackSafe, StackInv, TypeOK, ForkInv, Sleep, At, cpuVars
<1>3. ResumeInv' /\ SleepInv'
  BY SMTT(30) DEF ResumeInv, Resumable, SleepInv, TypeOK, LockInv, StackSafe, ForkInv, Sleep,
      At, cpuVars
<1>4. ForkInv' /\ OrphanInv'
  BY SMTT(30) DEF ForkInv, OrphanInv, TypeOK, StackSafe, InitInv, Sleep, At, cpuVars
<1>5. InitInv' /\ ParentLive'
  BY SMTT(30) DEF InitInv, ParentLive, TypeOK, StackSafe, ForkInv, OrphanInv, Sleep, At,
      cpuVars
<1>6. WaitSound'
  BY DEF WaitSound, Children, TypeOK, StackSafe, SleepInv, ForkInv, OrphanInv,
      Sleep, At, cpuVars
<1>7. PidInv' /\ UniquePids'
  BY DEF PidInv, UniquePids, TypeOK, StackSafe, ForkInv, Sleep, At, cpuVars
<1> QED BY <1>1, <1>2, <1>3, <1>4, <1>5, <1>6, <1>7, Zenon

LEMMA TickKeeps ==
  ASSUME IInv, Tick
  PROVE  IInv'
<1> USE DEF IInv
<1>1. TypeOK'
  BY Zenon DEF TypeOK, Pc, ProcState, Tick, wakeup1, threadVars, cpuVars
<1>2. LockInv' /\ StackSafe' /\ StackInv'
  BY SMTT(30) DEF LockInv, StackSafe, StackInv, TypeOK, ForkInv, Tick, wakeup1, threadVars,
      cpuVars
<1>3. ResumeInv' /\ SleepInv'
  BY DEF ResumeInv, Resumable, SleepInv, TypeOK, LockInv, StackSafe, ForkInv, Tick,
      wakeup1, threadVars, cpuVars
<1>4. ForkInv' /\ OrphanInv'
  BY DEF ForkInv, OrphanInv, TypeOK, StackSafe, InitInv, Tick, wakeup1, threadVars,
      cpuVars
<1>5. InitInv' /\ ParentLive'
  BY Zenon DEF InitInv, ParentLive, TypeOK, StackSafe, ForkInv, OrphanInv, Tick, wakeup1,
      threadVars, cpuVars
<1>6. WaitSound'
  BY DEF WaitSound, Children, TypeOK, StackSafe, SleepInv, ForkInv, OrphanInv, Tick,
      wakeup1, threadVars, cpuVars
<1>7. PidInv' /\ UniquePids'
  BY Zenon DEF PidInv, UniquePids, TypeOK, StackSafe, ForkInv, Tick, wakeup1, threadVars,
      cpuVars
<1> QED BY <1>1, <1>2, <1>3, <1>4, <1>5, <1>6, <1>7, Zenon

\* A step of p's own code outside fork, which touches the table at most by
\* setting p's own killed flag.
LocalStep(c, p, l) ==
  /\ OnCpu(c, p) /\ lock # c /\ pc[p] \notin ForkPc
  /\ Goto(p, l)
  /\ killed' \in {killed, [killed EXCEPT ![p] = TRUE]}
  /\ np' \in [Proc -> Proc \cup {NULL}]
  /\ \A q \in Proc : q # p => np'[q] = np[q]
  /\ UNCHANGED <<lock, state, pid, parent, chan, kstack, nextpid, context, cpuVars>>

LEMMA LocalStepKeeps ==
  ASSUME IInv, NEW c \in CPU, NEW p \in Proc, NEW l \in Pc \ ForkPc, LocalStep(c, p, l)
  PROVE  IInv'
<1> USE DEF IInv
<1>1. TypeOK'
  BY Zenon DEF TypeOK, Pc, ProcState, LocalStep, Goto, cpuVars
<1>2. LockInv' /\ StackSafe' /\ StackInv'
  BY SMTT(30) DEF LockInv, StackSafe, StackInv, TypeOK, ForkInv, LocalStep, Goto, cpuVars
<1>3. ResumeInv' /\ SleepInv'
  BY DEF ResumeInv, Resumable, SleepInv, TypeOK, LockInv, StackSafe, ForkInv,
      LocalStep, Goto, cpuVars
<1>4. ForkInv' /\ OrphanInv'
  BY DEF ForkInv, OrphanInv, TypeOK, StackSafe, InitInv, LocalStep, Goto, cpuVars
<1>5. InitInv' /\ ParentLive'
  BY Zenon DEF InitInv, ParentLive, TypeOK, StackSafe, ForkInv, OrphanInv, LocalStep,
      Goto, cpuVars
<1>6. WaitSound'
  BY DEF WaitSound, Children, TypeOK, StackSafe, SleepInv, ForkInv, OrphanInv,
      LocalStep, Goto, cpuVars
<1>7. PidInv' /\ UniquePids'
  BY Zenon DEF PidInv, UniquePids, TypeOK, StackSafe, ForkInv, LocalStep, Goto, cpuVars
<1> QED BY <1>1, <1>2, <1>3, <1>4, <1>5, <1>6, <1>7, Zenon

LEMMA ForkAllocKeeps ==
  ASSUME IInv, NEW c \in CPU, NEW p \in Proc, ForkAlloc(c, p)
  PROVE  IInv'
<1> USE DEF IInv
<1>1. CASE Unused = {} /\ ForkFailed(p) /\ UNCHANGED <<tableVars, np>>
  <2>1. PICK l \in {"exit", "ret"} : Goto(p, l)
    BY <1>1, Zenon DEF ForkFailed
  <2>2. LocalStep(c, p, l)
    BY <1>1, <2>1, Zenon DEF LocalStep, ForkAlloc, At, tableVars, TypeOK
  <2> QED BY <2>2, LocalStepKeeps, Zenon DEF Pc
<1>2. CASE ~(Unused = {} /\ ForkFailed(p) /\ UNCHANGED <<tableVars, np>>)
  <2>a. PICK q \in Proc : /\ First(Unused, q)
                          /\ state' = [state EXCEPT ![q] = "EMBRYO"]
                          /\ pid' = [pid EXCEPT ![q] = nextpid]
                          /\ np' = [np EXCEPT ![p] = q]
    BY <1>2, Zenon DEF ForkAlloc
  <2>b. /\ state[q] = "UNUSED" /\ pc[p] = "syscall" /\ OnCpu(c, p) /\ lock # c
        /\ nextpid' = nextpid + 1
        /\ pc' = [pc EXCEPT ![p] = "kstack"]
        /\ UNCHANGED <<parent, chan, killed, kstack, lock, context, cpuVars>>
    BY <1>2, <2>a, Zenon DEF ForkAlloc, First, Unused, At, Goto
  <2> USE <2>a, <2>b
  <2>1. TypeOK'
    BY SMTT(30) DEF TypeOK, Pc, ProcState, cpuVars
  <2>2. LockInv' /\ StackSafe' /\ StackInv'
    BY SMTT(30) DEF LockInv, StackSafe, StackInv, TypeOK, ForkInv, cpuVars
  <2>3. ResumeInv' /\ SleepInv'
    BY SMTT(30) DEF ResumeInv, Resumable, SleepInv, TypeOK, LockInv, StackSafe, ForkInv,
        cpuVars
  <2>4. ForkInv' /\ OrphanInv'
    BY SMTT(30) DEF ForkInv, OrphanInv, TypeOK, StackSafe, InitInv, cpuVars
  <2>5. InitInv' /\ ParentLive'
    BY SMTT(30) DEF InitInv, ParentLive, TypeOK, StackSafe, ForkInv, OrphanInv, cpuVars
  <2>6. WaitSound'
    BY SMTT(30) DEF WaitSound, Children, TypeOK, StackSafe, SleepInv, ForkInv, OrphanInv,
        cpuVars
  <2>7. PidInv' /\ UniquePids'
    BY DEF PidInv, UniquePids, TypeOK, StackSafe, ForkInv, cpuVars
  <2> QED BY <2>1, <2>2, <2>3, <2>4, <2>5, <2>6, <2>7, Zenon
<1> QED BY <1>1, <1>2, Zenon

LEMMA ForkKstackKeeps ==
  ASSUME IInv, NEW c \in CPU, NEW p \in Proc, ForkKstack(c, p)
  PROVE  IInv'
<1> USE DEF IInv
<1>a. /\ OnCpu(c, p) /\ lock # c /\ pc[p] = "kstack"
      /\ np[p] \in Proc /\ state[np[p]] = "EMBRYO" /\ parent[np[p]] = NULL /\ np[p] # p
  BY Zenon DEF ForkKstack, At, ForkInv
<1>1. CASE /\ kstack' = [kstack EXCEPT ![np[p]] = TRUE]
           /\ context' = [context EXCEPT ![np[p]] = "forkret"]
           /\ pc' = [pc EXCEPT ![p] = "copyuvm"]
           /\ UNCHANGED <<state, np, lock, pid, parent, chan, killed, nextpid, cpuVars>>
  <2> USE <1>a, <1>1
  <2>1. TypeOK'
    BY Zenon DEF TypeOK, Pc, ProcState, cpuVars
  <2>2. LockInv' /\ StackSafe' /\ StackInv'
    BY SMTT(30) DEF LockInv, StackSafe, StackInv, TypeOK, ForkInv, cpuVars
  <2>3. ResumeInv' /\ SleepInv'
    BY SMTT(30) DEF ResumeInv, Resumable, SleepInv, TypeOK, LockInv, StackSafe, ForkInv,
        cpuVars
  <2>4. ForkInv' /\ OrphanInv'
    BY DEF ForkInv, OrphanInv, TypeOK, StackSafe, InitInv, cpuVars
  <2>5. InitInv' /\ ParentLive'
    BY Zenon DEF InitInv, ParentLive, TypeOK, StackSafe, ForkInv, OrphanInv, cpuVars
  <2>6. WaitSound'
    BY SMTT(30) DEF WaitSound, Children, TypeOK, StackSafe, SleepInv, ForkInv, OrphanInv,
        cpuVars
  <2>7. PidInv' /\ UniquePids'
    BY DEF PidInv, UniquePids, TypeOK, StackSafe, ForkInv, cpuVars
  <2> QED BY <2>1, <2>2, <2>3, <2>4, <2>5, <2>6, <2>7, Zenon
<1>2. CASE /\ state' = [state EXCEPT ![np[p]] = "UNUSED"]
           /\ np' = [np EXCEPT ![p] = NULL]
           /\ pc' \in {[pc EXCEPT ![p] = "ret"], [pc EXCEPT ![p] = "exit"]}
           /\ UNCHANGED <<lock, pid, parent, chan, killed, nextpid, cpuVars, kstack, context>>
  <2> USE <1>a, <1>2
  <2>1. TypeOK'
    BY SMTT(30) DEF TypeOK, Pc, ProcState, cpuVars
  <2>2. LockInv' /\ StackSafe' /\ StackInv'
    BY SMTT(30) DEF LockInv, StackSafe, StackInv, TypeOK, ForkInv, cpuVars
  <2>3. ResumeInv' /\ SleepInv'
    BY SMTT(30) DEF ResumeInv, Resumable, SleepInv, TypeOK, LockInv, StackSafe, ForkInv,
        cpuVars
  <2>4. ForkInv' /\ OrphanInv'
    BY SMTT(30) DEF ForkInv, OrphanInv, TypeOK, StackSafe, InitInv, cpuVars
  <2>5. InitInv' /\ ParentLive'
    BY SMTT(30) DEF InitInv, ParentLive, TypeOK, StackSafe, ForkInv, OrphanInv, cpuVars
  <2>6. WaitSound'
    BY SMTT(30) DEF WaitSound, Children, TypeOK, StackSafe, SleepInv, ForkInv, OrphanInv,
        cpuVars
  <2>7. PidInv' /\ UniquePids'
    BY DEF PidInv, UniquePids, TypeOK, StackSafe, ForkInv, cpuVars
  <2> QED BY <2>1, <2>2, <2>3, <2>4, <2>5, <2>6, <2>7, Zenon
<1> QED BY <1>1, <1>2, Zenon DEF ForkKstack, ForkFailed, Goto

LEMMA ForkCopyKeeps ==
  ASSUME IInv, NEW c \in CPU, NEW p \in Proc, ForkCopy(c, p)
  PROVE  IInv'
<1> USE DEF IInv
<1>a. /\ OnCpu(c, p) /\ lock # c /\ pc[p] = "copyuvm"
      /\ np[p] \in Proc /\ state[np[p]] = "EMBRYO" /\ parent[np[p]] = NULL /\ np[p] # p
  BY Zenon DEF ForkCopy, At, ForkInv
<1>1. CASE /\ parent' = [parent EXCEPT ![np[p]] = p]
           /\ pc' = [pc EXCEPT ![p] = "publish"]
           /\ UNCHANGED <<state, kstack, np, lock, pid, chan, killed, nextpid, context, cpuVars>>
  <2> USE <1>a, <1>1
  <2>1. TypeOK'
    BY Zenon DEF TypeOK, Pc, ProcState, cpuVars
  <2>2. LockInv' /\ StackSafe' /\ StackInv'
    BY SMTT(30) DEF LockInv, StackSafe, StackInv, TypeOK, ForkInv, cpuVars
  <2>3. ResumeInv' /\ SleepInv'
    BY SMTT(30) DEF ResumeInv, Resumable, SleepInv, TypeOK, LockInv, StackSafe, ForkInv,
        cpuVars
  <2>4. ForkInv' /\ OrphanInv'
    BY SMTT(30) DEF ForkInv, OrphanInv, TypeOK, StackSafe, InitInv, cpuVars
  <2>5. InitInv' /\ ParentLive'
    BY SMTT(30) DEF InitInv, ParentLive, TypeOK, StackSafe, ForkInv, OrphanInv, cpuVars
  <2>6. WaitSound'
    BY SMTT(30) DEF WaitSound, Children, TypeOK, StackSafe, SleepInv, ForkInv, OrphanInv,
        cpuVars
  <2>7. PidInv' /\ UniquePids'
    BY DEF PidInv, UniquePids, TypeOK, StackSafe, ForkInv, cpuVars
  <2> QED BY <2>1, <2>2, <2>3, <2>4, <2>5, <2>6, <2>7, Zenon
<1>2. CASE /\ state' = [state EXCEPT ![np[p]] = "UNUSED"]
           /\ np' = [np EXCEPT ![p] = NULL]
           /\ pc' \in {[pc EXCEPT ![p] = "ret"], [pc EXCEPT ![p] = "exit"]}
           /\ kstack' = [kstack EXCEPT ![np[p]] = FALSE]
           /\ UNCHANGED <<lock, pid, parent, chan, killed, nextpid, cpuVars, context>>
  <2> USE <1>a, <1>2
  <2>1. TypeOK'
    BY SMTT(30) DEF TypeOK, Pc, ProcState, cpuVars
  <2>2. LockInv' /\ StackSafe' /\ StackInv'
    BY SMTT(30) DEF LockInv, StackSafe, StackInv, TypeOK, ForkInv, cpuVars
  <2>3. ResumeInv' /\ SleepInv'
    BY SMTT(30) DEF ResumeInv, Resumable, SleepInv, TypeOK, LockInv, StackSafe, ForkInv,
        cpuVars
  <2>4. ForkInv' /\ OrphanInv'
    BY SMTT(30) DEF ForkInv, OrphanInv, TypeOK, StackSafe, InitInv, cpuVars
  <2>5. InitInv' /\ ParentLive'
    BY SMTT(30) DEF InitInv, ParentLive, TypeOK, StackSafe, ForkInv, OrphanInv, cpuVars
  <2>6. WaitSound'
    BY SMTT(30) DEF WaitSound, Children, TypeOK, StackSafe, SleepInv, ForkInv, OrphanInv,
        cpuVars
  <2>7. PidInv' /\ UniquePids'
    BY DEF PidInv, UniquePids, TypeOK, StackSafe, ForkInv, cpuVars
  <2> QED BY <2>1, <2>2, <2>3, <2>4, <2>5, <2>6, <2>7, Zenon
<1> QED BY <1>1, <1>2, Zenon DEF ForkCopy, ForkFailed, Goto

LEMMA ForkPublishKeeps ==
  ASSUME IInv, NEW c \in CPU, NEW p \in Proc, ForkPublish(c, p)
  PROVE  IInv'
<1> USE DEF IInv
<1>a. /\ OnCpu(c, p) /\ lock = NOCPU /\ pc[p] = "publish"
      /\ np[p] \in Proc /\ state[np[p]] = "EMBRYO" /\ parent[np[p]] = p /\ np[p] # p
      /\ kstack[np[p]] /\ context[np[p]] = "forkret"
      /\ state' = [state EXCEPT ![np[p]] = "RUNNABLE"]
      /\ pc' = [pc EXCEPT ![p] = "ret", ![np[p]] = "user"]
      /\ np' = [np EXCEPT ![p] = NULL]
      /\ UNCHANGED <<lock, pid, parent, chan, killed, kstack, nextpid, context, cpuVars>>
  BY Zenon DEF ForkPublish, At, ForkInv
<1> USE <1>a
<1>1. TypeOK'
  BY Zenon DEF TypeOK, Pc, ProcState, cpuVars
<1>2. LockInv' /\ StackSafe' /\ StackInv'
  BY SMTT(30) DEF LockInv, StackSafe, StackInv, TypeOK, ForkInv, cpuVars
<1>3. ResumeInv' /\ SleepInv'
  BY SMTT(30) DEF ResumeInv, Resumable, SleepInv, TypeOK, LockInv, StackSafe, ForkInv,
      cpuVars
<1>4. ForkInv' /\ OrphanInv'
  BY SMTT(30) DEF ForkInv, OrphanInv, TypeOK, StackSafe, InitInv, cpuVars
<1>5. InitInv' /\ ParentLive'
  BY SMTT(30) DEF InitInv, ParentLive, TypeOK, StackSafe, ForkInv, OrphanInv, cpuVars
<1>6. WaitSound'
  BY SMTT(30) DEF WaitSound, Children, TypeOK, StackSafe, SleepInv, ForkInv, OrphanInv,
      cpuVars
<1>7. PidInv' /\ UniquePids'
  BY DEF PidInv, UniquePids, TypeOK, StackSafe, ForkInv, cpuVars
<1> QED BY <1>1, <1>2, <1>3, <1>4, <1>5, <1>6, <1>7, Zenon

\* The only sleepers exit() leaves asleep are no parent of p, and not init when
\* init adopts a zombie.
LEMMA ExitKeeps ==
  ASSUME IInv, NEW c \in CPU, NEW p \in Proc, Exit(c, p)
  PROVE  IInv'
<1> USE DEF IInv
<1>a. /\ OnCpu(c, p) /\ lock = NOCPU /\ pc[p] = "exit" /\ p # InitProc
      /\ lock' = c
      /\ parent' = [q \in Proc |-> IF parent[q] = p THEN InitProc ELSE parent[q]]
      /\ UNCHANGED <<pid, chan, killed, kstack, nextpid, threadVars, cpuVars>>
  BY Zenon DEF Exit, At, Children
<1>b. state[p] = "RUNNING"
  BY <1>a, Zenon DEF StackSafe
<1>c. state' \in [Proc -> ProcState] /\ state'[p] = "ZOMBIE"
  BY <1>a, Zenon DEF Exit, TypeOK, ProcState, wakeup1
<1>d. \A q \in Proc \ {p} :
        state'[q] # state[q] => state[q] = "SLEEPING" /\ state'[q] = "RUNNABLE"
  BY <1>a, Zenon DEF Exit, TypeOK, wakeup1
<1>e. \A q \in Proc \ {p} : chan[q] = parent[p] => state'[q] # "SLEEPING"
  BY <1>a, Zenon DEF Exit, TypeOK, wakeup1
<1>f. ASSUME NEW r \in Proc, parent[r] = p, state[r] = "ZOMBIE"
      PROVE  \A q \in Proc \ {p} : chan[q] = InitProc => state'[q] # "SLEEPING"
  BY <1>a, <1>f, Zenon DEF Exit, TypeOK, wakeup1, Children
<1> USE <1>a, <1>b, <1>c, <1>d
<1>1. TypeOK'
  BY Zenon DEF TypeOK, Pc, ProcState, threadVars, cpuVars
<1>2. LockInv' /\ StackSafe' /\ StackInv'
  BY SMTT(30) DEF LockInv, StackSafe, StackInv, TypeOK, ForkInv, threadVars, cpuVars
<1>3. ResumeInv' /\ SleepInv'
  BY SMTT(30) DEF ResumeInv, Resumable, SleepInv, TypeOK, LockInv, StackSafe, ForkInv,
      threadVars, cpuVars
<1>4. ForkInv' /\ OrphanInv'
  BY SMTT(30) DEF ForkInv, OrphanInv, TypeOK, StackSafe, InitInv, threadVars, cpuVars
<1>5. InitInv' /\ ParentLive'
  BY DEF InitInv, ParentLive, TypeOK, StackSafe, ForkInv, OrphanInv, threadVars,
      cpuVars
<1>6. WaitSound'
  <2> SUFFICES ASSUME NEW w \in Proc, state'[w] = "SLEEPING", pc[w] = "wait"
               PROVE  /\ ~killed[w]
                      /\ \E q \in Proc : parent'[q] = w
                      /\ \A q \in Proc : parent'[q] = w => state'[q] \in Live
    BY SMTT(30) DEF WaitSound, Children, threadVars
  <2>1. w # p /\ state[w] = "SLEEPING" /\ chan[w] = w /\ w # parent[p]
    BY <1>e, SMTT(30) DEF SleepInv
  <2>2. ~killed[w] /\ \E q \in Proc : parent'[q] = w
    BY <2>1, SMTT(30) DEF WaitSound, Children, TypeOK
  <2>3. ASSUME NEW q \in Proc, parent'[q] = w, parent[q] # p
        PROVE  state'[q] \in Live
    BY <2>1, <2>3, SMTT(30) DEF WaitSound, Children, TypeOK
  <2>4. ASSUME NEW q \in Proc, parent'[q] = w, parent[q] = p
        PROVE  state'[q] \in Live
    <3>1. w = InitProc /\ q # p
      BY <2>4 DEF OrphanInv
    <3>2. state[q] # "ZOMBIE"
      BY <1>f, <2>1, <2>4, <3>1, Zenon
    <3>3. state[q] \notin {"UNUSED", "EMBRYO"}
      BY <2>4, SMTT(30) DEF OrphanInv, ForkInv
    <3> QED BY <3>1, <3>2, <3>3, SMTT(30) DEF TypeOK, ProcState
  <2> QED BY <2>2, <2>3, <2>4, ZenonT(30)
<1>7. PidInv' /\ UniquePids'
  BY SMTT(30) DEF PidInv, UniquePids, TypeOK, StackSafe, ForkInv, threadVars, cpuVars
<1> QED BY <1>1, <1>2, <1>3, <1>4, <1>5, <1>6, <1>7, Zenon

LEMMA ReapKeeps ==
  ASSUME IInv, NEW c \in CPU, NEW p \in Proc, NEW q \in Proc,
         OnCpu(c, p), pc[p] = "wait", lock \in {NOCPU, c}, state[p] = "RUNNING",
         parent[q] = p, state[q] = "ZOMBIE",
         state' = [state EXCEPT ![q] = "UNUSED"],
         kstack' = [kstack EXCEPT ![q] = FALSE],
         pid' = [pid EXCEPT ![q] = 0],
         parent' = [parent EXCEPT ![q] = NULL],
         killed' = [killed EXCEPT ![q] = FALSE],
         lock' = NOCPU,
         chan' = [chan EXCEPT ![p] = NULL],
         context' = [context EXCEPT ![p] = "running"],
         Goto(p, "ret"), UNCHANGED <<nextpid, np, cpuVars>>
  PROVE  IInv'
<1> USE DEF IInv
<1>1. TypeOK'
  BY Zenon DEF TypeOK, Pc, ProcState, Goto, cpuVars
<1>2. LockInv' /\ StackSafe' /\ StackInv'
  BY SMTT(30) DEF LockInv, StackSafe, StackInv, TypeOK, ForkInv, Goto, cpuVars
<1>3. ResumeInv' /\ SleepInv'
  BY SMTT(30) DEF ResumeInv, Resumable, SleepInv, TypeOK, LockInv, StackSafe, ForkInv, Goto,
      cpuVars
<1>4. ForkInv' /\ OrphanInv'
  BY SMTT(30) DEF ForkInv, OrphanInv, TypeOK, StackSafe, InitInv, Goto, cpuVars
<1>5. InitInv' /\ ParentLive'
  BY SMTT(30) DEF InitInv, ParentLive, TypeOK, StackSafe, ForkInv, OrphanInv, Goto, cpuVars
<1>6. WaitSound'
  BY SMTT(30) DEF WaitSound, Children, TypeOK, StackSafe, SleepInv, ForkInv, OrphanInv, Goto,
      cpuVars
<1>7. PidInv' /\ UniquePids'
  BY DEF PidInv, UniquePids, TypeOK, StackSafe, ForkInv, Goto, cpuVars
<1> QED BY <1>1, <1>2, <1>3, <1>4, <1>5, <1>6, <1>7, Zenon

LEMMA WaitFailedKeeps ==
  ASSUME IInv, NEW c \in CPU, NEW p \in Proc,
         OnCpu(c, p), pc[p] = "wait", lock \in {NOCPU, c}, state[p] = "RUNNING",
         WaitFailed(p), UNCHANGED <<nextpid, np, cpuVars>>
  PROVE  IInv'
<1> USE DEF IInv
<1>1. TypeOK'
  BY Zenon DEF TypeOK, Pc, ProcState, WaitFailed, Goto, cpuVars
<1>2. LockInv' /\ StackSafe' /\ StackInv'
  BY SMTT(30) DEF LockInv, StackSafe, StackInv, TypeOK, ForkInv, WaitFailed, Goto, cpuVars
<1>3. ResumeInv' /\ SleepInv'
  BY SMTT(30) DEF ResumeInv, Resumable, SleepInv, TypeOK, LockInv, StackSafe, ForkInv,
      WaitFailed, Goto, cpuVars
<1>4. ForkInv' /\ OrphanInv'
  BY DEF ForkInv, OrphanInv, TypeOK, StackSafe, InitInv, WaitFailed, Goto, cpuVars
<1>5. InitInv' /\ ParentLive'
  BY Zenon DEF InitInv, ParentLive, TypeOK, StackSafe, ForkInv, OrphanInv, WaitFailed,
      Goto, cpuVars
<1>6. WaitSound'
  BY DEF WaitSound, Children, TypeOK, StackSafe, SleepInv, ForkInv, OrphanInv,
      WaitFailed, Goto, cpuVars
<1>7. PidInv' /\ UniquePids'
  BY Zenon DEF PidInv, UniquePids, TypeOK, StackSafe, ForkInv, WaitFailed, Goto, cpuVars
<1> QED BY <1>1, <1>2, <1>3, <1>4, <1>5, <1>6, <1>7, Zenon

LEMMA WaitSleepKeeps ==
  ASSUME IInv, NEW c \in CPU, NEW p \in Proc,
         OnCpu(c, p), pc[p] = "wait", lock \in {NOCPU, c}, state[p] = "RUNNING",
         WaitSleep(c, p), UNCHANGED <<nextpid, np, cpuVars>>
  PROVE  IInv'
<1> USE DEF IInv
<1>1. TypeOK'
  BY Zenon DEF TypeOK, Pc, ProcState, WaitSleep, ZombieChildren, Children, cpuVars
<1>2. LockInv' /\ StackSafe' /\ StackInv'
  BY SMTT(30) DEF LockInv, StackSafe, StackInv, TypeOK, ForkInv, WaitSleep, ZombieChildren,
      Children, cpuVars
<1>3. ResumeInv' /\ SleepInv'
  BY SMTT(30) DEF ResumeInv, Resumable, SleepInv, TypeOK, LockInv, StackSafe, ForkInv,
      WaitSleep, ZombieChildren, Children, cpuVars
<1>4. ForkInv' /\ OrphanInv'
  BY SMTT(30) DEF ForkInv, OrphanInv, TypeOK, StackSafe, InitInv, WaitSleep, ZombieChildren,
      Children, cpuVars
<1>5. InitInv' /\ ParentLive'
  BY SMTT(30) DEF InitInv, ParentLive, TypeOK, StackSafe, ForkInv, OrphanInv, WaitSleep,
      ZombieChildren, Children, cpuVars
<1>6. WaitSound'
  <2>1. Children(p)' = Children(p) /\ \A q \in Children(p) : state[q] \in Live
    BY SMTT(30) DEF WaitSleep, ZombieChildren, Children, OrphanInv, ForkInv, TypeOK, ProcState
  <2> QED BY <2>1, SMTT(30) DEF WaitSound, Children, TypeOK, WaitSleep, OrphanInv, cpuVars
<1>7. PidInv' /\ UniquePids'
  BY DEF PidInv, UniquePids, TypeOK, StackSafe, ForkInv, WaitSleep, ZombieChildren,
      Children, cpuVars
<1> QED BY <1>1, <1>2, <1>3, <1>4, <1>5, <1>6, <1>7, Zenon

LEMMA WaitKeeps ==
  ASSUME IInv, NEW c \in CPU, NEW p \in Proc, Wait(c, p)
  PROVE  IInv'
<1> USE DEF IInv
<1>1. /\ OnCpu(c, p) /\ pc[p] = "wait" /\ lock \in {NOCPU, c} /\ state[p] = "RUNNING"
      /\ UNCHANGED <<nextpid, np, cpuVars>>
  BY Zenon DEF Wait, At, Resumed, StackSafe
<1>2. CASE Reap(p)
  <2>1. PICK q \in Proc :
          /\ First(ZombieChildren(p), q)
          /\ state' = [state EXCEPT ![q] = "UNUSED"]
          /\ kstack' = [kstack EXCEPT ![q] = FALSE]
          /\ pid' = [pid EXCEPT ![q] = 0]
          /\ parent' = [parent EXCEPT ![q] = NULL]
          /\ killed' = [killed EXCEPT ![q] = FALSE]
    BY <1>2, Zenon DEF Reap
  <2>2. parent[q] = p /\ state[q] = "ZOMBIE"
    BY <2>1, Zenon DEF First, ZombieChildren, Children
  <2> QED BY <1>1, <1>2, <2>1, <2>2, ReapKeeps, Zenon DEF Reap
<1> QED BY <1>1, <1>2, WaitFailedKeeps, WaitSleepKeeps, Zenon DEF Wait

LEMMA KillKeeps ==
  ASSUME IInv, NEW c \in CPU, NEW p \in Proc, Kill(c, p)
  PROVE  IInv'
<1> USE DEF IInv
<1>a. /\ OnCpu(c, p) /\ lock = NOCPU /\ pc[p] = "syscall"
      /\ pc' = [pc EXCEPT ![p] = "ret"]
      /\ UNCHANGED <<lock, pid, parent, chan, kstack, nextpid, context, np, cpuVars>>
  BY Zenon DEF Kill, At, Goto
<1>1. CASE UNCHANGED <<state, killed>>
  BY <1>1, <1>a, LocalStepKeeps, Zenon DEF LocalStep, Goto, Pc, TypeOK
<1>2. CASE \E q \in Proc :
        /\ killed' = [killed EXCEPT ![q] = TRUE]
        /\ state' = [state EXCEPT ![q] = IF @ = "SLEEPING" THEN "RUNNABLE" ELSE @]
  <2>a. PICK q \in Proc :
          /\ killed' = [killed EXCEPT ![q] = TRUE]
          /\ state' = [state EXCEPT ![q] = IF @ = "SLEEPING" THEN "RUNNABLE" ELSE @]
    BY <1>2, Zenon
  <2> USE <1>a, <2>a
  <2>1. TypeOK'
    BY Zenon DEF TypeOK, Pc, ProcState, cpuVars
  <2>2. LockInv' /\ StackSafe' /\ StackInv'
    <3>1. LockInv'
      BY Zenon DEF LockInv, StackSafe, TypeOK, cpuVars
    <3>2. StackSafe'
      BY SMTT(30) DEF StackSafe, TypeOK, cpuVars
    <3>3. StackInv'
      BY SMTT(30) DEF StackInv, StackSafe, TypeOK, cpuVars
    <3> QED BY <3>1, <3>2, <3>3, Zenon
  <2>3. ResumeInv' /\ SleepInv'
    BY DEF ResumeInv, Resumable, SleepInv, TypeOK, LockInv, StackSafe, ForkInv,
        cpuVars
  <2>4. ForkInv' /\ OrphanInv'
    <3>1. ForkInv'
      BY SMTT(30) DEF ForkInv, StackSafe, TypeOK, cpuVars
    <3>2. OrphanInv'
      BY SMTT(30) DEF OrphanInv, ForkInv, StackSafe, TypeOK, cpuVars
    <3> QED BY <3>1, <3>2, Zenon
  <2>5. InitInv' /\ ParentLive'
    BY SMTT(30) DEF InitInv, ParentLive, TypeOK, StackSafe, ForkInv, OrphanInv, cpuVars
  <2>6. WaitSound'
    BY SMTT(30) DEF WaitSound, Children, TypeOK, StackSafe, SleepInv, ForkInv, OrphanInv,
        cpuVars
  <2>7. PidInv' /\ UniquePids'
    BY DEF PidInv, UniquePids, TypeOK, StackSafe, ForkInv, cpuVars
  <2> QED BY <2>1, <2>2, <2>3, <2>4, <2>5, <2>6, <2>7, Zenon
<1> QED BY <1>1, <1>2, Zenon DEF Kill

\* The remaining steps of p's own code are all local steps.
LEMMA LocalKeeps ==
  ASSUME IInv, NEW c \in CPU, NEW p \in Proc,
         \/ Syscall(c, p) \/ SysRet(c, p) \/ TrapKilled(c, p) \/ UserFault(c, p)
         \/ Dispatch(c, p) \/ SysSleepTest(c, p) \/ ExitPanic(c, p)
         \/ GetppidParent(c, p) \/ GetppidPid(c, p)
  PROVE  IInv'
<1> USE DEF IInv, LocalStep, At, tableVars, TypeOK
<1>1. CASE Syscall(c, p)
  BY <1>1, LocalStepKeeps, Zenon DEF Syscall, Pc
<1>2. CASE SysRet(c, p)
  BY <1>2, LocalStepKeeps, Zenon DEF SysRet, Pc
<1>3. CASE TrapKilled(c, p)
  BY <1>3, LocalStepKeeps, Zenon DEF TrapKilled, Pc
<1>4. CASE UserFault(c, p)
  BY <1>4, LocalStepKeeps, Zenon DEF UserFault, Pc
<1>5. CASE Dispatch(c, p)
  BY <1>5, LocalStepKeeps, Zenon DEF Dispatch, Pc
<1>6. CASE SysSleepTest(c, p)
  BY <1>6, LocalStepKeeps, Zenon DEF SysSleepTest, Pc
<1>7. CASE ExitPanic(c, p)
  BY <1>7, LocalStepKeeps, Zenon DEF ExitPanic, Pc
<1>8. CASE GetppidParent(c, p)
  BY <1>8, LocalStepKeeps, ZenonT(30) DEF GetppidParent, Pc
<1>9. CASE GetppidPid(c, p)
  BY <1>9, LocalStepKeeps, Zenon DEF GetppidPid, Pc
<1> QED BY <1>1, <1>2, <1>3, <1>4, <1>5, <1>6, <1>7, <1>8, <1>9, Zenon

-----------------------------------------------------------------------------
\* IInv is an invariant of the process table for every NPROC and NCPU.
THEOREM Invariance == Spec => []IInv
<1>1. Init => IInv
  <2> SUFFICES ASSUME Init PROVE IInv
    BY Zenon
  <2>1. TypeOK /\ PidInv
    BY NPROCAssumption DEF Init, TypeOK, PidInv, Pc, ProcState, Proc, InitProc
  <2>2. /\ LockInv /\ StackSafe /\ StackInv /\ ResumeInv /\ SleepInv /\ ForkInv
        /\ OrphanInv /\ InitInv /\ ParentLive /\ WaitSound /\ UniquePids
    BY Zenon DEF Init, LockInv, StackSafe, StackInv, ResumeInv, Resumable, SleepInv, ForkInv,
           OrphanInv, InitInv, ParentLive, WaitSound, UniquePids
  <2> QED BY <2>1, <2>2, Zenon DEF IInv
<1>2. IInv /\ [Next]_vars => IInv'
  <2> SUFFICES ASSUME IInv, [Next]_vars PROVE IInv'
    BY Zenon
  <2>1. CASE UNCHANGED vars
    <3> USE <2>1 DEF IInv, vars, tableVars, threadVars, cpuVars
    <3>1. TypeOK' /\ LockInv' /\ StackSafe'
      <4>1. TypeOK'
        BY SMTT(30) DEF TypeOK
      <4>2. LockInv'
        BY SMTT(30) DEF LockInv
      <4>3. StackSafe'
        BY SMTT(30) DEF StackSafe
      <4> QED BY <4>1, <4>2, <4>3, Zenon
    <3>2. ResumeInv' /\ ForkInv'
      <4>1. ResumeInv'
        BY SMTT(30) DEF ResumeInv, Resumable
      <4>2. ForkInv'
        BY SMTT(30) DEF ForkInv
      <4> QED BY <4>1, <4>2, Zenon
    <3> QED BY <3>1, <3>2, TableFrame, Zenon
  <2>2. CASE Tick
    BY <2>2, TickKeeps, Zenon
  <2>3. ASSUME NEW c \in CPU, Scheduler(c)
        PROVE  IInv'
    BY <2>3, SchedAcquireKeeps, SchedSwtchKeeps, SchedReleaseKeeps, InterruptKeeps, Zenon
       DEF Scheduler
  <2>4. ASSUME NEW c \in CPU, NEW p \in Proc, Switch(c, p)
        PROVE  IInv'
    BY <2>4, SchedKeeps, ForkRetKeeps, YieldRetKeeps, SleepRetKeeps, Zenon DEF Switch
  <2>5. ASSUME NEW c \in CPU, NEW p \in Proc, Step(c, p)
        PROVE  IInv'
    BY <2>5, LocalKeeps, SleepKeeps, ForkAllocKeeps, ForkKstackKeeps, ForkCopyKeeps,
       ForkPublishKeeps, ExitKeeps, WaitKeeps, KillKeeps, Zenon DEF Step
  <2>6. ASSUME NEW c \in CPU, NEW p \in Proc, Yield(c, p)
        PROVE  IInv'
    BY <2>6, YieldKeeps, Zenon
  <2> QED BY <2>1, <2>2, <2>3, <2>4, <2>5, <2>6, Zenon DEF Next
<1> QED BY <1>1, <1>2, PTL DEF Spec

\* The state of every process is of the declared type at all times.
THEOREM TypeCorrect == Spec => []TypeOK
BY Invariance, PTL DEF IInv

\* No kernel stack is shared by two CPUs, left while its process can be taken
\* by another, or freed while a CPU is on it.
THEOREM StacksSafe == Spec => []StackSafe
BY Invariance, PTL DEF IInv

\* ptable.lock is never lost in a context switch.
THEOREM LockHandedOff == Spec => []HandOff
<1>1. IInv => HandOff
  BY Zenon DEF IInv, HandOff, LockInv, ResumeInv, Resumable
<1> QED BY <1>1, Invariance, PTL

\* wait() never sleeps through the exit of a child, or with none.
THEOREM WaitMissesNothing == Spec => []WaitSound
BY Invariance, PTL DEF IInv

\* Every process has a parent that can still reap it.
THEOREM ParentsLive == Spec => []ParentLive
BY Invariance, PTL DEF IInv

\* pids identify processes, however many forks there are before nextpid wraps.
THEOREM PidsUnique == Spec => []UniquePids
BY Invariance, PTL DEF IInv

\* What each kind of step may do to the state of a slot: a zombie is freed by
\* its parent in wait(), an embryo by the fork that owns it.
THEOREM SlotsOwned == Spec => SlotOwner
<1> DEFINE Zombie(q) == /\ state'[q] = "UNUSED"
                        /\ parent[q] \in Proc
                        /\ pc[parent[q]] = "wait"
                        /\ \E c \in CPU : OnCpu(c, parent[q])
           Embryo(q) == \E c \in CPU, p \in Proc :
                          OnCpu(c, p) /\ pc[p] \in ForkPc /\ np[p] = q
           Owned(q) == state'[q] # state[q] => /\ state[q] = "ZOMBIE" => Zombie(q)
                                               /\ state[q] = "EMBRYO" => Embryo(q)
<1>1. ASSUME IInv, [Next]_vars, NEW q \in Proc
      PROVE  Owned(q)
  <2> USE <1>1 DEF IInv
  <2>1. CASE UNCHANGED state
    BY <2>1, Zenon
  <2>2. CASE Tick
    BY <2>2, Zenon DEF Tick, wakeup1
  <2>3. ASSUME NEW c \in CPU, Scheduler(c)
        PROVE  Owned(q)
    BY <2>3, Zenon DEF Scheduler, SchedAcquire, SchedSwtch, SchedRelease, Interrupt, First,
       Candidates, tableVars, TypeOK
  <2>4. ASSUME NEW c \in CPU, NEW p \in Proc,
               Switch(c, p) \/ Yield(c, p) \/ Sleep(c, p) \/ Kill(c, p) \/ ForkAlloc(c, p)
        PROVE  Owned(q)
    <3>1. CASE Switch(c, p)
      BY <3>1, Zenon DEF Switch, Sched, ForkRet, YieldRet, SleepRet, tableVars
    <3>2. CASE Yield(c, p)
      BY <3>2, Zenon DEF Yield, TypeOK
    <3>3. CASE Sleep(c, p)
      <4>1. state[p] = "RUNNING"
        BY <3>3, Zenon DEF Sleep, At, StackSafe
      <4> QED BY <3>3, <4>1, Zenon DEF Sleep, TypeOK
    <3>4. CASE Kill(c, p)
      BY <3>4, ZenonT(30) DEF Kill, TypeOK
    <3>5. CASE ForkAlloc(c, p)
      BY <3>5, Zenon DEF ForkAlloc, First, Unused, tableVars, TypeOK
    <3> QED BY <2>4, <3>1, <3>2, <3>3, <3>4, <3>5, Zenon
  <2>5. ASSUME NEW c \in CPU, NEW p \in Proc,
               ForkKstack(c, p) \/ ForkCopy(c, p) \/ ForkPublish(c, p)
        PROVE  Owned(q)
    BY <2>5 DEF ForkKstack, ForkCopy, ForkPublish, At, ForkInv, TypeOK
  <2>6. ASSUME NEW c \in CPU, NEW p \in Proc, Exit(c, p)
        PROVE  Owned(q)
    BY <2>6, Zenon DEF Exit, At, wakeup1, StackSafe, TypeOK
  <2>7. ASSUME NEW c \in CPU, NEW p \in Proc, Wait(c, p)
        PROVE  Owned(q)
    <3>1. OnCpu(c, p) /\ pc[p] = "wait" /\ state[p] = "RUNNING"
      BY <2>7, Zenon DEF Wait, At, Resumed, StackSafe
    <3> QED BY <2>7, <3>1, ZenonT(30) DEF Wait, Reap, WaitFailed, WaitSleep, First, ZombieChildren,
               Children, TypeOK
  <2>8. ASSUME NEW c \in CPU, NEW p \in Proc, Step(c, p),
               ~(Sleep(c, p) \/ Kill(c, p) \/ ForkAlloc(c, p) \/ ForkKstack(c, p)
                 \/ ForkCopy(c, p) \/ ForkPublish(c, p) \/ Exit(c, p) \/ Wait(c, p))
        PROVE  UNCHANGED state
    BY <2>8, Zenon DEF Step, Syscall, SysRet, TrapKilled, UserFault, Dispatch, SysSleepTest,
       ExitPanic, GetppidParent, GetppidPid, tableVars
  <2> QED BY <2>1, <2>2, <2>3, <2>4, <2>5, <2>6, <2>7, <2>8, Zenon DEF Next, vars, tableVars
<1>2. IInv /\ [Next]_vars =>
        [\A q \in Proc :
           state'[q] # state[q] =>
             /\ state[q] = "ZOMBIE" => /\ state'[q] = "UNUSED"
                                       /\ parent[q] \in Proc
                                       /\ pc[parent[q]] = "wait"
                                       /\ \E c \in CPU : OnCpu(c, parent[q])
             /\ state[q] = "EMBRYO" => \E c \in CPU, p \in Proc :
                                         OnCpu(c, p) /\ pc[p] \in ForkPc /\ np[p] = q]_vars
  BY <1>1, Zenon
<1> QED BY <1>2, Invariance, PTL DEF Spec, SlotOwner
=============================================================================
