------------------------------ MODULE Syscall -------------------------------
(***************************************************************************)
(* System call dispatch and the calls that keep a number per process:      *)
(* syscall() counts calls in p->sys_count, an array that is followed by    *)
(* arrivalt, endt, burstt and iot in struct proc; getcount, time, chpr and *)
(* sleep.  A word of that stretch of struct proc is a cell.                *)
(***************************************************************************)
EXTENDS Integers, FiniteSets

CONSTANTS Proc,    \* process slots
          Calls,   \* the highest call number, NELEM(syscalls) - 1
          SYS_cn,  \* entries of sys_count
          SYS_getcount,
          Priorities,
          Ticks,   \* number of values of the uint ticks
          Lengths, \* bound: arguments of sleep
          MaxCount \* bound: calls of a number that a process makes

ASSUME SyscallAssumption ==
  /\ Calls \in Nat /\ SYS_cn \in 1 .. Calls /\ SYS_getcount \in 1 .. Calls
  /\ Ticks \in Nat \ {0} /\ Lengths \subseteq Int /\ MaxCount \in Nat

VARIABLES
  cells,  \* sys_count[0 ..], arrivalt, endt, burstt, iot of each slot
  calls,  \* the calls that the process in each slot has made
  used,   \* slots with a process
  prio,   \* p->priority
  ticks,  \* ticks, as the uint it is
  nap,    \* the sleeps in progress: since when, how long, the ticks passed
  told    \* what getcount or time has told each process last

sysVars == <<cells, calls, used, prio, ticks, nap, told>>

DEFAULTPRIORITY == 10
Cells == 0 .. SYS_cn + 3
Awake == [on |-> FALSE, t0 |-> 0, n |-> 0, passed |-> 0]
Nothing == [of |-> 0, count |-> 0, is |-> 0]

\* Static storage: no process, and every cell 0.
SysInit ==
  /\ cells = [p \in Proc |-> [k \in Cells |-> 0]]
  /\ calls = [p \in Proc |-> [n \in 1 .. Calls |-> 0]]
  /\ used = {} /\ prio = [p \in Proc |-> 0]
  /\ ticks \in {0, Ticks - 1}
  /\ nap = [p \in Proc |-> Awake]
  /\ told = [p \in Proc |-> Nothing]

\* allocproc: the priority, and its loop over sys_count.
AllocprocCells(p) ==
  /\ p \notin used
  /\ used' = used \cup {p}
  /\ cells' = [cells EXCEPT ![p] = [k \in Cells |-> IF k < SYS_cn THEN 0 ELSE @[k]]]
  /\ calls' = [calls EXCEPT ![p] = [n \in 1 .. Calls |-> 0]]
  /\ prio' = [prio EXCEPT ![p] = DEFAULTPRIORITY]
  /\ UNCHANGED <<ticks, nap, told>>

\* The process exits and is reaped.
Leave(p) ==
  /\ p \in used /\ ~nap[p].on
  /\ used' = used \ {p}
  /\ told' = [told EXCEPT ![p] = Nothing]
  /\ UNCHANGED <<cells, calls, prio, ticks, nap>>

\* syscall(): sys_count[num - 1]++ for a number in the table.
Counted(p, num) ==
  /\ cells' = [cells EXCEPT ![p][num - 1] = @ + 1]
  /\ calls' = [calls EXCEPT ![p][num] = @ + 1]

Runs(p, num) ==
  p \in used /\ ~nap[p].on /\ calls[p][num] < MaxCount /\ cells[p][num - 1] < 2 * MaxCount

\* A call whose work is modelled elsewhere.
Call(p, num) ==
  /\ Runs(p, num) /\ Counted(p, num)
  /\ told' = [told EXCEPT ![p] = Nothing]
  /\ UNCHANGED <<used, prio, ticks, nap>>

\* getcount(n), which is itself counted first.
Getcount(p, n) ==
  /\ Runs(p, SYS_getcount) /\ Counted(p, SYS_getcount)
  /\ told' = [told EXCEPT ![p] = [of |-> n, count |-> calls'[p][n], is |-> cells'[p][n - 1]]]
  /\ UNCHANGED <<used, prio, ticks, nap>>

\* chpr(pid, priority): the slot with that pid, if there is one.
Chpr(p, q, v) ==
  /\ p \in used /\ ~nap[p].on
  /\ prio' = [prio EXCEPT ![q] = v]
  /\ UNCHANGED <<cells, calls, used, ticks, nap, told>>

\* sys_sleep(n): its loop is left at once, or the process sleeps.
Sleeps(p, n) ==
  /\ p \in used /\ ~nap[p].on
  /\ nap' = [nap EXCEPT ![p] = [on |-> TRUE, t0 |-> ticks, n |-> n, passed |-> 0]]
  /\ UNCHANGED <<cells, calls, used, prio, ticks, told>>

\* Fault: the times are compared, not their difference.
SleptCompare(p) == ticks >= (nap[p].t0 + nap[p].n) % Ticks

\* The test of sys_sleep's loop: ticks - ticks0 < n, in which n is a uint.
Slept(p) == (ticks - nap[p].t0) % Ticks >= nap[p].n % Ticks

\* The loop ends.
SleepReturns(p) ==
  /\ nap[p].on /\ Slept(p)
  /\ nap' = [nap EXCEPT ![p] = Awake]
  /\ UNCHANGED <<cells, calls, used, prio, ticks, told>>

\* A clock interrupt.  A sleeper looks at ticks before it has gone all the way
\* round.
SysTick ==
  /\ \E p \in Proc : nap[p].on
  /\ \A p \in Proc : nap[p].passed < Ticks - 1
  /\ ticks' = (ticks + 1) % Ticks
  /\ nap' = [p \in Proc |-> IF nap[p].on THEN [nap[p] EXCEPT !.passed = @ + 1] ELSE nap[p]]
  /\ UNCHANGED <<cells, calls, used, prio, told>>

SysNext ==
  \/ \E p \in Proc :
       \/ AllocprocCells(p) \/ Leave(p) \/ SleepReturns(p)
       \/ \E num \in 1 .. Calls : Call(p, num)
       \/ \E n \in 1 .. Calls : Getcount(p, n)
       \/ \E q \in Proc, v \in Priorities : Chpr(p, q, v)
       \/ \E n \in Lengths : Sleeps(p, n)
  \/ SysTick

SysSpec == SysInit /\ [][SysNext]_sysVars

-----------------------------------------------------------------------------
(***************************************************************************)
(* Properties.                                                             *)
(***************************************************************************)

\* getcount(n) tells how often this process has made call n, and not what an
\* earlier process in its slot did, for the calls that have an entry in
\* sys_count.  The last call, dup2, has none.
CountsOwn ==
  \A p \in Proc : told[p].of \in 1 .. SYS_cn => told[p].is = told[p].count

\* The same for every call, as the sample program of getcount says.  This does not
\* hold for the last one, whose counter would be the field after sys_count.
CountsAll == \A p \in Proc : told[p].of # 0 => told[p].is = told[p].count

\* sleep(n) returns after n ticks and not before, also when ticks wraps around
\* in the meantime; a negative n is taken for a number of ticks near the largest.
SleepsLong ==
  [][\A p \in Proc : nap[p].on /\ ~nap'[p].on => nap[p].passed >= nap[p].n % Ticks]_sysVars

\* Counters and sleeps are exact across the reuse of a slot and the wrap-around
\* of ticks.
SyscallsExact == []CountsOwn /\ SleepsLong
=============================================================================
