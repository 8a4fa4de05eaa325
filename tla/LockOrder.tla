----------------------------- MODULE LockOrder ------------------------------
(***************************************************************************)
(* Spinlocks (spinlock.c) and the order in which the kernel nests them.    *)
(* A CPU runs one path through the kernel at a time: the acquires, the     *)
(* releases and the switch to the scheduler it makes, in order.  A CPU     *)
(* that holds a lock has interrupts off (pushcli), so a handler never runs *)
(* inside another path that holds one.                                     *)
(***************************************************************************)
EXTENDS Integers, Sequences, FiniteSets

CONSTANTS CPU,
          NOCPU,    \* no holder
          WithCps   \* programs call cps()

ASSUME LockAssumption == NOCPU \notin CPU /\ WithCps \in BOOLEAN

\* Locks under which no other is taken.
Leaf == {"kmem", "icache", "bcache", "ftable"}

Lock == {"ptable", "cons", "log", "ide", "pipe", "sleeplock"} \cup Leaf

Acq(l) == [op |-> "acquire", lock |-> l]
Rel(l) == [op |-> "release", lock |-> l]
Swtch == [op |-> "swtch", lock |-> "ptable"]
Panic == [op |-> "panic"]

-----------------------------------------------------------------------------
(***************************************************************************)
(* Paths.                                                                  *)
(***************************************************************************)
wakeup == <<Acq("ptable"), Rel("ptable")>>

\* sleep(chan, lk), called with lk held, as far as the CPU that falls asleep
\* goes: the scheduler releases ptable.lock, or the process it switches to.
\* Waking up is wakeLk.
sleep(lk) == <<Acq("ptable"), Rel(lk), Swtch, Rel("ptable")>>
wakeLk(lk) == <<Acq("ptable"), Rel("ptable"), Acq(lk), Rel(lk)>>

yield == <<Acq("ptable"), Swtch, Rel("ptable")>>

\* wait() and time() free the child's memory under the lock.
wait == <<Acq("ptable"), Acq("kmem"), Rel("kmem"), Rel("ptable")>>

\* kalloc, kfree; iget, idup, iput; bget, brelse; filealloc, filedup, fileclose.
leaf(l) == <<Acq(l), Rel(l)>>

\* Fault: kill() prints what it does.
killPrints == <<Acq("ptable"), Acq("cons"), Rel("cons"), Rel("ptable")>>

kill == <<Acq("ptable"), Rel("ptable")>>

begin_op == <<Acq("log")>> \o sleep("log")
end_op == <<Acq("log")>> \o wakeup \o <<Rel("log")>>

iderw == <<Acq("ide")>> \o sleep("ide")
ideintr == <<Acq("ide")>> \o wakeup \o <<Rel("ide")>>

pipewrite == <<Acq("pipe")>> \o wakeup \o sleep("pipe")
piperead == <<Acq("pipe")>> \o wakeup \o <<Rel("pipe")>>

acquiresleep == <<Acq("sleeplock")>> \o sleep("sleeplock")
releasesleep == <<Acq("sleeplock")>> \o wakeup \o <<Rel("sleeplock")>>

cprintf == <<Acq("cons"), Rel("cons")>>
consoleintr == <<Acq("cons")>> \o wakeup \o <<Rel("cons")>>
consoleread == <<Acq("cons")>> \o sleep("cons")

\* cps() prints the table with ptable.lock held.
cps == <<Acq("ptable")>> \o cprintf \o <<Rel("ptable")>>

Path ==
  {wakeup, yield, wait, kill, begin_op, end_op, iderw, ideintr, pipewrite, piperead,
   acquiresleep, releasesleep, cprintf, consoleintr, consoleread}
  \cup {leaf(l) : l \in Leaf}
  \cup {wakeLk(l) : l \in {"log", "ide", "pipe", "sleeplock", "cons"}}
  \cup (IF WithCps THEN {cps} ELSE {})

-----------------------------------------------------------------------------
VARIABLES holder,  \* the CPU that holds each lock, or NOCPU
          path     \* what is left of the path each CPU is on

vars == <<holder, path>>

Init ==
  /\ holder = [l \in Lock |-> NOCPU]
  /\ path = [c \in CPU |-> <<>>]

\* A system call, an interrupt or the scheduler starts.
Enter(c) ==
  /\ path[c] = <<>>
  /\ \E s \in Path : path' = [path EXCEPT ![c] = s]
  /\ UNCHANGED holder

Does(c, op) == path[c] # <<>> /\ Head(path[c]).op = op

acquire(c) ==
  /\ Does(c, "acquire")
  /\ LET l == Head(path[c]).lock
     IN  holder[l] = NOCPU /\ holder' = [holder EXCEPT ![l] = c]
  /\ path' = [path EXCEPT ![c] = Tail(@)]

\* release() panics, which stops the CPU, if it does not hold the lock.
release(c) ==
  /\ Does(c, "release")
  /\ LET l == Head(path[c]).lock
     IN  IF holder[l] = c
         THEN /\ holder' = [holder EXCEPT ![l] = NOCPU]
              /\ path' = [path EXCEPT ![c] = Tail(@)]
         ELSE /\ path' = [path EXCEPT ![c] = <<Panic>>]
              /\ UNCHANGED holder

\* sched() and the scheduler's return from swtch().
sched(c) ==
  /\ Does(c, "swtch")
  /\ path' = [path EXCEPT ![c] = Tail(@)]
  /\ UNCHANGED holder

Step(c) == acquire(c) \/ release(c) \/ sched(c)

Next == \E c \in CPU : Enter(c) \/ Step(c)

Spec == Init /\ [][Next]_vars

-----------------------------------------------------------------------------
Held(c) == {l \in Lock : holder[l] = c}

\* c spins for a lock that d has.
WaitsFor(c, d) == Does(c, "acquire") /\ holder[Head(path[c]).lock] = d

\* No CPU spins for a lock it holds itself (acquire's panic) or releases one it
\* does not hold (release's), and no CPUs spin in a circle: every acquire can be
\* granted.
NoDeadlock ==
  /\ \A S \in (SUBSET CPU) \ {{}} : \E c \in S : \A d \in S : ~WaitsFor(c, d)
  /\ \A c \in CPU : ~Does(c, "panic")

\* sched() is called with ptable.lock held and no other lock (its panics), so
\* a process never sleeps with a spinlock.
SchedLocks == \A c \in CPU : Does(c, "swtch") => Held(c) = {"ptable"}
=============================================================================
