# Verification of the xv6 kernel

TLA+ models of the xv6-pdx kernel and its user programs under `src/xv6/`, TLC runs
on small instances of them, and TLAPS proofs of what matters most for every
instance.  The models follow the default build: `PDX_XV6` defined and
`CS333_PROJECT` 0, so the code under `CS333_P1` .. `CS333_P5` is not compiled and
not modelled.

`PROJECT.json` maps every definition to the lines it translates, and lists the
components, runs, mutants, findings, hazards and theorems.

## The system

| part | source | modules | proofs |
|---|---|---|---|
| processes, scheduling | `proc.c`, `trap.c`, `sysproc.c`, `init.c` | `Proc` | `ProcProofs` |
| spinlocks, interrupts | `spinlock.c` and all users | `LockOrder`, `Cli` | `KernelProofs` |
| system call arguments, counters, sleep | `syscall.c`, `sysproc.c`, `proc.c` | `Args`, `Syscall` | `KernelProofs` |
| redo log, recovery | `log.c` | `Log`, `AtomicDisk` | `LogProofs` |
| buffer cache, sleep locks, disk queue | `bio.c`, `sleeplock.c`, `ide.c` | `Buf`, `BlockStore` | `BufProofs` |
| blocks of files | `fs.c`, `file.c` | `Blocks` | |
| image builder | `mkfs.c` | `Mkfs` (on `Blocks`) | |
| inodes, directories, names | `fs.c`, `sysfile.c` | `Names` | |
| open files, descriptors | `file.c`, `sysfile.c`, `pipe.c`, `proc.c` | `File` | `FileProofs` |
| pipes | `pipe.c` | `Pipe`, `Channel` | `PipeProofs`, `ModArith` |
| console input | `console.c` | `Console`, `LineQueue` | `ConsoleProofs`, `ModArith` |
| keyboard, display | `kbd.c`, `console.c` | `Kbd`, `Screen` | `ConsoleProofs` |
| memory, exec | `kalloc.c`, `vm.c`, `exec.c`, `proc.c` | `Memory` | |
| real-time clock | `lapic.c` | `Clock` | `PipeProofs`, `ModArith` |
| user allocator | `umalloc.c` | `Umalloc` | |
| shell | `sh.c` | `Parser`, `ShellRun` | |
| filters, strings, printing | `grep.c`, `wc.c`, `string.c`, `ulib.c`, `printf.c`, `console.c` | `Filters`, `Strings` | |

**How the parts interact.**  Everything blocks through `sleep()` and `wakeup()`,
which are built on `ptable.lock`: log, pipes, console, disk and sleep locks each
hold their own spinlock, call `sleep(chan, lk)`, and rely on `ptable.lock` being
taken before `lk` is let go.  `Proc` models that mechanism where it is hardest,
across `swtch()`.  `Log`, `Buf`, `Pipe` and `Console` use it as established there:
a stretch under the component's spinlock is one step, and wakeup moves every
sleeper of a channel.  `kill()` takes only `ptable.lock`, so in `Pipe` and
`Console` it may fall between a test of `killed` and the sleep after it.
`LockOrder` composes the locking of all parts and asks whether the nesting is safe;
`Cli` is what it rests on, that a lock keeps interrupts away.  `File` holds the
references that decide when `Pipe`'s pipes are closed, `Names` those that decide
when an inode is freed.  `Log` takes from `Buf` that a dirty buffer is not evicted,
and relies on system calls that stay within their budget, which `Blocks` checks for
reads and writes.  `Mkfs` builds the image that `Blocks` starts from.  `ShellRun`
uses fork, pipe, close and wait as `Proc`, `File` and `Pipe` have them.

**What is hard here**, and what the properties are aimed at: a process that has
declared itself RUNNABLE, SLEEPING or ZOMBIE while still on its stack; one lock
acquired by one thread and released by another; lost wakeups (exit/wait,
begin_op/end_op, pipes, console, disk, kill); crashes between disk writes and during
recovery; reservations against a bound that is off by one; free-running unsigned
indices and clocks; reference counts over failing multi-step allocations; a count
read under one lock and used under another; lock order; the interrupt flag of a
thread that changes CPUs.

## Modules

* **`Proc`**.  A CPU runs its scheduler loop or one process's kernel thread (`cpc`,
  `proc`).  `lock` is `ptable.lock`.  A stretch under the lock is a step, cut at
  `swtch()`: after `Yield`, `Sleep`, `Wait` or `Exit` the CPU still holds the lock,
  on the stack of a process that is no longer RUNNING, until `Sched` takes it to the
  scheduler.  `context` says where a switched-out thread resumes.  What is read or
  written outside the lock is a step of its own: the tests of `killed`, the stages of
  `fork`, `getppid`'s two loads.  `Wait` stands for `wait()` and for `time()`, whose
  loop is the same.  init is slot 1; `init.c` forks and then waits in a loop, and here it
  may call either in any order, which includes that one.  `nextpid` is a `uint` in the code
  and a number that does not wrap here.
* **`LockOrder`**.  A path is the list of acquires, releases and switches of a kernel
  function; a CPU takes any path.  **`Cli`** has the flag, `ncli` and `intena` of
  each CPU, through `pushcli`, `popcli`, `sched`, `forkret`, interrupts and `iret`.
* **`Args`**: one argument fetched from any memory, at any stack pointer, in `uint`
  arithmetic.  **`Syscall`**: `sys_count` and the fields behind it as one row of
  cells, `allocproc`'s reset, the dispatch, `getcount`, `cn`, `chpr`, and
  `sys_sleep` on a clock that wraps.
* **`Log`** over disk blocks; the header is one atomic block.  A call
  changes a block and logs the change, as often as it likes and on the same block too.
  `LogWriteCheck` and `LogWriteRecord` are two steps because the code tests before it
  locks.  `Crash` may happen anywhere and clears memory.  **`AtomicDisk`** is the promise: what calls
  see, what is durable, and one step that makes all finished calls durable.
* **`Buf`**: `bget`'s two loops, `acquiresleep`, `iderw`, `ideintr`, `bwrite`,
  `brelse`; a write by a process is followed by `bwrite` or, as in `log_write`, by a
  pin.  **`BlockStore`** is the promise: blocks with contents and one user at a time.
* **`Blocks`**: an operation on an inode is a list of block accesses, each a step, with
  operations on other inodes in between.  **`Mkfs`** is the program that makes the image.
* **`Names`**: inode reference counts, link counts and directory entries; each lock an
  operation takes while it holds another is a step.
* **`File`**: `todo[p]` lists the remaining locked steps of a call, so every call
  interleaves with the others between its critical sections.
* **`Pipe`** with **`Channel`**, a bounded queue with an end of file, as its promise.
* **`Console`** with **`LineQueue`**, a line-edited queue, as its promise: `got` is what
  each reader was given, and nothing but the queue says what that is.  In this
  build Control-D shuts the machine down before it could be stored, so consoleread's
  end-of-file branch is dead and not in the model.  **`Kbd`** is the decoding of scan
  codes, **`Screen`** the text memory beside a paper on which nothing scrolls.
* **`Memory`**: every `kalloc` in `fork`, `exec` and `sbrk` is a step that may fail.
* **`Clock`**, **`Umalloc`**, **`ShellRun`**: a register read, an iteration of a loop
  and a system call are the steps.
* **`Parser`**, **`Filters`**, **`Strings`**: sequential code as operators, compared
  with reference definitions over every bounded input.
* `MC*` modules give values to the constants.  `MCSystem`, `MCKernel`, `MCLog`,
  `MCDisk`, `MCFiles` and `MCPipe` join parts that share no state: the variable `part`
  chooses at the start which part moves, and the others keep their initial state.
  The reachable states are those of each part, one after the other.

An operator marked "Fault:" is a mutated form of the definition after it.  It is
not part of the specification; it is there to show that a property notices it.

## Runs

| run | parts and bounds | shows | states |
|---|---|---|---|
| `proc_safety` | Proc (2 CPUs, 3 slots), Memory, Parser, Filters, Strings | no stack is used twice (StackSafe); `ptable.lock` is handed over across `swtch()` (HandOff); no wakeup of `wait()` is lost (WaitSound); every parent can still wait (ParentLive); a slot changes hands only by its owner's step (SlotOwner); every page is free or in one place, and a table maps what its size says (SpacesSound); a failed sbrk or exec leaves the process as it was (FailureKeeps); a line is parsed as its grammar says or refused (LinesUnderstood); match, grep and wc agree with their definitions (FiltersExact); copying, comparing, splitting and printing do too (StringsExact) | 854 304 |
| `proc_liveness` | Proc, 1 CPU | orphans are reaped; a killed process exits | 49 078 |
| `log_atomic` | Log (2 threads, 3 blocks), Kbd, Screen, Console (2 readers) | the log implements `AtomicDisk`; keys are decoded as typed (KeysDecoded); the screen shows the end of what was printed (ScreenExact); the console ring implements `LineQueue` (LineEdited) and cannot wedge (NeverStuck) | 755 156 |
| `log_space` | Log (3 threads, 1 block; 2 threads, 3 blocks), Buf (2 buffers), ShellRun | no panic and no overflow for calls below their budget (SpaceSuffices); commit, recovery and waiting calls end (LogMoves); every `bread()` returns; pipelines are wired as written (PipelinesWired) and the prompt returns | 35 206 |
| `pipe` | Pipe (2 writers, 1 reader), Umalloc | the ring implements `Channel` (Fifo); no use after free; nobody sleeps without a reason; calls return; the heap is sound and malloc and free return (HeapSound) | 107 327 |
| `file_safety` | File, Names, Mkfs with Blocks | counts, descriptors, pipe ends and inode references agree (RefCount, ObjectsExact); no freed inode is used (ReferencesSafe); link counts are exact; files keep their contents (FilesKept) and no operation exceeds its log budget (OpFits) | 452 845 |
| `lock_order` | LockOrder, Cli, Buf, Args, Syscall, Clock | no circular wait and no release of a lock that is not held (NoDeadlock); locks mask interrupts and every thread keeps its flag (InterruptsMatched); the cache implements `BlockStore` (Coherent) and finds a buffer (EnoughBuffers); argument tests are exact; counters and sleeps are exact; a date is read of one instant (RealInstant) | 317 728 |

Runs that show the code differs from what a comment or assertion says:

| run | what happens |
|---|---|
| `stale_kill` | kill() marks a free slot with a left-over pid; the next process there dies |
| `pipe_kill_race` | kill() between piperead's test of killed and its sleep() wakes nobody |
| `dup2_same` | dup2(fd, fd) closes the file and then panics in filedup() |
| `log_full` | calls that write all of their `MAXOPBLOCKS` blocks are let in by begin_op() and panic in log_write() |
| `cps_deadlock` | cps() and the keyboard interrupt take two locks in opposite order |

What the models also show, and why some properties above carry a condition:

* `begin_op()` reserves against `LOGSIZE` data blocks, and `log_write()` panics when it
  finds `LOGSIZE - 1` of them, in a test it makes before it locks.  `log_full` has calls
  that write all of their `MAXOPBLOCKS` and meet that panic.  In `log_space` and in the
  proof a call writes at least one block less, which `OpFits` shows of reads and writes.
  That is just enough: with `LOGSIZE` 4 and `MAXOPBLOCKS` 2, `log_write()` meets up to
  `LOGSIZE - 2` blocks, one below the panic, and two calls that pass the test together
  record their blocks with one to spare.
* A writer that is killed on a full pipe leaves without `wakeup(&p->nread)`, so a
  reader may sleep on a pipe with bytes in it.  The `pipe` run kills a writer, and
  `SleepersHaveReason` excuses such a reader only after that.  `CallsReturn` leaves out the
  window of `pipe_kill_race`.  `consoleread()` has the same window, which is a step of
  `Console`; no property asks that a killed console reader returns.
* `dup2()` onto a descriptor that is not open uses a number `argfd()` did not set.
  `AnyDup2` admits such calls, with any number in place of the one not set, and
  dup2(fd, fd).  `dup2_same` sets it and shows the latter; the `file_safety` run and the
  theorems about `File` are without it.
* `iput()` tests the count under one lock and drops its reference under another: of
  two last users each may count the other, and an inode without links stays allocated
  (`Reclaimed` in `Names` does not hold).
* `dirlink()` puts the entry it finds with the directory locked, and that entry may be
  the directory itself, whose lock the call then waits for (`NoLockCycle` does not hold).
* `copyuvm()` loses the page it has just allocated when there is none for its table
  (`vm.c:335`); `SpacesSound` counts pages lost there apart.
* `sys_count` has no entry for the last system call; its counter is the next field of
  `struct proc` (`CountsAll` in `Syscall` does not hold).  `time()` reports fields
  that are never assigned, and `chpr()` returns the pid whether or not it exists.
* `getppid()` loads the parent and then its pid without a lock; the parent may be
  reaped in between.  No property restricts what it returns.
* `forkret` may run with interrupts on or off, as the CPU's `intena` was left.
* Releasing one of two keys of a modifier clears its flag; `KeysDecoded` excludes
  letters typed after two such keys were down together.
* `grep` may lose the beginning of a line that a pipe gives it in small pieces
  (`grep.c:29-30`); `FiltersExact` is about files, whose reads fill the buffer.

**Bounds.**  `proc_safety`: three slots give init, a process and its child, with every
parent, orphan and zombie combination, and two CPUs every pair of concurrent steps;
`MaxPid` 3 allows a slot to be reused, and stops long before `nextpid` wraps;
`kill()` is called with pid 2, in `stale_kill` also with 3.  Thirteen pages hold one address space and part
of a second, so that every allocation fails somewhere; `MaxMemOps` bounds the calls of
a behaviour.  Lines have up to five symbols, `MAXARGS` is 3.  `proc_liveness` uses one
CPU, where progress depends most on preemption.  `log_atomic`: two concurrent calls of
two blocks each over three blocks, so that they overlap and a later transaction rewrites
an earlier one.  Two bytes in the keyboard controller are an escape and a code, or two
keys; a screen of two rows of three cells scrolls.  The console
ring has three keys and indices modulo six.  `log_space`: the log holds two reservations
only while it is empty, so calls wait for space and for a commit.  Three threads on
one block let one sleep while another ends and a third is still in its call; two threads on
three blocks fill the log (`Bounded` in `MCDisk`).  The shell's sessions have up to two pipes
and five processes.  `pipe`: a ring of two bytes and counters modulo four wrap within a few
calls, and one of two writers of two bytes each has to sleep; as in the code, the ring size
divides the range of the counter.  The heap has eight headers.  `file_safety`: two
processes with two descriptors each over three files, so the table, the descriptors and
the pipe page all run out; `MaxRef` bounds only what an unbalanced dup2 can leak.  Two
callers make three calls between them (`MaxCalls`) over four inodes, on paths without `.` and
`..`.  A disk of nine blocks fills up within `MaxOps` operations.  `lock_order`: a circular wait over the
locks taken in pairs here shows up on two CPUs; three buffers for two processes and a
pinned block are exactly enough; words of four bits and a clock of four ticks wrap;
`MaxTicks` bounds how often the chip ticks while it is read, since with ever more ticks
between two registers no number of readings would be enough.

**Symmetry and views.**  `SYMMETRY` stands only in runs without liveness: threads, contents,
readers and printing keys in `log_atomic`, processes and callers in `file_safety`, CPUs, clients
of the cache and blocks that are never written in `lock_order`.  Two views leave out what is
never read before it is written again: `FilesView` the fields of files that are not a pipe's,
`LogView` the log blocks of no transaction and the records of calls that have returned.

**Fairness.**  `Proc`: CPUs keep executing, `ptable.lock` is granted to a CPU that keeps
finding it free, the clock interrupts for ever, and a process gets something done in
infinitely many time slices.  `Log`: the committing thread and calls in progress go on, and a
call, which is a bounded number of `log_write`s, comes to its `end_op`; no call is assumed to
begin, and crashes may come at any time.  `Buf`: the disk answers, a
process in the kernel goes on, a holder lets its buffer go, and a sleep lock that is free
again and again is got.  `Pipe`: a process in the kernel goes on, and gets
the pipe's spinlock if it finds it free again and again (strong fairness).
`acquire()` is a test-and-set loop without a queue, so this is an assumption about the
hardware, not something the code enforces.  `Umalloc`: the program goes on.  `ShellRun`: some
process goes on as long as one can; nobody has to type.  No user
program is assumed to read, write, type or close, except that a killed process closes its
files in exit().

`CHECK_DEADLOCK FALSE` stands where the system may really stop: every process has closed
its end of the pipe, or init has panicked.

## Proofs

Each theorem holds for every value of the constants that satisfies the assumptions
named in the module that declares them.  Every safety proof has the same shape: an
invariant that is inductive, one lemma per action that it is kept, and the property
from it.  The invariants that TLC can evaluate were model-checked before they were
proved; `ScreenInv` and `KbdInv` quantify over infinite sets.

**`ProcProofs`**: any number of processes and CPUs, any set of kill arguments, any
`MaxPid`.  `Invariance` is `Spec => []IInv`; `TypeCorrect`, `StacksSafe`,
`LockHandedOff`, `WaitMissesNothing`, `ParentsLive` and `PidsUnique` (as long as `nextpid`
has not wrapped) follow from it, and the action property `SlotsOwned`.  `IInv` adds to the invariants who
may hold `ptable.lock` and where (`LockInv`); that a thread which is not running resumes
at a place that releases the lock (`ResumeInv`); where a sleeper sleeps (`SleepInv`); that
fork owns the slot it builds, alone (`ForkInv`); which slots have a parent (`OrphanInv`);
that init lives (`InitInv`) and that pids stay below `nextpid` (`PidInv`).  WaitSound shows
why they are needed: a parent asleep in wait() has only live children because a child
becomes a ZOMBIE in the critical section that wakes the parent (SleepInv: it sleeps on
itself), because reparenting gives zombies only to init and wakes it, and because fork
makes a child before the parent can call wait (ForkInv).

**`KernelProofs`** is about what every call goes through.

| theorem | for every | argument |
|---|---|---|
| `DeadlockFree` (NoDeadlock, without cps), `SwitchesClean` | set of CPUs | every path takes locks in the order of a rank and releases only what it took, so of the CPUs that wait in a circle the one with the highest lock cannot wait |
| `InterruptsAreMatched` | set of CPUs and threads, depth of locks | `ncli` is the number of locks of the context on the CPU; a thread off its CPU carries its flag in `intena`; between `readeflags()` and `cli()` the flag read is still true |
| `ArgumentsExact` | word width, memory size, argument | sums that wrap around are compared with those that do not, by lemmas on `%` |
| `CallsExact` | number of processes and calls, range of ticks | a slot's counters are reset before it is used again and no cell but the call's is changed; a sleeper looks at the clock before it has gone round, so the difference modulo its range is the time that has passed |

**`LogProofs`** assumes `Budget`: a call writes fewer blocks than `MAXOPBLOCKS`, the log has
more than `MAXOPBLOCKS`, and the log on disk is as large as `LOGSIZE`.  `OpFits` checks the first
for file reads and writes, `param.h` and mkfs say the others, and `log_full` shows that the
first is needed.  `LogInv` counts reservations
(`CountInv`: outstanding calls and the blocks they may still write fit in the log), says
which block a call has locked and that what it wrote is in the transaction (`CallInv`), where a commit or a recovery is (`PhaseInv`), and
what cache, log and home blocks hold then (`DataInv`).  `RoomLeft` is the point of
`ReservationsSuffice`: each call in progress leaves a block of its reservation unused, and if
only one is left, so does one that has ended, or the log is longer than its reservation; hence
whoever is in `log_write()` finds at most `LOGSIZE - 2` blocks, and those that pass the test
together fit.  From `LogInv` follow also `NoSleeperLost`, `UpdatesPinned`, and `LogImplementsAtomicDisk`: the durable state of
`AtomicDisk` is what recovery would make of the disk, which changes only with the write of
the header, and a crash maps to a crash or, after the header, to a commit.

**`BufProofs`**: any sets of processes, buffers, blocks and values.  `BufInv` says that two
buffers have two blocks (`BlockInv`), reference counts are the numbers of users (`UseInv`),
a sleep lock has one holder (`LockInv`), the queue has no buffer twice and only buffers
whose holders wait, with the disk busy on the first (`QueueInv`), a clean valid buffer has
what the disk has (`CleanInv`), and at most `MaxPinned` buffers are dirty outside `iderw`
(`PinInv`).  `CacheCoherent` is the refinement of `BlockStore`, where a block is what its
valid buffer holds, or else the disk: recycling a buffer changes nothing because only
clean buffers are recycled.  `BgetFindsBuffer` counts: users and pinned buffers are fewer
than buffers when somebody still asks for one.  Its premise, a buffer for every process and
every pinned block, is not met by the constants of the code (`NBUF` 30, `NPROC` 64,
`LOGSIZE` 30): the theorem says when `bget()` cannot panic, not that it cannot.

**`FileProofs`**: any number of processes, files, descriptors and pipes; the theorems assume
that programs call dup2 with two different open descriptors (`~AnyDup2`), since
`dup2_same` shows what happens otherwise.  `RefCountSafe`, `ObjectsSafe` and `NeverPanics`
follow from `FileInv`: besides the counts it says what each pending step of a call relies on
(`StepInv`: a file just allocated belongs to its call alone; dup2's old descriptor is still
open), that an end of a pipe has one owner, a file or the process that is closing it
(`OneOwner`), and that files without references are not in use (`FreeUnused`).  Most of the
proof is counting: a step adds or removes one element of the set a count stands for.

**`PipeProofs`**, **`ConsoleProofs`**: any size of the ring that divides the range of the
indices, any number of processes.  `PipeInv` and `ConsoleInv` keep the indices in order and
their distance below the size of the ring, and say what a sleeper waits for; from them
`RingNeverOverfull`, `PipeNotFreed`, `SleepersJustified`, `IndicesOrdered` and
`ConsoleNeverStuck`.  `PipeImplementsChannel` and `ConsoleImplementsLineQueue` map the part
of the ring between two indices to a sequence.  `ModArith` has the lemmas about `%` that these
need: an index and its slot agree across the wrap-around because the size divides the range.

`PipeProofs` also has `ClockRealInstant`, for any number of registers of any range, in BCD or
not.  It assumes that no register turns round between two readings of it (`ClockAssumption`):
then two equal readings of a register mean that it did not change in between, and there is an
instant, after the last register of the first reading and before the first of the second, at
which the chip showed what both have.

`ConsoleProofs` also has `ScreenShowsPaper`, for every size of the screen: the text memory is
a window on the paper that moves by whole rows, with blank cells behind what was written;
and `KeyboardDecodes`, for every length of the controller's queue.  There the invariant is a
chain (`Leads`): each byte in the queue moves the flags from those of the byte before it to
those it was sent with, and the driver's `shift` agrees with the beginning of the chain but
for modifiers with two keys down.  So it agrees with each byte in turn when it is read, and
with the keys when the queue is empty.

**Only model-checked**, and why:

* liveness, which rests on fairness and ENABLED: `OrphansReaped`, `KilledExits`, `LogMoves`,
  `BreadReturns`, `CallsReturn`, `PromptReturns`, and that malloc and free return (in
  `HeapSound`);
* what recursive definitions over data compute, which needs induction: `LinesUnderstood`,
  `FiltersExact`, `StringsExact`, `HeapSound` (the free list), `FilesKept` and `OpFits` (the
  contents of a file);
* `SpacesSound` and `FailureKeeps`: every page is in one of many places, and each of the loops
  that visit page tables needs an invariant of its own;
* `ReferencesSafe` and `LinksExact` of `Names` and `PipelinesWired` of `ShellRun`: their
  invariants need a clause for each place of each call, and are not written yet.

## Not modelled, and why

Boot, multiprocessor start, interrupt controllers and assembly are hardware access without
shared control state; so are the serial port, the registers of the disk and the cursor.
Programs that only make calls and print are not modelled.  Memory ordering below `xchg` is
not: critical sections are sequentially consistent, which the barriers in `spinlock.c`
provide.  Unlocked single-word accesses are atomic.  The disk writes a block atomically and
in the order asked, as `log.c` assumes.  `memide.c` is not linked into the default kernel.
