-------------------------------- MODULE Log ---------------------------------
(***************************************************************************)
(* The redo log (log.c) over a disk that keeps what was written to it, the *)
(* buffer cache as far as the log depends on it (bio.c: a dirty buffer is  *)
(* not evicted), file system calls on several threads, and crashes.        *)
(*                                                                         *)
(* Disk blocks are numbered from the start of the log: 1 .. LogSize - 1    *)
(* are the log's data blocks, LogSize .. LogSize + NHome - 1 the blocks    *)
(* behind it; the header, block 0, is the variable dhead.  A stretch under *)
(* log.lock is one step; so is one synchronous disk write.                 *)
(***************************************************************************)
EXTENDS Integers, Sequences, FiniteSets

CONSTANTS Thread,       \* kernel threads making file system calls
          NHome,        \* bound: blocks behind the log
          Val,          \* contents of a block
          MAXOPBLOCKS,  \* blocks begin_op reserves for one call
          LOGSIZE,      \* blocks begin_op counts on
          LogSize,      \* log.size, from the superblock: header included
          OpBlocks,     \* different blocks a call really writes
          NoBuf         \* a block with no buffer in the cache

ASSUME LogAssumption ==
  /\ {NHome, MAXOPBLOCKS, LOGSIZE, LogSize, OpBlocks} \subseteq Nat \ {0}
  /\ MAXOPBLOCKS <= LOGSIZE /\ OpBlocks <= MAXOPBLOCKS
  /\ NoBuf \notin Val /\ IsFiniteSet(Thread)

Home == LogSize .. LogSize + NHome - 1
DiskBlock == 1 .. LogSize + NHome - 1

VARIABLES
  disk,         \* contents of the blocks on disk
  dhead,        \* the header on disk: the block numbers it lists
  lh,           \* log.lh in memory
  outstanding,  \* log.outstanding
  committing,   \* log.committing
  cache,        \* the buffer of each home block, or NoBuf
  dirty,        \* home blocks whose buffer has B_DIRTY
  phase,        \* where commit() or recover_from_log() is; "up": in neither
  tail,         \* their loop variable, from 1
  pc,           \* where each thread is
  held,         \* the home block each thread has locked, or 0
  wrote         \* the blocks each call has written

diskVars == <<disk, dhead>>
logVars == <<lh, outstanding, committing>>
bufVars == <<cache, dirty>>
threadVars == <<pc, held, wrote>>
vars == <<diskVars, logVars, bufVars, phase, tail, threadVars>>

Entries(s) == {s[i] : i \in DOMAIN s}

\* recover_from_log() has not returned: no process runs yet.
Booting == phase # "up" /\ ~committing

\* What bread() of home block b finds.
Content(b) == IF cache[b] = NoBuf THEN disk[b] ELSE cache[b]

InitIn(ph) ==
  /\ \E v \in Val : disk = [b \in DiskBlock |-> v]
  /\ dhead = <<>>
  /\ lh = <<>> /\ outstanding = 0 /\ committing = FALSE
  /\ cache = [b \in Home |-> NoBuf] /\ dirty = {}
  /\ phase = ph /\ tail = 1
  /\ pc = [t \in Thread |-> "out"]
  /\ held = [t \in Thread |-> 0]
  /\ wrote = [t \in Thread |-> {}]

Init == InitIn("read_head")

-----------------------------------------------------------------------------
(***************************************************************************)
(* File system calls.                                                      *)
(***************************************************************************)
\* Fault: begin_op forgets the reservations of the calls in progress.
FitsAlone == Len(lh) + MAXOPBLOCKS <= LOGSIZE

Fits == Len(lh) + (outstanding + 1) * MAXOPBLOCKS <= LOGSIZE

\* begin_op: enter, or sleep on &log until someone wakes the channel.
BeginOp(t) ==
  /\ ~Booting
  /\ pc[t] \in {"out", "begin"}
  /\ IF ~committing /\ Fits
     THEN /\ outstanding' = outstanding + 1
          /\ pc' = [pc EXCEPT ![t] = "op"]
          /\ wrote' = [wrote EXCEPT ![t] = {}]
     ELSE /\ pc' = [pc EXCEPT ![t] = "asleep"]
          /\ UNCHANGED <<outstanding, wrote>>
  /\ UNCHANGED <<diskVars, lh, committing, bufVars, phase, tail, held>>

\* wakeup(&log).
Awake == [t \in Thread |-> IF pc[t] = "asleep" THEN "begin" ELSE pc[t]]

\* bread(b), then the caller modifies the data; b stays locked.  A call may write
\* a block more than once, and logs each change before it makes the next.
Modify(t, b, v) ==
  /\ pc[t] = "op"
  /\ \A u \in Thread : held[u] # b
  /\ Cardinality(wrote[t] \cup {b}) <= OpBlocks
  /\ cache' = [cache EXCEPT ![b] = v]
  /\ held' = [held EXCEPT ![t] = b]
  /\ pc' = [pc EXCEPT ![t] = "check"]
  /\ UNCHANGED <<diskVars, logVars, dirty, phase, tail, wrote>>

\* log_write's tests, before it takes the lock.
LogWriteCheck(t) ==
  /\ pc[t] = "check"
  /\ LET full == Len(lh) >= LOGSIZE \/ Len(lh) >= LogSize - 1
     IN  pc' = [pc EXCEPT ![t] = IF full \/ outstanding < 1 THEN "panic" ELSE "record"]
  /\ UNCHANGED <<diskVars, logVars, bufVars, phase, tail, held, wrote>>

\* log_write under the lock, and the caller's brelse(b).
LogWriteRecord(t) ==
  /\ pc[t] = "record"
  /\ lh' = IF held[t] \in Entries(lh) THEN lh ELSE Append(lh, held[t])
  /\ dirty' = dirty \cup {held[t]}
  /\ wrote' = [wrote EXCEPT ![t] = @ \cup {held[t]}]
  /\ held' = [held EXCEPT ![t] = 0]
  /\ pc' = [pc EXCEPT ![t] = "op"]
  /\ UNCHANGED <<diskVars, outstanding, committing, cache, phase, tail>>

\* end_op: the last call out commits, any other makes room.
EndOp(t) ==
  /\ pc[t] = "op"
  /\ outstanding' = outstanding - 1
  /\ IF ~committing /\ outstanding = 1
     THEN /\ committing' = TRUE
          /\ phase' = IF lh = <<>> THEN "done" ELSE "write_log"
          /\ pc' = [pc EXCEPT ![t] = "commit"]
     ELSE /\ pc' = IF committing THEN [pc EXCEPT ![t] = "panic"]
                                ELSE [Awake EXCEPT ![t] = "out"]
          /\ UNCHANGED <<committing, phase>>
  /\ UNCHANGED <<diskVars, lh, bufVars, tail, held, wrote>>

\* bget() recycles the buffer of a block that nobody uses.
Evict(b) ==
  /\ cache[b] # NoBuf /\ b \notin dirty
  /\ \A t \in Thread : held[t] # b
  /\ cache' = [cache EXCEPT ![b] = NoBuf]
  /\ UNCHANGED <<diskVars, logVars, dirty, phase, tail, threadVars>>

-----------------------------------------------------------------------------
(***************************************************************************)
(* Commit and recovery.                                                    *)
(***************************************************************************)

\* bwrite of block b with contents v.
DiskWrite(b, v) ==
  /\ disk' = [disk EXCEPT ![b] = v]
  /\ cache' = IF b \in Home THEN [cache EXCEPT ![b] = v] ELSE cache
  /\ dirty' = dirty \ {b}

\* Fault: write_log leaves the last block out.
WriteLogShort ==
  /\ phase = "write_log"
  /\ DiskWrite(tail, Content(lh[tail]))
  /\ IF tail < Len(lh) - 1 THEN tail' = tail + 1 /\ UNCHANGED phase
                       ELSE tail' = 1 /\ phase' = "write_head"
  /\ UNCHANGED <<dhead, logVars, threadVars>>

WriteLog ==
  /\ phase = "write_log"
  /\ DiskWrite(tail, Content(lh[tail]))
  /\ IF tail < Len(lh) THEN tail' = tail + 1 /\ UNCHANGED phase
                       ELSE tail' = 1 /\ phase' = "write_head"
  /\ UNCHANGED <<dhead, logVars, threadVars>>

\* The header write that commits.
WriteHead ==
  /\ phase = "write_head"
  /\ dhead' = lh
  /\ phase' = "install"
  /\ UNCHANGED <<disk, logVars, bufVars, tail, threadVars>>

\* install_trans: one block of the log to its home.
Install ==
  /\ phase = "install" /\ tail <= Len(lh)
  /\ DiskWrite(lh[tail], disk[tail])
  /\ tail' = tail + 1
  /\ UNCHANGED <<dhead, logVars, phase, threadVars>>

\* log.lh.n = 0, and the header write that erases the transaction.
Erase ==
  /\ phase = "install" /\ tail > Len(lh)
  /\ lh' = <<>>
  /\ dhead' = <<>>
  /\ phase' = IF committing THEN "done" ELSE "up"
  /\ tail' = 1
  /\ UNCHANGED <<disk, outstanding, committing, bufVars, threadVars>>

\* Fault: nobody is woken after a commit.
EndCommitNoWakeup(t) ==
  /\ phase = "done" /\ pc[t] = "commit"
  /\ committing' = FALSE
  /\ phase' = "up"
  /\ pc' = [pc EXCEPT ![t] = "out"]
  /\ UNCHANGED <<diskVars, lh, outstanding, bufVars, tail, held, wrote>>

\* The end of end_op.
EndCommit(t) ==
  /\ phase = "done" /\ pc[t] = "commit"
  /\ committing' = FALSE
  /\ phase' = "up"
  /\ pc' = [Awake EXCEPT ![t] = "out"]
  /\ UNCHANGED <<diskVars, lh, outstanding, bufVars, tail, held, wrote>>

\* The machine stops between two disk writes; memory is lost.
Crash ==
  /\ lh' = <<>> /\ outstanding' = 0 /\ committing' = FALSE
  /\ cache' = [b \in Home |-> NoBuf] /\ dirty' = {}
  /\ phase' = "read_head" /\ tail' = 1
  /\ pc' = [t \in Thread |-> "out"]
  /\ held' = [t \in Thread |-> 0]
  /\ wrote' = [t \in Thread |-> {}]
  /\ UNCHANGED diskVars

\* initlog: recover_from_log() begins with read_head().
ReadHead ==
  /\ phase = "read_head"
  /\ lh' = dhead
  /\ phase' = "install"
  /\ UNCHANGED <<diskVars, outstanding, committing, bufVars, tail, threadVars>>

-----------------------------------------------------------------------------
Call(t) ==
  \/ (\E b \in Home, v \in Val : Modify(t, b, v))
  \/ LogWriteCheck(t) \/ LogWriteRecord(t) \/ EndOp(t) \/ EndCommit(t)

Logger == WriteLog \/ WriteHead \/ Install \/ Erase \/ ReadHead

Next ==
  \/ (\E t \in Thread : BeginOp(t) \/ Call(t))
  \/ Logger \/ Crash
  \/ \E b \in Home : Evict(b)

Spec == Init /\ [][Next]_vars

(***************************************************************************)
(* The thread in commit() and a thread inside a call keep running, and a   *)
(* call, which is a bounded number of log_writes, comes to its end_op.     *)
(***************************************************************************)
Fairness ==
  /\ WF_vars(Logger)
  /\ \A t \in Thread : WF_vars(Call(t)) /\ SF_vars(EndOp(t))

FairSpec == Spec /\ Fairness

-----------------------------------------------------------------------------
(***************************************************************************)
(* Properties.                                                             *)
(***************************************************************************)

\* Every variable keeps to its range.
TypeOK ==
  /\ disk \in [DiskBlock -> Val]
  /\ dhead \in Seq(Home) /\ lh \in Seq(Home)
  /\ outstanding \in Nat /\ committing \in BOOLEAN
  /\ cache \in [Home -> Val \cup {NoBuf}] /\ dirty \subseteq Home
  /\ phase \in {"up", "read_head", "write_log", "write_head", "install", "done"}
  /\ tail \in Nat \ {0}
  /\ pc \in [Thread -> {"out", "begin", "asleep", "op", "check", "record", "commit", "panic"}]
  /\ held \in [Thread -> Home \cup {0}]
  /\ wrote \in [Thread -> SUBSET Home]

\* What recovery would make of home block b if the machine stopped now.
Recovered(b) ==
  IF b \in Entries(dhead)
  THEN disk[CHOOSE i \in DOMAIN dhead : dhead[i] = b]
  ELSE disk[b]

AD == INSTANCE AtomicDisk WITH
  Block <- Home,
  durable <- [b \in Home |-> Recovered(b)],
  current <- [b \in Home |-> IF Booting THEN Recovered(b) ELSE Content(b)],
  open <- outstanding

\* The log, the cache and recovery implement an atomic disk: all updates of
\* the calls in a transaction become durable in one step, the header write,
\* when no call is in progress, and survive any crash before, during and after
\* it, crashes during recovery included.
Atomic == AD!Spec

\* log_write and end_op do not panic.
NoPanic == \A t \in Thread : pc[t] # "panic"

\* The transaction fits in the log's data blocks, which log_write's test,
\* made before it takes the lock, is there to ensure.
LogFits == Len(lh) <= LogSize - 1

\* The reservations of begin_op suffice: log_write finds room for every block of
\* every call in progress.
SpaceSuffices == NoPanic /\ LogFits

\* A thread asleep in begin_op will be woken: a call is in progress whose
\* end_op wakes it, or a commit whose end does.
SleepersNotLost ==
  (\E t \in Thread : pc[t] = "asleep") => outstanding > 0 \/ committing

\* A buffer whose update is not on disk yet is in the transaction, and dirty or
\* locked, so that it is not evicted.
Pinned ==
  \A b \in Home :
    ~Booting /\ Content(b) # Recovered(b) =>
      (b \in dirty /\ b \in Entries(lh)) \/ \E t \in Thread : held[t] = b

\* A thread asleep in begin_op is woken, unless a panic stops a call.
SleepersWoken ==
  \A t \in Thread :
    pc[t] = "asleep" ~> pc[t] # "asleep" \/ \E u \in Thread : pc[u] = "panic"

\* Recovery and commit come to an end, unless the machine crashes for ever.
LogSettles == []<><<Crash>>_vars \/ (phase # "up" ~> phase = "up")

\* The log does not stop: who waits in begin_op is woken, and a commit or a
\* recovery that has begun comes to its end.
LogMoves == SleepersWoken /\ LogSettles
=============================================================================
