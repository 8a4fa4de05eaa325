-------------------------------- MODULE Buf ---------------------------------
(***************************************************************************)
(* The buffer cache (bio.c), its sleep locks (sleeplock.c) and the disk    *)
(* queue below it (ide.c).  A stretch under bcache.lock, under a sleep     *)
(* lock's spinlock or under idelock is one step.  A process uses one       *)
(* buffer at a time.                                                       *)
(***************************************************************************)
EXTENDS Naturals, Sequences, FiniteSets

CONSTANTS Client,   \* processes that use the file system
          Buffer,   \* bcache.buf, NBUF of them
          Block,    \* the block numbers of the disk
          Value,    \* contents of a block
          Written,  \* bound: the blocks that are ever written
          NoBlock,  \* blockno of a buffer never used (dev is 0)
          MaxPinned \* bound: blocks the log has modified and not yet installed

ASSUME BufAssumption ==
  /\ NoBlock \notin Block /\ MaxPinned \in Nat
  /\ IsFiniteSet(Client) /\ IsFiniteSet(Buffer) /\ Buffer # {} /\ Value # {}

VARIABLES
  lru,      \* the list of all buffers, most recently used first
  blockno, refcnt, data,
  B_VALID,  \* buffers with this flag
  B_DIRTY,  \* buffers with this flag
  locked,   \* buffers whose sleep lock is held
  idequeue, \* buffers waiting for the disk
  sectors,  \* contents of the disk
  dev,      \* the command given to the disk, none or one
  bpc,      \* where each process is
  bp        \* the buffer each process works on

bufFields == <<blockno, refcnt, data, B_VALID, B_DIRTY>>
bcacheVars == <<lru, bufFields, locked, idequeue, sectors, dev, bpc, bp>>

\* binit().  Static storage is zero: no buffer belongs to a block.
BufInit ==
  /\ lru = CHOOSE s \in [1 .. Cardinality(Buffer) -> Buffer] :
             \A i, j \in DOMAIN s : i # j => s[i] # s[j]
  /\ blockno = [b \in Buffer |-> NoBlock]
  /\ refcnt = [b \in Buffer |-> 0]
  /\ data \in [Buffer -> {CHOOSE v \in Value : TRUE}]
  /\ B_VALID = {} /\ B_DIRTY = {} /\ locked = {}
  /\ idequeue = <<>> /\ dev = <<>>
  /\ sectors = [k \in Block |-> CHOOSE v \in Value : TRUE]
  /\ bpc = [p \in Client |-> "idle"]
  /\ bp \in [Client -> {CHOOSE b \in Buffer : TRUE}]

-----------------------------------------------------------------------------
\* A buffer nobody uses and the log has not modified.
Recyclable(b) == refcnt[b] = 0 /\ b \notin B_DIRTY

\* The buffer bget recycles: the least recently used of those.
Victim(b) ==
  \E i \in DOMAIN lru :
    /\ lru[i] = b /\ Recyclable(b)
    /\ \A j \in DOMAIN lru : j > i => ~Recyclable(lru[j])

\* bget's first loop: the block is cached.
BgetHit(p, k) ==
  /\ bpc[p] = "idle"
  /\ \E b \in Buffer :
       /\ blockno[b] = k
       /\ refcnt' = [refcnt EXCEPT ![b] = @ + 1]
       /\ bp' = [bp EXCEPT ![p] = b]
  /\ bpc' = [bpc EXCEPT ![p] = "lock"]
  /\ UNCHANGED <<lru, blockno, data, B_VALID, B_DIRTY, locked, idequeue, sectors, dev>>

\* Fault: the recycled buffer stays valid.
BgetRecycleValid(p, k) ==
  /\ bpc[p] = "idle"
  /\ \A b \in Buffer : blockno[b] # k
  /\ \E b \in Buffer :
       /\ Victim(b)
       /\ blockno' = [blockno EXCEPT ![b] = k]
       /\ refcnt' = [refcnt EXCEPT ![b] = 1]
       /\ B_DIRTY' = B_DIRTY \ {b}
       /\ bp' = [bp EXCEPT ![p] = b]
  /\ bpc' = [bpc EXCEPT ![p] = "lock"]
  /\ UNCHANGED <<lru, data, B_VALID, locked, idequeue, sectors, dev>>

\* bget's second loop: the block is not cached, and an unused buffer is recycled.
BgetRecycle(p, k) ==
  /\ bpc[p] = "idle"
  /\ \A b \in Buffer : blockno[b] # k
  /\ \E b \in Buffer :
       /\ Victim(b)
       /\ blockno' = [blockno EXCEPT ![b] = k]
       /\ refcnt' = [refcnt EXCEPT ![b] = 1]
       /\ B_VALID' = B_VALID \ {b}
       /\ B_DIRTY' = B_DIRTY \ {b}
       /\ bp' = [bp EXCEPT ![p] = b]
  /\ bpc' = [bpc EXCEPT ![p] = "lock"]
  /\ UNCHANGED <<lru, data, locked, idequeue, sectors, dev>>

\* panic("bget: no buffers").
NoBuffers(k) == \A b \in Buffer : blockno[b] # k /\ ~Recyclable(b)

Bget(p, k) ==
  \/ BgetHit(p, k)
  \/ BgetRecycle(p, k)

-----------------------------------------------------------------------------
\* The processes asleep in S go on.
BufWoken(S) == [p \in Client |-> IF p \in S THEN (CASE bpc[p] = "locksleep" -> "lock"
                                                 [] bpc[p] = "disksleep" -> "disk"
                                                 [] OTHER -> bpc[p])
                               ELSE bpc[p]]

\* acquiresleep: sleep on the lock while it is held, else take it.
AcquireSleep(p) ==
  /\ bpc[p] = "lock"
  /\ IF bp[p] \in locked
     THEN bpc' = [bpc EXCEPT ![p] = "locksleep"] /\ UNCHANGED locked
     ELSE bpc' = [bpc EXCEPT ![p] = "locked"] /\ locked' = locked \cup {bp[p]}
  /\ UNCHANGED <<lru, bufFields, idequeue, sectors, dev, bp>>

\* idestart(b): a command for block k, with the data if the buffer is dirty.
Command(b, k, v, w) == <<[buf |-> b, block |-> k, write |-> w, data |-> v]>>

\* bread returns a buffer that is valid.
BreadValid(p) ==
  /\ bpc[p] = "locked" /\ bp[p] \in B_VALID
  /\ bpc' = [bpc EXCEPT ![p] = "held"]
  /\ UNCHANGED <<lru, bufFields, locked, idequeue, sectors, dev, bp>>

\* iderw(b) up to its sleep: append b, start the disk if it was idle.
Iderw(p) ==
  LET b == bp[p]
  IN  /\ idequeue' = Append(idequeue, b)
      /\ dev' = IF idequeue = <<>> THEN Command(b, blockno[b], data'[b], b \in B_DIRTY')
                ELSE dev
      /\ bpc' = [bpc EXCEPT ![p] = "disksleep"]

\* bread reads a buffer that is not valid.
BreadDisk(p) ==
  /\ bpc[p] = "locked" /\ bp[p] \notin B_VALID
  /\ UNCHANGED <<data, B_DIRTY>>
  /\ Iderw(p)
  /\ UNCHANGED <<lru, blockno, refcnt, B_VALID, locked, sectors, bp>>

\* iderw's loop after a wakeup.
IderwCheck(p) ==
  /\ bpc[p] = "disk"
  /\ bpc' = [bpc EXCEPT ![p] = IF bp[p] \in B_VALID \ B_DIRTY THEN "held" ELSE "disksleep"]
  /\ UNCHANGED <<lru, bufFields, locked, idequeue, sectors, dev, bp>>

\* Fault: the interrupt handler does not start the next request.
IdeintrNoStart ==
  /\ dev # <<>>
  /\ LET b == Head(idequeue)
         c == Head(dev)
     IN  /\ idequeue' = Tail(idequeue)
         /\ sectors' = IF c.write THEN [sectors EXCEPT ![c.block] = c.data] ELSE sectors
         /\ data' = IF b \in B_DIRTY THEN data ELSE [data EXCEPT ![b] = sectors[c.block]]
         /\ B_VALID' = B_VALID \cup {b}
         /\ B_DIRTY' = B_DIRTY \ {b}
         /\ bpc' = BufWoken({p \in Client : bpc[p] = "disksleep" /\ bp[p] = b})
         /\ dev' = <<>>
  /\ UNCHANGED <<lru, blockno, refcnt, locked, bp>>

\* The disk has done the command it was given, and ideintr takes the first
\* buffer off the queue, wakes who waits for it and starts the next.
Ideintr ==
  /\ dev # <<>>
  /\ LET b == Head(idequeue)
         c == Head(dev)
         n == idequeue[2]
     IN  /\ idequeue' = Tail(idequeue)
         /\ sectors' = IF c.write THEN [sectors EXCEPT ![c.block] = c.data] ELSE sectors
         /\ data' = IF b \in B_DIRTY THEN data ELSE [data EXCEPT ![b] = sectors[c.block]]
         /\ B_VALID' = B_VALID \cup {b}
         /\ B_DIRTY' = B_DIRTY \ {b}
         /\ bpc' = BufWoken({p \in Client : bpc[p] = "disksleep" /\ bp[p] = b})
         /\ dev' = IF Len(idequeue) = 1 THEN <<>>
                   ELSE Command(n, blockno[n], data[n], n \in B_DIRTY)
  /\ UNCHANGED <<lru, blockno, refcnt, locked, bp>>

-----------------------------------------------------------------------------
\* The holder changes the data and hands the buffer to the log, which pins it
\* (log_write).
LogWrite(p) ==
  /\ bpc[p] = "held" /\ blockno[bp[p]] \in Written
  /\ bp[p] \in B_DIRTY \/ Cardinality(B_DIRTY) < MaxPinned
  /\ \E v \in Value : data' = [data EXCEPT ![bp[p]] = v]
  /\ B_DIRTY' = B_DIRTY \cup {bp[p]}
  /\ UNCHANGED <<lru, blockno, refcnt, B_VALID, locked, idequeue, sectors, dev, bpc, bp>>

\* The holder changes the data and writes it out (bwrite).
Bwrite(p) ==
  /\ bpc[p] = "held" /\ blockno[bp[p]] \in Written
  /\ \E v \in Value : data' = [data EXCEPT ![bp[p]] = v]
  /\ B_DIRTY' = B_DIRTY \cup {bp[p]}
  /\ Iderw(p)
  /\ UNCHANGED <<lru, blockno, refcnt, B_VALID, locked, sectors, bp>>

\* brelse: releasesleep.
BrelseUnlock(p) ==
  /\ bpc[p] = "held"
  /\ locked' = locked \ {bp[p]}
  /\ bpc' = [BufWoken({q \in Client : bpc[q] = "locksleep" /\ bp[q] = bp[p]})
               EXCEPT ![p] = "release"]
  /\ UNCHANGED <<lru, bufFields, idequeue, sectors, dev, bp>>

\* Fault: a buffer that was released is still counted.
BrelseUnrefKeeps(p) ==
  /\ bpc[p] = "release"
  /\ bpc' = [bpc EXCEPT ![p] = "idle"]
  /\ UNCHANGED <<lru, bufFields, locked, idequeue, sectors, dev, bp>>

\* brelse: the reference goes, and the last one makes the buffer the most
\* recently used.
BrelseUnref(p) ==
  /\ bpc[p] = "release"
  /\ LET b == bp[p]
     IN  /\ refcnt' = [refcnt EXCEPT ![b] = @ - 1]
         /\ lru' = IF refcnt[b] = 1 THEN <<b>> \o SelectSeq(lru, LAMBDA c : c # b) ELSE lru
  /\ bpc' = [bpc EXCEPT ![p] = "idle"]
  /\ UNCHANGED <<blockno, data, B_VALID, B_DIRTY, locked, idequeue, sectors, dev, bp>>

\* kill() ends a sleep before its time.
WakeEarly(p) ==
  /\ bpc[p] \in {"locksleep", "disksleep"}
  /\ bpc' = BufWoken({p})
  /\ UNCHANGED <<lru, bufFields, locked, idequeue, sectors, dev, bp>>

-----------------------------------------------------------------------------
\* What a process in bread, bwrite or brelse does next.
BufStep(p) ==
  \/ AcquireSleep(p)
  \/ BreadValid(p)
  \/ BreadDisk(p)
  \/ IderwCheck(p)
  \/ BrelseUnlock(p)
  \/ BrelseUnref(p)

BufNext ==
  \/ \E p \in Client :
       \/ \E k \in Block : Bget(p, k)
       \/ BufStep(p) \/ LogWrite(p) \/ Bwrite(p) \/ WakeEarly(p)
  \/ Ideintr

BufSpec == BufInit /\ [][BufNext]_bcacheVars

(***************************************************************************)
(* The disk finishes what it was told to do; a process in the buffer cache *)
(* goes on and, as every caller of bread does, releases the buffer after a *)
(* bounded number of writes; one that finds a lock free again and again    *)
(* gets it.                                                                *)
(***************************************************************************)
BufFairness ==
  /\ WF_bcacheVars(Ideintr)
  /\ \A p \in Client : WF_bcacheVars(BufStep(p))
  /\ \A p \in Client : SF_bcacheVars(BrelseUnlock(p))
  /\ \A p \in Client : SF_bcacheVars(bp[p] \notin locked /\ AcquireSleep(p))

BufFairSpec == BufSpec /\ BufFairness

-----------------------------------------------------------------------------
(***************************************************************************)
(* Properties.                                                             *)
(***************************************************************************)

\* Every variable keeps to its range.
BufTypeOK ==
  /\ lru \in Seq(Buffer) /\ Len(lru) = Cardinality(Buffer)
  /\ blockno \in [Buffer -> Block \cup {NoBlock}]
  /\ refcnt \in [Buffer -> Nat]
  /\ data \in [Buffer -> Value] /\ sectors \in [Block -> Value]
  /\ B_VALID \subseteq Buffer /\ B_DIRTY \subseteq Buffer /\ locked \subseteq Buffer
  /\ idequeue \in Seq(Buffer)
  /\ bpc \in [Client -> {"idle", "lock", "locksleep", "locked", "disk", "disksleep",
                         "held", "release"}]
  /\ bp \in [Client -> Buffer]

\* The processes that hold the sleep lock of b.
Holders(b) ==
  {p \in Client : bp[p] = b /\ bpc[p] \in {"locked", "disk", "disksleep", "held"}}

\* bget never hands out two buffers for one block, and a buffer that somebody
\* waits for or works on is counted, so it is not recycled under them.
OneBuffer ==
  /\ \A b, c \in Buffer : blockno[b] = blockno[c] /\ blockno[b] # NoBlock => b = c
  /\ \A b \in Buffer : refcnt[b] = Cardinality({p \in Client : bpc[p] # "idle" /\ bp[p] = b})

\* The disk works on the first buffer of idequeue and on nothing else: requests
\* are neither lost nor started twice, and a buffer in the queue is locked by a
\* process that waits for it in iderw.
QueueServed ==
  /\ dev = <<>> <=> idequeue = <<>>
  /\ dev # <<>> =>
       LET c == Head(dev)
           b == Head(idequeue)
       IN  /\ c.buf = b /\ c.block = blockno[b] /\ c.write = (b \in B_DIRTY)
           /\ c.write => c.data = data[b]
  /\ \A i, j \in DOMAIN idequeue : idequeue[i] = idequeue[j] => i = j
  /\ \A b \in Buffer :
       (\E i \in DOMAIN idequeue : idequeue[i] = b) <=>
       (\E p \in Holders(b) : bpc[p] \in {"disk", "disksleep"} /\ b \notin B_VALID \ B_DIRTY)

\* Who uses block k.
Users(k) == {p \in Client : blockno[bp[p]] = k /\ p \in Holders(bp[p])}

\* What block k holds: its buffer if that is valid, else the disk.
Seen(k) ==
  LET bs == {b \in B_VALID : blockno[b] = k}
  IN  IF bs = {} THEN sectors[k] ELSE data[CHOOSE b \in bs : TRUE]

BS == INSTANCE BlockStore WITH
  Process <- Client,
  content <- [k \in Block |-> Seen(k)],
  user <- [k \in Block |-> Users(k)]

\* The cache implements a store of blocks: bread returns what was last written
\* to the block, whether that is still in a buffer pinned by the log or has
\* gone to disk and its buffer was recycled, and between bread and brelse
\* nobody else reads or changes the block.
Coherent == BS!Spec

\* bget never panics for want of buffers as long as there is one for every
\* process and for every block that the log has pinned.
EnoughBuffers ==
  (\E p \in Client : bpc[p] = "idle") => \A k \in Block : ~NoBuffers(k)

\* bread returns: no request stays in the disk queue and no process asleep on
\* a buffer's lock is forgotten.
BreadReturns == \A p \in Client : bpc[p] = "lock" ~> bpc[p] = "held"
=============================================================================
