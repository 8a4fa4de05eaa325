-------------------------------- MODULE Pipe --------------------------------
(***************************************************************************)
(* One pipe (pipe.c) between processes that share its read end and         *)
(* processes that share its write end.  What a call does between taking    *)
(* p->lock and releasing it is one step, but for the test of myproc()->    *)
(* killed and the sleep() after it: kill() does not take p->lock, and may  *)
(* come in between.                                                        *)
(***************************************************************************)
EXTENDS Integers, Sequences

CONSTANTS Reader, Writer,  \* the processes that have each end open
          Mortal,          \* those of them that may be killed
          Byte,            \* contents of a byte
          Text,            \* what programs write in one call
          PIPESIZE,        \* size of p->data
          UINT,            \* uint counts modulo this
          MaxN             \* bound: bytes a reader asks for in one call

ASSUME PipeAssumption ==
  /\ PIPESIZE \in Nat \ {0} /\ UINT \in Nat \ {0} /\ MaxN \in Nat
  /\ UINT % PIPESIZE = 0 /\ UINT > PIPESIZE
  /\ Text \subseteq Seq(Byte)
  /\ Reader \cap Writer = {} /\ Mortal \subseteq Reader \cup Writer

VARIABLES
  data, nread, nwrite, readopen, writeopen,
  alloc,   \* the page of the pipe has not been given back to kfree()
  pc,      \* where each process is: "call" is in piperead or pipewrite,
           \* "tosleep" about to sleep there, with p->lock held
  killed,  \* the killed processes
  n,       \* bytes each reader's call in progress asked for
  rest,    \* bytes each writer has still to write
  got      \* bytes each reader's last call returned

pipeVars == <<data, nread, nwrite, readopen, writeopen, alloc>>
vars == <<pipeVars, pc, killed, n, rest, got>>

Proc == Reader \cup Writer

\* Bytes in the pipe, by the arithmetic of uint.
Used == (nwrite - nread) % UINT

\* Bytes that pipewrite's loop stores before p->nwrite == p->nread + PIPESIZE.
Room == (nread + PIPESIZE - nwrite) % UINT

Init ==
  /\ \E b \in Byte : data = [x \in 0 .. PIPESIZE - 1 |-> b]
  /\ nread = 0 /\ nwrite = 0
  /\ readopen = TRUE /\ writeopen = TRUE /\ alloc = TRUE
  /\ pc = [p \in Proc |-> "user"]
  /\ killed = {}
  /\ n = [r \in Reader |-> 0]
  /\ rest = [w \in Writer |-> <<>>]
  /\ got = [r \in Reader |-> <<>>]

\* wakeup() of the channel the processes in P sleep on.
Woken(P) == [p \in Proc |-> IF p \in P /\ pc[p] = "asleep" THEN "call" ELSE pc[p]]

\* p->lock is free.
Unlocked == \A p \in Proc : pc[p] # "tosleep"

\* sleep() under ptable.lock, which lets p->lock go.
Sleep(p) ==
  /\ pc[p] = "tosleep"
  /\ pc' = [pc EXCEPT ![p] = "asleep"]
  /\ UNCHANGED <<pipeVars, killed, n, rest, got>>

-----------------------------------------------------------------------------
\* write(): trap() has found the caller alive.
Write(w) ==
  /\ pc[w] = "user" /\ w \notin killed
  /\ \E s \in Text : rest' = [rest EXCEPT ![w] = s]
  /\ pc' = [pc EXCEPT ![w] = "call"]
  /\ UNCHANGED <<pipeVars, killed, n, got>>

\* p->data with the bytes s put in from nwrite on.
Stored(s) ==
  [x \in 0 .. PIPESIZE - 1 |->
     LET js == {j \in 1 .. Len(s) : ((nwrite + j - 1) % UINT) % PIPESIZE = x}
     IN  IF js = {} THEN data[x] ELSE s[CHOOSE j \in js : TRUE]]

\* pipewrite's loop: it writes what fits, and is then done, or gives up, or
\* sleeps on &p->nwrite.
PipeWrite(w) ==
  /\ pc[w] = "call" /\ Unlocked
  /\ LET k == IF Len(rest[w]) <= Room THEN Len(rest[w]) ELSE Room
     IN  /\ data' = Stored(SubSeq(rest[w], 1, k))
         /\ nwrite' = (nwrite + k) % UINT
         /\ \/ /\ k = Len(rest[w])
               /\ rest' = [rest EXCEPT ![w] = <<>>]
               /\ pc' = [Woken(Reader) EXCEPT ![w] = "user"]
            \/ /\ k < Len(rest[w]) /\ (~readopen \/ w \in killed)
               /\ rest' = [rest EXCEPT ![w] = <<>>]
               /\ pc' = [pc EXCEPT ![w] = "user"]
            \/ /\ k < Len(rest[w]) /\ readopen /\ w \notin killed
               /\ rest' = [rest EXCEPT ![w] = SubSeq(@, k + 1, Len(@))]
               /\ pc' = [Woken(Reader) EXCEPT ![w] = "tosleep"]
  /\ UNCHANGED <<nread, readopen, writeopen, alloc, killed, n, got>>

-----------------------------------------------------------------------------
\* read().
Read(r) ==
  /\ pc[r] = "user" /\ r \notin killed
  /\ \E k \in 0 .. MaxN : n' = [n EXCEPT ![r] = k]
  /\ got' = [got EXCEPT ![r] = <<>>]
  /\ pc' = [pc EXCEPT ![r] = "call"]
  /\ UNCHANGED <<pipeVars, killed, rest>>

\* Fault: a reader woken for nothing returns without a byte.
PipeReadOnce(r) ==
  /\ pc[r] = "call" /\ Unlocked /\ nread = nwrite /\ writeopen
  /\ \/ /\ r \in killed \/ nwrite # 0
        /\ pc' = [pc EXCEPT ![r] = "user"] /\ n' = [n EXCEPT ![r] = 0]
     \/ r \notin killed /\ pc' = [pc EXCEPT ![r] = "tosleep"] /\ UNCHANGED n
  /\ UNCHANGED <<pipeVars, killed, rest, got>>

\* piperead while the pipe is empty: give up, or sleep on &p->nread.
PipeReadEmpty(r) ==
  /\ pc[r] = "call" /\ Unlocked /\ nread = nwrite /\ writeopen
  /\ \/ r \in killed /\ pc' = [pc EXCEPT ![r] = "user"] /\ n' = [n EXCEPT ![r] = 0]
     \/ r \notin killed /\ pc' = [pc EXCEPT ![r] = "tosleep"] /\ UNCHANGED n
  /\ UNCHANGED <<pipeVars, killed, rest, got>>

\* Fault: a reader does not wake the writers.
PipeReadNoWakeup(r) ==
  /\ pc[r] = "call" /\ Unlocked /\ (nread # nwrite \/ ~writeopen)
  /\ LET k == IF n[r] <= Used THEN n[r] ELSE Used
     IN  /\ got' = [got EXCEPT ![r] =
                      [i \in 1 .. k |-> data[((nread + i - 1) % UINT) % PIPESIZE]]]
         /\ nread' = (nread + k) % UINT
  /\ n' = [n EXCEPT ![r] = 0]
  /\ pc' = [pc EXCEPT ![r] = "user"]
  /\ UNCHANGED <<data, nwrite, readopen, writeopen, alloc, killed, rest>>

\* piperead's copy, up to n bytes or what there is.
PipeRead(r) ==
  /\ pc[r] = "call" /\ Unlocked /\ (nread # nwrite \/ ~writeopen)
  /\ LET k == IF n[r] <= Used THEN n[r] ELSE Used
     IN  /\ got' = [got EXCEPT ![r] =
                      [i \in 1 .. k |-> data[((nread + i - 1) % UINT) % PIPESIZE]]]
         /\ nread' = (nread + k) % UINT
  /\ n' = [n EXCEPT ![r] = 0]
  /\ pc' = [Woken(Writer) EXCEPT ![r] = "user"]
  /\ UNCHANGED <<data, nwrite, readopen, writeopen, alloc, killed, rest>>

-----------------------------------------------------------------------------
\* Fault: the last reader does not wake the writers.
CloseReadNoWakeup(r) ==
  /\ pc[r] = "user"
  /\ IF \A q \in Reader \ {r} : pc[q] = "closed"
     THEN /\ Unlocked
          /\ readopen' = FALSE
          /\ alloc' = writeopen
          /\ pc' = [pc EXCEPT ![r] = "closed"]
     ELSE pc' = [pc EXCEPT ![r] = "closed"] /\ UNCHANGED <<readopen, alloc>>
  /\ UNCHANGED <<data, nread, nwrite, writeopen, killed, n, rest, got>>

\* close() or exit(): the last process to close an end calls pipeclose, which
\* wakes the other end, and frees the pipe when both are closed.
CloseRead(r) ==
  /\ pc[r] = "user"
  /\ IF \A q \in Reader \ {r} : pc[q] = "closed"
     THEN /\ Unlocked
          /\ readopen' = FALSE
          /\ alloc' = writeopen
          /\ pc' = [Woken(Writer) EXCEPT ![r] = "closed"]
     ELSE pc' = [pc EXCEPT ![r] = "closed"] /\ UNCHANGED <<readopen, alloc>>
  /\ UNCHANGED <<data, nread, nwrite, writeopen, killed, n, rest, got>>

\* Fault: the last writer frees the pipe.
CloseWriteFrees(w) ==
  /\ pc[w] = "user"
  /\ IF \A q \in Writer \ {w} : pc[q] = "closed"
     THEN /\ Unlocked
          /\ writeopen' = FALSE
          /\ alloc' = FALSE
          /\ pc' = [Woken(Reader) EXCEPT ![w] = "closed"]
     ELSE pc' = [pc EXCEPT ![w] = "closed"] /\ UNCHANGED <<writeopen, alloc>>
  /\ UNCHANGED <<data, nread, nwrite, readopen, killed, n, rest, got>>

CloseWrite(w) ==
  /\ pc[w] = "user"
  /\ IF \A q \in Writer \ {w} : pc[q] = "closed"
     THEN /\ Unlocked
          /\ writeopen' = FALSE
          /\ alloc' = readopen
          /\ pc' = [Woken(Reader) EXCEPT ![w] = "closed"]
     ELSE pc' = [pc EXCEPT ![w] = "closed"] /\ UNCHANGED <<writeopen, alloc>>
  /\ UNCHANGED <<data, nread, nwrite, readopen, killed, n, rest, got>>

\* kill() sets p->killed and ends a sleep.
Kill(p) ==
  /\ p \notin killed /\ pc[p] # "closed"
  /\ killed' = killed \cup {p}
  /\ pc' = Woken({p})
  /\ UNCHANGED <<pipeVars, n, rest, got>>

-----------------------------------------------------------------------------
\* What a process in the kernel does next.
Step(p) ==
  \/ Sleep(p)
  \/ p \in Reader /\ (PipeReadEmpty(p) \/ PipeRead(p))
  \/ p \in Writer /\ PipeWrite(p)

Close(p) ==
  \/ p \in Reader /\ CloseRead(p)
  \/ p \in Writer /\ CloseWrite(p)

Next ==
  \/ \E r \in Reader : Read(r)
  \/ \E w \in Writer : Write(w)
  \/ \E p \in Proc : Step(p) \/ Close(p)
  \/ \E p \in Mortal : Kill(p)

Spec == Init /\ [][Next]_vars

(***************************************************************************)
(* A process in the kernel keeps running, and gets p->lock if it spins for *)
(* it and finds it free again and again.  One that was killed goes on to   *)
(* exit(), which closes its files.                                         *)
(***************************************************************************)
Fairness ==
  \A p \in Proc : SF_vars(Step(p) \/ (p \in killed /\ Close(p)))

FairSpec == Spec /\ Fairness

-----------------------------------------------------------------------------
(***************************************************************************)
(* Properties.                                                             *)
(***************************************************************************)

\* Every variable keeps to its range.
TypeOK ==
  /\ data \in [0 .. PIPESIZE - 1 -> Byte]
  /\ nread \in 0 .. UINT - 1 /\ nwrite \in 0 .. UINT - 1
  /\ {readopen, writeopen, alloc} \subseteq BOOLEAN
  /\ pc \in [Proc -> {"user", "call", "tosleep", "asleep", "closed"}]
  /\ killed \subseteq Mortal
  /\ n \in [Reader -> 0 .. MaxN]
  /\ rest \in [Writer -> Seq(Byte)]
  /\ got \in [Reader -> Seq(Byte)]

\* The ring never holds more than PIPESIZE bytes, also when nwrite has wrapped
\* around past the largest uint and nread has not.
NeverOverfull == Used <= PIPESIZE

InCall(p) == pc[p] \in {"call", "tosleep", "asleep"}

CH == INSTANCE Channel WITH
  Capacity <- PIPESIZE,
  MaxAsk <- MaxN,
  queue <- [i \in 1 .. Used |-> data[(nread + i - 1) % PIPESIZE]],
  asked <- [r \in Reader |-> IF InCall(r) THEN n[r] ELSE -1]

\* The ring implements a queue: the bytes of every write() go in and come out
\* once and in their order, whatever the interleaving of readers, writers,
\* closes and kills.  A piperead() that was not killed returns nothing only
\* after the last byte of the last writer, or if it asked for nothing.
Fifo == CH!Spec

\* The page of the pipe is freed exactly when both ends are closed, so no call
\* in progress touches a freed pipe.
NoUseAfterFree ==
  /\ alloc <=> readopen \/ writeopen
  /\ \A p \in Proc : InCall(p) => alloc /\ (IF p \in Reader THEN readopen ELSE writeopen)

\* A writer asleep in pipewrite has reason to: the pipe is full and somebody
\* can still read from it.
WriterSleepsOnFull ==
  \A w \in Writer : pc[w] \in {"tosleep", "asleep"} => Used = PIPESIZE /\ readopen

\* A reader asleep in piperead has reason to: somebody can still write to the
\* pipe, and it is empty.  The latter fails only after a writer was killed:
\* pipewrite gives up without waking readers for the bytes it has stored.
ReaderSleepsOnEmpty ==
  \A r \in Reader : pc[r] \in {"tosleep", "asleep"} =>
                      writeopen /\ (Used = 0 \/ killed \cap Writer # {})

\* Nobody sleeps on a pipe that has something for them.
SleepersHaveReason == WriterSleepsOnFull /\ ReaderSleepsOnEmpty

\* Nobody waits for a process that is gone: once one end is closed by all, a
\* process inside a call on the other end returns from it.
PeerGone ==
  /\ \A r \in Reader : InCall(r) /\ ~writeopen ~> ~InCall(r)
  /\ \A w \in Writer : InCall(w) /\ ~readopen ~> ~InCall(w)

\* A killed process that is not on its way into a sleep, whether kill() found it
\* asleep or outside, gets out of the pipe and closes it.
KilledLeaves == \A p \in Mortal : p \in killed /\ pc[p] \in {"user", "call"} ~> pc[p] = "closed"

\* A call on a pipe returns once nobody is left at the other end, or its caller
\* was killed.
CallsReturn == PeerGone /\ KilledLeaves

\* Every killed process gets out of the pipe, as kill() says.
KilledExits == \A p \in Mortal : p \in killed ~> pc[p] = "closed"
=============================================================================
