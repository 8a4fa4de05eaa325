------------------------------ MODULE Console -------------------------------
(***************************************************************************)
(* Console input (console.c): the interrupt handler that edits a line in a *)
(* ring, and processes that read it.  What runs under cons.lock is one     *)
(* step, but for the test of myproc()->killed and the sleep() after it, as *)
(* kill() does not take cons.lock; consoleintr's loop is cut into keys.    *)
(* Control-D powers the machine off (PDX_XV6) before it could be stored,   *)
(* and Control-P prints after the release: neither touches this state, and *)
(* consoleread's end-of-file case is never reached.                        *)
(***************************************************************************)
EXTENDS Integers, Sequences

CONSTANTS Reader,     \* processes that read the console
          Key,        \* printing keys
          Newline,
          INPUT_BUF,  \* size of input.buf
          UINT,       \* uint counts modulo this
          MaxN        \* bound: bytes asked for in one call

ASSUME ConsoleAssumption ==
  /\ INPUT_BUF \in Nat \ {0} /\ UINT \in Nat \ {0} /\ MaxN \in Nat \ {0}
  /\ UINT % INPUT_BUF = 0 /\ UINT > INPUT_BUF
  /\ Newline \notin Key

VARIABLES
  buf, r, w, e,  \* input
  where,         \* where each reader is: "read" is in consoleread, "tosleep"
                 \* about to sleep there, with cons.lock held
  n,             \* bytes each reader still wants
  got,           \* what its call has put at dst
  killed         \* the readers that were killed

inputVars == <<buf, r, w, e>>
conVars == <<inputVars, where, n, got, killed>>

Chars == Key \cup {Newline}

\* Unsigned arithmetic on the indices.
Plus(i, k) == (i + k) % UINT
Dist(i, j) == (j - i) % UINT
Slot(i) == i % INPUT_BUF

ConInit ==
  /\ \E c \in Chars : buf = [i \in 0 .. INPUT_BUF - 1 |-> c]
  /\ r = 0 /\ w = 0 /\ e = 0
  /\ where = [p \in Reader |-> "user"]
  /\ n = [p \in Reader |-> 0]
  /\ got = [p \in Reader |-> <<>>]
  /\ killed = {}

\* wakeup(&input.r).
Woken == [p \in Reader |-> IF where[p] = "asleep" THEN "read" ELSE where[p]]

\* cons.lock is free.
Unlocked == \A p \in Reader : where[p] # "tosleep"

-----------------------------------------------------------------------------
\* Fault: a full ring without a newline is not handed over.
InsertNoHandOver(k) ==
  /\ Unlocked /\ Dist(r, e) < INPUT_BUF
  /\ buf' = [buf EXCEPT ![Slot(e)] = k]
  /\ e' = Plus(e, 1)
  /\ IF k = Newline
     THEN w' = e' /\ where' = Woken
     ELSE UNCHANGED <<w, where>>
  /\ UNCHANGED <<r, n, got, killed>>

\* consoleintr's default case: a key is dropped if the ring is full.
Insert(k) ==
  /\ Unlocked /\ Dist(r, e) < INPUT_BUF
  /\ buf' = [buf EXCEPT ![Slot(e)] = k]
  /\ e' = Plus(e, 1)
  /\ IF k = Newline \/ e' = Plus(r, INPUT_BUF)
     THEN w' = e' /\ where' = Woken
     ELSE UNCHANGED <<w, where>>
  /\ UNCHANGED <<r, n, got, killed>>

Backspace ==
  /\ Unlocked /\ e # w
  /\ e' = Plus(e, -1)
  /\ UNCHANGED <<buf, r, w, where, n, got, killed>>

\* Fault: Control-U erases all that was not read.
EraseAll == Unlocked /\ e' = r /\ UNCHANGED <<buf, r, w, where, n, got, killed>>

\* Control-U: back to the last newline, or to what was handed over.
EraseLine ==
  /\ Unlocked
  /\ e' = Plus(e, -(CHOOSE k \in 0 .. Dist(w, e) :
                      /\ k = Dist(w, e) \/ buf[Slot(Plus(e, -(k + 1)))] = Newline
                      /\ \A j \in 1 .. k : buf[Slot(Plus(e, -j))] # Newline))
  /\ UNCHANGED <<buf, r, w, where, n, got, killed>>

-----------------------------------------------------------------------------
\* read() on the console.
Read(p) ==
  /\ where[p] = "user" /\ p \notin killed
  /\ \E k \in 1 .. MaxN : n' = [n EXCEPT ![p] = k]
  /\ got' = [got EXCEPT ![p] = <<>>]
  /\ where' = [where EXCEPT ![p] = "read"]
  /\ UNCHANGED <<inputVars, killed>>

Return(p) == where' = [where EXCEPT ![p] = "user"] /\ n' = [n EXCEPT ![p] = 0]

\* The number of keys the loop of consoleread takes before it stops: at n, at
\* a newline, or when the ring is empty.
Taken(p) ==
  CHOOSE k \in 1 .. Dist(r, w) :
    /\ \A i \in 1 .. k - 1 : buf[Slot(Plus(r, i - 1))] # Newline
    /\ k <= n[p]
    /\ k = n[p] \/ k = Dist(r, w) \/ buf[Slot(Plus(r, k - 1))] = Newline

\* consoleread with something to read; if it wants more it goes round again.
ConsoleRead(p) ==
  /\ where[p] = "read" /\ Unlocked /\ r # w
  /\ r' = Plus(r, Taken(p))
  /\ got' = [got EXCEPT ![p] = @ \o [i \in 1 .. Taken(p) |-> buf[Slot(Plus(r, i - 1))]]]
  /\ LET done == Taken(p) = n[p] \/ buf[Slot(Plus(r, Taken(p) - 1))] = Newline
     IN  \/ (done \/ p \in killed) /\ Return(p)
         \/ /\ ~done /\ p \notin killed
            /\ n' = [n EXCEPT ![p] = @ - Taken(p)]
            /\ where' = [where EXCEPT ![p] = "tosleep"]
  /\ UNCHANGED <<buf, w, e, killed>>

\* consoleread with nothing to read.
ConsoleWait(p) ==
  /\ where[p] = "read" /\ Unlocked /\ r = w
  /\ \/ p \in killed /\ Return(p)
     \/ p \notin killed /\ where' = [where EXCEPT ![p] = "tosleep"] /\ UNCHANGED n
  /\ UNCHANGED <<inputVars, got, killed>>

\* sleep() under ptable.lock, which lets cons.lock go.
Sleep(p) ==
  /\ where[p] = "tosleep"
  /\ where' = [where EXCEPT ![p] = "asleep"]
  /\ UNCHANGED <<inputVars, n, got, killed>>

\* kill() sets p->killed and ends a sleep.
Kill(p) ==
  /\ p \notin killed
  /\ killed' = killed \cup {p}
  /\ where' = [where EXCEPT ![p] = IF @ = "asleep" THEN "read" ELSE @]
  /\ UNCHANGED <<inputVars, n, got>>

Keyboard == Backspace \/ EraseLine \/ \E k \in Chars : Insert(k)

Step(p) == ConsoleRead(p) \/ ConsoleWait(p) \/ Sleep(p)

ConNext == Keyboard \/ \E p \in Reader : Read(p) \/ Step(p) \/ Kill(p)

ConSpec == ConInit /\ [][ConNext]_conVars

-----------------------------------------------------------------------------
(***************************************************************************)
(* Properties.                                                             *)
(***************************************************************************)

\* Every variable keeps to its range.
ConTypeOK ==
  /\ buf \in [0 .. INPUT_BUF - 1 -> Chars]
  /\ {r, w, e} \subseteq 0 .. UINT - 1
  /\ where \in [Reader -> {"user", "read", "tosleep", "asleep"}]
  /\ n \in [Reader -> 0 .. MaxN]
  /\ got \in [Reader -> Seq(Chars)]
  /\ killed \subseteq Reader

\* The read, write and edit indices keep their order round the ring, also
\* after the unsigned counters have wrapped around.
Ordered == Dist(r, w) + Dist(w, e) <= INPUT_BUF

\* A full ring can be read: the keyboard drops keys then, so a reader that
\* could not proceed either would leave the console dead.
NotWedged == Dist(r, e) = INPUT_BUF => r # w

\* A reader asleep in consoleread has nothing to read.
SleepsOnEmpty == \A p \in Reader : where[p] \in {"tosleep", "asleep"} => r = w

\* The console cannot get stuck: a full ring has something for a reader, and a
\* reader sleeps only when there is nothing.
NeverStuck == NotWedged /\ SleepsOnEmpty

LQ == INSTANCE LineQueue WITH
  Capacity <- INPUT_BUF,
  ready <- [i \in 1 .. Dist(r, w) |-> buf[Slot(r + i - 1)]],
  edit <- [i \in 1 .. Dist(w, e) |-> buf[Slot(w + i - 1)]]

\* The ring with its three indices implements a line-edited queue: erasing
\* never reaches a key that was handed over, and every key that was is put at
\* dst by one read, after the keys before it, whichever reader gets it.
LineEdited == LQ!Spec
=============================================================================
