----------------------------- MODULE PipeProofs -----------------------------
(***************************************************************************)
(* Proofs about counters that turn round while others read them: Pipe, for *)
(* every size of the ring, every width of its counters and every number of *)
(* readers and writers, and Clock, for all registers of the clock chip.    *)
(***************************************************************************)
EXTENDS Pipe, Clock, ModArith, TLAPS

LEMMA Sizes ==
  /\ UINT \in Nat /\ UINT > 0 /\ PIPESIZE \in Nat /\ PIPESIZE > 0 /\ PIPESIZE < UINT
  /\ UINT % PIPESIZE = 0 /\ MaxN \in Nat /\ Text \subseteq Seq(Byte)
BY PipeAssumption

\* The ring size divides the range of the counters.
LEMMA SlotOf == \A a \in Int : (a % UINT) % PIPESIZE = a % PIPESIZE
BY Sizes, ModMod, Zenon

LEMMA SlotShift == \A a, y \in Int : ((a % UINT) + y) % PIPESIZE = (a + y) % PIPESIZE
BY Sizes, ModShift, Zenon

LEMMA UsedAfterWrite ==
  \A a, b \in 0 .. UINT - 1, k \in Nat :
    ((b - a) % UINT) + k < UINT => (((b + k) % UINT) - a) % UINT = ((b - a) % UINT) + k
BY Sizes, DistUp, Zenon

LEMMA UsedAfterRead ==
  \A a, b \in 0 .. UINT - 1, k \in Nat :
    k <= (b - a) % UINT => (b - ((a + k) % UINT)) % UINT = ((b - a) % UINT) - k
BY Sizes, DistDown, Zenon

-----------------------------------------------------------------------------
(***************************************************************************)
(* The invariant.  EndsOpen is what makes it inductive: an end counts as   *)
(* open as long as some process has not closed it.                         *)
(***************************************************************************)

EndsOpen ==
  /\ \A r \in Reader : pc[r] # "closed" => readopen
  /\ \A w \in Writer : pc[w] # "closed" => writeopen
  /\ alloc <=> readopen \/ writeopen

PipeInv ==
  /\ TypeOK /\ NeverOverfull /\ EndsOpen
  /\ WriterSleepsOnFull /\ ReaderSleepsOnEmpty

LEMMA UsedType ==
  ASSUME TypeOK
  PROVE  Used \in 0 .. UINT - 1 /\ (Used = 0 <=> nread = nwrite)
<1>1. nread \in 0 .. UINT - 1 /\ nwrite \in 0 .. UINT - 1
  BY Zenon DEF TypeOK
<1>. QED BY <1>1, Sizes, DistIs DEF Used

\* The loop of pipewrite stops exactly when the ring is full.
LEMMA RoomIs ==
  ASSUME TypeOK, NeverOverfull
  PROVE  Room = PIPESIZE - Used
<1>1. nread \in 0 .. UINT - 1 /\ nwrite \in 0 .. UINT - 1
  BY Zenon DEF TypeOK
<1>2. Used = (IF nread <= nwrite THEN nwrite - nread ELSE nwrite - nread + UINT) /\ Used <= PIPESIZE
  <2>1. (nwrite - nread) % UINT = IF nread <= nwrite THEN nwrite - nread ELSE nwrite - nread + UINT
    BY <1>1, Sizes, DistIs
  <2>. QED BY <2>1, Zenon DEF Used, NeverOverfull
<1>3. CASE nread <= nwrite
  <2>1. nread + PIPESIZE - nwrite = PIPESIZE - Used /\ PIPESIZE - Used \in Nat /\ PIPESIZE - Used < UINT
    BY <1>1, <1>2, <1>3, Sizes
  <2>. QED BY <2>1, Sizes, ModSmall, Zenon DEF Room
<1>4. CASE nread > nwrite
  <2>1. /\ nread + PIPESIZE - nwrite = PIPESIZE - Used + UINT
        /\ UINT <= PIPESIZE - Used + UINT /\ PIPESIZE - Used + UINT < 2 * UINT
        /\ PIPESIZE - Used + UINT \in Int /\ PIPESIZE - Used + UINT - UINT = PIPESIZE - Used
    BY <1>1, <1>2, <1>4, Sizes
  <2>2. PICK a \in Int : a = PIPESIZE - Used + UINT
    BY <2>1, Zenon
  <2>3. UINT <= a /\ a < 2 * UINT /\ a - UINT = PIPESIZE - Used
    BY <1>1, <1>2, <1>4, <2>2, Sizes
  <2>5. Room = a % UINT
    BY <2>1, <2>2, Zenon DEF Room
  <2>4. a % UINT = a - UINT
    BY <2>3, Sizes, ModTurn, Zenon
  <2>. QED BY <2>3, <2>4, <2>5, Zenon
<1>. QED BY <1>1, <1>3, <1>4

LEMMA InitPipeInv == Init => PipeInv
<1>. SUFFICES ASSUME Init PROVE PipeInv
  BY Zenon
<1>1. TypeOK
  BY Sizes DEF Init, TypeOK
<1>2. Used = 0
  BY <1>1, UsedType, Zenon DEF Init
<1>. QED BY <1>1, <1>2, Sizes DEF Init, PipeInv, NeverOverfull, EndsOpen,
              WriterSleepsOnFull, ReaderSleepsOnEmpty, Proc

\* A wakeup moves sleepers into their call and nobody else.
LEMMA WokenType ==
  ASSUME TypeOK, NEW P
  PROVE  /\ Woken(P) \in [Proc -> {"user", "call", "tosleep", "asleep", "closed"}]
         /\ \A p \in Proc : /\ Woken(P)[p] = "closed" <=> pc[p] = "closed"
                            /\ Woken(P)[p] = "tosleep" <=> pc[p] = "tosleep"
                            /\ Woken(P)[p] = "asleep" <=> pc[p] = "asleep" /\ p \notin P
BY Zenon DEF TypeOK, Woken

LEMMA SleepPipeInv ==
  ASSUME PipeInv, NEW p \in Proc, Sleep(p)
  PROVE  PipeInv'
<1>1. TypeOK' /\ Used' = Used
  BY Zenon DEF PipeInv, TypeOK, Sleep, pipeVars, Used
<1>2. \A q \in Proc : /\ pc'[q] = "closed" <=> pc[q] = "closed"
                      /\ pc'[q] \in {"tosleep", "asleep"} <=> pc[q] \in {"tosleep", "asleep"}
  BY Zenon DEF PipeInv, TypeOK, Sleep
<1>. QED BY <1>1, <1>2, Zenon DEF PipeInv, NeverOverfull, EndsOpen, WriterSleepsOnFull,
              ReaderSleepsOnEmpty, Sleep, pipeVars, Proc

LEMMA WritePipeInv ==
  ASSUME PipeInv, NEW w \in Writer, Write(w)
  PROVE  PipeInv'
<1>1. TypeOK' /\ Used' = Used
  <2>1. PICK s \in Seq(Byte) : rest' = [rest EXCEPT ![w] = s]
    BY Sizes, Zenon DEF Write
  <2>. QED BY <2>1, Zenon DEF PipeInv, TypeOK, Write, pipeVars, Used, Proc
<1>2. \A q \in Proc : /\ pc'[q] = "closed" <=> pc[q] = "closed"
                      /\ pc'[q] \in {"tosleep", "asleep"} <=> pc[q] \in {"tosleep", "asleep"}
  BY Zenon DEF PipeInv, TypeOK, Write
<1>. QED BY <1>1, <1>2, Zenon DEF PipeInv, NeverOverfull, EndsOpen, WriterSleepsOnFull,
              ReaderSleepsOnEmpty, Write, pipeVars, Proc

LEMMA ReadPipeInv ==
  ASSUME PipeInv, NEW r \in Reader, Read(r)
  PROVE  PipeInv'
<1>1. TypeOK' /\ Used' = Used
  BY DEF PipeInv, TypeOK, Read, pipeVars, Used, Proc
<1>2. \A q \in Proc : /\ pc'[q] = "closed" <=> pc[q] = "closed"
                      /\ pc'[q] \in {"tosleep", "asleep"} <=> pc[q] \in {"tosleep", "asleep"}
  BY Zenon DEF PipeInv, TypeOK, Read
<1>. QED BY <1>1, <1>2, Zenon DEF PipeInv, NeverOverfull, EndsOpen, WriterSleepsOnFull,
              ReaderSleepsOnEmpty, Read, pipeVars, Proc

LEMMA KillPipeInv ==
  ASSUME PipeInv, NEW p \in Mortal, Kill(p)
  PROVE  PipeInv'
<1>1. TypeOK' /\ Used' = Used
  BY WokenType, Zenon DEF PipeInv, TypeOK, Kill, pipeVars, Used
<1>2. \A q \in Proc : /\ pc'[q] = "closed" <=> pc[q] = "closed"
                      /\ pc'[q] \in {"tosleep", "asleep"} => pc[q] \in {"tosleep", "asleep"}
  BY WokenType DEF PipeInv, Kill
<1>. QED BY <1>1, <1>2, Zenon DEF PipeInv, NeverOverfull, EndsOpen, WriterSleepsOnFull,
              ReaderSleepsOnEmpty, Kill, pipeVars, Proc

\* pipewrite stores k bytes, and then the ring is full or nothing is left.
Stores(w, k) ==
  /\ k \in 0 .. Len(rest[w])
  /\ k <= PIPESIZE - Used
  /\ k < Len(rest[w]) => Used + k = PIPESIZE
  /\ data' = Stored(SubSeq(rest[w], 1, k))
  /\ nwrite' = (nwrite + k) % UINT
  /\ nwrite' \in 0 .. UINT - 1
  /\ Used' = Used + k

Finishes(w, k) ==
  /\ k = Len(rest[w])
  /\ rest' = [rest EXCEPT ![w] = <<>>]
  /\ pc' = [Woken(Reader) EXCEPT ![w] = "user"]

GivesUp(w, k) ==
  /\ k < Len(rest[w]) /\ (~readopen \/ w \in killed)
  /\ rest' = [rest EXCEPT ![w] = <<>>]
  /\ pc' = [pc EXCEPT ![w] = "user"]

WaitsForRoom(w, k) ==
  /\ k < Len(rest[w]) /\ readopen /\ w \notin killed
  /\ rest' = [rest EXCEPT ![w] = SubSeq(@, k + 1, Len(@))]
  /\ pc' = [Woken(Reader) EXCEPT ![w] = "tosleep"]

LEMMA WriteStores ==
  ASSUME PipeInv, NEW w \in Writer, PipeWrite(w)
  PROVE  \E k : Stores(w, k) /\ (Finishes(w, k) \/ GivesUp(w, k) \/ WaitsForRoom(w, k))
<1>. DEFINE k == IF Len(rest[w]) <= Room THEN Len(rest[w]) ELSE Room
<1>1. Used \in 0 .. UINT - 1 /\ Used <= PIPESIZE /\ Len(rest[w]) \in Nat
  BY UsedType DEF PipeInv, NeverOverfull, TypeOK
<1>2. k \in 0 .. Len(rest[w]) /\ k <= PIPESIZE - Used /\ (k < Len(rest[w]) => Used + k = PIPESIZE)
  <2>1. Room = PIPESIZE - Used
    BY RoomIs, Zenon DEF PipeInv
  <2>. QED BY <1>1, <2>1, Sizes
<1>3. nwrite' = (nwrite + k) % UINT /\ data' = Stored(SubSeq(rest[w], 1, k))
  BY Zenon DEF PipeWrite
<1>. HIDE DEF k
<1>4. nread \in 0 .. UINT - 1 /\ nwrite \in 0 .. UINT - 1 /\ k \in Nat /\ Used + k < UINT
  BY <1>1, <1>2, Sizes DEF PipeInv, TypeOK
<1>5. nwrite' \in 0 .. UINT - 1
  BY <1>3, <1>4, Sizes, ModRange
<1>6. Used' = Used + k
  BY <1>3, <1>4, UsedAfterWrite DEF Used, PipeWrite
<1>7. Stores(w, k)
  BY <1>2, <1>3, <1>5, <1>6, Zenon DEF Stores
<1>8. Finishes(w, k) \/ GivesUp(w, k) \/ WaitsForRoom(w, k)
  BY Zenon DEF PipeWrite, k, Finishes, GivesUp, WaitsForRoom
<1>. QED BY <1>7, <1>8, Zenon

LEMMA StoredType ==
  ASSUME TypeOK, NEW s \in Seq(Byte)
  PROVE  Stored(s) \in [0 .. PIPESIZE - 1 -> Byte]
<1>. SUFFICES ASSUME NEW x \in 0 .. PIPESIZE - 1
              PROVE  Stored(s)[x] \in Byte
  BY Zenon DEF Stored
<1>. DEFINE js == {j \in 1 .. Len(s) : ((nwrite + j - 1) % UINT) % PIPESIZE = x}
<1>1. Stored(s)[x] = IF js = {} THEN data[x] ELSE s[CHOOSE j \in js : TRUE]
  BY Zenon DEF Stored
<1>2. data[x] \in Byte
  BY Zenon DEF TypeOK
<1>3. ASSUME js # {} PROVE (CHOOSE j \in js : TRUE) \in 1 .. Len(s)
  BY <1>3, Zenon
<1>4. \A j \in 1 .. Len(s) : s[j] \in Byte
  OBVIOUS
<1>. HIDE DEF js
<1>. QED BY <1>1, <1>2, <1>3, <1>4, Zenon

LEMMA PipeWriteInv ==
  ASSUME PipeInv, NEW w \in Writer, PipeWrite(w)
  PROVE  PipeInv'
<1>1. PICK k : Stores(w, k) /\ (Finishes(w, k) \/ GivesUp(w, k) \/ WaitsForRoom(w, k))
  BY WriteStores, Zenon
<1>2. /\ TypeOK /\ Used \in 0 .. UINT - 1 /\ Used <= PIPESIZE /\ rest[w] \in Seq(Byte)
      /\ Len(rest[w]) \in Nat /\ k \in 0 .. Len(rest[w]) /\ w \in Proc
  BY <1>1, UsedType, SMTT(30) DEF PipeInv, NeverOverfull, TypeOK, Stores, Proc
<1>3. data' \in [0 .. PIPESIZE - 1 -> Byte]
  <2>1. SubSeq(rest[w], 1, k) \in Seq(Byte)
    BY <1>2
  <2>. QED BY <1>1, <1>2, <2>1, StoredType, Zenon DEF Stores
<1>4. rest' \in [Writer -> Seq(Byte)]
  <2>1. SubSeq(rest[w], k + 1, Len(rest[w])) \in Seq(Byte) /\ <<>> \in Seq(Byte)
    BY <1>2
  <2>. QED BY <1>1, <1>2, <2>1, Zenon DEF Finishes, GivesUp, WaitsForRoom, TypeOK
<1>5. pc' \in [Proc -> {"user", "call", "tosleep", "asleep", "closed"}]
  <2>1. Woken(Reader) \in [Proc -> {"user", "call", "tosleep", "asleep", "closed"}]
    BY <1>2, WokenType, Zenon
  <2>2. pc \in [Proc -> {"user", "call", "tosleep", "asleep", "closed"}]
    BY <1>2, Zenon DEF TypeOK
  <2>. QED BY <1>1, <1>2, <2>1, <2>2, Zenon DEF Finishes, GivesUp, WaitsForRoom
<1>6. TypeOK'
  BY <1>1, <1>2, <1>3, <1>4, <1>5, Zenon DEF TypeOK, Stores, PipeWrite
<1>7. \A q \in Proc : pc'[q] = "closed" <=> pc[q] = "closed"
  BY <1>1, <1>2, WokenType DEF Finishes, GivesUp, WaitsForRoom, TypeOK, PipeWrite
<1>8. NeverOverfull' /\ EndsOpen'
  BY <1>1, <1>2, <1>7, Sizes DEF Stores, NeverOverfull, EndsOpen, PipeInv, PipeWrite, Proc
<1>9. WriterSleepsOnFull'
  <2>. SUFFICES ASSUME NEW v \in Writer, pc'[v] \in {"tosleep", "asleep"}
                PROVE  Used' = PIPESIZE /\ readopen'
    BY Zenon DEF WriterSleepsOnFull
  <2>1. readopen' = readopen /\ v \in Proc
    BY Zenon DEF PipeWrite, Proc
  <2>2. CASE v = w
    <3>1. WaitsForRoom(w, k)
      BY <1>1, <1>2, <2>2, WokenType DEF Finishes, GivesUp, TypeOK
    <3>. QED BY <1>1, <2>1, <3>1, Zenon DEF WaitsForRoom, Stores
  <2>3. CASE v # w
    <3>1. pc[v] \in {"tosleep", "asleep"}
      BY <1>1, <1>2, <2>1, <2>3, WokenType DEF Finishes, GivesUp, WaitsForRoom, TypeOK
    <3>2. Used = PIPESIZE /\ readopen
      BY <3>1, Zenon DEF PipeInv, WriterSleepsOnFull
    <3>. QED BY <1>1, <1>2, <2>1, <3>2, Sizes DEF Stores
  <2>. QED BY <2>2, <2>3, Zenon
<1>10. ReaderSleepsOnEmpty'
  <2>. SUFFICES ASSUME NEW r \in Reader, pc'[r] \in {"tosleep", "asleep"}
                PROVE  writeopen' /\ (Used' = 0 \/ killed' \cap Writer # {})
    BY Zenon DEF ReaderSleepsOnEmpty
  <2>1. r \in Proc /\ r # w /\ writeopen' = writeopen /\ killed' = killed
    BY PipeAssumption, Zenon DEF PipeWrite, Proc
  <2>2. pc[r] = "asleep" /\ GivesUp(w, k)
    BY <1>1, <1>2, <2>1, WokenType, SMTT(30) DEF Finishes, GivesUp, WaitsForRoom, TypeOK, PipeWrite, Unlocked
  <2>3. readopen
    BY <2>1, <2>2, Zenon DEF PipeInv, EndsOpen
  <2>4. w \in killed
    BY <2>2, <2>3, Zenon DEF GivesUp
  <2>. QED BY <2>1, <2>2, <2>4, Zenon DEF PipeInv, ReaderSleepsOnEmpty
<1>. QED BY <1>6, <1>8, <1>9, <1>10, Zenon DEF PipeInv

LEMMA PipeReadEmptyInv ==
  ASSUME PipeInv, NEW r \in Reader, PipeReadEmpty(r)
  PROVE  PipeInv'
<1>0. r \in Proc /\ TypeOK /\ Used = 0 /\ writeopen /\ r \notin Writer
  BY UsedType, PipeAssumption, Zenon DEF PipeInv, Proc, PipeReadEmpty
<1>1. TypeOK' /\ Used' = Used
  <2>1. n' \in [Reader -> 0 .. MaxN]
    <3>1. n \in [Reader -> 0 .. MaxN] /\ 0 \in 0 .. MaxN
      BY <1>0, Sizes DEF TypeOK
    <3>2. n' = [n EXCEPT ![r] = 0] \/ n' = n
      BY Zenon DEF PipeReadEmpty
    <3>. QED BY <3>1, <3>2, Zenon
  <2>2. pc' \in [Proc -> {"user", "call", "tosleep", "asleep", "closed"}]
    BY <1>0, Zenon DEF TypeOK, PipeReadEmpty
  <2>. QED BY <1>0, <2>1, <2>2, Zenon DEF TypeOK, PipeReadEmpty, pipeVars, Used
<1>2. \A q \in Proc : pc'[q] = "closed" <=> pc[q] = "closed"
  BY <1>0, Zenon DEF TypeOK, PipeReadEmpty
<1>3. \A q \in Proc \ {r} : pc'[q] = pc[q]
  BY <1>0, Zenon DEF TypeOK, PipeReadEmpty
<1>4. NeverOverfull' /\ EndsOpen'
  BY <1>1, <1>2, Zenon DEF PipeInv, NeverOverfull, EndsOpen, PipeReadEmpty, pipeVars, Proc
<1>5. WriterSleepsOnFull'
  BY <1>0, <1>1, <1>3, Zenon DEF PipeInv, WriterSleepsOnFull, PipeReadEmpty, pipeVars, Proc
<1>6. ReaderSleepsOnEmpty'
  BY <1>0, <1>1, <1>3, Zenon DEF PipeInv, ReaderSleepsOnEmpty, PipeReadEmpty, pipeVars, Proc
<1>. QED BY <1>1, <1>4, <1>5, <1>6, Zenon DEF PipeInv

\* piperead takes k bytes: what was asked for, or all there is.
Takes(r, k) ==
  /\ k \in 0 .. Used
  /\ k = IF n[r] <= Used THEN n[r] ELSE Used
  /\ got' = [got EXCEPT ![r] = [i \in 1 .. k |-> data[((nread + i - 1) % UINT) % PIPESIZE]]]
  /\ nread' = (nread + k) % UINT
  /\ nread' \in 0 .. UINT - 1
  /\ Used' = Used - k

LEMMA ReadTakes ==
  ASSUME PipeInv, NEW r \in Reader, PipeRead(r)
  PROVE  \E k : Takes(r, k)
<1>. DEFINE k == IF n[r] <= Used THEN n[r] ELSE Used
<1>1. Used \in 0 .. UINT - 1 /\ n[r] \in Nat
  BY UsedType, Sizes DEF PipeInv, TypeOK
<1>2. k \in 0 .. Used /\ k \in Nat
  BY <1>1
<1>3. nread' = (nread + k) % UINT
  BY Zenon DEF PipeRead
<1>4. got' = [got EXCEPT ![r] = [i \in 1 .. k |-> data[((nread + i - 1) % UINT) % PIPESIZE]]]
  BY Zenon DEF PipeRead
<1>5. k = IF n[r] <= Used THEN n[r] ELSE Used
  BY Zenon
<1>. HIDE DEF k
<1>6. nread \in 0 .. UINT - 1 /\ nwrite \in 0 .. UINT - 1 /\ k <= Used
  BY <1>1, <1>2 DEF PipeInv, TypeOK
<1>7. nread' \in 0 .. UINT - 1
  BY <1>2, <1>3, <1>6, Sizes, ModRange
<1>8. Used' = Used - k
  BY <1>2, <1>3, <1>6, UsedAfterRead DEF Used, PipeRead
<1>. QED BY <1>2, <1>3, <1>4, <1>5, <1>7, <1>8, Zenon DEF Takes

LEMMA PipeReadInv ==
  ASSUME PipeInv, NEW r \in Reader, PipeRead(r)
  PROVE  PipeInv'
<1>0. r \in Proc /\ TypeOK /\ r \notin Writer
  BY PipeAssumption, Zenon DEF PipeInv, Proc
<1>1. PICK k : Takes(r, k)
  BY ReadTakes, Zenon
<1>2. k \in 0 .. Used /\ Used \in 0 .. UINT - 1 /\ Used <= PIPESIZE
  BY <1>0, <1>1, UsedType, Zenon DEF Takes, PipeInv, NeverOverfull
<1>3. got' \in [Reader -> Seq(Byte)]
  <2>1. \A i \in 1 .. k : ((nread + i - 1) % UINT) % PIPESIZE \in 0 .. PIPESIZE - 1
    <3>. TAKE i \in 1 .. k
    <3>1. nread + i - 1 \in Int
      BY <1>0, <1>2 DEF TypeOK
    <3>2. (nread + i - 1) % UINT \in Int
      BY <3>1, Sizes, ModRange
    <3>. QED BY <3>2, Sizes, ModRange, Zenon
  <2>2. [i \in 1 .. k |-> data[((nread + i - 1) % UINT) % PIPESIZE]] \in Seq(Byte)
    <3>1. [i \in 1 .. k |-> data[((nread + i - 1) % UINT) % PIPESIZE]] \in [1 .. k -> Byte]
      BY <1>0, <2>1, Zenon DEF TypeOK
    <3>. QED BY <1>2, <3>1, Sizes
  <2>. QED BY <1>0, <1>1, <2>2, Zenon DEF Takes, TypeOK
<1>4. pc' \in [Proc -> {"user", "call", "tosleep", "asleep", "closed"}]
  BY <1>0, WokenType, Zenon DEF PipeRead
<1>5. n' \in [Reader -> 0 .. MaxN]
  BY <1>0, Sizes DEF PipeRead, TypeOK
<1>6. TypeOK'
  BY <1>0, <1>1, <1>3, <1>4, <1>5, Zenon DEF TypeOK, Takes, PipeRead
<1>7. \A q \in Proc : /\ pc'[q] = "closed" <=> pc[q] = "closed"
                      /\ pc'[q] # "tosleep"
                      /\ pc'[q] = "asleep" => pc[q] = "asleep" /\ q \notin Writer
  <2>1. pc' = [Woken(Writer) EXCEPT ![r] = "user"]
    BY Zenon DEF PipeRead
  <2>. QED BY <1>0, <2>1, WokenType DEF PipeRead, Unlocked
<1>8. NeverOverfull' /\ EndsOpen'
  BY <1>1, <1>2, <1>7, Sizes, SMTT(30) DEF Takes, PipeInv, NeverOverfull, EndsOpen, PipeRead, Proc
<1>9. WriterSleepsOnFull'
  BY <1>7, Zenon DEF WriterSleepsOnFull, Proc
<1>10. ReaderSleepsOnEmpty'
  BY <1>1, <1>2, <1>7 DEF Takes, PipeInv, ReaderSleepsOnEmpty, PipeRead, Proc
<1>. QED BY <1>6, <1>8, <1>9, <1>10, Zenon DEF PipeInv

LEMMA CloseReadInv ==
  ASSUME PipeInv, NEW r \in Reader, CloseRead(r)
  PROVE  PipeInv'
<1>0. r \in Proc /\ TypeOK /\ r \notin Writer
  BY PipeAssumption, Zenon DEF PipeInv, Proc
<1>1. Used' = Used
  BY Zenon DEF CloseRead, Used
<1>2. CASE \A q \in Reader \ {r} : pc[q] = "closed"
  <2>0. /\ Unlocked /\ readopen' = FALSE /\ alloc' = writeopen
        /\ pc' = [Woken(Writer) EXCEPT ![r] = "closed"]
    BY <1>2, Zenon DEF CloseRead
  <2>1. pc' \in [Proc -> {"user", "call", "tosleep", "asleep", "closed"}]
    BY <1>0, <2>0, WokenType, Zenon
  <2>2. TypeOK'
    BY <1>0, <2>0, <2>1, Zenon DEF TypeOK, CloseRead
  <2>3. \A q \in Proc \ {r} : /\ pc'[q] = "closed" <=> pc[q] = "closed"
                              /\ pc'[q] # "tosleep"
                              /\ pc'[q] = "asleep" => pc[q] = "asleep" /\ q \notin Writer
    BY <1>0, <2>0, WokenType, Zenon DEF Unlocked
  <2>4. pc'[r] = "closed"
    BY <1>0, <2>0, WokenType, Zenon
  <2>5. \A q \in Reader : pc'[q] = "closed"
    BY <1>2, <2>3, <2>4, Zenon DEF Proc
  <2>6. EndsOpen'
    BY <1>0, <2>0, <2>3, <2>5, Zenon DEF PipeInv, EndsOpen, CloseRead, Proc
  <2>7. WriterSleepsOnFull' /\ ReaderSleepsOnEmpty'
    BY <1>0, <2>3, <2>5, Zenon DEF WriterSleepsOnFull, ReaderSleepsOnEmpty, Proc
  <2>. QED BY <1>1, <2>2, <2>6, <2>7, Zenon DEF PipeInv, NeverOverfull
<1>3. CASE ~\A q \in Reader \ {r} : pc[q] = "closed"
  <2>0. pc' = [pc EXCEPT ![r] = "closed"] /\ UNCHANGED <<readopen, alloc>>
    BY <1>3, Zenon DEF CloseRead
  <2>1. pc' \in [Proc -> {"user", "call", "tosleep", "asleep", "closed"}]
    BY <1>0, <2>0, Zenon DEF TypeOK
  <2>2. TypeOK'
    BY <1>0, <2>0, <2>1, Zenon DEF TypeOK, CloseRead
  <2>3. pc'[r] = "closed" /\ \A q \in Proc \ {r} : pc'[q] = pc[q]
    BY <1>0, <2>0, Zenon DEF TypeOK
  <2>6. EndsOpen'
    BY <1>0, <2>0, <2>3, Zenon DEF PipeInv, EndsOpen, CloseRead, Proc
  <2>7. WriterSleepsOnFull' /\ ReaderSleepsOnEmpty'
    BY <1>0, <1>1, <2>0, <2>3, Zenon DEF PipeInv, WriterSleepsOnFull, ReaderSleepsOnEmpty, CloseRead, Proc
  <2>. QED BY <1>1, <2>2, <2>6, <2>7, Zenon DEF PipeInv, NeverOverfull
<1>. QED BY <1>2, <1>3, Zenon

LEMMA CloseWriteInv ==
  ASSUME PipeInv, NEW w \in Writer, CloseWrite(w)
  PROVE  PipeInv'
<1>0. w \in Proc /\ TypeOK /\ w \notin Reader
  BY PipeAssumption, Zenon DEF PipeInv, Proc
<1>1. Used' = Used
  BY Zenon DEF CloseWrite, Used
<1>2. CASE \A q \in Writer \ {w} : pc[q] = "closed"
  <2>0. /\ Unlocked /\ writeopen' = FALSE /\ alloc' = readopen
        /\ pc' = [Woken(Reader) EXCEPT ![w] = "closed"]
    BY <1>2, Zenon DEF CloseWrite
  <2>1. pc' \in [Proc -> {"user", "call", "tosleep", "asleep", "closed"}]
    BY <1>0, <2>0, WokenType, Zenon
  <2>2. TypeOK'
    BY <1>0, <2>0, <2>1, Zenon DEF TypeOK, CloseWrite
  <2>3. \A q \in Proc \ {w} : /\ pc'[q] = "closed" <=> pc[q] = "closed"
                              /\ pc'[q] # "tosleep"
                              /\ pc'[q] = "asleep" => pc[q] = "asleep" /\ q \notin Reader
    BY <1>0, <2>0, WokenType, Zenon DEF Unlocked
  <2>4. pc'[w] = "closed"
    BY <1>0, <2>0, WokenType, Zenon
  <2>5. \A q \in Writer : pc'[q] = "closed"
    BY <1>2, <2>3, <2>4, Zenon DEF Proc
  <2>6. EndsOpen'
    BY <1>0, <2>0, <2>3, <2>5, Zenon DEF PipeInv, EndsOpen, CloseWrite, Proc
  <2>7. WriterSleepsOnFull' /\ ReaderSleepsOnEmpty'
    BY <1>0, <2>3, <2>5, Zenon DEF WriterSleepsOnFull, ReaderSleepsOnEmpty, Proc
  <2>. QED BY <1>1, <2>2, <2>6, <2>7, Zenon DEF PipeInv, NeverOverfull
<1>3. CASE ~\A q \in Writer \ {w} : pc[q] = "closed"
  <2>0. pc' = [pc EXCEPT ![w] = "closed"] /\ UNCHANGED <<writeopen, alloc>>
    BY <1>3, Zenon DEF CloseWrite
  <2>1. pc' \in [Proc -> {"user", "call", "tosleep", "asleep", "closed"}]
    BY <1>0, <2>0, Zenon DEF TypeOK
  <2>2. TypeOK'
    BY <1>0, <2>0, <2>1, Zenon DEF TypeOK, CloseWrite
  <2>3. pc'[w] = "closed" /\ \A q \in Proc \ {w} : pc'[q] = pc[q]
    BY <1>0, <2>0, Zenon DEF TypeOK
  <2>6. EndsOpen'
    BY <1>0, <2>0, <2>3, Zenon DEF PipeInv, EndsOpen, CloseWrite, Proc
  <2>7. WriterSleepsOnFull' /\ ReaderSleepsOnEmpty'
    BY <1>0, <1>1, <2>0, <2>3, Zenon DEF PipeInv, WriterSleepsOnFull, ReaderSleepsOnEmpty, CloseWrite, Proc
  <2>. QED BY <1>1, <2>2, <2>6, <2>7, Zenon DEF PipeInv, NeverOverfull
<1>. QED BY <1>2, <1>3, Zenon

\* The ring never overfills, an end is open while somebody has it open, and
\* whoever sleeps on the pipe has reason to.
THEOREM PipeInvariance == Spec => []PipeInv
<1>1. PipeInv /\ [Next]_vars => PipeInv'
  <2>. SUFFICES ASSUME PipeInv, [Next]_vars PROVE PipeInv'
    BY Zenon
  <2>1. ASSUME NEW r \in Reader, Read(r) PROVE PipeInv'
    BY <2>1, ReadPipeInv, Zenon
  <2>2. ASSUME NEW w \in Writer, Write(w) PROVE PipeInv'
    BY <2>2, WritePipeInv, Zenon
  <2>3. ASSUME NEW p \in Proc, Step(p) PROVE PipeInv'
    BY <2>3, SleepPipeInv, PipeReadEmptyInv, PipeReadInv, PipeWriteInv, Zenon DEF Step
  <2>4. ASSUME NEW p \in Proc, Close(p) PROVE PipeInv'
    BY <2>4, CloseReadInv, CloseWriteInv, Zenon DEF Close
  <2>5. ASSUME NEW p \in Mortal, Kill(p) PROVE PipeInv'
    BY <2>5, KillPipeInv, Zenon
  <2>6. CASE UNCHANGED vars
    BY <2>6, Zenon DEF vars, pipeVars, PipeInv, TypeOK, NeverOverfull, EndsOpen,
       WriterSleepsOnFull, ReaderSleepsOnEmpty, Used
  <2>. QED BY <2>1, <2>2, <2>3, <2>4, <2>5, <2>6, Zenon DEF Next
<1>. QED BY <1>1, InitPipeInv, PTL DEF Spec

\* The ring of a pipe of any size never holds more than it has room for, also
\* when the counters wrap around.
THEOREM RingNeverOverfull == Spec => []NeverOverfull
<1>1. PipeInv => NeverOverfull
  BY Zenon DEF PipeInv
<1>. QED BY <1>1, PipeInvariance, PTL

\* No call in progress touches a pipe that was freed.
THEOREM PipeNotFreed == Spec => []NoUseAfterFree
<1>1. PipeInv => NoUseAfterFree
  <2>. SUFFICES ASSUME PipeInv PROVE NoUseAfterFree
    BY Zenon
  <2>1. \A p \in Proc : InCall(p) => IF p \in Reader THEN readopen ELSE writeopen
    BY Zenon DEF PipeInv, EndsOpen, Proc, InCall
  <2>. QED BY <2>1, Zenon DEF PipeInv, EndsOpen, NoUseAfterFree
<1>. QED BY <1>1, PipeInvariance, PTL

\* A writer that sleeps, or is about to, could not write; and a reader has
\* nothing to read, unless a writer was killed.
THEOREM SleepersJustified == Spec => []SleepersHaveReason
<1>1. PipeInv => SleepersHaveReason
  BY Zenon DEF PipeInv, SleepersHaveReason
<1>. QED BY <1>1, PipeInvariance, PTL

-----------------------------------------------------------------------------
(***************************************************************************)
(* The ring implements Channel.                                            *)
(***************************************************************************)

QueueOf(d, a, u) == [i \in 1 .. u |-> d[(a + i - 1) % PIPESIZE]]

Queue == QueueOf(data, nread, Used)

LEMMA NwriteIs ==
  ASSUME TypeOK
  PROVE  nwrite = (nread + Used) % UINT
<1>1. nread \in 0 .. UINT - 1 /\ nwrite \in 0 .. UINT - 1
  BY Zenon DEF TypeOK
<1>. QED BY <1>1, Sizes, DistIs, Zenon DEF Used

LEMMA QueueOfType ==
  ASSUME NEW d \in [0 .. PIPESIZE - 1 -> Byte], NEW a \in Int, NEW u \in Nat
  PROVE  /\ QueueOf(d, a, u) \in Seq(Byte) /\ Len(QueueOf(d, a, u)) = u
         /\ \A i \in 1 .. u : QueueOf(d, a, u)[i] = d[(a + i - 1) % PIPESIZE]
<1>1. \A i \in 1 .. u : (a + i - 1) % PIPESIZE \in 0 .. PIPESIZE - 1
  BY Sizes, ModRange
<1>2. QueueOf(d, a, u) \in [1 .. u -> Byte]
  BY <1>1, Zenon DEF QueueOf
<1>3. QueueOf(d, a, u) \in Seq(Byte)
  BY <1>2
<1>4. Len(QueueOf(d, a, u)) = u
  <2>1. /\ DOMAIN QueueOf(d, a, u) = 1 .. u
        /\ DOMAIN QueueOf(d, a, u) = 1 .. Len(QueueOf(d, a, u)) /\ Len(QueueOf(d, a, u)) \in Nat
    BY <1>2, <1>3
  <2>. QED BY <2>1
<1>5. \A i \in 1 .. u : QueueOf(d, a, u)[i] = d[(a + i - 1) % PIPESIZE]
  BY Zenon DEF QueueOf
<1>. QED BY <1>3, <1>4, <1>5, Zenon

LEMMA QueueType ==
  ASSUME TypeOK
  PROVE  /\ Queue \in Seq(Byte) /\ Len(Queue) = Used
         /\ \A i \in 1 .. Used : Queue[i] = data[(nread + i - 1) % PIPESIZE]
<1>1. Used \in Nat /\ nread \in Int /\ data \in [0 .. PIPESIZE - 1 -> Byte]
  BY UsedType, Sizes DEF TypeOK
<1>. QED BY <1>1, QueueOfType, Zenon DEF Queue

\* The bytes stored do not touch those in the queue, and follow them.
LEMMA StoredSlots ==
  ASSUME TypeOK, NEW s \in Seq(Byte), Used + Len(s) <= PIPESIZE
  PROVE  /\ \A i \in 1 .. Used :
              Stored(s)[(nread + i - 1) % PIPESIZE] = data[(nread + i - 1) % PIPESIZE]
         /\ \A i \in 1 .. Len(s) : Stored(s)[(nread + Used + i - 1) % PIPESIZE] = s[i]
<1>0. nread \in Int /\ Used \in Nat /\ Len(s) \in Nat
  BY UsedType, Sizes DEF TypeOK
<1>1. \A j \in 1 .. Len(s) :
        ((nwrite + j - 1) % UINT) % PIPESIZE = (nread + Used + j - 1) % PIPESIZE
  <2>. TAKE j \in 1 .. Len(s)
  <2>1. ((nwrite + j - 1) % UINT) % PIPESIZE = (nwrite + j - 1) % PIPESIZE
    BY <1>0, SlotOf DEF TypeOK
  <2>2. nwrite + j - 1 = ((nread + Used) % UINT) + (j - 1)
    BY <1>0, NwriteIs, Zenon DEF TypeOK
  <2>3. (((nread + Used) % UINT) + (j - 1)) % PIPESIZE = (nread + Used + (j - 1)) % PIPESIZE
    BY <1>0, SlotShift
  <2>4. nread + Used + (j - 1) = nread + Used + j - 1
    BY <1>0, Zenon
  <2>. QED BY <2>1, <2>2, <2>3, <2>4, Zenon
<1>. DEFINE js(x) == {j \in 1 .. Len(s) : ((nwrite + j - 1) % UINT) % PIPESIZE = x}
<1>2. \A x \in 0 .. PIPESIZE - 1 :
        Stored(s)[x] = IF js(x) = {} THEN data[x] ELSE s[CHOOSE j \in js(x) : TRUE]
  BY Zenon DEF Stored
<1>3. \A x : js(x) = {j \in 1 .. Len(s) : (nread + Used + j - 1) % PIPESIZE = x}
  BY <1>1, Zenon
<1>. HIDE DEF js
<1>4. ASSUME NEW i \in 1 .. Used
      PROVE  Stored(s)[(nread + i - 1) % PIPESIZE] = data[(nread + i - 1) % PIPESIZE]
  <2>1. \A j \in 1 .. Len(s) : (nread + Used + j - 1) % PIPESIZE # (nread + i - 1) % PIPESIZE
    BY <1>0, Sizes, ModDiffer, SMTT(30)
  <2>2. js((nread + i - 1) % PIPESIZE) = {}
    BY <1>3, <2>1, Zenon
  <2>3. (nread + i - 1) % PIPESIZE \in 0 .. PIPESIZE - 1
    BY <1>0, Sizes, ModRange
  <2>. QED BY <1>2, <2>2, <2>3, Zenon
<1>5. ASSUME NEW i \in 1 .. Len(s)
      PROVE  Stored(s)[(nread + Used + i - 1) % PIPESIZE] = s[i]
  <2>. DEFINE x == (nread + Used + i - 1) % PIPESIZE
  <2>1. \A j \in 1 .. Len(s) : j # i => (nread + Used + j - 1) % PIPESIZE # x
    <3>. TAKE j \in 1 .. Len(s)
    <3>1. CASE j < i
      BY <1>0, <3>1, Sizes, ModDiffer
    <3>2. CASE i < j
      BY <1>0, <3>2, Sizes, ModDiffer
    <3>. QED BY <1>0, <3>1, <3>2
  <2>2. x \in 0 .. PIPESIZE - 1 /\ i \in js(x)
    <3>1. nread + Used + i - 1 \in Int
      BY <1>0
    <3>2. x \in 0 .. PIPESIZE - 1
      BY <3>1, Sizes, ModRange, Zenon
    <3>. QED BY <1>3, <3>2, Zenon
  <2>3. js(x) = {i}
    BY <1>3, <2>1, <2>2, Zenon
  <2>4. (CHOOSE j \in js(x) : TRUE) = i
    BY <2>3, Zenon
  <2>. HIDE DEF x
  <2>5. Stored(s)[x] = s[i]
    BY <1>2, <2>2, <2>3, <2>4, Zenon
  <2>. QED BY <2>5, Zenon DEF x
<1>. QED BY <1>4, <1>5, Zenon

LEMMA QueueKept ==
  ASSUME UNCHANGED <<data, nread, nwrite>>
  PROVE  Queue' = Queue
<1>1. Used' = Used
  BY Zenon DEF Used
<1>. QED BY <1>1, Zenon DEF Queue, QueueOf

\* A sequence without its first k elements.
LEMMA Dropped ==
  ASSUME NEW S, NEW s \in Seq(S), NEW k \in 0 .. Len(s)
  PROVE  LET t == SubSeq(s, k + 1, Len(s))
         IN  t \in Seq(S) /\ Len(t) = Len(s) - k /\ \A i \in 1 .. Len(s) - k : t[i] = s[k + i]
<1>. DEFINE t == SubSeq(s, k + 1, Len(s))
<1>1. Len(s) \in Nat /\ \A i \in k + 1 .. Len(s) : s[i] \in S
  OBVIOUS
<1>2. t \in Seq(S) /\ Len(t) = (IF k + 1 <= Len(s) THEN Len(s) - (k + 1) + 1 ELSE 0)
  BY <1>1
<1>3. \A i \in 1 .. Len(s) - (k + 1) + 1 : t[i] = s[k + 1 + i - 1]
  BY <1>1
<1>. HIDE DEF t
<1>4. Len(t) = Len(s) - k
  BY <1>1, <1>2
<1>5. ASSUME NEW i \in 1 .. Len(s) - k
      PROVE  t[i] = s[k + i]
  <2>1. i \in 1 .. Len(s) - (k + 1) + 1 /\ k + 1 + i - 1 = k + i
    BY <1>1
  <2>. QED BY <1>3, <2>1, Zenon
<1>. QED BY <1>2, <1>4, <1>5, Zenon DEF t

LEMMA QueueAfterRead ==
  ASSUME TypeOK, TypeOK', NEW r \in Reader, NEW k, Takes(r, k), data' = data
  PROVE  /\ Queue' = SubSeq(Queue, k + 1, Len(Queue))
         /\ got' = [got EXCEPT ![r] = SubSeq(Queue, 1, k)]
<1>0. k \in 0 .. Used /\ Used \in Nat /\ Used' = Used - k /\ nread \in Int /\ nread' = (nread + k) % UINT
  <2>1. Used \in Nat /\ nread \in Int
    BY UsedType, Sizes, SMTT(30) DEF TypeOK
  <2>. QED BY <2>1, Zenon DEF Takes
<1>1. /\ Queue \in Seq(Byte) /\ Len(Queue) = Used
      /\ \A i \in 1 .. Used : Queue[i] = data[(nread + i - 1) % PIPESIZE]
  BY QueueType, Zenon
<1>2. /\ Queue' \in Seq(Byte) /\ Len(Queue') = Used - k
      /\ \A i \in 1 .. Used - k : Queue'[i] = data[(nread' + i - 1) % PIPESIZE]
  <2>1. /\ Queue' \in Seq(Byte) /\ Len(Queue') = Used'
        /\ \A i \in 1 .. Used' : Queue'[i] = data'[(nread' + i - 1) % PIPESIZE]
    <3>1. Used' \in Nat /\ nread' \in Int /\ data' \in [0 .. PIPESIZE - 1 -> Byte]
      BY <1>0, Sizes DEF TypeOK
    <3>. QED BY <3>1, QueueOfType, Zenon DEF Queue
  <2>. QED BY <1>0, <2>1, Zenon
<1>3. \A i \in 1 .. Used - k : Queue'[i] = Queue[k + i]
  <2>. TAKE i \in 1 .. Used - k
  <2>1. nread' + i - 1 = ((nread + k) % UINT) + (i - 1)
    BY <1>0, Sizes, ModRange, Zenon
  <2>2. (((nread + k) % UINT) + (i - 1)) % PIPESIZE = (nread + k + (i - 1)) % PIPESIZE
    BY <1>0, SlotShift
  <2>3. nread + k + (i - 1) = nread + (k + i) - 1 /\ k + i \in 1 .. Used
    BY <1>0
  <2>. QED BY <1>1, <1>2, <2>1, <2>2, <2>3, ZenonT(30)
<1>4. LET t == SubSeq(Queue, k + 1, Len(Queue))
      IN  t \in Seq(Byte) /\ Len(t) = Used - k /\ \A i \in 1 .. Used - k : t[i] = Queue[k + i]
  <2>1. Queue \in Seq(Byte) /\ k \in 0 .. Len(Queue) /\ Len(Queue) = Used
    BY <1>0, <1>1, Zenon
  <2>. QED BY <2>1, Dropped, Zenon
<1>5. Queue' = SubSeq(Queue, k + 1, Len(Queue))
  BY <1>2, <1>3, <1>4, SameSeq, Zenon
<1>6. SubSeq(Queue, 1, k) = [i \in 1 .. k |-> data[((nread + i - 1) % UINT) % PIPESIZE]]
  <2>. DEFINE g == [i \in 1 .. k |-> data[((nread + i - 1) % UINT) % PIPESIZE]]
  <2>1. \A i \in 1 .. k : ((nread + i - 1) % UINT) % PIPESIZE = (nread + i - 1) % PIPESIZE
    BY <1>0, SlotOf, SMTT(30)
  <2>2. \A i \in 1 .. k : g[i] = Queue[i] /\ g[i] \in Byte
    <3>. TAKE i \in 1 .. k
    <3>1. i \in 1 .. Used
      BY <1>0
    <3>2. g[i] = Queue[i]
      BY <1>1, <2>1, <3>1, Zenon
    <3>. QED BY <1>1, <3>1, <3>2, SMTT(30)
  <2>3. g \in Seq(Byte)
    <3>1. g \in [1 .. k -> Byte]
      BY <2>2, Zenon
    <3>2. k \in Nat
      BY <1>0
    <3>. HIDE DEF g
    <3>. QED BY <3>1, <3>2
  <2>4. Len(g) = k
    BY <1>0, <2>3
  <2>5. LET t == SubSeq(Queue, 1, k)
        IN  t \in Seq(Byte) /\ Len(t) = k /\ \A i \in 1 .. k : t[i] = Queue[i]
    BY <1>0, <1>1, SMTT(30)
  <2>. HIDE DEF g
  <2>6. SubSeq(Queue, 1, k) = g
    BY <2>2, <2>3, <2>4, <2>5
  <2>. QED BY <2>6, Zenon DEF g
<1>. QED BY <1>5, <1>6, Zenon DEF Takes

LEMMA QueueAfterWrite ==
  ASSUME TypeOK, TypeOK', NEW w \in Writer, NEW k, Stores(w, k), nread' = nread
  PROVE  /\ Queue' = Queue \o SubSeq(rest[w], 1, k)
         /\ SubSeq(rest[w], 1, k) \in [1 .. k -> Byte]
         /\ k \in 0 .. PIPESIZE - Len(Queue)
<1>. DEFINE s == SubSeq(rest[w], 1, k)
<1>0. /\ k \in Nat /\ Used \in Nat /\ Used' = Used + k /\ nread \in Int
      /\ Used + k <= PIPESIZE /\ data' = Stored(s)
  <2>1. k \in 0 .. Len(rest[w]) /\ Len(rest[w]) \in Nat
    BY DEF Stores, TypeOK
  <2>. QED BY <2>1, UsedType, Sizes, SMTT(30) DEF Stores, TypeOK
<1>1. s \in Seq(Byte) /\ Len(s) = k
  BY DEF Stores, TypeOK
<1>. HIDE DEF s
<1>2. /\ Queue \in Seq(Byte) /\ Len(Queue) = Used
      /\ \A i \in 1 .. Used : Queue[i] = data[(nread + i - 1) % PIPESIZE]
  BY QueueType, Zenon
<1>3. /\ Queue' \in Seq(Byte) /\ Len(Queue') = Used + k
      /\ \A i \in 1 .. Used + k : Queue'[i] = Stored(s)[(nread + i - 1) % PIPESIZE]
  <2>1. /\ Queue' \in Seq(Byte) /\ Len(Queue') = Used'
        /\ \A i \in 1 .. Used' : Queue'[i] = data'[(nread' + i - 1) % PIPESIZE]
    <3>1. Used' \in Nat /\ nread' \in Int /\ data' \in [0 .. PIPESIZE - 1 -> Byte]
      BY <1>0, Sizes, SMTT(30) DEF TypeOK
    <3>. QED BY <3>1, QueueOfType, Zenon DEF Queue
  <2>. QED BY <1>0, <2>1, Zenon
<1>4. \A i \in 1 .. Used : Queue'[i] = Queue[i]
  <2>. TAKE i \in 1 .. Used
  <2>1. i \in 1 .. Used + k
    BY <1>0
  <2>2. Stored(s)[(nread + i - 1) % PIPESIZE] = data[(nread + i - 1) % PIPESIZE]
    BY <1>0, <1>1, StoredSlots, Zenon
  <2>. QED BY <1>2, <1>3, <2>1, <2>2, Zenon
<1>5. \A i \in 1 .. k : Queue'[Used + i] = s[i]
  <2>. TAKE i \in 1 .. k
  <2>1. Used + i \in 1 .. Used + k /\ nread + (Used + i) - 1 = nread + Used + i - 1
    BY <1>0
  <2>2. Stored(s)[(nread + Used + i - 1) % PIPESIZE] = s[i]
    BY <1>0, <1>1, StoredSlots, Zenon
  <2>. QED BY <1>3, <2>1, <2>2, Zenon
<1>6. Queue' = Queue \o s
  <2>1. /\ Queue \o s \in Seq(Byte) /\ Len(Queue \o s) = Used + k
        /\ \A i \in 1 .. Used + k : (Queue \o s)[i] = IF i <= Used THEN Queue[i] ELSE s[i - Used]
    BY <1>1, <1>2, Concatenated, Zenon
  <2>2. \A i \in 1 .. Used + k : Queue'[i] = (Queue \o s)[i]
    <3>. SUFFICES ASSUME NEW i \in 1 .. Used + k
                  PROVE  Queue'[i] = (Queue \o s)[i]
      BY Zenon
    <3>1. CASE i <= Used
      BY <1>0, <1>4, <2>1, <3>1, SMTT(30)
    <3>2. CASE i > Used
      <4>1. i - Used \in 1 .. k /\ Used + (i - Used) = i
        BY <1>0, <3>2
      <4>2. Queue'[i] = s[i - Used]
        BY <1>5, <4>1, Zenon
      <4>3. (Queue \o s)[i] = s[i - Used]
        BY <1>0, <2>1, <3>2, SMTT(30)
      <4>. QED BY <4>2, <4>3, Zenon
    <3>3. i <= Used \/ i > Used
      BY <1>0
    <3>. QED BY <3>1, <3>2, <3>3, Zenon
  <2>. QED BY <1>3, <2>1, <2>2, SMTT(30)
<1>7. s \in [1 .. k -> Byte]
  <2>1. s \in [1 .. Len(s) -> Byte]
    BY <1>1
  <2>. QED BY <1>1, <2>1, Zenon
<1>8. k \in 0 .. PIPESIZE - Len(Queue)
  BY <1>0, <1>2, Sizes
<1>. QED BY <1>6, <1>7, <1>8, Zenon DEF s

\* A wakeup, and whatever happens to p, leave the others in their calls or out.
LEMMA OthersStay ==
  ASSUME TypeOK, NEW p \in Proc, NEW P, NEW v,
         pc' = [Woken(P) EXCEPT ![p] = v] \/ pc' = [pc EXCEPT ![p] = v]
  PROVE  pc'[p] = v /\ \A q \in Proc \ {p} : InCall(q)' <=> InCall(q)
BY Zenon DEF TypeOK, Woken, InCall

LEMMA WokenStay ==
  ASSUME TypeOK, NEW P, pc' = Woken(P)
  PROVE  \A q \in Proc : InCall(q)' <=> InCall(q)
BY Zenon DEF TypeOK, Woken, InCall

\* What a write has still to put is put, or dropped, when it returns.
Idle == \A w \in Writer : ~InCall(w) => rest[w] = <<>>

LEMMA IdleKept ==
  ASSUME PipeInv, Idle, [Next]_vars
  PROVE  Idle'
<1>0. TypeOK /\ \A r \in Reader : r \in Proc /\ r \notin Writer
  BY PipeAssumption, Zenon DEF PipeInv, Proc
<1>00. \A w \in Writer : w \in Proc
  BY Zenon DEF Proc
<1>1. ASSUME NEW r \in Reader, Read(r) PROVE Idle'
  BY <1>0, <1>00, <1>1, OthersStay, Zenon DEF Idle, Read
<1>2. ASSUME NEW w \in Writer, Write(w) PROVE Idle'
  <2>1. InCall(w)' /\ \A q \in Proc \ {w} : InCall(q)' <=> InCall(q)
    BY <1>0, <1>00, <1>2, OthersStay, Zenon DEF Write, InCall
  <2>. QED BY <1>0, <1>00, <1>2, <2>1, Zenon DEF Idle, Write, TypeOK
<1>3. ASSUME NEW p \in Proc, Sleep(p) PROVE Idle'
  <2>1. \A q \in Proc : InCall(q)' <=> InCall(q)
    BY <1>0, <1>3, OthersStay, Zenon DEF Sleep, InCall
  <2>. QED BY <1>00, <1>3, <2>1, Zenon DEF Idle, Sleep
<1>4. ASSUME NEW r \in Reader, PipeReadEmpty(r) PROVE Idle'
  BY <1>0, <1>00, <1>4, OthersStay, Zenon DEF Idle, PipeReadEmpty
<1>5. ASSUME NEW r \in Reader, PipeRead(r) PROVE Idle'
  BY <1>0, <1>00, <1>5, OthersStay, Zenon DEF Idle, PipeRead
<1>6. ASSUME NEW w \in Writer, PipeWrite(w) PROVE Idle'
  <2>1. PICK k : Finishes(w, k) \/ GivesUp(w, k) \/ WaitsForRoom(w, k)
    BY <1>6, WriteStores, Zenon
  <2>2. \A q \in Proc \ {w} : InCall(q)' <=> InCall(q)
    BY <1>0, <1>00, <2>1, OthersStay, Zenon DEF Finishes, GivesUp, WaitsForRoom
  <2>3. \A v \in Writer \ {w} : rest'[v] = rest[v]
    BY <1>0, <2>1, Zenon DEF Finishes, GivesUp, WaitsForRoom, TypeOK
  <2>4. InCall(w)' \/ rest'[w] = <<>>
    <3>1. CASE WaitsForRoom(w, k)
      <4>1. pc'[w] = "tosleep"
        BY <1>0, <1>00, <3>1, OthersStay, Zenon DEF WaitsForRoom
      <4>. QED BY <4>1, Zenon DEF InCall
    <3>2. CASE Finishes(w, k) \/ GivesUp(w, k)
      BY <1>0, <3>2, Zenon DEF Finishes, GivesUp, TypeOK
    <3>. QED BY <2>1, <3>1, <3>2, Zenon
  <2>. QED BY <1>00, <2>2, <2>3, <2>4, Zenon DEF Idle
<1>7. ASSUME NEW r \in Reader, CloseRead(r) PROVE Idle'
  <2>1. pc' = [Woken(Writer) EXCEPT ![r] = "closed"] \/ pc' = [pc EXCEPT ![r] = "closed"]
    BY <1>7, Zenon DEF CloseRead
  <2>2. \A q \in Proc \ {r} : InCall(q)' <=> InCall(q)
    BY <1>0, <2>1, OthersStay, Zenon
  <2>. QED BY <1>0, <1>00, <1>7, <2>2, Zenon DEF Idle, CloseRead
<1>8. ASSUME NEW w \in Writer, CloseWrite(w) PROVE Idle'
  <2>1. ~InCall(w) /\ \A q \in Proc \ {w} : InCall(q)' <=> InCall(q)
    BY <1>0, <1>00, <1>8, OthersStay, Zenon DEF CloseWrite, InCall
  <2>. QED BY <1>00, <1>8, <2>1, Zenon DEF Idle, CloseWrite
<1>9. ASSUME NEW p \in Mortal, Kill(p) PROVE Idle'
  BY <1>0, <1>00, <1>9, WokenStay, Zenon DEF Idle, Kill
<1>10. ASSUME UNCHANGED vars PROVE Idle'
  BY <1>10, Zenon DEF Idle, InCall, vars
<1>. QED BY <1>1, <1>2, <1>3, <1>4, <1>5, <1>6, <1>7, <1>8, <1>9, <1>10, Zenon DEF Next, Step, Close

LEMMA WritersIdle == Spec => []Idle
<1>1. Init => Idle
  BY Zenon DEF Init, Idle
<1>2. PipeInv /\ Idle /\ [Next]_vars => Idle'
  BY IdleKept, Zenon
<1>. QED BY <1>1, <1>2, PipeInvariance, PTL DEF Spec

-----------------------------------------------------------------------------
Asked == [r \in Reader |-> IF InCall(r) THEN n[r] ELSE -1]

LEMMA ChannelVars ==
  /\ CH!Init <=> /\ Queue = <<>>
                 /\ readopen = TRUE /\ writeopen = TRUE
                 /\ killed = {}
                 /\ rest = [w \in Writer |-> <<>>]
                 /\ Asked = [r \in Reader |-> -1]
                 /\ got = [r \in Reader |-> <<>>]
  /\ CH!cvars = <<Queue, readopen, writeopen, killed, rest, Asked, got>>
BY Zenon DEF CH!Init, CH!cvars, CH!NotReading, Queue, QueueOf, Asked

LEMMA AskedKept ==
  ASSUME n' = n, \A r \in Reader : InCall(r)' <=> InCall(r)
  PROVE  Asked' = Asked
BY Zenon DEF Asked

LEMMA AskedEnds ==
  ASSUME NEW r \in Reader, NEW v, n' = [n EXCEPT ![r] = v], n \in [Reader -> 0 .. MaxN],
         \A q \in Reader \ {r} : InCall(q)' <=> InCall(q)
  PROVE  Asked' = [Asked EXCEPT ![r] = IF InCall(r)' THEN v ELSE -1]
BY Zenon DEF Asked

\* Steps that neither move bytes nor begin or end a call, nor close an end.
LEMMA ChannelStutters ==
  ASSUME UNCHANGED <<data, nread, nwrite, readopen, writeopen, killed, rest, got>>, Asked' = Asked
  PROVE  UNCHANGED CH!cvars
<1>1. Queue' = Queue
  BY QueueKept, Zenon
<1>. QED BY <1>1, Zenon DEF CH!cvars, Queue, QueueOf, Asked

LEMMA WriteImplementsPut ==
  ASSUME PipeInv, PipeInv', NEW w \in Writer, PipeWrite(w)
  PROVE  CH!Next
<1>1. PICK k : Stores(w, k) /\ (Finishes(w, k) \/ GivesUp(w, k) \/ WaitsForRoom(w, k))
  BY WriteStores, Zenon
<1>2. UNCHANGED <<nread, readopen, writeopen, killed, n, got>>
  BY Zenon DEF PipeWrite
<1>. DEFINE s == SubSeq(rest[w], 1, k)
<1>3. Queue' = Queue \o s /\ k \in 0 .. PIPESIZE - Len(Queue)
  BY <1>1, <1>2, QueueAfterWrite, Zenon DEF PipeInv
<1>4. Len(Queue) \in Nat /\ rest[w] \in Seq(Byte) /\ Len(rest[w]) \in Nat
  BY QueueType DEF PipeInv, TypeOK
<1>5. k \in 0 .. Len(rest[w]) /\ k <= PIPESIZE - Len(Queue)
  BY <1>1, <1>3, <1>4, Sizes DEF Stores
<1>6. Asked' = Asked
  <2>1. w \in Proc /\ w \notin Reader /\ TypeOK /\ \A r \in Reader : r \in Proc
    BY PipeAssumption, Zenon DEF PipeInv, Proc
  <2>2. \A q \in Proc \ {w} : InCall(q)' <=> InCall(q)
    BY <1>1, <2>1, OthersStay, Zenon DEF Finishes, GivesUp, WaitsForRoom
  <2>. QED BY <1>2, <2>1, <2>2, AskedKept, Zenon
<1>7. \/ rest' = [rest EXCEPT ![w] = SubSeq(@, k + 1, Len(@))]
      \/ (~readopen \/ w \in killed) /\ rest' = [rest EXCEPT ![w] = <<>>]
  <2>1. CASE Finishes(w, k)
    <3>1. SubSeq(rest[w], k + 1, Len(rest[w])) = <<>>
      BY <1>4, <2>1 DEF Finishes
    <3>. QED BY <2>1, <3>1, Zenon DEF Finishes
  <2>. QED BY <1>1, <2>1, Zenon DEF GivesUp, WaitsForRoom
<1>. HIDE DEF s
<1>8. CH!Put(w)
  BY <1>2, <1>3, <1>5, <1>6, <1>7, Zenon DEF CH!Put, Queue, QueueOf, Asked, s
<1>. QED BY <1>8, Zenon DEF CH!Next

LEMMA ReadImplementsGet ==
  ASSUME PipeInv, PipeInv', NEW r \in Reader, PipeRead(r)
  PROVE  CH!Next
<1>1. PICK k : Takes(r, k)
  BY ReadTakes, Zenon
<1>2. UNCHANGED <<data, nwrite, readopen, writeopen, killed, rest>>
  BY Zenon DEF PipeRead
<1>3. /\ Queue' = SubSeq(Queue, k + 1, Len(Queue))
      /\ got' = [got EXCEPT ![r] = SubSeq(Queue, 1, k)]
  BY <1>1, <1>2, QueueAfterRead, Zenon DEF PipeInv
<1>4. Queue \in Seq(Byte) /\ Len(Queue) = Used /\ Used \in Nat /\ n[r] \in 0 .. MaxN /\ n[r] # -1
  BY QueueType, UsedType, Sizes, SMTT(30) DEF PipeInv, TypeOK
<1>5. Asked[r] = n[r] /\ Asked' = [Asked EXCEPT ![r] = -1]
  <2>1. r \in Proc /\ TypeOK /\ \A q \in Reader : q \in Proc
    BY Zenon DEF PipeInv, Proc
  <2>2. pc'[r] = "user" /\ \A q \in Proc \ {r} : InCall(q)' <=> InCall(q)
    BY <2>1, OthersStay, Zenon DEF PipeRead
  <2>4. InCall(r) /\ ~InCall(r)'
    BY <2>2, Zenon DEF PipeRead, InCall
  <2>3. n' = [n EXCEPT ![r] = 0] /\ n \in [Reader -> 0 .. MaxN]
    BY <2>1, Zenon DEF PipeRead, TypeOK
  <2>. QED BY <2>1, <2>2, <2>3, <2>4, AskedEnds, Zenon DEF Asked
<1>6. k = IF Asked[r] <= Len(Queue) THEN Asked[r] ELSE Len(Queue)
  BY <1>1, <1>4, <1>5, Zenon DEF Takes
<1>7. Queue # <<>> \/ ~writeopen
  <2>1. nread = nwrite <=> Used = 0
    BY UsedType, Zenon DEF PipeInv
  <2>. QED BY <1>4, <2>1, Zenon DEF PipeRead
<1>8. Asked[r] # -1
  BY <1>4, <1>5, Zenon
<1>9. CH!Get(r)
  BY <1>2, <1>3, <1>5, <1>6, <1>7, <1>8, Zenon DEF CH!Get, CH!NotReading, Queue, QueueOf, Asked
<1>. QED BY <1>9, Zenon DEF CH!Next

LEMMA EmptyImplementsFail ==
  ASSUME PipeInv, NEW r \in Reader, PipeReadEmpty(r)
  PROVE  [CH!Next]_CH!cvars
<1>0. /\ r \in Proc /\ TypeOK /\ (\A q \in Reader : q \in Proc) /\ InCall(r)
      /\ n \in [Reader -> 0 .. MaxN]
  BY Zenon DEF PipeInv, TypeOK, Proc, PipeReadEmpty, InCall
<1>1. UNCHANGED <<data, nread, nwrite, readopen, writeopen, killed, rest, got>>
  BY Zenon DEF PipeReadEmpty, pipeVars
<1>2. CASE pc' = [pc EXCEPT ![r] = "tosleep"] /\ n' = n
  <2>1. \A q \in Proc : InCall(q)' <=> InCall(q)
    BY <1>0, <1>2, OthersStay, Zenon DEF InCall
  <2>. QED BY <1>0, <1>1, <1>2, <2>1, AskedKept, ChannelStutters, Zenon
<1>3. CASE r \in killed /\ pc' = [pc EXCEPT ![r] = "user"] /\ n' = [n EXCEPT ![r] = 0]
  <2>0. pc'[r] = "user" /\ \A q \in Proc \ {r} : InCall(q)' <=> InCall(q)
    BY <1>0, <1>3, OthersStay, Zenon
  <2>1. ~InCall(r)'
    BY <2>0, Zenon DEF InCall
  <2>2. Asked' = [Asked EXCEPT ![r] = -1]
    BY <1>0, <1>3, <2>0, <2>1, AskedEnds, Zenon
  <2>3. n[r] # -1
    BY <1>0, Sizes
  <2>4. Asked[r] # -1
    BY <1>0, <2>3, Zenon DEF Asked
  <2>5. Queue' = Queue
    BY <1>1, QueueKept, Zenon
  <2>6. CH!Fail(r)
    BY <1>1, <1>3, <2>2, <2>4, <2>5, Zenon DEF CH!Fail, CH!NotReading, Queue, QueueOf, Asked
  <2>. QED BY <2>6, Zenon DEF CH!Next
<1>. QED BY <1>2, <1>3, Zenon DEF PipeReadEmpty

LEMMA CloseReadImplements ==
  ASSUME PipeInv, NEW r \in Reader, CloseRead(r)
  PROVE  [CH!Next]_CH!cvars
<1>0. r \in Proc /\ TypeOK /\ (\A q \in Reader : q \in Proc)
  BY Zenon DEF PipeInv, Proc
<1>1. UNCHANGED <<data, nread, nwrite, writeopen, killed, n, rest, got>>
  BY Zenon DEF CloseRead
<1>2. ~InCall(r) /\ ~InCall(r)' /\ \A q \in Proc \ {r} : InCall(q)' <=> InCall(q)
  <2>1. pc' = [Woken(Writer) EXCEPT ![r] = "closed"] \/ pc' = [pc EXCEPT ![r] = "closed"]
    BY Zenon DEF CloseRead
  <2>2. pc'[r] = "closed" /\ \A q \in Proc \ {r} : InCall(q)' <=> InCall(q)
    BY <1>0, <2>1, OthersStay, Zenon
  <2>. QED BY <2>2, Zenon DEF CloseRead, InCall
<1>3. Asked' = Asked /\ Queue' = Queue
  BY <1>0, <1>1, <1>2, AskedKept, QueueKept, Zenon
<1>4. CASE \A q \in Reader \ {r} : pc[q] = "closed"
  <2>1. readopen' = FALSE /\ \A q \in Reader : ~InCall(q)
    BY <1>2, <1>4, Zenon DEF CloseRead, InCall
  <2>2. \A q \in Reader : Asked[q] = -1
    BY <2>1, Zenon DEF Asked
  <2>3. CH!CloseRead
    BY <1>1, <1>3, <2>1, <2>2, Zenon DEF CH!CloseRead, CH!NotReading, Queue, QueueOf, Asked
  <2>. QED BY <2>3, Zenon DEF CH!Next
<1>5. CASE ~\A q \in Reader \ {r} : pc[q] = "closed"
  BY <1>1, <1>3, <1>5, ChannelStutters, Zenon DEF CloseRead
<1>. QED BY <1>4, <1>5, Zenon

LEMMA CloseWriteImplements ==
  ASSUME PipeInv, Idle, NEW w \in Writer, CloseWrite(w)
  PROVE  [CH!Next]_CH!cvars
<1>0. w \in Proc /\ TypeOK /\ w \notin Reader /\ (\A q \in Reader : q \in Proc)
  BY PipeAssumption, Zenon DEF PipeInv, Proc
<1>1. UNCHANGED <<data, nread, nwrite, readopen, killed, n, rest, got>>
  BY Zenon DEF CloseWrite
<1>2. ~InCall(w) /\ \A q \in Proc \ {w} : InCall(q)' <=> InCall(q)
  BY <1>0, OthersStay, Zenon DEF CloseWrite, InCall
<1>3. Asked' = Asked /\ Queue' = Queue
  BY <1>0, <1>1, <1>2, AskedKept, QueueKept, Zenon
<1>4. CASE \A q \in Writer \ {w} : pc[q] = "closed"
  <2>1. writeopen' = FALSE /\ \A q \in Writer : ~InCall(q)
    BY <1>2, <1>4, Zenon DEF CloseWrite, InCall
  <2>2. \A q \in Writer : rest[q] = <<>>
    BY <2>1, Zenon DEF Idle
  <2>3. CH!CloseWrite
    BY <1>1, <1>3, <2>1, <2>2, Zenon DEF CH!CloseWrite, Queue, QueueOf, Asked
  <2>. QED BY <2>3, Zenon DEF CH!Next
<1>5. CASE ~\A q \in Writer \ {w} : pc[q] = "closed"
  BY <1>1, <1>3, <1>5, ChannelStutters, Zenon DEF CloseWrite
<1>. QED BY <1>4, <1>5, Zenon

LEMMA StepImplementsChannel ==
  ASSUME PipeInv, PipeInv', Idle, [Next]_vars
  PROVE  [CH!Next]_CH!cvars
<1>0. /\ TypeOK /\ (\A r \in Reader : r \in Proc /\ r \notin Writer)
      /\ (\A w \in Writer : w \in Proc) /\ n \in [Reader -> 0 .. MaxN]
  BY PipeAssumption, Zenon DEF PipeInv, Proc, TypeOK
<1>1. ASSUME NEW r \in Reader, Read(r) PROVE CH!Next
  <2>1. UNCHANGED <<data, nread, nwrite, readopen, writeopen, killed, rest>>
    BY <1>1, Zenon DEF Read, pipeVars
  <2>2. Queue' = Queue
    BY <2>1, QueueKept, Zenon
  <2>3. PICK k \in 0 .. MaxN : n' = [n EXCEPT ![r] = k]
    BY <1>1, Zenon DEF Read
  <2>4. ~InCall(r) /\ InCall(r)' /\ \A q \in Proc \ {r} : InCall(q)' <=> InCall(q)
    BY <1>0, <1>1, OthersStay, Zenon DEF Read, InCall
  <2>5. Asked[r] = -1 /\ Asked' = [Asked EXCEPT ![r] = k]
    BY <1>0, <2>3, <2>4, AskedEnds, Zenon DEF Asked
  <2>6. CH!Read(r)
    BY <1>1, <2>1, <2>2, <2>5, Zenon DEF CH!Read, CH!NotReading, Read, Queue, QueueOf, Asked
  <2>. QED BY <2>6, Zenon DEF CH!Next
<1>2. ASSUME NEW w \in Writer, Write(w) PROVE CH!Next
  <2>1. UNCHANGED <<data, nread, nwrite, readopen, writeopen, killed, n, got>>
    BY <1>2, Zenon DEF Write, pipeVars
  <2>2. ~InCall(w) /\ \A q \in Proc \ {w} : InCall(q)' <=> InCall(q)
    BY <1>0, <1>2, OthersStay, Zenon DEF Write, InCall
  <2>3. Queue' = Queue /\ Asked' = Asked
    BY <1>0, <2>1, <2>2, QueueKept, AskedKept, Zenon
  <2>4. rest[w] = <<>> /\ writeopen
    BY <1>2, <2>2, Zenon DEF Idle, Write, PipeInv, EndsOpen
  <2>5. CH!Write(w)
    BY <1>2, <2>1, <2>3, <2>4, Zenon DEF CH!Write, Write, Queue, QueueOf, Asked
  <2>. QED BY <2>5, Zenon DEF CH!Next
<1>3. ASSUME NEW p \in Proc, Sleep(p) PROVE UNCHANGED CH!cvars
  <2>1. \A q \in Proc : InCall(q)' <=> InCall(q)
    BY <1>0, <1>3, OthersStay, Zenon DEF Sleep, InCall
  <2>. QED BY <1>0, <1>3, <2>1, AskedKept, ChannelStutters, Zenon DEF Sleep, pipeVars
<1>4. ASSUME NEW p \in Mortal, Kill(p) PROVE CH!Next
  <2>1. UNCHANGED <<data, nread, nwrite, readopen, writeopen, n, rest, got>>
    BY <1>4, Zenon DEF Kill, pipeVars
  <2>2. \A q \in Proc : InCall(q)' <=> InCall(q)
    BY <1>0, <1>4, WokenStay, Zenon DEF Kill
  <2>3. Queue' = Queue /\ Asked' = Asked
    BY <1>0, <2>1, <2>2, QueueKept, AskedKept, Zenon
  <2>4. CH!Kill(p)
    BY <1>4, <2>1, <2>3, Zenon DEF CH!Kill, Kill, Queue, QueueOf, Asked
  <2>. QED BY <2>4, PipeAssumption, Zenon DEF CH!Next
<1>5. ASSUME UNCHANGED vars PROVE UNCHANGED CH!cvars
  BY <1>5, AskedKept, ChannelStutters, Zenon DEF vars, pipeVars, InCall
<1>6. ASSUME NEW p \in Proc, Step(p) PROVE [CH!Next]_CH!cvars
  BY <1>6, <1>3, EmptyImplementsFail, WriteImplementsPut, ReadImplementsGet, Zenon DEF Step
<1>7. ASSUME NEW p \in Proc, Close(p) PROVE [CH!Next]_CH!cvars
  BY <1>7, CloseReadImplements, CloseWriteImplements, Zenon DEF Close
<1>. QED BY <1>1, <1>2, <1>4, <1>5, <1>6, <1>7, Zenon DEF Next

\* A pipe of any size between any number of readers and writers is a queue: the
\* bytes of every write are read once and in their order, and a read that was
\* not killed returns nothing only after the last byte of the last writer,
\* whatever is closed and killed.
THEOREM PipeImplementsChannel == Spec => Fifo
<1>1. Init => CH!Init
  <2>. SUFFICES ASSUME Init PROVE CH!Init
    BY Zenon
  <2>1. TypeOK /\ Used = 0
    BY InitPipeInv, UsedType, Zenon DEF PipeInv, Init
  <2>2. Queue = <<>>
    BY <2>1, QueueType
  <2>3. Asked = [r \in Reader |-> -1]
    BY Zenon DEF Init, Asked, InCall, Proc
  <2>. QED BY <2>2, <2>3, ChannelVars, Zenon DEF Init
<1>2. PipeInv /\ PipeInv' /\ Idle /\ [Next]_vars => [CH!Next]_CH!cvars
  BY StepImplementsChannel, Zenon
<1>. QED BY <1>1, <1>2, PipeInvariance, WritersIdle, PTL DEF Spec, Fifo, CH!Spec

-----------------------------------------------------------------------------
(***************************************************************************)
(* The clock, for every number of registers, however far each counts.      *)
(***************************************************************************)
Instant == {v \in [Reg -> Nat] : \A r \in Reg : v[r] < Radix[r]}

\* From the instant v to w each register stays or counts.
Counts(v, w) == \A r \in Reg : w[r] = v[r] \/ w[r] = (v[r] + 1) % Radix[r]

\* The instants since cmostime() began to fill t1, and the one that an update
\* in progress leads to.
Instants == IF uip = 0 THEN past ELSE Append(past, Later)

\* What the chip and the clock agree on.
ChipInv ==
  /\ now \in Instant /\ uip \in 0 .. Len(Radix) + 1
  /\ rtc = [r \in Reg |-> Encode(IF r < uip THEN Later[r] ELSE now[r])]
  /\ past \in Seq(Instant) /\ Len(past) > 0 /\ past[Len(past)] = now
  /\ Len(past) <= MaxTicks + 1 /\ (uip # 0 => Len(past) <= MaxTicks)
  /\ \A j \in 1 .. Len(past) - 1 : Counts(past[j], past[j + 1])

\* What t1 holds was in the registers before the test of CMOS_UIP, at which the
\* time was past[k], and what t2 holds was there after it.
Before(k) == \A r \in 1 .. Len(t1) : \E a \in 1 .. k : t1[r] = Encode(Instants[a][r])
After(k) == \A r \in 1 .. Len(t2) : \E b \in k .. Len(Instants) : t2[r] = Encode(Instants[b][r])

FilledInv ==
  \/ clkAt[1] = "idle"
  \/ /\ clkAt[1] = "t1" /\ clkAt[2] \in Reg /\ t1 \in Seq(Nat) /\ Len(t1) = clkAt[2] - 1
     /\ t2 = <<>> /\ Before(Len(Instants))
  \/ /\ clkAt[1] = "uip" /\ t1 \in Seq(Nat) /\ Len(t1) = Len(Radix)
     /\ t2 = <<>> /\ Before(Len(Instants))
  \/ /\ clkAt[1] = "t2" /\ clkAt[2] \in Reg /\ t1 \in Seq(Nat) /\ Len(t1) = Len(Radix)
     /\ t2 \in Seq(Nat) /\ Len(t2) = clkAt[2] - 1
     /\ \E k \in 1 .. Len(past) : Before(k) /\ After(k)
  \/ /\ clkAt[1] = "cmp" /\ t1 \in Seq(Nat) /\ Len(t1) = Len(Radix)
     /\ t2 \in Seq(Nat) /\ Len(t2) = Len(Radix)
     /\ \E k \in 1 .. Len(past) : Before(k) /\ After(k)
  \/ /\ clkAt[1] = "conv" /\ t1 \in Seq(Nat) /\ Len(t1) = Len(Radix)
     /\ \E k \in 1 .. Len(past) : \A r \in Reg : t1[r] = Encode(past[k][r])
  \/ clkAt[1] = "done" /\ \E k \in 1 .. Len(past) : t1 = past[k]

ClockInv == ChipInv /\ FilledInv

LEMMA Registers ==
  /\ Len(Radix) \in Nat /\ Len(Radix) > 0 /\ Reg = 1 .. Len(Radix) /\ MaxTicks \in Nat
  /\ \A r \in Reg : Radix[r] \in Nat /\ Radix[r] > 1 /\ MaxTicks < Radix[r]
BY ClockAssumption DEF Reg

\* A number has one code.
LEMMA Decoded ==
  ASSUME NEW q \in Nat
  PROVE  Encode(q) \in Nat /\ Conv(Encode(q)) = q
<1>1. PICK a \in Nat, d \in 0 .. 9 : a = q \div 10 /\ d = q % 10 /\ q = 10 * a + d
  BY SMT
<1>2. 16 * a + d \in Nat /\ (16 * a + d) \div 16 = a /\ (16 * a + d) % 16 = d
  BY SMT
<1>3. CASE IsBcd
  <2>1. Encode(q) = 16 * a + d
    BY <1>1, <1>3, Zenon DEF Encode
  <2>2. Conv(Encode(q)) = a * 10 + d
    BY <1>2, <1>3, <2>1, Zenon DEF Conv
  <2>. QED BY <1>1, <1>2, <2>1, <2>2, SMT
<1>4. CASE ~IsBcd
  BY <1>4, Zenon DEF Encode, Conv
<1>. QED BY <1>3, <1>4, Zenon

LEMMA Induction ==
  ASSUME NEW S, 0 \in S, \A q \in Nat : q \in S => q + 1 \in S
  PROVE  \A q \in Nat : q \in S
<1>. SUFFICES ASSUME NEW q \in Nat, q \notin S
              PROVE  FALSE
  BY Zenon
<1>1. PICK x \in Nat \ S : \A y \in Nat \ S : x <= y
  <2>. DEFINE T == Nat \ S
  <2>1. T \subseteq Nat /\ T # {}
    OBVIOUS
  <2>2. \E x \in T : \A y \in T : x <= y
    <3>. HIDE DEF T
    <3>. QED BY <2>1, LeastNatural
  <2>. QED BY <2>2
<1>2. x - 1 \in Nat
  BY <1>1
<1>3. x - 1 \in S
  BY <1>1, <1>2
<1>4. (x - 1) + 1 = x
  BY <1>1
<1>. QED BY <1>1, <1>2, <1>3, <1>4, Zenon

\* A register that counts fewer than m times and is back where it was has stayed.
LEMMA InBetween ==
  ASSUME NEW m \in Nat, m > 0, NEW q \in Nat, q < m, NEW f, 
         \A j \in 0 .. q : f[j] \in 0 .. m - 1,
         \A j \in 0 .. q - 1 : f[j + 1] = f[j] \/ f[j + 1] = (f[j] + 1) % m,
         NEW k \in 0 .. q, f[q] = f[0]
  PROVE  f[k] = f[0]
<1>. DEFINE D(j) == (f[j] - f[0]) % m
<1>0. f[0] \in 0 .. m - 1
  OBVIOUS
<1>1. ASSUME NEW j \in 0 .. q - 1, D(j) + 1 < m
      PROVE  D(j + 1) = D(j) \/ D(j + 1) = D(j) + 1
  <2>1. j \in 0 .. q /\ j + 1 \in 0 .. q
    OBVIOUS
  <2>2. PICK x \in 0 .. m - 1 : x = f[j]
    BY <2>1, Zenon
  <2>3. PICK a \in 0 .. m - 1 : a = f[0]
    BY <1>0, Zenon
  <2>4. PICK i \in Nat : i = 1
    BY Zenon
  <2>5. ((x - a) % m) + i < m
    BY <1>1, <2>2, <2>3, <2>4, Zenon
  <2>6. (((x + i) % m) - a) % m = ((x - a) % m) + i
    BY <2>5, DistUp
  <2>. QED BY <2>1, <2>2, <2>3, <2>4, <2>6, Zenon
<1>2. ASSUME NEW j \in 0 .. q
      PROVE  D(j) \in 0 .. m - 1
  <2>1. PICK x \in 0 .. m - 1 : x = f[j]
    BY Zenon
  <2>2. PICK a \in 0 .. m - 1 : a = f[0]
    BY <1>0, Zenon
  <2>3. (x - a) % m \in 0 .. m - 1
    BY ModRange
  <2>. QED BY <2>1, <2>2, <2>3, Zenon
<1>3. D(0) = 0
  BY <1>0, ModSmall
<1>. HIDE DEF D
<1>4. \A j \in 0 .. q : D(j) <= j
  <2>. DEFINE S == {j \in Nat : j <= q => D(j) <= j}
  <2>1. 0 \in S
    BY <1>3
  <2>2. \A j \in Nat : j \in S => j + 1 \in S
    <3>. SUFFICES ASSUME NEW j \in Nat, j + 1 <= q, D(j) <= j
                  PROVE  D(j + 1) <= j + 1
      OBVIOUS
    <3>1. j \in 0 .. q - 1 /\ D(j) \in Nat /\ D(j) + 1 < m
      BY <1>2
    <3>. QED BY <1>1, <3>1
  <2>3. \A j \in Nat : j \in S
    <3>. HIDE DEF S
    <3>. QED BY <2>1, <2>2, Induction, Zenon
  <2>. QED BY <2>3
<1>5. \A j \in 0 .. q : j >= k => D(k) <= D(j)
  <2>. DEFINE S == {j \in Nat : k + j <= q => D(k) <= D(k + j)}
  <2>1. 0 \in S
    <3>1. D(k) \in Nat /\ k + 0 = k
      BY <1>2
    <3>. QED BY <3>1
  <2>2. \A j \in Nat : j \in S => j + 1 \in S
    <3>. SUFFICES ASSUME NEW j \in Nat, k + (j + 1) <= q, D(k) <= D(k + j)
                  PROVE  D(k) <= D(k + (j + 1))
      OBVIOUS
    <3>1. k + j \in 0 .. q - 1 /\ k + (j + 1) = (k + j) + 1
      OBVIOUS
    <3>2. D(k + j) \in Nat /\ D(k + j) + 1 < m /\ D(k) \in Nat
      BY <1>2, <1>4, <3>1
    <3>3. D((k + j) + 1) = D(k + j) \/ D((k + j) + 1) = D(k + j) + 1
      BY <1>1, <3>1, <3>2
    <3>. QED BY <3>1, <3>2, <3>3
  <2>3. \A j \in Nat : j \in S
    <3>. HIDE DEF S
    <3>. QED BY <2>1, <2>2, Induction, Zenon
  <2>. SUFFICES ASSUME NEW j \in 0 .. q, j >= k
                PROVE  D(k) <= D(j)
    OBVIOUS
  <2>4. PICK i \in Nat : k + i = j /\ k + i <= q
    <3>1. j - k \in Nat /\ k + (j - k) = j /\ j <= q
      OBVIOUS
    <3>. QED BY <3>1, Zenon
  <2>5. D(k) <= D(k + i)
    BY <2>3, <2>4, Zenon
  <2>. QED BY <2>4, <2>5, Zenon
<1>6. D(q) = 0
  BY <1>3 DEF D
<1>7. D(k) = 0
  BY <1>2, <1>5, <1>6
<1>. QED
  <2>1. PICK x \in 0 .. m - 1 : x = f[k]
    BY Zenon
  <2>2. PICK a \in 0 .. m - 1 : a = f[0]
    BY <1>0, Zenon
  <2>3. (x - a) % m = 0
    BY <1>7, <2>1, <2>2, Zenon DEF D
  <2>4. x = a
    BY <2>3, DistIs
  <2>. QED BY <2>1, <2>2, <2>4, Zenon

LEMMA ClockLater ==
  ASSUME now \in Instant
  PROVE  Later \in Instant /\ Counts(now, Later)
<1>1. ASSUME NEW r \in Reg
      PROVE  /\ now[r] \in Nat /\ now[r] < Radix[r]
             /\ (now[r] + 1) % Radix[r] \in Nat /\ (now[r] + 1) % Radix[r] < Radix[r]
  <2>1. now[r] \in Nat /\ now[r] < Radix[r] /\ Radix[r] \in Nat /\ Radix[r] > 0
    BY Registers DEF Instant
  <2>2. (now[r] + 1) % Radix[r] \in 0 .. Radix[r] - 1
    BY <2>1, ModRange
  <2>. QED BY <2>1, <2>2
<1>2. \A r \in Reg : Later[r] = now[r] \/ Later[r] = (now[r] + 1) % Radix[r]
  BY Zenon DEF Later
<1>3. \A r \in Reg : Later[r] \in Nat /\ Later[r] < Radix[r]
  BY <1>1, <1>2, Zenon
<1>4. Later \in [Reg -> Nat]
  BY <1>3, Zenon DEF Later
<1>. QED BY <1>2, <1>3, <1>4, Zenon DEF Instant, Counts

LEMMA InstantsAre ==
  ASSUME ChipInv
  PROVE  /\ Instants \in Seq(Instant) /\ Len(Instants) \in Len(past) .. Len(past) + 1
         /\ Len(Instants) <= MaxTicks + 1
         /\ \A a \in 1 .. Len(past) : Instants[a] = past[a]
         /\ \A j \in 1 .. Len(Instants) - 1 : Counts(Instants[j], Instants[j + 1])
         /\ \A r \in Reg : \E b \in Len(past) .. Len(Instants) : rtc[r] = Encode(Instants[b][r])
<1>0. /\ past \in Seq(Instant) /\ Len(past) \in Nat /\ Len(past) > 0 /\ past[Len(past)] = now
      /\ Len(past) <= MaxTicks + 1 /\ (uip # 0 => Len(past) <= MaxTicks) /\ MaxTicks \in Nat
      /\ \A j \in 1 .. Len(past) - 1 : Counts(past[j], past[j + 1])
  BY Registers DEF ChipInv
<1>1. Later \in Instant /\ Counts(now, Later)
  BY ClockLater, Zenon DEF ChipInv
<1>2. CASE uip = 0
  <2>1. Instants = past
    BY <1>2 DEF Instants
  <2>2. ASSUME NEW r \in Reg
        PROVE  rtc[r] = Encode(past[Len(past)][r])
    <3>1. ~(r < uip)
      BY <1>2, Registers
    <3>. QED BY <1>0, <3>1, Zenon DEF ChipInv
  <2>. QED BY <1>0, <2>1, <2>2
<1>3. CASE uip # 0
  <2>1. /\ Instants = Append(past, Later) /\ Instants \in Seq(Instant)
        /\ Len(Instants) = Len(past) + 1
        /\ \A a \in 1 .. Len(past) : Instants[a] = past[a]
        /\ Instants[Len(past) + 1] = Later
    BY <1>0, <1>1, <1>3 DEF Instants
  <2>2. ASSUME NEW j \in 1 .. Len(Instants) - 1
        PROVE  Counts(Instants[j], Instants[j + 1])
    <3>1. CASE j = Len(past)
      BY <1>0, <1>1, <2>1, <3>1
    <3>2. CASE j # Len(past)
      <4>1. j \in 1 .. Len(past) - 1 /\ j \in 1 .. Len(past) /\ j + 1 \in 1 .. Len(past)
        BY <1>0, <2>1, <3>2
      <4>. QED BY <1>0, <2>1, <4>1, Zenon
    <3>. QED BY <3>1, <3>2, Zenon
  <2>3. ASSUME NEW r \in Reg
        PROVE  \E b \in Len(past) .. Len(Instants) : rtc[r] = Encode(Instants[b][r])
    <3>1. Len(past) \in Len(past) .. Len(Instants) /\ Len(past) + 1 \in Len(past) .. Len(Instants)
      BY <1>0, <2>1
    <3>2. Instants[Len(past)] = now
      BY <1>0, <2>1
    <3>3. rtc[r] = Encode(Later[r]) \/ rtc[r] = Encode(now[r])
      BY Zenon DEF ChipInv
    <3>. QED BY <2>1, <3>1, <3>2, <3>3, Zenon
  <2>. QED BY <1>0, <1>3, <2>1, <2>2, <2>3
<1>. QED BY <1>2, <1>3, Zenon

\* A register that shows the same before and after the instant k showed it at k.
LEMMA Stayed ==
  ASSUME ChipInv, NEW r \in Reg, NEW a \in 1 .. Len(Instants), NEW b \in 1 .. Len(Instants),
         NEW k \in a .. b, Instants[a][r] = Instants[b][r]
  PROVE  Instants[k][r] = Instants[a][r]
<1>1. /\ Instants \in Seq(Instant) /\ Len(Instants) \in Nat /\ Len(Instants) <= MaxTicks + 1
      /\ \A j \in 1 .. Len(Instants) - 1 : Counts(Instants[j], Instants[j + 1])
  <2>1. past \in Seq(Instant)
    BY Zenon DEF ChipInv
  <2>2. Len(past) \in Nat
    BY <2>1
  <2>3. Len(Instants) \in Nat
    BY <2>2, InstantsAre
  <2>. QED BY <2>3, InstantsAre, Zenon
<1>2. PICK m \in Nat : m = Radix[r] /\ m > 0 /\ MaxTicks < m /\ MaxTicks \in Nat
  BY Registers
<1>3. PICK q \in Nat : q = b - a /\ q < m
  BY <1>1, <1>2
<1>4. PICK f : f = [j \in 0 .. q |-> Instants[a + j][r]]
  OBVIOUS
<1>5. \A j \in 0 .. q : f[j] \in 0 .. m - 1
  <2>. SUFFICES ASSUME NEW j \in 0 .. q
                PROVE  Instants[a + j][r] \in 0 .. m - 1
    BY <1>4
  <2>1. a + j \in 1 .. Len(Instants)
    BY <1>1, <1>3
  <2>2. Instants[a + j] \in Instant
    BY <1>1, <2>1
  <2>. QED BY <1>2, <2>2 DEF Instant
<1>6. \A j \in 0 .. q - 1 : f[j + 1] = f[j] \/ f[j + 1] = (f[j] + 1) % m
  <2>. SUFFICES ASSUME NEW j \in 0 .. q - 1
                PROVE  f[j + 1] = f[j] \/ f[j + 1] = (f[j] + 1) % m
    OBVIOUS
  <2>1. a + j \in 1 .. Len(Instants) - 1 /\ j \in 0 .. q /\ j + 1 \in 0 .. q /\ a + (j + 1) = (a + j) + 1
    BY <1>1, <1>3
  <2>2. f[j] = Instants[a + j][r] /\ f[j + 1] = Instants[(a + j) + 1][r]
    BY <1>4, <2>1
  <2>3. Counts(Instants[a + j], Instants[(a + j) + 1])
    BY <1>1, <2>1
  <2>. QED BY <1>2, <2>2, <2>3, Zenon DEF Counts
<1>7. PICK i \in 0 .. q : i = k - a
  BY <1>3
<1>8. f[0] = Instants[a][r] /\ f[q] = Instants[b][r] /\ f[i] = Instants[k][r]
  BY <1>3, <1>4, <1>7
<1>9. f[q] = f[0]
  BY <1>8, Zenon
<1>. QED BY <1>2, <1>3, <1>5, <1>6, <1>8, <1>9, InBetween, Zenon

\* The chip and the reader leave the instants so far as they are.
Longer ==
  /\ Len(past) <= Len(past') /\ \A a \in 1 .. Len(past) : past'[a] = past[a]
  /\ Len(Instants) <= Len(Instants') /\ \A a \in 1 .. Len(Instants) : Instants'[a] = Instants[a]

LEMMA ChipKeeps ==
  ASSUME ChipInv, Announce \/ Update \/ Updated
  PROVE  ChipInv' /\ (clkAt[1] # "idle" => Longer)
<1>0. /\ now \in Instant /\ uip \in 0 .. Len(Radix) + 1 /\ Reg = 1 .. Len(Radix) /\ Len(Radix) \in Nat
      /\ rtc = [r \in Reg |-> Encode(IF r < uip THEN Later[r] ELSE now[r])]
      /\ past \in Seq(Instant) /\ Len(past) \in Nat /\ Len(past) > 0 /\ past[Len(past)] = now
      /\ Len(past) <= MaxTicks + 1 /\ (uip # 0 => Len(past) <= MaxTicks) /\ MaxTicks \in Nat
      /\ \A j \in 1 .. Len(past) - 1 : Counts(past[j], past[j + 1])
  <2>1. past \in Seq(Instant) /\ MaxTicks \in Nat /\ Len(Radix) \in Nat /\ Reg = 1 .. Len(Radix)
    BY Registers, Zenon DEF ChipInv
  <2>2. Len(past) \in Nat
    BY <2>1
  <2>. QED BY <2>1, <2>2, Zenon DEF ChipInv
<1>1. Later \in Instant /\ Counts(now, Later)
  BY ClockLater, Zenon DEF ChipInv
<1>2. CASE Announce
  <2>1. uip = 0 /\ uip' = 1 /\ UNCHANGED <<rtc, now, past>> /\ Len(past) <= MaxTicks
    BY <1>2, Zenon DEF Announce
  <2>2. Later' = Later
    BY <2>1, Zenon DEF Later
  <2>3. \A r \in Reg : ~(r < 0) /\ ~(r < 1)
    BY <1>0
  <2>4. rtc' = [r \in Reg |-> Encode(IF r < uip' THEN Later'[r] ELSE now'[r])]
    BY <1>0, <2>1, <2>3, Zenon
  <2>5. uip' \in 0 .. Len(Radix) + 1
    BY <1>0, <2>1
  <2>6. ChipInv'
    BY <1>0, <2>1, <2>4, <2>5, Zenon DEF ChipInv
  <2>7. Instants = past /\ Instants' = Append(past, Later)
    BY <2>1, <2>2 DEF Instants
  <2>8. Longer
    BY <1>0, <1>1, <2>1, <2>7 DEF Longer
  <2>. QED BY <2>6, <2>8, Zenon
<1>3. CASE Update
  <2>1. /\ uip \in Reg /\ uip' = uip + 1 /\ UNCHANGED <<now, past>>
        /\ rtc' = [rtc EXCEPT ![uip] = Encode(Later[uip])]
    BY <1>3, Zenon DEF Update
  <2>2. Later' = Later
    BY <2>1, Zenon DEF Later
  <2>3. \A r \in Reg : (r < uip + 1 <=> r < uip \/ r = uip) /\ ~(uip < uip)
    BY <1>0, <2>1
  <2>4. rtc' = [r \in Reg |-> Encode(IF r < uip' THEN Later'[r] ELSE now'[r])]
    <3>1. rtc' = [r \in Reg |-> IF r = uip THEN Encode(Later[uip])
                                ELSE Encode(IF r < uip THEN Later[r] ELSE now[r])]
      BY <1>0, <2>1, Zenon
    <3>2. \A r \in Reg : (IF r = uip THEN Encode(Later[uip])
                          ELSE Encode(IF r < uip THEN Later[r] ELSE now[r]))
                         = Encode(IF r < uip' THEN Later'[r] ELSE now'[r])
      BY <2>1, <2>2, <2>3, Zenon
    <3>. QED BY <3>1, <3>2, Zenon
  <2>5. uip' \in 0 .. Len(Radix) + 1 /\ uip # 0 /\ uip' # 0
    BY <1>0, <2>1
  <2>6. ChipInv'
    BY <1>0, <2>1, <2>4, <2>5, Zenon DEF ChipInv
  <2>7. Instants' = Instants /\ past' = past
    BY <2>1, <2>2, <2>5, Zenon DEF Instants
  <2>8. Len(Instants) \in Nat
    BY InstantsAre DEF ChipInv
  <2>9. Longer
    BY <1>0, <2>7, <2>8 DEF Longer
  <2>. QED BY <2>6, <2>9, Zenon
<1>4. CASE Updated
  <2>1. /\ uip > Len(Radix) /\ uip' = 0 /\ now' = Later /\ rtc' = rtc
        /\ past' = IF clkAt[1] = "idle" THEN <<Later>> ELSE Append(past, Later)
    BY <1>4, Zenon DEF Updated
  <2>2. \A r \in Reg : r < uip /\ ~(r < 0)
    BY <1>0, <2>1
  <2>3. rtc' = [r \in Reg |-> Encode(IF r < uip' THEN Later'[r] ELSE now'[r])]
    BY <1>0, <2>1, <2>2, Zenon
  <2>4. Len(past) <= MaxTicks /\ uip # 0
    BY <1>0, <2>1
  <2>5. CASE clkAt[1] = "idle"
    <3>1. past' = <<Later>> /\ past' \in Seq(Instant) /\ Len(past') = 1 /\ past'[1] = Later
      BY <1>1, <2>1, <2>5
    <3>2. \A j \in 1 .. Len(past') - 1 : FALSE
      BY <3>1
    <3>3. Len(past') > 0 /\ Len(past') <= MaxTicks + 1
      BY <1>0, <3>1
    <3>. QED BY <1>0, <1>1, <2>1, <2>3, <2>5, <3>1, <3>2, <3>3 DEF ChipInv
  <2>6. CASE clkAt[1] # "idle"
    <3>1. /\ past' = Append(past, Later) /\ past' \in Seq(Instant) /\ Len(past') = Len(past) + 1
          /\ \A a \in 1 .. Len(past) : past'[a] = past[a]
          /\ past'[Len(past) + 1] = Later
      BY <1>0, <1>1, <2>1, <2>6
    <3>2. Instants = past' /\ Instants' = past'
      BY <2>1, <2>4, <3>1, Zenon DEF Instants
    <3>3. \A j \in 1 .. Len(past') - 1 : Counts(past'[j], past'[j + 1])
      BY <3>2, InstantsAre, Zenon
    <3>4. Longer
      BY <1>0, <3>1, <3>2 DEF Longer
    <3>5. /\ Len(past') > 0 /\ past'[Len(past')] = now' /\ Len(past') <= MaxTicks + 1
          /\ uip' \in 0 .. Len(Radix) + 1
      BY <1>0, <2>1, <2>4, <3>1
    <3>6. Counts(now, Later)' <=> Counts(now', Later')
      BY Zenon DEF Counts
    <3>. QED BY <1>1, <2>1, <2>3, <2>6, <3>1, <3>3, <3>4, <3>5, Zenon DEF ChipInv
  <2>. QED BY <2>5, <2>6, Zenon
<1>. QED BY <1>2, <1>3, <1>4, Zenon

\* The reader does not disturb the clock.
LEMMA ReaderKeeps ==
  ASSUME ChipInv, UNCHANGED <<rtc, now, uip>>
  PROVE  /\ past' = past => ChipInv' /\ Longer
         /\ past' = <<now>> => ChipInv'
<1>0. /\ now \in Instant /\ Len(past) \in Nat /\ Len(past) > 0 /\ MaxTicks \in Nat
      /\ (uip # 0 => Len(past) <= MaxTicks)
  BY Registers DEF ChipInv
<1>1. Later' = Later
  BY Zenon DEF Later
<1>2. ASSUME past' = past
      PROVE  ChipInv' /\ Longer
  <2>1. ChipInv'
    BY <1>1, <1>2, Zenon DEF ChipInv
  <2>2. Instants' = Instants /\ Len(Instants) \in Nat
    <3>1. Instants' = Instants
      BY <1>1, <1>2, Zenon DEF Instants
    <3>. QED BY <3>1, InstantsAre DEF ChipInv
  <2>. QED BY <1>0, <1>2, <2>1, <2>2 DEF Longer
<1>3. ASSUME past' = <<now>>
      PROVE  ChipInv'
  <2>1. past' \in Seq(Instant) /\ Len(past') = 1 /\ past'[1] = now
    BY <1>0, <1>3
  <2>2. Len(past') > 0 /\ past'[Len(past')] = now /\ Len(past') <= MaxTicks + 1
        /\ (uip # 0 => Len(past') <= MaxTicks)
        /\ \A j \in 1 .. Len(past') - 1 : Counts(past'[j], past'[j + 1])
    BY <1>0, <2>1
  <2>. QED BY <1>1, <2>1, <2>2, Zenon DEF ChipInv
<1>. QED BY <1>2, <1>3, Zenon

LEMMA Appended ==
  ASSUME NEW s \in Seq(Nat), NEW e \in Nat
  PROVE  /\ Append(s, e) \in Seq(Nat) /\ Len(Append(s, e)) = Len(s) + 1 /\ Append(s, e)[Len(s) + 1] = e
         /\ \A r \in 1 .. Len(s) : Append(s, e)[r] = s[r]
OBVIOUS

LEMMA BeforeKept ==
  ASSUME Longer, t1' = t1, Len(Instants) \in Nat, NEW k \in Nat, k <= Len(Instants),
         NEW j \in Nat, k <= j, Before(k)
  PROVE  Before(j)'
<1>. SUFFICES ASSUME NEW r \in 1 .. Len(t1)
              PROVE  \E a \in 1 .. j : t1[r] = Encode(Instants'[a][r])
  BY Zenon DEF Before
<1>1. PICK a \in 1 .. k : t1[r] = Encode(Instants[a][r])
  BY Zenon DEF Before
<1>2. a \in 1 .. j /\ a \in 1 .. Len(Instants)
  OBVIOUS
<1>. QED BY <1>1, <1>2, Zenon DEF Longer

LEMMA AfterKept ==
  ASSUME Longer, t2' = t2, NEW k \in Nat, k > 0, Len(Instants) \in Nat, Len(Instants') \in Nat, After(k)
  PROVE  After(k)'
<1>. SUFFICES ASSUME NEW r \in 1 .. Len(t2)
              PROVE  \E b \in k .. Len(Instants') : t2[r] = Encode(Instants'[b][r])
  BY Zenon DEF After
<1>1. PICK b \in k .. Len(Instants) : t2[r] = Encode(Instants[b][r])
  BY Zenon DEF After
<1>2. b \in 1 .. Len(Instants) /\ b \in k .. Len(Instants')
  BY DEF Longer
<1>. QED BY <1>1, <1>2, Zenon DEF Longer

\* While the chip counts, what was read stays what was shown.
LEMMA ReadKept ==
  ASSUME ChipInv, ChipInv', FilledInv, clkAt[1] # "idle" => Longer, UNCHANGED <<clkAt, t1, t2>>
  PROVE  FilledInv'
<1>0. /\ Len(Instants) \in Nat /\ Len(Instants') \in Nat /\ Len(past) \in Nat /\ Len(past') \in Nat
      /\ Len(past) <= Len(Instants)
  <2>1. Len(Instants) \in Nat /\ Len(past) \in Nat /\ Len(past) <= Len(Instants)
    BY InstantsAre DEF ChipInv
  <2>2. past' \in Seq(Instant) /\ (Instants \in Seq(Instant))'
    <3>1. (ChipInv => Instants \in Seq(Instant))'
      BY InstantsAre, PTL
    <3>. QED BY <3>1 DEF ChipInv
  <2>. QED BY <2>1, <2>2
<1>1. CASE clkAt[1] = "idle"
  BY <1>1, Zenon DEF FilledInv
<1>2. CASE clkAt[1] # "idle"
  <2>0. Longer
    BY <1>2, Zenon
  <2>1. ASSUME Before(Len(Instants))
        PROVE  (Before(Len(Instants)))'
    <3>1. PICK q \in Nat : q = Len(Instants)
      BY <1>0, Zenon
    <3>2. PICK m \in Nat : m = Len(Instants')
      BY <1>0, Zenon
    <3>3. q <= m
      BY <2>0, <3>1, <3>2, Zenon DEF Longer
    <3>4. q <= Len(Instants)
      BY <3>1
    <3>5. Before(m)'
      BY <1>0, <2>0, <2>1, <3>1, <3>3, <3>4, BeforeKept, Zenon
    <3>. QED BY <3>2, <3>5, Zenon DEF Before
  <2>2. ASSUME NEW k \in 1 .. Len(past)
        PROVE  /\ k \in 1 .. Len(past') /\ past'[k] = past[k]
               /\ Before(k) /\ After(k) => Before(k)' /\ After(k)'
    <3>1. k \in Nat /\ k > 0 /\ k <= k /\ k <= Len(Instants) /\ k \in 1 .. Len(past') /\ past'[k] = past[k]
      BY <1>0, <2>0 DEF Longer
    <3>2. ASSUME Before(k), After(k)
          PROVE  Before(k)' /\ After(k)'
      BY <1>0, <2>0, <3>1, <3>2, BeforeKept, AfterKept, Zenon
    <3>. QED BY <3>1, <3>2, Zenon
  <2>3. CASE clkAt[1] = "t1"
    BY <2>1, <2>3, Zenon DEF FilledInv
  <2>4. CASE clkAt[1] = "uip"
    BY <2>1, <2>4, Zenon DEF FilledInv
  <2>5. CASE clkAt[1] = "t2"
    BY <2>2, <2>5, Zenon DEF FilledInv
  <2>6. CASE clkAt[1] = "cmp"
    BY <2>2, <2>6, Zenon DEF FilledInv
  <2>7. CASE clkAt[1] = "conv"
    BY <2>2, <2>7, Zenon DEF FilledInv
  <2>8. CASE clkAt[1] = "done"
    BY <2>2, <2>8, Zenon DEF FilledInv
  <2>. QED BY <1>2, <2>3, <2>4, <2>5, <2>6, <2>7, <2>8, Zenon DEF FilledInv
<1>. QED BY <1>1, <1>2, Zenon

\* The loop from the start.
LEMMA AgainKeeps ==
  ASSUME ChipInv, Again, UNCHANGED <<rtc, now, uip>>
  PROVE  ClockInv'
<1>1. ChipInv'
  BY ReaderKeeps, Zenon DEF Again
<1>2. /\ clkAt'[1] = "t1" /\ clkAt'[2] = 1 /\ 1 \in Reg /\ t1' = <<>> /\ t1' \in Seq(Nat)
      /\ Len(t1') = clkAt'[2] - 1 /\ t2' = <<>>
  BY Registers DEF Again
<1>3. (Before(Len(Instants)))'
  BY <1>2 DEF Before
<1>. QED BY <1>1, <1>2, <1>3, Zenon DEF ClockInv, FilledInv

LEMMA FillT1Keeps ==
  ASSUME ClockInv, FillT1
  PROVE  ClockInv'
<1>0. ChipInv /\ FilledInv
  BY Zenon DEF ClockInv
<1>1. /\ clkAt[1] = "t1" /\ t1' = Append(t1, rtc[clkAt[2]])
      /\ clkAt' = IF clkAt[2] = Len(Radix) THEN <<"uip", 0>> ELSE <<"t1", clkAt[2] + 1>>
      /\ UNCHANGED <<rtc, now, uip, t2, past>>
  BY Zenon DEF FillT1
<1>2. PICK c \in Reg : c = clkAt[2] /\ t1 \in Seq(Nat) /\ Len(t1) = c - 1 /\ t2 = <<>>
                      /\ Before(Len(Instants))
  BY <1>0, <1>1 DEF FilledInv
<1>3. ChipInv'
  BY <1>0, <1>1, ReaderKeeps, Zenon
<1>4. PICK q \in Nat : q = Len(Instants) /\ Instants' = Instants
  <2>1. Later' = Later
    BY <1>1, Zenon DEF Later
  <2>2. Instants' = Instants
    BY <1>1, <2>1, Zenon DEF Instants
  <2>. QED BY <1>0, <2>2, InstantsAre DEF ChipInv
<1>5. PICK b \in 1 .. q : rtc[c] = Encode(Instants[b][c])
  <2>1. PICK b \in Len(past) .. Len(Instants) : rtc[c] = Encode(Instants[b][c])
    BY <1>0, InstantsAre, Zenon
  <2>2. past \in Seq(Instant) /\ Len(past) > 0
    BY <1>0, Zenon DEF ChipInv
  <2>3. b \in 1 .. q
    BY <1>4, <2>2
  <2>. QED BY <2>1, <2>3, Zenon
<1>6. rtc[c] \in Nat
  <2>1. Instants[b] \in Instant
    BY <1>0, <1>4, InstantsAre
  <2>2. Instants[b][c] \in Nat
    BY <2>1 DEF Instant
  <2>. QED BY <1>5, <2>2, Decoded
<1>7. /\ t1' \in Seq(Nat) /\ Len(t1') = c /\ t1'[c] = rtc[c]
      /\ \A r \in 1 .. c - 1 : t1'[r] = t1[r]
  <2>1. Len(t1) + 1 = c
    BY <1>2, Registers
  <2>2. t1' = Append(t1, rtc[c]) /\ t1 \in Seq(Nat) /\ 1 .. c - 1 = 1 .. Len(t1)
    BY <1>1, <1>2, Zenon
  <2>3. /\ Append(t1, rtc[c]) \in Seq(Nat) /\ Len(Append(t1, rtc[c])) = Len(t1) + 1
        /\ Append(t1, rtc[c])[Len(t1) + 1] = rtc[c]
        /\ \A r \in 1 .. Len(t1) : Append(t1, rtc[c])[r] = t1[r]
    BY <1>6, <2>2, Appended, Zenon
  <2>. QED BY <2>1, <2>2, <2>3, Zenon
<1>8. (Before(Len(Instants)))'
  <2>. SUFFICES ASSUME NEW r \in 1 .. c
                PROVE  \E a \in 1 .. q : t1'[r] = Encode(Instants[a][r])
    BY <1>4, <1>7, Zenon DEF Before
  <2>1. CASE r = c
    BY <1>5, <1>7, <2>1, Zenon
  <2>2. CASE r # c
    <3>0. c \in Nat /\ Len(t1) = c - 1
      BY <1>2, Registers, SMT
    <3>1. r \in 1 .. c - 1
      BY <2>2, <3>0, SMT
    <3>2. r \in 1 .. Len(t1)
      BY <3>0, <3>1, Zenon
    <3>. QED BY <1>2, <1>4, <1>7, <3>1, <3>2, Zenon DEF Before
  <2>. QED BY <2>1, <2>2, Zenon
<1>9. CASE c = Len(Radix)
  <2>1. clkAt'[1] = "uip"
    BY <1>1, <1>2, <1>9
  <2>. QED BY <1>1, <1>2, <1>3, <1>7, <1>8, <1>9, <2>1, Zenon DEF ClockInv, FilledInv
<1>10. CASE c # Len(Radix)
  <2>1. clkAt'[1] = "t1" /\ clkAt'[2] = c + 1 /\ c + 1 \in Reg /\ Len(t1') = clkAt'[2] - 1
    BY <1>1, <1>2, <1>7, <1>10, Registers
  <2>. QED BY <1>1, <1>2, <1>3, <1>7, <1>8, <2>1, Zenon DEF ClockInv, FilledInv
<1>. QED BY <1>9, <1>10, Zenon

LEMMA TestUipKeeps ==
  ASSUME ClockInv, TestUip
  PROVE  ClockInv'
<1>0. ChipInv /\ FilledInv /\ clkAt[1] = "uip" /\ UNCHANGED <<rtc, now, uip>>
  BY Zenon DEF ClockInv, TestUip
<1>1. CASE uip # 0
  BY <1>0, <1>1, AgainKeeps, Zenon DEF TestUip
<1>2. CASE uip = 0
  <2>1. clkAt' = <<"t2", 1>> /\ UNCHANGED <<t1, t2, past>>
    BY <1>2, Zenon DEF TestUip
  <2>2. t1 \in Seq(Nat) /\ Len(t1) = Len(Radix) /\ t2 = <<>> /\ Before(Len(Instants))
    BY <1>0, Zenon DEF FilledInv
  <2>3. ChipInv' /\ Longer
    BY <1>0, <2>1, ReaderKeeps, Zenon
  <2>4. PICK k \in 1 .. Len(past) : k = Len(Instants) /\ k \in Nat
    <3>1. Instants = past
      BY <1>2 DEF Instants
    <3>. QED BY <1>0, <3>1 DEF ChipInv
  <2>5. k <= Len(Instants) /\ Len(Instants) \in Nat /\ k <= k /\ Before(k)
    <3>1. k <= k
      BY <2>4
    <3>. QED BY <2>2, <2>4, <3>1, Zenon
  <2>6. Before(k)'
    BY <2>1, <2>3, <2>4, <2>5, BeforeKept, Zenon
  <2>7. t2' = <<>> /\ t2' \in Seq(Nat) /\ Len(t2') = 0 /\ After(k)'
    BY <2>1, <2>2 DEF After
  <2>8. clkAt'[1] = "t2" /\ clkAt'[2] = 1 /\ 1 \in Reg /\ Len(t2') = clkAt'[2] - 1
    BY <2>1, <2>7, Registers
  <2>9. k \in 1 .. Len(past')
    BY <2>1, <2>4, Zenon
  <2>. QED BY <2>1, <2>2, <2>3, <2>6, <2>7, <2>8, <2>9, Zenon DEF ClockInv, FilledInv
<1>. QED BY <1>1, <1>2, Zenon

LEMMA FillT2Keeps ==
  ASSUME ClockInv, FillT2
  PROVE  ClockInv'
<1>0. ChipInv /\ FilledInv
  BY Zenon DEF ClockInv
<1>1. /\ clkAt[1] = "t2" /\ t2' = Append(t2, rtc[clkAt[2]])
      /\ clkAt' = IF clkAt[2] = Len(Radix) THEN <<"cmp", 0>> ELSE <<"t2", clkAt[2] + 1>>
      /\ UNCHANGED <<rtc, now, uip, t1, past>>
  BY Zenon DEF FillT2
<1>2. PICK c \in Reg : c = clkAt[2] /\ t1 \in Seq(Nat) /\ Len(t1) = Len(Radix)
                      /\ t2 \in Seq(Nat) /\ Len(t2) = c - 1
                      /\ \E k \in 1 .. Len(past) : Before(k) /\ After(k)
  BY <1>0, <1>1 DEF FilledInv
<1>3. ChipInv' /\ Longer
  BY <1>0, <1>1, ReaderKeeps, Zenon
<1>4. PICK q \in Nat : q = Len(Instants) /\ Instants' = Instants /\ Len(past) \in Nat /\ Len(past) <= q
  <2>1. Later' = Later
    BY <1>1, Zenon DEF Later
  <2>2. Instants' = Instants
    BY <1>1, <2>1, Zenon DEF Instants
  <2>. QED BY <1>0, <2>2, InstantsAre DEF ChipInv
<1>5. PICK b \in Len(past) .. q : rtc[c] = Encode(Instants[b][c])
  BY <1>0, <1>4, InstantsAre, Zenon
<1>6. rtc[c] \in Nat
  <2>0. b \in 1 .. Len(Instants)
    BY <1>0, <1>4 DEF ChipInv
  <2>1. Instants[b] \in Instant
    BY <1>0, <2>0, InstantsAre
  <2>2. Instants[b][c] \in Nat
    BY <2>1 DEF Instant
  <2>. QED BY <1>5, <2>2, Decoded
<1>7. /\ t2' \in Seq(Nat) /\ Len(t2') = c /\ t2'[c] = rtc[c]
      /\ \A r \in 1 .. c - 1 : t2'[r] = t2[r]
  <2>1. Len(t2) + 1 = c
    BY <1>2, Registers
  <2>2. t2' = Append(t2, rtc[c]) /\ t2 \in Seq(Nat) /\ 1 .. c - 1 = 1 .. Len(t2)
    BY <1>1, <1>2, Zenon
  <2>3. /\ Append(t2, rtc[c]) \in Seq(Nat) /\ Len(Append(t2, rtc[c])) = Len(t2) + 1
        /\ Append(t2, rtc[c])[Len(t2) + 1] = rtc[c]
        /\ \A r \in 1 .. Len(t2) : Append(t2, rtc[c])[r] = t2[r]
    BY <1>6, <2>2, Appended, Zenon
  <2>. QED BY <2>1, <2>2, <2>3, Zenon
<1>8. PICK k \in 1 .. Len(past) : Before(k) /\ After(k)
  BY <1>2, Zenon
<1>9. k \in Nat /\ k <= k /\ k <= Len(Instants) /\ b \in k .. q
  BY <1>4
<1>10. Before(k)'
  BY <1>1, <1>3, <1>4, <1>8, <1>9, BeforeKept, Zenon
<1>11. After(k)'
  <2>. SUFFICES ASSUME NEW r \in 1 .. c
                PROVE  \E d \in k .. q : t2'[r] = Encode(Instants[d][r])
    BY <1>4, <1>7, Zenon DEF After
  <2>1. CASE r = c
    BY <1>5, <1>7, <1>9, <2>1, Zenon
  <2>2. CASE r # c
    <3>0. c \in Nat /\ Len(t2) = c - 1
      BY <1>2, Registers, SMT
    <3>1. r \in 1 .. c - 1
      BY <2>2, <3>0, SMT
    <3>2. r \in 1 .. Len(t2)
      BY <3>0, <3>1, Zenon
    <3>. QED BY <1>4, <1>7, <1>8, <3>1, <3>2, Zenon DEF After
  <2>. QED BY <2>1, <2>2, Zenon
<1>12. k \in 1 .. Len(past')
  BY <1>1, Zenon
<1>13. CASE c = Len(Radix)
  <2>1. clkAt'[1] = "cmp"
    BY <1>1, <1>2, <1>13
  <2>. QED BY <1>1, <1>2, <1>3, <1>7, <1>10, <1>11, <1>12, <1>13, <2>1, Zenon DEF ClockInv, FilledInv
<1>14. CASE c # Len(Radix)
  <2>1. clkAt'[1] = "t2" /\ clkAt'[2] = c + 1
    BY <1>1, <1>2, <1>14
  <2>2. c + 1 \in Reg /\ Len(t2') = (c + 1) - 1
    BY <1>7, <1>14, Registers
  <2>. QED BY <1>1, <1>2, <1>3, <1>7, <1>10, <1>11, <1>12, <2>1, <2>2, Zenon DEF ClockInv, FilledInv
<1>. QED BY <1>13, <1>14, Zenon

\* Both structures alike: each register shows what it showed at the test of
\* CMOS_UIP, when no update was going on.
LEMMA CompareKeeps ==
  ASSUME ClockInv, Compare
  PROVE  ClockInv'
<1>0. ChipInv /\ FilledInv /\ clkAt[1] = "cmp" /\ UNCHANGED <<rtc, now, uip>>
  BY Zenon DEF ClockInv, Compare
<1>1. CASE t1 # t2
  BY <1>0, <1>1, AgainKeeps, Zenon DEF Compare
<1>2. CASE t1 = t2
  <2>1. clkAt' = <<"conv", 0>> /\ UNCHANGED <<t1, t2, past>>
    BY <1>2, Zenon DEF Compare
  <2>2. ChipInv' /\ clkAt'[1] = "conv"
    BY <1>0, <2>1, ReaderKeeps
  <2>3. t1 \in Seq(Nat) /\ Len(t1) = Len(Radix) /\ \E k \in 1 .. Len(past) : Before(k) /\ After(k)
    BY <1>0, Zenon DEF FilledInv
  <2>4. PICK k \in 1 .. Len(past) : Before(k) /\ After(k)
    BY <2>3, Zenon
  <2>5. ASSUME NEW r \in Reg
        PROVE  t1[r] = Encode(past[k][r])
    <3>0. /\ r \in 1 .. Len(t1) /\ r \in 1 .. Len(t2)
          /\ Instants \in Seq(Instant) /\ Len(Instants) \in Nat /\ Len(past) \in Nat
          /\ Len(past) <= Len(Instants) /\ Instants[k] = past[k]
      <4>1. r \in 1 .. Len(t1) /\ r \in 1 .. Len(t2)
        BY <1>2, <2>3, Registers, Zenon
      <4>2. past \in Seq(Instant)
        BY <1>0, Zenon DEF ChipInv
      <4>3. Len(past) \in Nat
        BY <4>2
      <4>4. Len(Instants) \in Nat /\ Len(past) <= Len(Instants)
        BY <1>0, <4>3, InstantsAre
      <4>. QED BY <1>0, <4>1, <4>3, <4>4, InstantsAre, Zenon
    <3>1. PICK a \in 1 .. k : t1[r] = Encode(Instants[a][r])
      BY <2>4, <3>0, Zenon DEF Before
    <3>2. PICK b \in k .. Len(Instants) : t2[r] = Encode(Instants[b][r])
      BY <2>4, <3>0, Zenon DEF After
    <3>3. a \in 1 .. Len(Instants) /\ b \in 1 .. Len(Instants) /\ k \in a .. b
      BY <3>0
    <3>4. Instants[a][r] \in Nat /\ Instants[b][r] \in Nat
      <4>1. Instants[a] \in Instant /\ Instants[b] \in Instant
        BY <3>0, <3>3
      <4>. QED BY <4>1 DEF Instant
    <3>5. Instants[a][r] = Instants[b][r]
      <4>1. Conv(Encode(Instants[a][r])) = Instants[a][r] /\ Conv(Encode(Instants[b][r])) = Instants[b][r]
        BY <3>4, Decoded, Zenon
      <4>. QED BY <1>2, <3>1, <3>2, <4>1, Zenon
    <3>6. Instants[k][r] = Instants[a][r]
      BY <1>0, <3>3, <3>5, Stayed, Zenon
    <3>. QED BY <3>0, <3>1, <3>6, Zenon
  <2>6. \E j \in 1 .. Len(past') : \A r \in Reg : t1'[r] = Encode(past'[j][r])
    BY <2>1, <2>4, <2>5, Zenon
  <2>. QED BY <2>1, <2>2, <2>3, <2>6, Zenon DEF ClockInv, FilledInv
<1>. QED BY <1>1, <1>2, Zenon

LEMMA ConvertKeeps ==
  ASSUME ClockInv, Convert
  PROVE  ClockInv'
<1>0. /\ ChipInv /\ FilledInv /\ clkAt[1] = "conv" /\ UNCHANGED <<rtc, now, uip, past>>
      /\ t1' = [r \in Reg |-> Conv(t1[r])] /\ clkAt' = <<"done", 0>>
  BY Zenon DEF ClockInv, Convert
<1>1. ChipInv' /\ clkAt'[1] = "done"
  BY <1>0, ReaderKeeps
<1>2. PICK k \in 1 .. Len(past) : \A r \in Reg : t1[r] = Encode(past[k][r])
  BY <1>0, Zenon DEF FilledInv
<1>3. past[k] \in Instant
  BY <1>0 DEF ChipInv
<1>4. past[k] \in [Reg -> Nat]
  BY <1>3, Zenon DEF Instant
<1>5. \A r \in Reg : Conv(t1[r]) = past[k][r]
  BY <1>2, <1>4, Decoded, Zenon
<1>6. t1' = past[k]
  BY <1>0, <1>4, <1>5, Zenon
<1>. QED BY <1>0, <1>1, <1>6, Zenon DEF ClockInv, FilledInv

LEMMA ClockStep ==
  ASSUME ClockInv, [ClockNext]_clockVars
  PROVE  ClockInv'
<1>0. ChipInv /\ FilledInv
  BY Zenon DEF ClockInv
<1>1. CASE Announce \/ Update \/ Updated
  <2>1. ChipInv' /\ (clkAt[1] # "idle" => Longer)
    BY <1>0, <1>1, ChipKeeps, Zenon
  <2>2. UNCHANGED <<clkAt, t1, t2>>
    BY <1>1, Zenon DEF Announce, Update, Updated
  <2>. QED BY <1>0, <2>1, <2>2, ReadKept, Zenon DEF ClockInv
<1>2. CASE Cmostime
  BY <1>0, <1>2, AgainKeeps, Zenon DEF Cmostime
<1>3. CASE FillT1
  BY <1>3, FillT1Keeps, Zenon
<1>4. CASE TestUip
  BY <1>4, TestUipKeeps, Zenon
<1>5. CASE FillT2
  BY <1>5, FillT2Keeps, Zenon
<1>6. CASE Compare
  BY <1>6, CompareKeeps, Zenon
<1>7. CASE Convert
  BY <1>7, ConvertKeeps, Zenon
<1>8. CASE Return
  <2>1. ChipInv'
    BY <1>0, <1>8, ReaderKeeps, Zenon DEF Return
  <2>2. clkAt'[1] = "idle"
    BY <1>8 DEF Return
  <2>. QED BY <2>1, <2>2, Zenon DEF ClockInv, FilledInv
<1>9. CASE UNCHANGED clockVars
  <2>1. UNCHANGED <<rtc, now, uip, clkAt, t1, t2, past>>
    BY <1>9, Zenon DEF clockVars
  <2>2. ChipInv' /\ Longer
    BY <1>0, <2>1, ReaderKeeps, Zenon
  <2>. QED BY <1>0, <2>1, <2>2, ReadKept, Zenon DEF ClockInv
<1>. QED BY <1>1, <1>2, <1>3, <1>4, <1>5, <1>6, <1>7, <1>8, <1>9, Zenon DEF ClockNext

\* cmostime() never returns a mixture: whatever the chip does between two reads of
\* its registers, for every number of registers and every range of each, in BCD
\* or not, the date returned was the time at one instant since the reading began,
\* as long as no register turns round once while it is read twice.
THEOREM ClockRealInstant == ClockSpec => []RealInstant
<1>1. ClockInit => ClockInv
  <2>. SUFFICES ASSUME ClockInit
                PROVE  ClockInv
    OBVIOUS
  <2>1. /\ now = [r \in Reg |-> Radix[r] - 2] /\ rtc = [r \in Reg |-> Encode(now[r])]
        /\ uip = 0 /\ clkAt = <<"idle", 0>> /\ past = <<now>>
    BY Zenon DEF ClockInit
  <2>2. \A r \in Reg : Radix[r] - 2 \in Nat /\ Radix[r] - 2 < Radix[r] /\ ~(r < 0)
    BY Registers
  <2>3. now \in Instant
    BY <2>1, <2>2, Zenon DEF Instant
  <2>4. /\ past \in Seq(Instant) /\ Len(past) = 1 /\ past[1] = now /\ uip \in 0 .. Len(Radix) + 1
        /\ Len(past) > 0 /\ Len(past) <= MaxTicks + 1
        /\ \A j \in 1 .. Len(past) - 1 : Counts(past[j], past[j + 1])
    BY <2>1, <2>3, Registers
  <2>5. rtc = [r \in Reg |-> Encode(IF r < uip THEN Later[r] ELSE now[r])]
    BY <2>1, <2>2, Zenon
  <2>6. ChipInv
    BY <2>1, <2>3, <2>4, <2>5, Zenon DEF ChipInv
  <2>7. clkAt[1] = "idle"
    BY <2>1
  <2>. QED BY <2>6, <2>7, Zenon DEF ClockInv, FilledInv
<1>2. ClockInv => RealInstant
  <2>. SUFFICES ASSUME ClockInv, clkAt[1] = "done"
                PROVE  \E i \in DOMAIN past : past[i] = t1
    BY Zenon DEF RealInstant
  <2>1. PICK k \in 1 .. Len(past) : t1 = past[k]
    BY Zenon DEF ClockInv, FilledInv
  <2>2. DOMAIN past = 1 .. Len(past)
    BY DEF ClockInv, ChipInv
  <2>. QED BY <2>1, <2>2, Zenon
<1>. QED BY <1>1, <1>2, ClockStep, PTL DEF ClockSpec
=============================================================================
