------------------------------ MODULE BufProofs ------------------------------
(***************************************************************************)
(* Proofs about Buf for every number of processes, buffers and blocks.     *)
(***************************************************************************)
EXTENDS Buf, FiniteSetTheorems, TLAPS

\* p has the sleep lock of its buffer.
Holding(p) == bpc[p] \in {"locked", "disk", "disksleep", "held"}

\* p waits in iderw.
AtDisk(p) == bpc[p] \in {"disk", "disksleep"}

Queued == {idequeue[i] : i \in DOMAIN idequeue}

\* The types, but for lru: which of the unused buffers bget recycles makes no
\* difference to what a block holds.
BufTypes ==
  /\ blockno \in [Buffer -> Block \cup {NoBlock}]
  /\ refcnt \in [Buffer -> Nat]
  /\ data \in [Buffer -> Value] /\ sectors \in [Block -> Value]
  /\ B_VALID \subseteq Buffer /\ B_DIRTY \subseteq B_VALID
  /\ idequeue \in Seq(Buffer)
  /\ bpc \in [Client -> {"idle", "lock", "locksleep", "locked", "disk", "disksleep",
                         "held", "release"}]
  /\ bp \in [Client -> Buffer]

\* Two buffers have two blocks.
BlockInv == \A b, c \in Buffer : blockno[b] = blockno[c] /\ blockno[b] # NoBlock => b = c

\* Buffers in use are counted, and have a block.
UsedBy(b) == {p \in Client : bpc[p] # "idle" /\ bp[p] = b}
UseInv ==
  /\ \A b \in Buffer : refcnt[b] = Cardinality(UsedBy(b))
  /\ \A p \in Client : bpc[p] # "idle" => blockno[bp[p]] \in Block

\* A sleep lock has one holder.
LockInv ==
  /\ locked = {bp[p] : p \in {q \in Client : Holding(q)}}
  /\ \A p, q \in Client : Holding(p) /\ Holding(q) /\ bp[p] = bp[q] => p = q

\* Who has a buffer to use has a valid one.
ValidInv == \A p \in Client : bpc[p] = "held" => bp[p] \in B_VALID

\* The disk has the first request of the queue, and the queue is of buffers
\* that their holders wait for.
QueueInv ==
  /\ \A i, j \in DOMAIN idequeue : idequeue[i] = idequeue[j] => i = j
  /\ Queued = {bp[p] : p \in {q \in Client : AtDisk(q) /\ bp[q] \notin B_VALID \ B_DIRTY}}
  /\ dev = IF idequeue = <<>> THEN <<>>
           ELSE Command(Head(idequeue), blockno[Head(idequeue)], data[Head(idequeue)],
                        Head(idequeue) \in B_DIRTY)

\* A clean buffer has what the disk has.
CleanInv == \A b \in B_VALID \ B_DIRTY : blockno[b] \in Block => data[b] = sectors[blockno[b]]

\* The buffers that the log has pinned, but for those on their way to disk.
Pinned == B_DIRTY \ {bp[p] : p \in {q \in Client : AtDisk(q)}}
PinInv == Cardinality(Pinned) <= MaxPinned

BufInv ==
  /\ BufTypes /\ BlockInv /\ UseInv /\ LockInv /\ ValidInv /\ QueueInv /\ CleanInv /\ PinInv

-----------------------------------------------------------------------------
(***************************************************************************)
(* The disk queue.                                                         *)
(***************************************************************************)
Members(s) == {s[i] : i \in DOMAIN s}
Distinct(s) == \A i, j \in DOMAIN s : s[i] = s[j] => i = j

LEMMA NoneLeft ==
  ASSUME NEW S, NEW t \in Seq(S)
  PROVE  t = <<>> <=> Len(t) = 0
OBVIOUS

LEMMA Appended ==
  ASSUME NEW s \in Seq(Buffer), NEW b \in Buffer \ Members(s), Distinct(s)
  PROVE  /\ Append(s, b) \in Seq(Buffer) /\ Append(s, b) # <<>>
         /\ Members(Append(s, b)) = Members(s) \cup {b} /\ Distinct(Append(s, b))
         /\ Head(Append(s, b)) = IF s = <<>> THEN b ELSE Head(s)
<1>1. /\ Append(s, b) \in Seq(Buffer) /\ Len(Append(s, b)) = Len(s) + 1 /\ Len(s) \in Nat
      /\ \A i \in 1 .. Len(s) : Append(s, b)[i] = s[i]
      /\ Append(s, b)[Len(s) + 1] = b
      /\ DOMAIN s = 1 .. Len(s) /\ DOMAIN Append(s, b) = 1 .. Len(s) + 1
  OBVIOUS
<1>2. Members(Append(s, b)) = Members(s) \cup {b}
  <2>1. ASSUME NEW x \in Members(s)
        PROVE  x \in Members(Append(s, b))
    <3>1. PICK i \in 1 .. Len(s) : s[i] = x
      BY <1>1, Zenon DEF Members
    <3>2. i \in 1 .. Len(s) + 1 /\ Append(s, b)[i] = x
      BY <1>1, <3>1
    <3>. QED BY <1>1, <3>2, Zenon DEF Members
  <2>2. b \in Members(Append(s, b))
    <3>1. Len(s) + 1 \in 1 .. Len(s) + 1
      BY <1>1
    <3>. QED BY <1>1, <3>1, Zenon DEF Members
  <2>3. ASSUME NEW x \in Members(Append(s, b))
        PROVE  x \in Members(s) \cup {b}
    <3>1. PICK i \in 1 .. Len(s) + 1 : Append(s, b)[i] = x
      BY <1>1, Zenon DEF Members
    <3>2. i = Len(s) + 1 \/ i \in 1 .. Len(s)
      BY <1>1
    <3>. QED BY <1>1, <3>1, <3>2, Zenon DEF Members
  <2>. QED BY <2>1, <2>2, <2>3, Zenon
<1>3. Distinct(Append(s, b))
  <2>. SUFFICES ASSUME NEW i \in 1 .. Len(s) + 1, NEW j \in 1 .. Len(s) + 1,
                       Append(s, b)[i] = Append(s, b)[j]
                PROVE  i = j
    BY <1>1, Zenon DEF Distinct
  <2>1. /\ i \in 1 .. Len(s) \/ i = Len(s) + 1
        /\ j \in 1 .. Len(s) \/ j = Len(s) + 1
    BY <1>1
  <2>2. \A k \in 1 .. Len(s) : s[k] # b
    BY <1>1, Zenon DEF Members
  <2>. QED BY <1>1, <2>1, <2>2, Zenon DEF Distinct
<1>4. Head(Append(s, b)) = IF s = <<>> THEN b ELSE Head(s)
  BY <1>1
<1>. QED BY <1>1, <1>2, <1>3, <1>4

LEMMA TakenOff ==
  ASSUME NEW s \in Seq(Buffer), s # <<>>, Distinct(s)
  PROVE  /\ Head(s) \in Members(s) /\ Head(s) \in Buffer /\ Tail(s) \in Seq(Buffer)
         /\ Members(Tail(s)) = Members(s) \ {Head(s)} /\ Distinct(Tail(s))
         /\ Tail(s) = <<>> <=> Len(s) = 1
         /\ Tail(s) # <<>> => Head(Tail(s)) = s[2] /\ s[2] \in Members(s) \ {Head(s)}
<1>1. /\ Len(s) \in Nat /\ Len(s) >= 1 /\ DOMAIN s = 1 .. Len(s) /\ Head(s) = s[1] /\ Head(s) \in Buffer
      /\ Tail(s) \in Seq(Buffer) /\ Len(Tail(s)) = Len(s) - 1 /\ DOMAIN Tail(s) = 1 .. Len(s) - 1
      /\ \A i \in 1 .. Len(s) - 1 : Tail(s)[i] = s[i + 1]
  OBVIOUS
<1>2. Members(Tail(s)) = Members(s) \ {Head(s)}
  <2>1. ASSUME NEW x \in Members(Tail(s))
        PROVE  x \in Members(s) \ {Head(s)}
    <3>1. PICK i \in 1 .. Len(s) - 1 : Tail(s)[i] = x
      BY <1>1, Zenon DEF Members
    <3>2. i + 1 \in 1 .. Len(s) /\ 1 \in 1 .. Len(s) /\ i + 1 # 1 /\ s[i + 1] = x
      BY <1>1, <3>1
    <3>. QED BY <1>1, <3>2, Zenon DEF Members, Distinct
  <2>2. ASSUME NEW x \in Members(s) \ {Head(s)}
        PROVE  x \in Members(Tail(s))
    <3>1. PICK i \in 1 .. Len(s) : s[i] = x
      BY <1>1, Zenon DEF Members
    <3>2. i - 1 \in 1 .. Len(s) - 1 /\ (i - 1) + 1 = i
      BY <1>1, <3>1
    <3>3. Tail(s)[i - 1] = x
      BY <1>1, <3>1, <3>2, Zenon
    <3>. QED BY <1>1, <3>2, <3>3, Zenon DEF Members
  <2>. QED BY <2>1, <2>2, Zenon
<1>3. Distinct(Tail(s))
  <2>. SUFFICES ASSUME NEW i \in 1 .. Len(s) - 1, NEW j \in 1 .. Len(s) - 1, Tail(s)[i] = Tail(s)[j]
                PROVE  i = j
    BY <1>1, Zenon DEF Distinct
  <2>1. i + 1 \in 1 .. Len(s) /\ j + 1 \in 1 .. Len(s) /\ s[i + 1] = s[j + 1]
    BY <1>1
  <2>2. i + 1 = j + 1
    BY <1>1, <2>1, Zenon DEF Distinct
  <2>. QED BY <2>2
<1>4. Tail(s) = <<>> <=> Len(s) = 1
  <2>1. PICK t \in Seq(Buffer) : t = Tail(s)
    BY <1>1, Zenon
  <2>2. t = <<>> <=> Len(t) = 0
    BY NoneLeft, Zenon
  <2>. QED BY <1>1, <2>1, <2>2
<1>5. ASSUME Tail(s) # <<>>
      PROVE  Head(Tail(s)) = s[2] /\ s[2] \in Members(s) \ {Head(s)}
  <2>1. 2 \in 1 .. Len(s) /\ 1 \in 1 .. Len(s) - 1
    BY <1>1, <1>4, <1>5
  <2>2. Head(Tail(s)) = Tail(s)[1]
    BY <1>1, <1>5
  <2>. QED BY <1>1, <2>1, <2>2 DEF Members, Distinct
<1>6. Head(s) \in Members(s)
  BY <1>1 DEF Members
<1>. QED BY <1>1, <1>2, <1>3, <1>4, <1>5, <1>6, Zenon

-----------------------------------------------------------------------------
(***************************************************************************)
(* What a block holds and who uses it.                                     *)
(***************************************************************************)
SeenIn(valid, n, d, s, k) ==
  LET bs == {b \in valid : n[b] = k}
  IN  IF bs = {} THEN s[k] ELSE d[CHOOSE b \in bs : TRUE]

LEMMA SeenIs ==
  ASSUME NEW valid, NEW n, NEW d, NEW s, NEW k,
         \A b, c \in valid : n[b] = k /\ n[c] = k => b = c
  PROVE  /\ (\A b \in valid : n[b] # k) => SeenIn(valid, n, d, s, k) = s[k]
         /\ \A b \in valid : n[b] = k => SeenIn(valid, n, d, s, k) = d[b]
<1>1. ASSUME NEW b \in valid, n[b] = k
      PROVE  SeenIn(valid, n, d, s, k) = d[b]
  <2>1. {c \in valid : n[c] = k} = {b}
    BY <1>1, Zenon
  <2>2. (CHOOSE c \in {b} : TRUE) = b
    BY Zenon
  <2>. QED BY <2>1, <2>2, Zenon DEF SeenIn
<1>. QED BY <1>1, Zenon DEF SeenIn

LEMMA SeenFacts ==
  /\ \A k : Seen(k) = SeenIn(B_VALID, blockno, data, sectors, k)
  /\ \A k : Seen(k)' = SeenIn(B_VALID', blockno', data', sectors', k)
BY Zenon DEF Seen, SeenIn

LEMMA UsersFacts ==
  /\ \A k : Users(k) = {p \in Client : Holding(p) /\ blockno[bp[p]] = k}
  /\ \A k : Users(k)' = {p \in Client : Holding(p)' /\ blockno'[bp'[p]] = k}
BY Zenon DEF Users, Holders, Holding

\* Blocks and their users are what they were.
LEMMA StoreStutters ==
  ASSUME \A k \in Block : Seen(k)' = Seen(k) /\ Users(k)' = Users(k)
  PROVE  [BS!Next]_<<[k \in Block |-> Seen(k)], [k \in Block |-> Users(k)]>>
<1>1. [k \in Block |-> Seen(k)]' = [k \in Block |-> Seen(k)]
  BY Zenon
<1>2. [k \in Block |-> Users(k)]' = [k \in Block |-> Users(k)]
  BY Zenon
<1>. QED BY <1>1, <1>2, Zenon

-----------------------------------------------------------------------------
(***************************************************************************)
(* Each step keeps the invariant and is a step of the store or none.       *)
(***************************************************************************)
StoreStep == [BS!Next]_<<[k \in Block |-> Seen(k)], [k \in Block |-> Users(k)]>>

LEMMA Finite ==
  ASSUME NEW b
  PROVE  /\ IsFiniteSet(UsedBy(b)) /\ Cardinality(UsedBy(b)) \in Nat
         /\ B_DIRTY \subseteq Buffer => /\ IsFiniteSet(B_DIRTY) /\ Cardinality(B_DIRTY) \in Nat
                                        /\ IsFiniteSet(Pinned) /\ Cardinality(Pinned) \in Nat
<1>1. UsedBy(b) \in SUBSET Client
  BY Zenon DEF UsedBy
<1>2. B_DIRTY \subseteq Buffer => B_DIRTY \in SUBSET Buffer /\ Pinned \in SUBSET Buffer
  BY Zenon DEF Pinned
<1>. QED BY <1>1, <1>2, BufAssumption, FS_Subset, FS_CardinalityType, Zenon

\* Only the places of processes change, and none takes or leaves a lock or a
\* buffer: going to sleep, waking up, finding a buffer valid.
LEMMA PlacesMove ==
  ASSUME BufInv, UNCHANGED <<bufFields, locked, idequeue, sectors, dev, bp>>,
         bpc' \in [Client -> {"idle", "lock", "locksleep", "locked", "disk", "disksleep",
                              "held", "release"}],
         \A q \in Client : /\ Holding(q)' <=> Holding(q)
                           /\ bpc'[q] = "idle" <=> bpc[q] = "idle"
                           /\ (AtDisk(q)' <=> AtDisk(q)) \/ bp[q] \in B_VALID \ B_DIRTY
                           /\ bpc'[q] = "held" => bp[q] \in B_VALID
  PROVE  BufInv' /\ StoreStep
<1>. USE DEF bufFields
<1>1. BufTypes' /\ BlockInv' /\ ValidInv' /\ CleanInv'
  BY Zenon DEF BufInv, BufTypes, BlockInv, ValidInv, CleanInv
<1>2. UseInv'
  <2>1. \A b : UsedBy(b)' = UsedBy(b)
    BY Zenon DEF UsedBy
  <2>. QED BY <2>1, Zenon DEF BufInv, UseInv
<1>3. LockInv'
  BY DEF BufInv, LockInv
<1>4. QueueInv'
  <2>1. {q \in Client : AtDisk(q) /\ bp[q] \notin B_VALID \ B_DIRTY}' =
        {q \in Client : AtDisk(q) /\ bp[q] \notin B_VALID \ B_DIRTY}
    BY Zenon
  <2>. QED BY <2>1, SMTT(30) DEF BufInv, QueueInv, Queued
<1>5. PinInv'
  <2>1. Pinned' = Pinned
    BY Zenon DEF Pinned
  <2>. QED BY <2>1, Zenon DEF BufInv, PinInv
<1>6. \A k \in Block : Seen(k)' = Seen(k) /\ Users(k)' = Users(k)
  BY SeenFacts, UsersFacts, Zenon
<1>. QED BY <1>1, <1>2, <1>3, <1>4, <1>5, <1>6, StoreStutters, Zenon DEF BufInv, StoreStep

LEMMA BreadValidKeeps ==
  ASSUME BufInv, NEW p \in Client, BreadValid(p)
  PROVE  BufInv' /\ StoreStep
<1>1. bpc \in [Client -> {"idle", "lock", "locksleep", "locked", "disk", "disksleep",
                          "held", "release"}]
  BY Zenon DEF BufInv, BufTypes
<1>2. /\ bpc[p] = "locked" /\ bp[p] \in B_VALID /\ bpc' = [bpc EXCEPT ![p] = "held"]
      /\ UNCHANGED <<bufFields, locked, idequeue, sectors, dev, bp>>
  BY Zenon DEF BreadValid
<1>3. bpc'[p] = "held" /\ \A q \in Client \ {p} : bpc'[q] = bpc[q]
  BY <1>1, <1>2, Zenon
<1>. QED BY <1>1, <1>2, <1>3, PlacesMove, Zenon DEF Holding, AtDisk, BufInv, ValidInv

LEMMA IderwCheckKeeps ==
  ASSUME BufInv, NEW p \in Client, IderwCheck(p)
  PROVE  BufInv' /\ StoreStep
<1>1. bpc \in [Client -> {"idle", "lock", "locksleep", "locked", "disk", "disksleep",
                          "held", "release"}]
  BY Zenon DEF BufInv, BufTypes
<1>2. /\ bpc[p] = "disk" /\ UNCHANGED <<bufFields, locked, idequeue, sectors, dev, bp>>
      /\ bpc' = [bpc EXCEPT ![p] = IF bp[p] \in B_VALID \ B_DIRTY THEN "held" ELSE "disksleep"]
  BY Zenon DEF IderwCheck
<1>3. /\ bpc'[p] = IF bp[p] \in B_VALID \ B_DIRTY THEN "held" ELSE "disksleep"
      /\ \A q \in Client \ {p} : bpc'[q] = bpc[q]
  BY <1>1, <1>2, Zenon
<1>. QED BY <1>1, <1>2, <1>3, PlacesMove, Zenon DEF Holding, AtDisk, BufInv, ValidInv

LEMMA WakeEarlyKeeps ==
  ASSUME BufInv, NEW p \in Client, WakeEarly(p)
  PROVE  BufInv' /\ StoreStep
<1>1. bpc \in [Client -> {"idle", "lock", "locksleep", "locked", "disk", "disksleep",
                          "held", "release"}]
  BY Zenon DEF BufInv, BufTypes
<1>2. /\ bpc[p] \in {"locksleep", "disksleep"} /\ UNCHANGED <<bufFields, locked, idequeue, sectors, dev, bp>>
      /\ bpc' = BufWoken({p})
  BY Zenon DEF WakeEarly
<1>3. /\ bpc'[p] = IF bpc[p] = "locksleep" THEN "lock" ELSE "disk"
      /\ \A q \in Client \ {p} : bpc'[q] = bpc[q]
      /\ bpc' \in [Client -> {"idle", "lock", "locksleep", "locked", "disk", "disksleep",
                              "held", "release"}]
  BY <1>1, <1>2, Zenon DEF BufWoken
<1>. QED BY <1>1, <1>2, <1>3, PlacesMove, Zenon DEF Holding, AtDisk, BufInv, ValidInv

\* acquiresleep.
LEMMA AcquireSleepKeeps ==
  ASSUME BufInv, NEW p \in Client, AcquireSleep(p)
  PROVE  BufInv' /\ StoreStep
<1>0. bpc \in [Client -> {"idle", "lock", "locksleep", "locked", "disk", "disksleep",
                          "held", "release"}]
  BY Zenon DEF BufInv, BufTypes
<1>a. PICK b \in Buffer : b = bp[p]
  BY Zenon DEF BufInv, BufTypes
<1>1. CASE b \in locked
  <2>1. /\ bpc[p] = "lock" /\ bpc' = [bpc EXCEPT ![p] = "locksleep"]
        /\ UNCHANGED <<bufFields, locked, idequeue, sectors, dev, bp>>
    BY <1>1, <1>a, Zenon DEF AcquireSleep
  <2>2. bpc'[p] = "locksleep" /\ \A q \in Client \ {p} : bpc'[q] = bpc[q]
    BY <1>0, <2>1, Zenon
  <2>. QED BY <1>0, <2>1, <2>2, PlacesMove, Zenon DEF Holding, AtDisk, BufInv, ValidInv
<1>2. CASE b \notin locked
  <2>1. /\ bpc[p] = "lock" /\ bpc' = [bpc EXCEPT ![p] = "locked"] /\ locked' = locked \cup {b}
        /\ UNCHANGED <<bufFields, idequeue, sectors, dev, bp>>
    BY <1>2, <1>a, Zenon DEF AcquireSleep
  <2>2. /\ bpc'[p] = "locked" /\ \A q \in Client \ {p} : bpc'[q] = bpc[q]
        /\ bpc' \in [Client -> {"idle", "lock", "locksleep", "locked", "disk", "disksleep",
                                "held", "release"}]
    BY <1>0, <2>1, Zenon
  <2>3. /\ \A q \in Client : AtDisk(q)' <=> AtDisk(q)
        /\ \A q \in Client \ {p} : Holding(q)' <=> Holding(q)
        /\ Holding(p)' /\ ~Holding(p)
    BY <2>1, <2>2, Zenon DEF AtDisk, Holding
  <2>. USE DEF bufFields
  <2>4. BufTypes' /\ BlockInv' /\ ValidInv' /\ CleanInv'
    BY <2>1, <2>2, Zenon DEF BufInv, BufTypes, BlockInv, ValidInv, CleanInv
  <2>5. UseInv'
    <3>1. \A x : UsedBy(x)' = UsedBy(x)
      BY <2>1, <2>2, Zenon DEF UsedBy
    <3>. QED BY <2>1, <2>2, <3>1, Zenon DEF BufInv, UseInv
  <2>6. \A q \in Client : Holding(q) => bp[q] # b
    BY <1>2, Zenon DEF BufInv, LockInv
  <2>7. LockInv'
    <3>1. \A q \in Client, r \in Client : Holding(q)' /\ Holding(r)' /\ bp[q] = bp[r] => q = r
      BY <1>a, <2>3, <2>6, Zenon DEF BufInv, LockInv
    <3>2. locked' = {bp[q] : q \in {r \in Client : Holding(r)'}}
      BY <1>a, <2>1, <2>3, Zenon DEF BufInv, LockInv
    <3>. QED BY <2>1, <3>1, <3>2, Zenon DEF LockInv
  <2>8. QueueInv'
    <3>1. {q \in Client : AtDisk(q) /\ bp[q] \notin B_VALID \ B_DIRTY}' =
          {q \in Client : AtDisk(q) /\ bp[q] \notin B_VALID \ B_DIRTY}
      BY <2>1, <2>3, Zenon
    <3>. QED BY <2>1, <3>1, Zenon DEF BufInv, QueueInv, Queued
  <2>9. PinInv'
    <3>1. Pinned' = Pinned
      BY <2>1, <2>3, Zenon DEF Pinned
    <3>. QED BY <3>1, Zenon DEF BufInv, PinInv
  <2>10. StoreStep
    <3>a. PICK k \in Block : k = blockno[b]
      BY <1>a, <2>1, Zenon DEF BufInv, UseInv
    <3>1. \A j \in Block : Seen(j)' = Seen(j)
      BY <2>1, SeenFacts, Zenon
    <3>2. Users(k) = {}
      <4>1. \A q \in Client : blockno[bp[q]] = k => bp[q] = b
        BY <3>a, BufAssumption, Zenon DEF BufInv, BufTypes, BlockInv
      <4>. QED BY <2>6, <4>1, UsersFacts, Zenon
    <3>3. Users(k)' = {p} /\ \A j \in Block \ {k} : Users(j)' = Users(j)
      BY <1>a, <2>1, <2>3, <3>a, <3>2, UsersFacts, Zenon
    <3>4. [j \in Block |-> Users(j)]' = [[j \in Block |-> Users(j)] EXCEPT ![k] = {p}]
      BY <3>3, Zenon
    <3>5. [j \in Block |-> Seen(j)]' = [j \in Block |-> Seen(j)]
      BY <3>1, Zenon
    <3>6. BS!Take(p, k)
      BY <3>2, <3>4, <3>5, Zenon DEF BS!Take
    <3>. QED BY <3>6, Zenon DEF BS!Next, StoreStep
  <2>. QED BY <2>4, <2>5, <2>7, <2>8, <2>9, <2>10, Zenon DEF BufInv
<1>. QED BY <1>1, <1>2, Zenon

\* What a block holds before and after a step.
LEMMA SeenNow ==
  ASSUME BufTypes, BlockInv, NEW k \in Block
  PROVE  /\ (\A b \in B_VALID : blockno[b] # k) => Seen(k) = sectors[k]
         /\ \A b \in B_VALID : blockno[b] = k => Seen(k) = data[b]
<1>1. \A b, c \in B_VALID : blockno[b] = k /\ blockno[c] = k => b = c
  BY BufAssumption, Zenon DEF BufTypes, BlockInv
<1>. QED BY <1>1, SeenIs, SeenFacts

LEMMA SeenThen ==
  ASSUME BufTypes', BlockInv', NEW k \in Block
  PROVE  /\ (\A b \in B_VALID' : blockno'[b] # k) => Seen(k)' = sectors'[k]
         /\ \A b \in B_VALID' : blockno'[b] = k => Seen(k)' = data'[b]
<1>1. \A b, c \in B_VALID' : blockno'[b] = k /\ blockno'[c] = k => b = c
  BY BufAssumption, Zenon DEF BufTypes, BlockInv
<1>. QED BY <1>1, SeenIs, SeenFacts

\* A process starts on a buffer: one more user of that one.
LEMMA OneMoreUser ==
  ASSUME BufInv, NEW p \in Client, NEW b \in Buffer, bpc[p] = "idle",
         bpc' = [bpc EXCEPT ![p] = "lock"], bp' = [bp EXCEPT ![p] = b]
  PROVE  /\ \A q \in Client \ {p} : bpc'[q] = bpc[q] /\ bp'[q] = bp[q]
         /\ bpc'[p] = "lock" /\ bp'[p] = b
         /\ \A q \in Client : Holding(q)' <=> Holding(q)
         /\ \A q \in Client : AtDisk(q)' <=> AtDisk(q)
         /\ \A q \in Client : Holding(q) \/ AtDisk(q) => bpc[q] # "idle" /\ bp'[q] = bp[q]
         /\ Cardinality(UsedBy(b)') = Cardinality(UsedBy(b)) + 1
         /\ \A c \in Buffer \ {b} : UsedBy(c)' = UsedBy(c)
<1>0. bpc \in [Client -> {"idle", "lock", "locksleep", "locked", "disk", "disksleep",
                          "held", "release"}] /\ bp \in [Client -> Buffer]
  BY Zenon DEF BufInv, BufTypes
<1>1. /\ \A q \in Client \ {p} : bpc'[q] = bpc[q] /\ bp'[q] = bp[q]
      /\ bpc'[p] = "lock" /\ bp'[p] = b
  BY <1>0, Zenon
<1>2. /\ \A q \in Client : Holding(q)' <=> Holding(q)
      /\ \A q \in Client : AtDisk(q)' <=> AtDisk(q)
      /\ \A q \in Client : Holding(q) \/ AtDisk(q) => bpc[q] # "idle" /\ bp'[q] = bp[q]
  BY <1>1, Zenon DEF Holding, AtDisk
<1>3. UsedBy(b)' = UsedBy(b) \cup {p} /\ p \notin UsedBy(b)
  BY <1>1, Zenon DEF UsedBy
<1>4. \A c \in Buffer \ {b} : UsedBy(c)' = UsedBy(c)
  BY <1>1, Zenon DEF UsedBy
<1>5. Cardinality(UsedBy(b)') = Cardinality(UsedBy(b)) + 1
  BY <1>3, Finite, FS_AddElement, Zenon
<1>. QED BY <1>1, <1>2, <1>4, <1>5, Zenon

LEMMA BgetHitKeeps ==
  ASSUME BufInv, NEW p \in Client, NEW k \in Block, BgetHit(p, k)
  PROVE  BufInv' /\ StoreStep
<1>. USE DEF bufFields
<1>a. PICK b \in Buffer : /\ blockno[b] = k /\ refcnt' = [refcnt EXCEPT ![b] = @ + 1]
                          /\ bp' = [bp EXCEPT ![p] = b]
  BY Zenon DEF BgetHit
<1>b. /\ bpc[p] = "idle" /\ bpc' = [bpc EXCEPT ![p] = "lock"]
      /\ UNCHANGED <<blockno, data, B_VALID, B_DIRTY, locked, idequeue, sectors, dev>>
  BY Zenon DEF BgetHit
<1>1. /\ \A q \in Client \ {p} : bpc'[q] = bpc[q] /\ bp'[q] = bp[q]
      /\ bpc'[p] = "lock" /\ bp'[p] = b
      /\ \A q \in Client : Holding(q)' <=> Holding(q)
      /\ \A q \in Client : AtDisk(q)' <=> AtDisk(q)
      /\ \A q \in Client : Holding(q) \/ AtDisk(q) => bpc[q] # "idle" /\ bp'[q] = bp[q]
      /\ Cardinality(UsedBy(b)') = Cardinality(UsedBy(b)) + 1
      /\ \A c \in Buffer \ {b} : UsedBy(c)' = UsedBy(c)
  BY <1>a, <1>b, OneMoreUser, Zenon
<1>2. BufTypes'
  BY <1>a, <1>b DEF BufInv, BufTypes
<1>3. BlockInv' /\ CleanInv' /\ ValidInv'
  BY <1>b, <1>1, Zenon DEF BufInv, BlockInv, CleanInv, ValidInv
<1>4. UseInv'
  <2>1. refcnt'[b] = refcnt[b] + 1 /\ \A c \in Buffer \ {b} : refcnt'[c] = refcnt[c]
    BY <1>a, Zenon DEF BufInv, BufTypes
  <2>2. \A c \in Buffer : refcnt'[c] = Cardinality(UsedBy(c)')
    BY <1>1, <2>1, Zenon DEF BufInv, UseInv
  <2>3. \A q \in Client : bpc'[q] # "idle" => blockno'[bp'[q]] \in Block
    BY <1>a, <1>b, <1>1, Zenon DEF BufInv, UseInv
  <2>. QED BY <2>2, <2>3, Zenon DEF UseInv
<1>5. LockInv'
  <2>1. {bp'[q] : q \in {r \in Client : Holding(r)'}} = {bp[q] : q \in {r \in Client : Holding(r)}}
    BY <1>1, Zenon
  <2>2. \A q, r \in Client : Holding(q)' /\ Holding(r)' /\ bp'[q] = bp'[r] => q = r
    BY <1>1, Zenon DEF BufInv, LockInv
  <2>. QED BY <1>b, <2>1, <2>2, Zenon DEF BufInv, LockInv
<1>6. QueueInv'
  <2>1. {bp'[q] : q \in {r \in Client : AtDisk(r)' /\ bp'[r] \notin B_VALID \ B_DIRTY}} =
        {bp[q] : q \in {r \in Client : AtDisk(r) /\ bp[r] \notin B_VALID \ B_DIRTY}}
    BY <1>1, Zenon
  <2>. QED BY <1>b, <2>1, ZenonT(30) DEF BufInv, QueueInv, Queued
<1>7. PinInv'
  <2>1. Pinned' = Pinned
    BY <1>b, <1>1, Zenon DEF Pinned
  <2>. QED BY <2>1, Zenon DEF BufInv, PinInv
<1>8. StoreStep
  <2>1. \A j \in Block : Seen(j)' = Seen(j) /\ Users(j)' = Users(j)
    BY <1>b, <1>1, SeenFacts, UsersFacts, Zenon
  <2>. QED BY <2>1, StoreStutters, Zenon DEF StoreStep
<1>. QED BY <1>2, <1>3, <1>4, <1>5, <1>6, <1>7, <1>8, Zenon DEF BufInv

\* The buffer that is recycled has no user, and the disk has what it held.
LEMMA BgetRecycleKeeps ==
  ASSUME BufInv, NEW p \in Client, NEW k \in Block, BgetRecycle(p, k)
  PROVE  BufInv' /\ StoreStep
<1>. USE DEF bufFields
<1>a. PICK b \in Buffer : /\ Victim(b) /\ blockno' = [blockno EXCEPT ![b] = k]
                          /\ refcnt' = [refcnt EXCEPT ![b] = 1]
                          /\ B_VALID' = B_VALID \ {b} /\ B_DIRTY' = B_DIRTY \ {b}
                          /\ bp' = [bp EXCEPT ![p] = b]
  BY Zenon DEF BgetRecycle
<1>b. /\ bpc[p] = "idle" /\ bpc' = [bpc EXCEPT ![p] = "lock"]
      /\ \A c \in Buffer : blockno[c] # k
      /\ UNCHANGED <<data, locked, idequeue, sectors, dev>>
  BY Zenon DEF BgetRecycle
<1>1. /\ \A q \in Client \ {p} : bpc'[q] = bpc[q] /\ bp'[q] = bp[q]
      /\ bpc'[p] = "lock" /\ bp'[p] = b
      /\ \A q \in Client : Holding(q)' <=> Holding(q)
      /\ \A q \in Client : AtDisk(q)' <=> AtDisk(q)
      /\ \A q \in Client : Holding(q) \/ AtDisk(q) => bpc[q] # "idle" /\ bp'[q] = bp[q]
      /\ Cardinality(UsedBy(b)') = Cardinality(UsedBy(b)) + 1
      /\ \A c \in Buffer \ {b} : UsedBy(c)' = UsedBy(c)
  BY <1>a, <1>b, OneMoreUser, Zenon
<1>c. refcnt[b] = 0 /\ b \notin B_DIRTY /\ B_DIRTY' = B_DIRTY
  BY <1>a, Zenon DEF Victim, Recyclable
<1>d. \A q \in Client : bpc[q] # "idle" => bp[q] # b
  <2>1. Cardinality(UsedBy(b)) = 0
    BY <1>c, Zenon DEF BufInv, UseInv
  <2>2. UsedBy(b) = {}
    BY <2>1, Finite, FS_EmptySet, Zenon
  <2>. QED BY <2>2, Zenon DEF UsedBy
<1>e. blockno'[b] = k /\ \A c \in Buffer \ {b} : blockno'[c] = blockno[c]
  BY <1>a, Zenon DEF BufInv, BufTypes
<1>2. BufTypes'
  BY <1>a, <1>b, <1>c, Zenon DEF BufInv, BufTypes
<1>3. BlockInv'
  BY <1>b, <1>e, Zenon DEF BufInv, BlockInv
<1>4. CleanInv'
  BY <1>a, <1>b, <1>c, <1>e, Zenon DEF BufInv, CleanInv, BufTypes
<1>5. ValidInv'
  BY <1>a, <1>d, <1>1 DEF BufInv, ValidInv
<1>6. UseInv'
  <2>1. refcnt'[b] = 1 /\ \A c \in Buffer \ {b} : refcnt'[c] = refcnt[c]
    BY <1>a, Zenon DEF BufInv, BufTypes
  <2>2. \A c \in Buffer : refcnt'[c] = Cardinality(UsedBy(c)')
    BY <1>1, <1>c, <2>1 DEF BufInv, UseInv
  <2>3. \A q \in Client : bpc'[q] # "idle" => blockno'[bp'[q]] \in Block
    BY <1>d, <1>e, <1>1, ZenonT(30) DEF BufInv, UseInv, BufTypes
  <2>. QED BY <2>2, <2>3, Zenon DEF UseInv
<1>7. LockInv'
  <2>1. {bp'[q] : q \in {r \in Client : Holding(r)'}} = {bp[q] : q \in {r \in Client : Holding(r)}}
    BY <1>1, Zenon
  <2>2. \A q, r \in Client : Holding(q)' /\ Holding(r)' /\ bp'[q] = bp'[r] => q = r
    BY <1>1, Zenon DEF BufInv, LockInv
  <2>. QED BY <1>b, <2>1, <2>2, Zenon DEF BufInv, LockInv
<1>8. QueueInv'
  <2>1. {bp'[q] : q \in {r \in Client : AtDisk(r)' /\ bp'[r] \notin B_VALID' \ B_DIRTY'}} =
        {bp[q] : q \in {r \in Client : AtDisk(r) /\ bp[r] \notin B_VALID \ B_DIRTY}}
    BY <1>a, <1>c, <1>d, <1>1
  <2>2. b \notin Queued
    BY <1>d, <1>1, Zenon DEF BufInv, QueueInv
  <2>3. idequeue # <<>> => Head(idequeue) \in Queued /\ Head(idequeue) \in Buffer
    <3>1. idequeue # <<>> => Head(idequeue) \in Members(idequeue) /\ Head(idequeue) \in Buffer
      BY TakenOff, Zenon DEF BufInv, BufTypes, QueueInv, Distinct
    <3>. QED BY <3>1, Zenon DEF Members, Queued
  <2>4. idequeue # <<>> => blockno'[Head(idequeue)] = blockno[Head(idequeue)]
    BY <1>e, <2>2, <2>3, Zenon
  <2>. QED BY <1>b, <1>c, <2>1, <2>4, Zenon DEF BufInv, QueueInv, Queued
<1>9. PinInv'
  <2>1. Pinned' = Pinned
    BY <1>c, <1>1, Zenon DEF Pinned
  <2>. QED BY <2>1, Zenon DEF BufInv, PinInv
<1>10. StoreStep
  <2>0. \A q \in Client : Holding(q) => blockno'[bp'[q]] = blockno[bp[q]]
    BY <1>d, <1>e, <1>1, Zenon DEF BufInv, BufTypes
  <2>1. \A j \in Block : Users(j)' = Users(j)
    BY <1>1, <2>0, UsersFacts, ZenonT(30)
  <2>2. ASSUME NEW j \in Block
        PROVE  Seen(j)' = Seen(j)
    <3>1. \A c \in B_VALID' : c \in B_VALID /\ blockno'[c] = blockno[c] /\ data'[c] = data[c]
      BY <1>a, <1>b, <1>e, Zenon DEF BufInv, BufTypes
    <3>2. CASE \E c \in B_VALID' : blockno[c] = j
      BY <1>2, <1>3, <3>1, <3>2, SeenNow, SeenThen DEF BufInv
    <3>3. CASE \A c \in B_VALID' : blockno[c] # j
      <4>1. Seen(j)' = sectors[j]
        BY <1>2, <1>3, <1>b, <3>1, <3>3, SeenThen, Zenon
      <4>2. CASE b \in B_VALID /\ blockno[b] = j
        <5>1. Seen(j) = data[b]
          BY <4>2, SeenNow, Zenon DEF BufInv
        <5>2. data[b] = sectors[j]
          BY <4>2, <1>c, Zenon DEF BufInv, CleanInv
        <5>. QED BY <4>1, <5>1, <5>2, Zenon
      <4>3. CASE ~(b \in B_VALID /\ blockno[b] = j)
        <5>1. \A c \in B_VALID : blockno[c] # j
          BY <1>a, <3>3, <4>3, Zenon
        <5>. QED BY <4>1, <5>1, SeenNow, Zenon DEF BufInv
      <4>. QED BY <4>2, <4>3, Zenon
    <3>. QED BY <3>2, <3>3, Zenon
  <2>. QED BY <2>1, <2>2, StoreStutters, Zenon DEF StoreStep
<1>. QED BY <1>2, <1>3, <1>4, <1>5, <1>6, <1>7, <1>8, <1>9, <1>10, Zenon DEF BufInv

\* What wakeup does to the places.
LEMMA Woken ==
  ASSUME BufTypes, NEW S
  PROVE  /\ BufWoken(S) \in [Client -> {"idle", "lock", "locksleep", "locked", "disk", "disksleep",
                                        "held", "release"}]
         /\ \A q \in Client : /\ q \in S /\ bpc[q] = "locksleep" => BufWoken(S)[q] = "lock"
                              /\ q \in S /\ bpc[q] = "disksleep" => BufWoken(S)[q] = "disk"
                              /\ q \notin S \/ bpc[q] \notin {"locksleep", "disksleep"} =>
                                   BufWoken(S)[q] = bpc[q]
<1>1. ASSUME NEW q \in Client
      PROVE  /\ q \in S /\ bpc[q] = "locksleep" => BufWoken(S)[q] = "lock"
             /\ q \in S /\ bpc[q] = "disksleep" => BufWoken(S)[q] = "disk"
             /\ q \notin S \/ bpc[q] \notin {"locksleep", "disksleep"} =>
                  BufWoken(S)[q] = bpc[q]
  <2>1. "locksleep" # "disksleep"
    BY Zenon
  <2>. QED BY <2>1, Zenon DEF BufWoken
<1>2. \A q \in Client : bpc[q] \in {"idle", "lock", "locksleep", "locked", "disk", "disksleep",
                                    "held", "release"}
  BY Zenon DEF BufTypes
<1>3. \A q \in Client : BufWoken(S)[q] \in {"idle", "lock", "locksleep", "locked", "disk",
                                            "disksleep", "held", "release"}
  BY <1>1, <1>2, Zenon
<1>4. BufWoken(S) = [q \in Client |-> BufWoken(S)[q]]
  BY Zenon DEF BufWoken
<1>. HIDE DEF BufWoken
<1>5. BufWoken(S) \in [Client -> {"idle", "lock", "locksleep", "locked", "disk", "disksleep",
                                  "held", "release"}]
  BY <1>3, <1>4, Zenon
<1>. QED BY <1>1, <1>5, Zenon

\* iderw: the buffer that p holds and does not wait for joins the queue.
LEMMA Enqueued ==
  ASSUME BufInv, NEW p \in Client, NEW b \in Buffer, b = bp[p], Holding(p), ~AtDisk(p), Iderw(p),
         UNCHANGED <<blockno, refcnt, B_VALID, locked, bp>>,
         b \notin B_VALID \ B_DIRTY',
         \A c \in Buffer \ {b} : data'[c] = data[c] /\ (c \in B_DIRTY' <=> c \in B_DIRTY)
  PROVE  /\ UseInv' /\ LockInv' /\ QueueInv'
         /\ bpc' \in [Client -> {"idle", "lock", "locksleep", "locked", "disk", "disksleep",
                                 "held", "release"}]
         /\ idequeue' \in Seq(Buffer)
         /\ bpc'[p] = "disksleep" /\ \A q \in Client \ {p} : bpc'[q] = bpc[q]
         /\ \A q \in Client : Holding(q)' <=> Holding(q)
         /\ \A q \in Client : AtDisk(q)' <=> AtDisk(q) \/ q = p
<1>0. bpc \in [Client -> {"idle", "lock", "locksleep", "locked", "disk", "disksleep",
                          "held", "release"}] /\ bp \in [Client -> Buffer]
  BY Zenon DEF BufInv, BufTypes
<1>a. /\ idequeue' = Append(idequeue, b) /\ bpc' = [bpc EXCEPT ![p] = "disksleep"]
      /\ dev' = IF idequeue = <<>> THEN Command(b, blockno[b], data'[b], b \in B_DIRTY') ELSE dev
  BY Zenon DEF Iderw
<1>1. bpc'[p] = "disksleep" /\ \A q \in Client \ {p} : bpc'[q] = bpc[q]
  BY <1>0, <1>a, Zenon
<1>2. /\ \A q \in Client : Holding(q)' <=> Holding(q)
      /\ \A q \in Client : AtDisk(q)' <=> AtDisk(q) \/ q = p
      /\ \A q \in Client : bpc'[q] = "idle" <=> bpc[q] = "idle"
      /\ \A q \in Client : AtDisk(q) => Holding(q)
  BY <1>1, Zenon DEF Holding, AtDisk
<1>3. UseInv'
  <2>1. \A c : UsedBy(c)' = UsedBy(c)
    BY <1>2, Zenon DEF UsedBy
  <2>. QED BY <1>2, <2>1, Zenon DEF BufInv, UseInv
<1>4. LockInv'
  BY <1>2 DEF BufInv, LockInv
<1>5. \A q \in Client : AtDisk(q) => bp[q] # b
  BY <1>2, Zenon DEF BufInv, LockInv
<1>6. b \notin Members(idequeue) /\ Distinct(idequeue) /\ Members(idequeue) = Queued
      /\ Members(idequeue') = Queued'
  BY <1>5, Zenon DEF BufInv, QueueInv, Members, Distinct, Queued
<1>7. /\ idequeue' \in Seq(Buffer) /\ idequeue' # <<>>
      /\ Members(idequeue') = Members(idequeue) \cup {b} /\ Distinct(idequeue')
      /\ Head(idequeue') = IF idequeue = <<>> THEN b ELSE Head(idequeue)
  BY <1>6, <1>a, Appended, Zenon DEF BufInv, BufTypes
<1>8. QueueInv'
  <2>1. \A q \in Client : AtDisk(q) =>
          (bp[q] \in B_VALID \ B_DIRTY <=> bp[q] \in B_VALID' \ B_DIRTY')
    BY <1>0, <1>5, Zenon
  <2>2. {bp'[q] : q \in {r \in Client : AtDisk(r)' /\ bp'[r] \notin B_VALID' \ B_DIRTY'}} =
        {bp[q] : q \in {r \in Client : AtDisk(r) /\ bp[r] \notin B_VALID \ B_DIRTY}} \cup {b}
    BY <1>2, <2>1
  <2>3. Queued' = {bp'[q] : q \in {r \in Client : AtDisk(r)' /\ bp'[r] \notin B_VALID' \ B_DIRTY'}}
    BY <2>2, <1>6, <1>7, Zenon DEF BufInv, QueueInv
  <2>4. dev' = Command(Head(idequeue'), blockno'[Head(idequeue')], data'[Head(idequeue')],
                       Head(idequeue') \in B_DIRTY')
    <3>1. CASE idequeue = <<>>
      BY <3>1, <1>a, <1>7, Zenon
    <3>2. CASE idequeue # <<>>
      <4>1. /\ Head(idequeue) \in Members(idequeue) /\ Head(idequeue) \in Buffer
        BY <3>2, <1>6, TakenOff, Zenon DEF BufInv, BufTypes
      <4>a. PICK h \in Buffer : h = Head(idequeue)
        BY <4>1, Zenon
      <4>2. h # b /\ Head(idequeue') = h
        BY <3>2, <4>1, <4>a, <1>6, <1>7, Zenon
      <4>3. dev = Command(h, blockno[h], data[h], h \in B_DIRTY) /\ dev' = dev
        BY <3>2, <4>a, <1>a, Zenon DEF BufInv, QueueInv
      <4>4. data'[h] = data[h] /\ (h \in B_DIRTY') = (h \in B_DIRTY) /\ blockno' = blockno
        BY <4>2
      <4>. QED BY <4>2, <4>3, <4>4, Zenon
    <3>. QED BY <3>1, <3>2, Zenon
  <2>. QED BY <1>7, <2>3, <2>4, Zenon DEF QueueInv, Distinct
<1>. QED BY <1>0, <1>a, <1>1, <1>2, <1>3, <1>4, <1>7, <1>8, Zenon

LEMMA BreadDiskKeeps ==
  ASSUME BufInv, NEW p \in Client, BreadDisk(p)
  PROVE  BufInv' /\ StoreStep
<1>a. PICK b \in Buffer : b = bp[p]
  BY Zenon DEF BufInv, BufTypes
<1>b. /\ bpc[p] = "locked" /\ b \notin B_VALID /\ Iderw(p)
      /\ UNCHANGED <<blockno, refcnt, B_VALID, locked, bp>>
      /\ UNCHANGED <<data, B_DIRTY, sectors>>
  BY <1>a, Zenon DEF BreadDisk
<1>c. Holding(p) /\ ~AtDisk(p)
  BY <1>b, Zenon DEF Holding, AtDisk
<1>1. /\ UseInv' /\ LockInv' /\ QueueInv'
      /\ bpc' \in [Client -> {"idle", "lock", "locksleep", "locked", "disk", "disksleep",
                              "held", "release"}]
      /\ idequeue' \in Seq(Buffer)
      /\ bpc'[p] = "disksleep" /\ \A q \in Client \ {p} : bpc'[q] = bpc[q]
      /\ \A q \in Client : Holding(q)' <=> Holding(q)
      /\ \A q \in Client : AtDisk(q)' <=> AtDisk(q) \/ q = p
  <2>1. /\ b \notin B_VALID \ B_DIRTY'
        /\ \A c \in Buffer \ {b} : data'[c] = data[c] /\ (c \in B_DIRTY' <=> c \in B_DIRTY)
    BY <1>b, Zenon
  <2>. QED BY <1>a, <1>b, <1>c, <2>1, Enqueued, Zenon
<1>2. BufTypes' /\ BlockInv' /\ CleanInv' /\ ValidInv'
  BY <1>b, <1>1, Zenon DEF BufInv, BufTypes, BlockInv, CleanInv, ValidInv
<1>3. PinInv'
  <2>1. b \notin B_DIRTY
    BY <1>b, Zenon DEF BufInv, BufTypes
  <2>2. Pinned' = Pinned
    BY <1>a, <1>b, <1>1, <2>1, Zenon DEF Pinned
  <2>. QED BY <2>2, Zenon DEF BufInv, PinInv
<1>4. \A k \in Block : Seen(k)' = Seen(k) /\ Users(k)' = Users(k)
  BY <1>b, <1>1, SeenFacts, UsersFacts, Zenon
<1>. QED BY <1>1, <1>2, <1>3, <1>4, StoreStutters, Zenon DEF BufInv, StoreStep

\* The holder of a buffer puts v in its block.
LEMMA PutStep ==
  ASSUME BufInv, BufTypes', BlockInv', NEW p \in Client, NEW b \in Buffer, b = bp[p], b \in B_VALID,
         Holding(p), NEW v \in Value, data' = [data EXCEPT ![b] = v],
         UNCHANGED <<blockno, B_VALID, sectors, bp>>,
         \A q \in Client : Holding(q)' <=> Holding(q)
  PROVE  StoreStep
<1>a. PICK k \in Block : k = blockno[b]
  BY Zenon DEF BufInv, UseInv, Holding
<1>1. Users(k) = {p}
  <2>1. \A q \in Client : blockno[bp[q]] = k => bp[q] = b
    BY <1>a, BufAssumption, Zenon DEF BufInv, BufTypes, BlockInv
  <2>. QED BY <1>a, <2>1, UsersFacts, Zenon DEF BufInv, LockInv
<1>2. \A j \in Block : Users(j)' = Users(j)
  BY UsersFacts, Zenon
<1>3. data'[b] = v /\ \A c \in Buffer \ {b} : data'[c] = data[c]
  BY Zenon DEF BufInv, BufTypes
<1>4. Seen(k)' = v
  BY <1>a, <1>3, SeenThen, Zenon
<1>5. ASSUME NEW j \in Block \ {k}
      PROVE  Seen(j)' = Seen(j)
  <2>1. CASE \E c \in B_VALID : blockno[c] = j
    <3>1. PICK c \in B_VALID : blockno[c] = j
      BY <2>1, Zenon
    <3>2. c \in Buffer \ {b}
      BY <1>a, <3>1, Zenon DEF BufInv, BufTypes
    <3>. QED BY <1>3, <3>1, <3>2, SeenNow, SeenThen, SMTT(30) DEF BufInv
  <2>2. CASE \A c \in B_VALID : blockno[c] # j
    BY <2>2, SeenNow, SeenThen, ZenonT(30) DEF BufInv
  <2>. QED BY <2>1, <2>2, Zenon
<1>6. [j \in Block |-> Seen(j)]' = [[j \in Block |-> Seen(j)] EXCEPT ![k] = v]
  BY <1>4, <1>5, Zenon
<1>7. [j \in Block |-> Users(j)]' = [j \in Block |-> Users(j)]
  BY <1>2, Zenon
<1>8. BS!Put(p, k)
  BY <1>1, <1>6, <1>7, Zenon DEF BS!Put
<1>. QED BY <1>8, Zenon DEF BS!Next, StoreStep

\* bwrite.
LEMMA BwriteKeeps ==
  ASSUME BufInv, NEW p \in Client, Bwrite(p)
  PROVE  BufInv' /\ StoreStep
<1>a. PICK b \in Buffer : b = bp[p]
  BY Zenon DEF BufInv, BufTypes
<1>b. /\ bpc[p] = "held" /\ B_DIRTY' = B_DIRTY \cup {b} /\ Iderw(p)
      /\ UNCHANGED <<blockno, refcnt, B_VALID, locked, bp>>
      /\ UNCHANGED sectors
  BY <1>a, Zenon DEF Bwrite
<1>c. PICK v \in Value : data' = [data EXCEPT ![b] = v]
  BY <1>a, Zenon DEF Bwrite
<1>d. Holding(p) /\ ~AtDisk(p) /\ b \in B_VALID
  BY <1>a, <1>b, Zenon DEF Holding, AtDisk, BufInv, ValidInv
<1>e. data'[b] = v /\ \A c \in Buffer \ {b} : data'[c] = data[c]
  BY <1>c, Zenon DEF BufInv, BufTypes
<1>1. /\ UseInv' /\ LockInv' /\ QueueInv'
      /\ bpc' \in [Client -> {"idle", "lock", "locksleep", "locked", "disk", "disksleep",
                              "held", "release"}]
      /\ idequeue' \in Seq(Buffer)
      /\ bpc'[p] = "disksleep" /\ \A q \in Client \ {p} : bpc'[q] = bpc[q]
      /\ \A q \in Client : Holding(q)' <=> Holding(q)
      /\ \A q \in Client : AtDisk(q)' <=> AtDisk(q) \/ q = p
  <2>1. /\ b \notin B_VALID \ B_DIRTY'
        /\ \A c \in Buffer \ {b} : data'[c] = data[c] /\ (c \in B_DIRTY' <=> c \in B_DIRTY)
    BY <1>b, <1>e, Zenon
  <2>. QED BY <1>a, <1>b, <1>d, <2>1, Enqueued, Zenon
<1>2. BufTypes'
  BY <1>b, <1>c, <1>d, <1>1, Zenon DEF BufInv, BufTypes
<1>3. BlockInv' /\ ValidInv'
  BY <1>b, <1>1, Zenon DEF BufInv, BlockInv, ValidInv
<1>4. CleanInv'
  BY <1>b, <1>e, Zenon DEF BufInv, CleanInv, BufTypes
<1>5. PinInv'
  <2>1. Pinned' \subseteq Pinned
    BY <1>a, <1>b, <1>1, Zenon DEF Pinned
  <2>2. B_DIRTY \subseteq Buffer
    BY Zenon DEF BufInv, BufTypes
  <2>3. Cardinality(Pinned') <= Cardinality(Pinned)
    BY <2>1, <2>2, Finite, FS_Subset, Zenon
  <2>4. IsFiniteSet(Pinned') /\ Cardinality(Pinned') \in Nat /\ Cardinality(Pinned) \in Nat
    BY <2>1, <2>2, Finite, FS_Subset, FS_CardinalityType, Zenon
  <2>. QED BY <2>3, <2>4, BufAssumption DEF BufInv, PinInv
<1>6. StoreStep
  <2>1. UNCHANGED <<blockno, B_VALID, sectors, bp>>
    BY <1>b, Zenon
  <2>. QED BY <1>a, <1>c, <1>d, <1>1, <1>2, <1>3, <2>1, PutStep, Zenon
<1>. QED BY <1>1, <1>2, <1>3, <1>4, <1>5, <1>6, Zenon DEF BufInv

\* log_write.
LEMMA LogWriteKeeps ==
  ASSUME BufInv, NEW p \in Client, LogWrite(p)
  PROVE  BufInv' /\ StoreStep
<1>a. PICK b \in Buffer : b = bp[p]
  BY Zenon DEF BufInv, BufTypes
<1>b. /\ bpc[p] = "held" /\ B_DIRTY' = B_DIRTY \cup {b}
      /\ b \in B_DIRTY \/ Cardinality(B_DIRTY) < MaxPinned
      /\ UNCHANGED <<blockno, refcnt, B_VALID, locked, idequeue, sectors, dev, bpc, bp>>
  BY <1>a, Zenon DEF LogWrite
<1>c. PICK v \in Value : data' = [data EXCEPT ![b] = v]
  BY <1>a, Zenon DEF LogWrite
<1>d. Holding(p) /\ ~AtDisk(p) /\ b \in B_VALID
  BY <1>a, <1>b, Zenon DEF Holding, AtDisk, BufInv, ValidInv
<1>e. data'[b] = v /\ \A c \in Buffer \ {b} : data'[c] = data[c]
  BY <1>c, Zenon DEF BufInv, BufTypes
<1>f. \A q \in Client : (Holding(q)' <=> Holding(q)) /\ (AtDisk(q)' <=> AtDisk(q))
  BY <1>b, Zenon DEF Holding, AtDisk
<1>g. \A q \in Client : AtDisk(q) => bp[q] # b
  BY <1>a, <1>d, Zenon DEF BufInv, LockInv, Holding, AtDisk
<1>1. BufTypes'
  BY <1>b, <1>c, <1>d, Zenon DEF BufInv, BufTypes
<1>2. BlockInv' /\ ValidInv' /\ LockInv'
  BY <1>b, <1>f DEF BufInv, BlockInv, ValidInv, LockInv
<1>3. UseInv'
  <2>1. \A c : UsedBy(c)' = UsedBy(c)
    BY <1>b, Zenon DEF UsedBy
  <2>. QED BY <1>b, <2>1, Zenon DEF BufInv, UseInv
<1>4. CleanInv'
  BY <1>b, <1>e, Zenon DEF BufInv, CleanInv, BufTypes
<1>5. QueueInv'
  <2>1. \A q \in Client : AtDisk(q) =>
          (bp[q] \in B_VALID \ B_DIRTY <=> bp[q] \in B_VALID' \ B_DIRTY')
    BY <1>b, <1>g, Zenon
  <2>2. {bp'[q] : q \in {r \in Client : AtDisk(r)' /\ bp'[r] \notin B_VALID' \ B_DIRTY'}} =
        {bp[q] : q \in {r \in Client : AtDisk(r) /\ bp[r] \notin B_VALID \ B_DIRTY}}
    BY <1>b, <1>f, <2>1, Zenon
  <2>3. Queued' = {bp'[q] : q \in {r \in Client : AtDisk(r)' /\ bp'[r] \notin B_VALID' \ B_DIRTY'}}
    BY <1>b, <2>2, Zenon DEF BufInv, QueueInv, Queued
  <2>4. ASSUME idequeue # <<>>
        PROVE  dev' = Command(Head(idequeue'), blockno'[Head(idequeue')], data'[Head(idequeue')],
                              Head(idequeue') \in B_DIRTY')
    <3>1. Head(idequeue) \in Members(idequeue) /\ Head(idequeue) \in Buffer
      BY <2>4, TakenOff, Zenon DEF BufInv, BufTypes, QueueInv, Distinct
    <3>a. PICK h \in Buffer : h = Head(idequeue)
      BY <3>1, Zenon
    <3>2. h \in Queued
      BY <3>1, <3>a, Zenon DEF Members, Queued
    <3>3. h # b
      BY <1>g, <3>2, Zenon DEF BufInv, QueueInv
    <3>4. dev = Command(h, blockno[h], data[h], h \in B_DIRTY)
      BY <2>4, <3>a, Zenon DEF BufInv, QueueInv
    <3>5. data'[h] = data[h] /\ (h \in B_DIRTY') = (h \in B_DIRTY)
      BY <1>b, <1>e, <3>3, SMTT(30)
    <3>. QED BY <1>b, <3>a, <3>4, <3>5, Zenon
  <2>5. idequeue = <<>> => dev' = <<>>
    BY <1>b, Zenon DEF BufInv, QueueInv
  <2>. QED BY <1>b, <2>3, <2>4, <2>5, Zenon DEF BufInv, QueueInv
<1>6. PinInv'
  <2>0. B_DIRTY \subseteq Buffer
    BY Zenon DEF BufInv, BufTypes
  <2>1. CASE b \in B_DIRTY
    <3>1. Pinned' = Pinned
      BY <1>b, <1>f, <2>1, Zenon DEF Pinned
    <3>. QED BY <3>1, Zenon DEF BufInv, PinInv
  <2>2. CASE b \notin B_DIRTY
    <3>1. Pinned' \subseteq B_DIRTY \cup {b}
      BY <1>b, Zenon DEF Pinned
    <3>2. /\ IsFiniteSet(B_DIRTY \cup {b})
          /\ Cardinality(B_DIRTY \cup {b}) = Cardinality(B_DIRTY) + 1
      BY <2>0, <2>2, Finite, FS_AddElement, Zenon
    <3>3. Cardinality(Pinned') <= Cardinality(B_DIRTY \cup {b}) /\ IsFiniteSet(Pinned')
      BY <3>1, <3>2, FS_Subset, Zenon
    <3>4. Cardinality(Pinned') \in Nat /\ Cardinality(B_DIRTY) \in Nat
      BY <2>0, <3>3, Finite, FS_CardinalityType, Zenon
    <3>. QED BY <1>b, <2>2, <3>2, <3>3, <3>4, BufAssumption, SMTT(30) DEF PinInv
  <2>. QED BY <2>1, <2>2, Zenon
<1>7. StoreStep
  <2>1. UNCHANGED <<blockno, B_VALID, sectors, bp>>
    BY <1>b, Zenon
  <2>. QED BY <1>a, <1>c, <1>d, <1>f, <1>1, <1>2, <2>1, PutStep, Zenon
<1>. QED BY <1>1, <1>2, <1>3, <1>4, <1>5, <1>6, <1>7, Zenon DEF BufInv

\* releasesleep.
LEMMA BrelseUnlockKeeps ==
  ASSUME BufInv, NEW p \in Client, BrelseUnlock(p)
  PROVE  BufInv' /\ StoreStep
<1>. USE DEF bufFields
<1>a. PICK b \in Buffer : b = bp[p]
  BY Zenon DEF BufInv, BufTypes
<1>s. PICK S : S = {q \in Client : bpc[q] = "locksleep" /\ bp[q] = bp[p]}
  BY Zenon
<1>b. /\ bpc[p] = "held" /\ locked' = locked \ {b} /\ bpc' = [BufWoken(S) EXCEPT ![p] = "release"]
      /\ UNCHANGED <<bufFields, idequeue, sectors, dev, bp>>
  BY <1>a, <1>s, Zenon DEF BrelseUnlock
<1>c. /\ BufWoken(S) \in [Client -> {"idle", "lock", "locksleep", "locked", "disk", "disksleep",
                                     "held", "release"}]
      /\ \A q \in S : BufWoken(S)[q] = "lock" /\ bpc[q] = "locksleep"
      /\ \A q \in Client \ S : BufWoken(S)[q] = bpc[q]
  BY <1>s, Woken, Zenon DEF BufInv
<1>d. /\ bpc' \in [Client -> {"idle", "lock", "locksleep", "locked", "disk", "disksleep",
                              "held", "release"}]
      /\ bpc'[p] = "release"
      /\ \A q \in Client \ {p} : bpc'[q] = bpc[q] \/ (bpc[q] = "locksleep" /\ bpc'[q] = "lock")
  <2>a. PICK w : w = BufWoken(S)
    BY Zenon
  <2>1. /\ w \in [Client -> {"idle", "lock", "locksleep", "locked", "disk", "disksleep",
                             "held", "release"}]
    BY <1>c, <2>a, Zenon
  <2>3. ASSUME NEW q \in Client
        PROVE  w[q] = bpc[q] \/ (bpc[q] = "locksleep" /\ w[q] = "lock")
    <3>1. q \in S => BufWoken(S)[q] = "lock" /\ bpc[q] = "locksleep"
      BY <1>c, Zenon
    <3>2. q \notin S => BufWoken(S)[q] = bpc[q]
      BY <1>c, Zenon
    <3>. QED BY <2>a, <3>1, <3>2, Zenon
  <2>2. bpc' = [w EXCEPT ![p] = "release"]
    BY <1>b, <2>a, Zenon
  <2>. QED BY <2>1, <2>2, <2>3, Zenon
<1>1. /\ \A q \in Client : bpc'[q] = "idle" <=> bpc[q] = "idle"
      /\ \A q \in Client : AtDisk(q)' <=> AtDisk(q)
      /\ \A q \in Client : Holding(q)' <=> Holding(q) /\ q # p
      /\ Holding(p)
      /\ \A q \in Client : bpc'[q] = "held" => bpc[q] = "held"
  BY <1>b, <1>d, Zenon DEF AtDisk, Holding
<1>2. BufTypes' /\ BlockInv' /\ CleanInv' /\ ValidInv'
  BY <1>b, <1>d, <1>1, Zenon DEF BufInv, BufTypes, BlockInv, CleanInv, ValidInv
<1>3. UseInv'
  <2>1. \A c : UsedBy(c)' = UsedBy(c)
    BY <1>b, <1>1, Zenon DEF UsedBy
  <2>. QED BY <1>b, <1>1, <2>1, Zenon DEF BufInv, UseInv
<1>4. LockInv'
  <2>1. locked' = {bp[q] : q \in {r \in Client : Holding(r)'}}
    BY <1>a, <1>b, <1>1, Zenon DEF BufInv, LockInv
  <2>2. \A q, r \in Client : Holding(q)' /\ Holding(r)' /\ bp[q] = bp[r] => q = r
    BY <1>1, Zenon DEF BufInv, LockInv
  <2>. QED BY <1>b, <2>1, <2>2, Zenon DEF LockInv
<1>5. QueueInv'
  <2>1. {q \in Client : AtDisk(q) /\ bp[q] \notin B_VALID \ B_DIRTY}' =
        {q \in Client : AtDisk(q) /\ bp[q] \notin B_VALID \ B_DIRTY}
    BY <1>b, <1>1, Zenon
  <2>. QED BY <1>b, <2>1, Zenon DEF BufInv, QueueInv, Queued
<1>6. PinInv'
  <2>1. Pinned' = Pinned
    BY <1>b, <1>1, Zenon DEF Pinned
  <2>. QED BY <2>1, Zenon DEF BufInv, PinInv
<1>7. StoreStep
  <2>a. PICK k \in Block : k = blockno[b]
    BY <1>a, <1>b, Zenon DEF BufInv, UseInv
  <2>1. Users(k) = {p} /\ Users(k)' = {}
    <3>1. \A q \in Client : blockno[bp[q]] = k => bp[q] = b
      BY <2>a, BufAssumption, Zenon DEF BufInv, BufTypes, BlockInv
    <3>2. \A q \in Client : Holding(q) /\ bp[q] = b => q = p
      BY <1>a, <1>1, Zenon DEF BufInv, LockInv
    <3>. QED BY <1>a, <1>b, <1>1, <2>a, <3>1, <3>2, UsersFacts, Zenon
  <2>2. \A j \in Block \ {k} : Users(j)' = Users(j)
    BY <1>a, <1>b, <1>1, <2>a, UsersFacts, Zenon
  <2>3. \A j \in Block : Seen(j)' = Seen(j)
    BY <1>b, SeenFacts, Zenon
  <2>4. [j \in Block |-> Users(j)]' = [[j \in Block |-> Users(j)] EXCEPT ![k] = {}]
    BY <2>1, <2>2, Zenon
  <2>5. [j \in Block |-> Seen(j)]' = [j \in Block |-> Seen(j)]
    BY <2>3, Zenon
  <2>6. BS!Give(p, k)
    BY <2>1, <2>4, <2>5, Zenon DEF BS!Give
  <2>. QED BY <2>6, Zenon DEF BS!Next, StoreStep
<1>. QED BY <1>2, <1>3, <1>4, <1>5, <1>6, <1>7, Zenon DEF BufInv

\* brelse gives the reference back.
LEMMA UnrefKeeps ==
  ASSUME BufInv, NEW p \in Client, BrelseUnref(p)
  PROVE  BufInv' /\ StoreStep
<1>a. PICK b \in Buffer : b = bp[p]
  BY Zenon DEF BufInv, BufTypes
<1>b. /\ bpc[p] = "release" /\ bpc' = [bpc EXCEPT ![p] = "idle"]
      /\ refcnt' = [refcnt EXCEPT ![b] = @ - 1]
      /\ UNCHANGED <<blockno, data, B_VALID, B_DIRTY, locked, idequeue, sectors, dev, bp>>
  BY <1>a, Zenon DEF BrelseUnref
<1>c. /\ bpc' \in [Client -> {"idle", "lock", "locksleep", "locked", "disk", "disksleep",
                              "held", "release"}]
      /\ bpc'[p] = "idle" /\ \A q \in Client \ {p} : bpc'[q] = bpc[q]
  BY <1>b, Zenon DEF BufInv, BufTypes
<1>d. /\ \A q \in Client : AtDisk(q)' <=> AtDisk(q)
      /\ \A q \in Client : Holding(q)' <=> Holding(q)
  BY <1>b, <1>c, Zenon DEF AtDisk, Holding
<1>e. UsedBy(b)' = UsedBy(b) \ {p} /\ p \in UsedBy(b) /\ \A c \in Buffer \ {b} : UsedBy(c)' = UsedBy(c)
  BY <1>a, <1>b, <1>c, Zenon DEF UsedBy
<1>f. /\ Cardinality(UsedBy(b)') = Cardinality(UsedBy(b)) - 1
      /\ Cardinality(UsedBy(b)') \in Nat
  <2>1. IsFiniteSet(UsedBy(b)) /\ IsFiniteSet(UsedBy(b)')
    BY <1>e, Finite, FS_RemoveElement
  <2>. QED BY <1>e, <2>1, FS_RemoveElement, FS_CardinalityType, Zenon
<1>g. refcnt'[b] = refcnt[b] - 1 /\ \A c \in Buffer \ {b} : refcnt'[c] = refcnt[c]
  BY <1>b, Zenon DEF BufInv, BufTypes
<1>1. UseInv'
  <2>1. \A c \in Buffer : refcnt'[c] = Cardinality(UsedBy(c)')
    BY <1>e, <1>f, <1>g, Zenon DEF BufInv, UseInv
  <2>2. \A q \in Client : bpc'[q] # "idle" => blockno'[bp'[q]] \in Block
    BY <1>b, <1>c, Zenon DEF BufInv, UseInv
  <2>. QED BY <2>1, <2>2, Zenon DEF UseInv
<1>2. BufTypes'
  <2>1. refcnt[b] - 1 \in Nat
    BY <1>f, Zenon DEF BufInv, UseInv
  <2>2. refcnt' \in [Buffer -> Nat]
    BY <1>b, <2>1, Zenon DEF BufInv, BufTypes
  <2>. QED BY <1>b, <1>c, <2>2, Zenon DEF BufInv, BufTypes
<1>3. BlockInv' /\ CleanInv' /\ ValidInv' /\ LockInv'
  BY <1>b, <1>c, <1>d, SMTT(30) DEF BufInv, BlockInv, CleanInv, ValidInv, LockInv
<1>4. QueueInv'
  <2>1. {q \in Client : AtDisk(q) /\ bp[q] \notin B_VALID \ B_DIRTY}' =
        {q \in Client : AtDisk(q) /\ bp[q] \notin B_VALID \ B_DIRTY}
    BY <1>b, <1>d, Zenon
  <2>. QED BY <1>b, <2>1, Zenon DEF BufInv, QueueInv, Queued
<1>5. PinInv'
  <2>1. Pinned' = Pinned
    BY <1>b, <1>d, Zenon DEF Pinned
  <2>. QED BY <2>1, Zenon DEF BufInv, PinInv
<1>6. \A k \in Block : Seen(k)' = Seen(k) /\ Users(k)' = Users(k)
  BY <1>b, <1>d, SeenFacts, UsersFacts, Zenon
<1>. QED BY <1>1, <1>2, <1>3, <1>4, <1>5, <1>6, StoreStutters, Zenon DEF BufInv, StoreStep

\* ideintr: the disk has done the first request of the queue.
LEMMA IdeintrKeeps ==
  ASSUME BufInv, Ideintr
  PROVE  BufInv' /\ StoreStep
<1>q. idequeue # <<>> /\ Distinct(idequeue) /\ Members(idequeue) = Queued /\ idequeue \in Seq(Buffer)
  BY Zenon DEF Ideintr, BufInv, BufTypes, QueueInv, Distinct, Members, Queued
<1>r. /\ Head(idequeue) \in Members(idequeue) /\ Head(idequeue) \in Buffer
      /\ Tail(idequeue) \in Seq(Buffer) /\ Distinct(Tail(idequeue))
      /\ Members(Tail(idequeue)) = Members(idequeue) \ {Head(idequeue)}
      /\ Tail(idequeue) = <<>> <=> Len(idequeue) = 1
      /\ Tail(idequeue) # <<>> => /\ Head(Tail(idequeue)) = idequeue[2]
                                  /\ idequeue[2] \in Members(idequeue) \ {Head(idequeue)}
  BY <1>q, TakenOff, Zenon
<1>a. PICK h \in Buffer : h = Head(idequeue)
  BY <1>r, Zenon
<1>b. dev = Command(h, blockno[h], data[h], h \in B_DIRTY)
  BY <1>a, <1>q, Zenon DEF BufInv, QueueInv
<1>c. PICK p \in Client : bp[p] = h /\ AtDisk(p) /\ h \notin B_VALID \ B_DIRTY
  <2>1. h \in Queued
    BY <1>a, <1>q, <1>r, Zenon
  <2>. QED BY <2>1, Zenon DEF BufInv, QueueInv
<1>k. PICK k \in Block : k = blockno[h]
  BY <1>c, Zenon DEF BufInv, UseInv, AtDisk
<1>s. PICK S : S = {q \in Client : bpc[q] = "disksleep" /\ bp[q] = h}
  BY Zenon
<1>d. /\ idequeue' = Tail(idequeue)
      /\ sectors' = IF h \in B_DIRTY THEN [sectors EXCEPT ![k] = data[h]] ELSE sectors
      /\ data' = IF h \in B_DIRTY THEN data ELSE [data EXCEPT ![h] = sectors[k]]
      /\ B_VALID' = B_VALID \cup {h} /\ B_DIRTY' = B_DIRTY \ {h}
      /\ bpc' = BufWoken(S)
      /\ dev' = IF Len(idequeue) = 1 THEN <<>>
                ELSE Command(idequeue[2], blockno[idequeue[2]], data[idequeue[2]],
                             idequeue[2] \in B_DIRTY)
      /\ UNCHANGED <<blockno, refcnt, locked, bp>>
  <2>1. /\ Head(dev).write = (h \in B_DIRTY) /\ Head(dev).block = k /\ Head(dev).data = data[h]
    BY <1>b, <1>k DEF Command
  <2>. QED BY <1>a, <1>s, <2>1, Zenon DEF Ideintr
<1>e. /\ bpc' \in [Client -> {"idle", "lock", "locksleep", "locked", "disk", "disksleep",
                              "held", "release"}]
      /\ \A q \in Client : bpc'[q] = bpc[q] \/ (bpc[q] = "disksleep" /\ bpc'[q] = "disk")
  <2>1. BufTypes
    BY Zenon DEF BufInv
  <2>2. BufWoken(S) \in [Client -> {"idle", "lock", "locksleep", "locked", "disk", "disksleep",
                                    "held", "release"}]
    BY <2>1, Woken, Zenon
  <2>3. ASSUME NEW q \in Client
        PROVE  bpc'[q] = bpc[q] \/ (bpc[q] = "disksleep" /\ bpc'[q] = "disk")
    <3>1. q \in S => bpc[q] = "disksleep" /\ BufWoken(S)[q] = "disk"
      BY <1>s, <2>1, Woken, Zenon
    <3>2. q \notin S => BufWoken(S)[q] = bpc[q]
      BY <2>1, Woken, Zenon
    <3>. QED BY <1>d, <3>1, <3>2, Zenon
  <2>. QED BY <1>d, <2>2, <2>3, Zenon
<1>f. /\ \A q \in Client : bpc'[q] = "idle" <=> bpc[q] = "idle"
      /\ \A q \in Client : AtDisk(q)' <=> AtDisk(q)
      /\ \A q \in Client : Holding(q)' <=> Holding(q)
      /\ \A q \in Client : bpc'[q] = "held" => bpc[q] = "held"
  BY <1>e, Zenon DEF AtDisk, Holding
<1>g. /\ data[h] \in Value /\ sectors[k] \in Value
      /\ sectors' \in [Block -> Value] /\ data' \in [Buffer -> Value]
      /\ \A c \in Buffer \ {h} : data'[c] = data[c]
      /\ \A j \in Block \ {k} : sectors'[j] = sectors[j]
      /\ data'[h] = sectors'[k]
  <2>1. data \in [Buffer -> Value] /\ sectors \in [Block -> Value]
    BY Zenon DEF BufInv, BufTypes
  <2>2. CASE h \in B_DIRTY
    <3>1. sectors' = [sectors EXCEPT ![k] = data[h]] /\ data' = data
      BY <1>d, <2>2, Zenon
    <3>. QED BY <2>1, <3>1, Zenon
  <2>3. CASE h \notin B_DIRTY
    <3>1. sectors' = sectors /\ data' = [data EXCEPT ![h] = sectors[k]]
      BY <1>d, <2>3, Zenon
    <3>. QED BY <2>1, <3>1, Zenon
  <2>. QED BY <2>2, <2>3, Zenon
<1>1. BufTypes'
  <2>1. BufTypes
    BY Zenon DEF BufInv
  <2>2. B_VALID' \subseteq Buffer /\ B_DIRTY' \subseteq B_VALID'
    BY <1>d, <2>1, Zenon DEF BufTypes
  <2>3. blockno' = blockno /\ refcnt' = refcnt /\ bp' = bp /\ idequeue' \in Seq(Buffer)
    BY <1>d, <1>r, Zenon
  <2>. QED BY <1>e, <1>g, <2>1, <2>2, <2>3, Zenon DEF BufTypes
<1>2. BlockInv' /\ ValidInv' /\ LockInv'
  <2>1. UNCHANGED <<blockno, locked, bp>> /\ B_VALID \subseteq B_VALID'
    BY <1>d, Zenon
  <2>2. BlockInv'
    BY <2>1, Zenon DEF BufInv, BlockInv
  <2>3. ValidInv'
    BY <1>f, <2>1, Zenon DEF BufInv, ValidInv
  <2>4. LockInv'
    BY <1>f, <2>1 DEF BufInv, LockInv
  <2>. QED BY <2>2, <2>3, <2>4, Zenon
<1>3. UseInv'
  <2>1. \A c : UsedBy(c)' = UsedBy(c)
    BY <1>d, <1>f, Zenon DEF UsedBy
  <2>. QED BY <1>d, <1>f, <2>1, Zenon DEF BufInv, UseInv
<1>u. \A c \in Buffer \ {h} : blockno[c] # k
  BY <1>k, BufAssumption, Zenon DEF BufInv, BlockInv
<1>4. CleanInv'
  <2>. SUFFICES ASSUME NEW c \in B_VALID' \ B_DIRTY', blockno[c] \in Block
                PROVE  data'[c] = sectors'[blockno[c]]
    BY <1>d, Zenon DEF CleanInv
  <2>1. CASE c = h
    BY <2>1, <1>g, <1>k, Zenon
  <2>2. CASE c # h
    <3>1. c \in B_VALID \ B_DIRTY /\ c \in Buffer \ {h}
      BY <2>2, <1>d, Zenon DEF BufInv, BufTypes
    <3>2. data[c] = sectors[blockno[c]]
      BY <3>1, Zenon DEF BufInv, CleanInv
    <3>. QED BY <3>1, <3>2, <1>g, <1>u, Zenon
  <2>. QED BY <2>1, <2>2, Zenon
<1>5. QueueInv'
  <2>1. \A c \in Buffer \ {h} : c \in B_VALID \ B_DIRTY <=> c \in B_VALID' \ B_DIRTY'
    BY <1>d, Zenon
  <2>2. h \in B_VALID' \ B_DIRTY'
    BY <1>d, Zenon
  <2>3. \A q \in Client : bp[q] \in Buffer
    BY Zenon DEF BufInv, BufTypes
  <2>4. {bp'[q] : q \in {r \in Client : AtDisk(r)' /\ bp'[r] \notin B_VALID' \ B_DIRTY'}} =
        {bp[q] : q \in {r \in Client : AtDisk(r) /\ bp[r] \notin B_VALID \ B_DIRTY}} \ {h}
    BY <1>d, <1>f, <2>1, <2>2, <2>3, Zenon
  <2>5. Queued' = Members(Tail(idequeue))
    BY <1>d, Zenon DEF Queued, Members
  <2>6. Queued' = {bp'[q] : q \in {r \in Client : AtDisk(r)' /\ bp'[r] \notin B_VALID' \ B_DIRTY'}}
    BY <1>a, <1>q, <1>r, <2>4, <2>5, Zenon DEF BufInv, QueueInv
  <2>7. CASE Tail(idequeue) = <<>>
    BY <1>d, <1>r, <2>6, <2>7, Zenon DEF QueueInv, Distinct
  <2>8. CASE Tail(idequeue) # <<>>
    <3>1. /\ Head(Tail(idequeue)) = idequeue[2]
          /\ idequeue[2] \in Members(idequeue) \ {Head(idequeue)}
      BY <1>r, <2>8, Zenon
    <3>2. \A x \in Queued : x \in Buffer
      BY <2>3, Zenon DEF BufInv, QueueInv
    <3>a. PICK n \in Buffer : n = idequeue[2]
      BY <1>q, <3>1, <3>2, Zenon
    <3>3. n # h /\ Head(idequeue') = n /\ idequeue' # <<>>
      BY <1>a, <1>d, <2>8, <3>1, <3>a, Zenon
    <3>4. dev' = Command(n, blockno[n], data[n], n \in B_DIRTY)
      BY <1>d, <1>r, <2>8, <3>a, Zenon
    <3>5. data'[n] = data[n] /\ (n \in B_DIRTY') = (n \in B_DIRTY) /\ blockno' = blockno
      BY <1>d, <1>g, <3>3, SMTT(30)
    <3>6. dev' = Command(Head(idequeue'), blockno'[Head(idequeue')], data'[Head(idequeue')],
                         Head(idequeue') \in B_DIRTY')
      BY <3>3, <3>4, <3>5, Zenon
    <3>. QED BY <1>d, <1>r, <2>6, <3>3, <3>6, Zenon DEF QueueInv, Distinct
  <2>. QED BY <2>7, <2>8, Zenon
<1>6. PinInv'
  <2>1. Pinned' = Pinned
    BY <1>c, <1>d, <1>f, Zenon DEF Pinned
  <2>. QED BY <2>1, Zenon DEF BufInv, PinInv
<1>7. \A j \in Block : Users(j)' = Users(j)
  BY <1>d, <1>f, UsersFacts, Zenon
<1>8. ASSUME NEW j \in Block
      PROVE  Seen(j)' = Seen(j)
  <2>0. B_VALID \subseteq Buffer /\ blockno' = blockno /\ h \in B_VALID'
    BY <1>d, Zenon DEF BufInv, BufTypes
  <2>1. CASE j = k
    <3>1. Seen(k)' = data'[h]
      BY <1>1, <1>2, <1>k, <2>0, SeenThen, Zenon
    <3>2. CASE h \in B_DIRTY
      <4>1. h \in B_VALID /\ data' = data
        BY <1>c, <1>d, <3>2, Zenon DEF BufInv, BufTypes
      <4>2. Seen(k) = data[h]
        BY <1>k, <4>1, SeenNow, Zenon DEF BufInv
      <4>. QED BY <2>1, <3>1, <4>1, <4>2, Zenon
    <3>3. CASE h \notin B_DIRTY
      <4>1. h \notin B_VALID /\ sectors' = sectors
        BY <1>c, <1>d, <3>3, Zenon
      <4>2. \A c \in B_VALID : blockno[c] # k
        BY <1>u, <2>0, <4>1, Zenon
      <4>3. Seen(k) = sectors[k]
        BY <4>2, SeenNow, Zenon DEF BufInv
      <4>. QED BY <2>1, <3>1, <4>1, <4>3, <1>g, Zenon
    <3>. QED BY <3>2, <3>3, Zenon
  <2>2. CASE j # k
    <3>1. CASE \E c \in B_VALID : blockno[c] = j
      <4>1. PICK c \in B_VALID : blockno[c] = j
        BY <3>1, Zenon
      <4>2. c \in Buffer \ {h} /\ c \in B_VALID'
        BY <1>d, <1>k, <2>0, <2>2, <4>1, Zenon
      <4>3. Seen(j) = data[c]
        BY <4>1, SeenNow, Zenon DEF BufInv
      <4>4. Seen(j)' = data'[c]
        BY <1>1, <1>2, <2>0, <4>1, <4>2, SeenThen, Zenon
      <4>. QED BY <1>g, <4>2, <4>3, <4>4, Zenon
    <3>2. CASE \A c \in B_VALID : blockno[c] # j
      <4>1. \A c \in B_VALID' : blockno'[c] # j
        BY <1>d, <1>k, <2>2, <3>2, Zenon
      <4>2. Seen(j)' = sectors'[j]
        BY <1>1, <1>2, <4>1, SeenThen, Zenon
      <4>3. Seen(j) = sectors[j]
        BY <3>2, SeenNow, Zenon DEF BufInv
      <4>. QED BY <1>g, <2>2, <4>2, <4>3, Zenon
    <3>. QED BY <3>1, <3>2, Zenon
  <2>. QED BY <2>1, <2>2, Zenon
<1>. QED BY <1>1, <1>2, <1>3, <1>4, <1>5, <1>6, <1>7, <1>8, StoreStutters, Zenon DEF BufInv, StoreStep

LEMMA InitInv ==
  ASSUME BufInit
  PROVE  BufInv
<1>. USE DEF BufInit
<1>0. /\ (CHOOSE v \in Value : TRUE) \in Value /\ (CHOOSE b \in Buffer : TRUE) \in Buffer
  BY BufAssumption, Zenon
<1>1. BufTypes
  BY <1>0 DEF BufTypes
<1>2. BlockInv /\ ValidInv /\ CleanInv
  BY Zenon DEF BlockInv, ValidInv, CleanInv
<1>3. LockInv
  BY Zenon DEF LockInv, Holding
<1>4. UseInv
  <2>1. \A b \in Buffer : UsedBy(b) = {}
    BY Zenon DEF UsedBy
  <2>2. Cardinality({}) = 0
    BY FS_EmptySet, Zenon
  <2>. QED BY <2>1, <2>2, Zenon DEF UseInv
<1>5. QueueInv
  <2>1. Queued = {} /\ DOMAIN idequeue = {}
    BY DEF Queued
  <2>2. {q \in Client : AtDisk(q) /\ bp[q] \notin B_VALID \ B_DIRTY} = {}
    BY Zenon DEF AtDisk
  <2>. QED BY <2>1, <2>2, Zenon DEF QueueInv
<1>6. PinInv
  <2>1. Pinned = {} /\ Cardinality({}) = 0
    BY FS_EmptySet, Zenon DEF Pinned
  <2>. QED BY <2>1, BufAssumption DEF PinInv
<1>. QED BY <1>1, <1>2, <1>3, <1>4, <1>5, <1>6, Zenon DEF BufInv

LEMMA StepKeeps ==
  ASSUME BufInv, [BufNext]_bcacheVars
  PROVE  BufInv' /\ StoreStep
<1>1. CASE BufNext
  <2>1. ASSUME NEW p \in Client, NEW k \in Block, Bget(p, k)
        PROVE  BufInv' /\ StoreStep
    BY <2>1, BgetHitKeeps, BgetRecycleKeeps, Zenon DEF Bget
  <2>2. ASSUME NEW p \in Client, BufStep(p) \/ LogWrite(p) \/ Bwrite(p) \/ WakeEarly(p)
        PROVE  BufInv' /\ StoreStep
    BY <2>2, AcquireSleepKeeps, BreadValidKeeps, BreadDiskKeeps, IderwCheckKeeps,
       BrelseUnlockKeeps, UnrefKeeps, LogWriteKeeps, BwriteKeeps, WakeEarlyKeeps, Zenon DEF BufStep
  <2>. QED BY <1>1, <2>1, <2>2, IdeintrKeeps, Zenon DEF BufNext
<1>2. CASE UNCHANGED bcacheVars
  <2>1. /\ UNCHANGED <<bufFields, locked, idequeue, sectors, dev, bp>> /\ bpc' = bpc
    BY <1>2, Zenon DEF bcacheVars
  <2>2. \A q \in Client : (Holding(q)' <=> Holding(q)) /\ (AtDisk(q)' <=> AtDisk(q))
    BY <2>1, Zenon DEF Holding, AtDisk
  <2>. QED BY <2>1, <2>2, PlacesMove, Zenon DEF BufInv, BufTypes, ValidInv
<1>. QED BY <1>1, <1>2, Zenon

-----------------------------------------------------------------------------
(***************************************************************************)
(* The theorems.                                                           *)
(***************************************************************************)

\* The invariant of bio.c, sleeplock.c and ide.c together: one buffer for a
\* block, counted users, one holder of a sleep lock, a disk queue of what
\* holders wait for, and clean buffers that agree with the disk.
THEOREM BufInvariance == BufSpec => []BufInv
<1>1. BufInit => BufInv
  BY InitInv, Zenon
<1>2. BufInv /\ [BufNext]_bcacheVars => BufInv'
  BY StepKeeps, Zenon
<1>. QED BY <1>1, <1>2, PTL DEF BufSpec

\* The buffer cache is a store of blocks: between bread and brelse a process
\* has its block for itself, and finds in it what was last written there, from
\* a buffer or from the disk.
THEOREM CacheCoherent == BufSpec => Coherent
<1>1. BufInit => BS!Init
  <2>. SUFFICES ASSUME BufInit
                PROVE  BS!Init
    BY Zenon
  <2>0. BufInv /\ B_VALID = {} /\ sectors \in [Block -> Value] /\ \A q \in Client : ~Holding(q)
    BY InitInv, Zenon DEF BufInit, Holding, BufInv, BufTypes
  <2>1. \A k \in Block : Seen(k) = sectors[k]
    BY <2>0, SeenNow, Zenon DEF BufInv
  <2>2. \A k \in Block : Users(k) = {}
    BY <2>0, UsersFacts, Zenon
  <2>3. [k \in Block |-> Seen(k)] \in [Block -> Value]
    BY <2>0, <2>1, Zenon
  <2>4. [k \in Block |-> Users(k)] = [k \in Block |-> {}]
    BY <2>2, Zenon
  <2>. QED BY <2>3, <2>4, Zenon DEF BS!Init
<1>2. BufInv /\ [BufNext]_bcacheVars => StoreStep
  BY StepKeeps, Zenon
<1>. QED BY <1>1, <1>2, BufInvariance, PTL DEF BufSpec, Coherent, BS!Spec, StoreStep

\* bget finds a buffer: with one for every process and one for every block the
\* log may have pinned, an idle process leaves one to recycle.
THEOREM BgetFindsBuffer ==
  ASSUME Cardinality(Buffer) >= Cardinality(Client) + MaxPinned
  PROVE  BufSpec => []EnoughBuffers
<1>1. ASSUME BufInv, NEW p \in Client, bpc[p] = "idle", NEW k \in Block, NoBuffers(k)
      PROVE  FALSE
  <2>. DEFINE Busy == {q \in Client : bpc[q] # "idle"}
              Used == {bp[q] : q \in Busy}
  <2>1. Buffer \subseteq Used \cup Pinned
    <3>. SUFFICES ASSUME NEW b \in Buffer, b \notin Used
                  PROVE  b \in Pinned
      BY Zenon
    <3>1. UsedBy(b) = {}
      BY Zenon DEF UsedBy
    <3>2. refcnt[b] = 0
      BY <1>1, <3>1, FS_EmptySet, Zenon DEF BufInv, UseInv
    <3>3. b \in B_DIRTY
      BY <1>1, <3>2, Zenon DEF NoBuffers, Recyclable
    <3>. QED BY <3>3, Zenon DEF Pinned, AtDisk
  <2>2. Busy \subseteq Client \ {p}
    BY <1>1, Zenon
  <2>3. IsFiniteSet(Client \ {p}) /\ Cardinality(Client \ {p}) = Cardinality(Client) - 1
    BY BufAssumption, FS_RemoveElement, Zenon
  <2>4. IsFiniteSet(Busy) /\ Cardinality(Busy) <= Cardinality(Client) - 1
    <3>. HIDE DEF Busy
    <3>. QED BY <2>2, <2>3, FS_Subset, SMTT(30)
  <2>5. IsFiniteSet(Used) /\ Cardinality(Used) <= Cardinality(Busy)
    <3>1. PICK f : f = [q \in Busy |-> bp[q]]
      BY Zenon
    <3>2. f \in Surjection(Busy, Used)
      BY <3>1, Zenon DEF Surjection
    <3>. QED BY <2>4, <3>2, FS_Surjection, Zenon
  <2>6. IsFiniteSet(Pinned) /\ Cardinality(Pinned) <= MaxPinned
    BY <1>1, Finite, Zenon DEF BufInv, PinInv, BufTypes
  <2>. HIDE DEF Used, Busy
  <2>7. /\ IsFiniteSet(Used \cup Pinned)
        /\ Cardinality(Used \cup Pinned) =
             Cardinality(Used) + Cardinality(Pinned) - Cardinality(Used \cap Pinned)
    BY <2>5, <2>6, FS_Union, Zenon
  <2>8. IsFiniteSet(Used \cap Pinned)
    BY <2>5, FS_Intersection, Zenon
  <2>9. Cardinality(Buffer) <= Cardinality(Used \cup Pinned)
    BY <2>1, <2>7, FS_Subset, Zenon
  <2>10. /\ Cardinality(Used) \in Nat /\ Cardinality(Pinned) \in Nat /\ Cardinality(Busy) \in Nat
         /\ Cardinality(Used \cap Pinned) \in Nat /\ Cardinality(Client) \in Nat
         /\ Cardinality(Buffer) \in Nat
    BY <2>4, <2>5, <2>6, <2>8, BufAssumption, FS_CardinalityType, Zenon
  <2>. QED BY <2>4, <2>5, <2>6, <2>7, <2>9, <2>10, BufAssumption, SMTT(30)
<1>2. BufInv => EnoughBuffers
  BY <1>1, Zenon DEF EnoughBuffers
<1>. QED BY <1>2, BufInvariance, PTL
=============================================================================
