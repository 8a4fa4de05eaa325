----------------------------- MODULE LogProofs ------------------------------
(***************************************************************************)
(* Proofs about Log for every number of threads and blocks and every size  *)
(* of the log: calls that stay below their reservation never overrun it,   *)
(* and the log with crashes and recovery implements AtomicDisk.            *)
(***************************************************************************)
EXTENDS Log, FiniteSetTheorems, TLAPS

\* What begin_op's reservation has to be for log_write's test, which fails when
\* LOGSIZE - 1 blocks are logged: a call writes fewer blocks than are reserved
\* for it, the log is larger than one reservation, and the log on disk is as large as begin_op takes it to be.
Budget == OpBlocks < MAXOPBLOCKS /\ MAXOPBLOCKS < LOGSIZE /\ LOGSIZE <= LogSize

LEMMA LogSizes ==
  /\ NHome \in Nat /\ MAXOPBLOCKS \in Nat /\ LOGSIZE \in Nat /\ LogSize \in Nat /\ OpBlocks \in Nat
  /\ NHome > 0 /\ MAXOPBLOCKS > 0 /\ LOGSIZE > 0 /\ LogSize > 0 /\ OpBlocks > 0
  /\ MAXOPBLOCKS <= LOGSIZE /\ IsFiniteSet(Thread) /\ NoBuf \notin Val
BY LogAssumption

LEMMA BlockRanges ==
  /\ Home \subseteq DiskBlock /\ 0 \notin Home /\ Home \subseteq Nat /\ IsFiniteSet(Home)
  /\ \A i \in Nat : i > 0 /\ i < LogSize => i \in DiskBlock /\ i \notin Home
<1>1. IsFiniteSet(Home)
  BY LogSizes, FS_Interval DEF Home
<1>. QED BY <1>1, LogSizes DEF Home, DiskBlock

-----------------------------------------------------------------------------
(***************************************************************************)
(* Reservations.  Every call in progress has reserved the pairs <<t, i>>   *)
(* with i above the number of blocks it has written.                       *)
(***************************************************************************)

Working == {"op", "check", "record"}

InOp(p) == {t \in Thread : p[t] \in Working}

Reserved(p, wr) ==
  {x \in Thread \X (1 .. MAXOPBLOCKS) : x[1] \in InOp(p) /\ x[2] > Cardinality(wr[x[1]])}

LEMMA InOpFinite ==
  ASSUME NEW p
  PROVE  IsFiniteSet(InOp(p)) /\ Cardinality(InOp(p)) \in Nat
<1>1. InOp(p) \in SUBSET Thread
  BY Zenon DEF InOp
<1>2. IsFiniteSet(InOp(p))
  BY <1>1, LogSizes, FS_Subset, Zenon
<1>. QED BY <1>2, FS_CardinalityType, Zenon

\* No more is reserved than begin_op counts.
LEMMA ReservedFinite ==
  ASSUME NEW p, NEW wr
  PROVE  /\ IsFiniteSet(Reserved(p, wr)) /\ Cardinality(Reserved(p, wr)) \in Nat
         /\ Cardinality(Reserved(p, wr)) <= Cardinality(InOp(p)) * MAXOPBLOCKS
<1>. DEFINE P == InOp(p) \X (1 .. MAXOPBLOCKS)
<1>1. IsFiniteSet(1 .. MAXOPBLOCKS) /\ Cardinality(1 .. MAXOPBLOCKS) = MAXOPBLOCKS
  BY LogSizes, FS_Interval
<1>2. IsFiniteSet(P) /\ Cardinality(P) = Cardinality(InOp(p)) * MAXOPBLOCKS
  BY <1>1, InOpFinite, FS_Product, Zenon
<1>3. Reserved(p, wr) \in SUBSET P
  BY Zenon DEF Reserved
<1>4. IsFiniteSet(Reserved(p, wr)) /\ Cardinality(Reserved(p, wr)) <= Cardinality(P)
  BY <1>2, <1>3, FS_Subset, Zenon
<1>. QED BY <1>2, <1>4, FS_CardinalityType, Zenon

LEMMA NoneInOp ==
  ASSUME NEW p, NEW wr, Cardinality(InOp(p)) = 0
  PROVE  /\ Cardinality(Reserved(p, wr)) = 0
         /\ \A t \in Thread : p[t] \notin Working
<1>1. InOp(p) = {}
  BY InOpFinite, FS_EmptySet, Zenon
<1>2. Reserved(p, wr) = {}
  BY <1>1, Zenon DEF Reserved
<1>. QED BY <1>1, <1>2, FS_EmptySet, Zenon DEF InOp

LEMMA SomeInOp ==
  ASSUME NEW p, NEW t \in Thread, p[t] \in Working
  PROVE  Cardinality(InOp(p)) > 0
<1>1. InOp(p) # {}
  BY Zenon DEF InOp
<1>. QED BY <1>1, InOpFinite, FS_EmptySet

\* A call that has written fewer than k blocks holds at least what is above k.
LEMMA ReservedOne ==
  ASSUME NEW p, NEW wr, NEW t \in Thread, p[t] \in Working,
         Cardinality(wr[t]) \in Nat, Cardinality(wr[t]) < MAXOPBLOCKS
  PROVE  Cardinality(Reserved(p, wr)) >= 1
<1>1. MAXOPBLOCKS \in 1 .. MAXOPBLOCKS
  BY LogSizes
<1>2. <<t, MAXOPBLOCKS>> \in Reserved(p, wr)
  BY <1>1, LogSizes, Zenon DEF Reserved, InOp
<1>. QED BY <1>2, ReservedFinite, FS_EmptySet

\* Two calls hold at least one each.
LEMMA ReservedTwo ==
  ASSUME NEW p, NEW wr, NEW t \in Thread, NEW u \in Thread, t # u,
         p[t] \in Working, p[u] \in Working,
         Cardinality(wr[t]) \in Nat, Cardinality(wr[t]) < MAXOPBLOCKS,
         Cardinality(wr[u]) \in Nat, Cardinality(wr[u]) < MAXOPBLOCKS
  PROVE  Cardinality(Reserved(p, wr)) >= 2
<1>1. MAXOPBLOCKS \in 1 .. MAXOPBLOCKS
  BY LogSizes
<1>. DEFINE a == <<t, MAXOPBLOCKS>>
            b == <<u, MAXOPBLOCKS>>
            R == Reserved(p, wr)
<1>2. a \in R /\ b \in R /\ a # b
  BY <1>1, LogSizes DEF Reserved, InOp
<1>3. IsFiniteSet(R) /\ Cardinality(R) \in Nat
  BY ReservedFinite, Zenon
<1>. HIDE DEF a, b, R
<1>4. IsFiniteSet(R \ {a}) /\ Cardinality(R \ {a}) = Cardinality(R) - 1
  BY <1>2, <1>3, FS_RemoveElement, Zenon
<1>5. Cardinality(R \ {a}) # 0
  BY <1>2, <1>4, FS_EmptySet
<1>6. Cardinality(R \ {a}) \in Nat
  BY <1>4, FS_CardinalityType, Zenon
<1>7. Cardinality(R) >= 2
  BY <1>3, <1>4, <1>5, <1>6
<1>. QED BY <1>7, Zenon DEF R

\* A call that writes one more block gives up one of its reservations.
LEMMA ReservedLess ==
  ASSUME NEW p, NEW wr, NEW q, NEW w2, NEW t \in Thread,
         p[t] \in Working, InOp(q) = InOp(p),
         \A u \in Thread : u # t => w2[u] = wr[u],
         Cardinality(wr[t]) \in Nat, Cardinality(w2[t]) = Cardinality(wr[t]) + 1,
         Cardinality(wr[t]) < MAXOPBLOCKS
  PROVE  Cardinality(Reserved(q, w2)) = Cardinality(Reserved(p, wr)) - 1
<1>. DEFINE a == <<t, Cardinality(wr[t]) + 1>>
<1>1. Cardinality(wr[t]) + 1 \in 1 .. MAXOPBLOCKS
  BY LogSizes
<1>2. a \in Reserved(p, wr)
  BY <1>1, LogSizes DEF Reserved, InOp
<1>3. Reserved(q, w2) = Reserved(p, wr) \ {a}
  <2>1. ASSUME NEW u \in Thread, NEW i \in 1 .. MAXOPBLOCKS
        PROVE  <<u, i>> \in Reserved(q, w2) <=> <<u, i>> \in Reserved(p, wr) /\ <<u, i>> # a
    <3>1. <<u, i>> \in Reserved(q, w2) <=> u \in InOp(p) /\ i > Cardinality(w2[u])
      BY Zenon DEF Reserved
    <3>2. <<u, i>> \in Reserved(p, wr) <=> u \in InOp(p) /\ i > Cardinality(wr[u])
      BY Zenon DEF Reserved
    <3>3. CASE u # t
      BY <3>1, <3>2, <3>3, Zenon
    <3>4. CASE u = t
      <4>1. i > Cardinality(w2[t]) <=> i > Cardinality(wr[t]) /\ i # Cardinality(wr[t]) + 1
        BY LogSizes
      <4>. QED BY <3>1, <3>2, <3>4, <4>1, Zenon
    <3>. QED BY <3>3, <3>4, Zenon
  <2>2. \A x \in Thread \X (1 .. MAXOPBLOCKS) :
          \E u \in Thread, i \in 1 .. MAXOPBLOCKS : x = <<u, i>>
    OBVIOUS
  <2>3. Reserved(q, w2) \subseteq Thread \X (1 .. MAXOPBLOCKS) /\ Reserved(p, wr) \subseteq Thread \X (1 .. MAXOPBLOCKS)
    BY Zenon DEF Reserved
  <2>. HIDE DEF a
  <2>4. \A x \in Thread \X (1 .. MAXOPBLOCKS) :
          x \in Reserved(q, w2) <=> x \in Reserved(p, wr) /\ x # a
    BY <2>1, <2>2
  <2>. QED BY <2>3, <2>4, Zenon
<1>. HIDE DEF a
<1>. QED BY <1>2, <1>3, ReservedFinite, FS_RemoveElement, ZenonT(30)

\* A call that ends gives up at least one.
LEMMA ReservedFewer ==
  ASSUME NEW p, NEW wr, NEW q, NEW t \in Thread, p[t] \in Working, InOp(q) = InOp(p) \ {t},
         Cardinality(wr[t]) \in Nat, Cardinality(wr[t]) < MAXOPBLOCKS
  PROVE  Cardinality(Reserved(q, wr)) < Cardinality(Reserved(p, wr))
<1>. DEFINE a == <<t, MAXOPBLOCKS>>
            R == Reserved(p, wr)
<1>1. MAXOPBLOCKS \in 1 .. MAXOPBLOCKS
  BY LogSizes
<1>2. a \in R
  BY <1>1, LogSizes, Zenon DEF Reserved, InOp
<1>3. Reserved(q, wr) \in SUBSET (R \ {a})
  <2>1. a[1] = t
    OBVIOUS
  <2>2. a \notin Reserved(q, wr)
    BY <2>1, Zenon DEF Reserved
  <2>3. Reserved(q, wr) \subseteq R
    BY Zenon DEF Reserved
  <2>. QED BY <2>2, <2>3, Zenon
<1>4. IsFiniteSet(R) /\ Cardinality(R) \in Nat /\ Cardinality(Reserved(q, wr)) \in Nat
  BY ReservedFinite, Zenon
<1>. HIDE DEF a, R
<1>5. IsFiniteSet(R \ {a}) /\ Cardinality(R \ {a}) = Cardinality(R) - 1
  BY <1>2, <1>4, FS_RemoveElement, Zenon
<1>6. Cardinality(Reserved(q, wr)) <= Cardinality(R \ {a})
  BY <1>3, <1>5, FS_Subset, Zenon
<1>7. Cardinality(Reserved(q, wr)) < Cardinality(R)
  BY <1>4, <1>5, <1>6
<1>. QED BY <1>7, Zenon DEF R

-----------------------------------------------------------------------------
(***************************************************************************)
(* The invariant.                                                          *)
(***************************************************************************)

\* No two entries of a header are the same block.
Distinct(s) == \A i, j \in DOMAIN s : s[i] = s[j] => i = j

\* The number of calls in progress, and room for what they have reserved.  A call
\* alone has room to spare: it began with an empty log, or the others have ended
\* with something of their reservation unused.
CountInv ==
  /\ outstanding = Cardinality(InOp(pc))
  /\ Len(lh) + Cardinality(Reserved(pc, wrote)) <= LOGSIZE
  /\ outstanding = 1 => Len(lh) + Cardinality(Reserved(pc, wrote)) < LOGSIZE
  /\ Len(lh) < LOGSIZE /\ Len(dhead) < LOGSIZE

\* A call between bread() and log_write() has locked a block, alone, that is one of
\* those it may write, and its buffer is in the cache; what a call has written is
\* in the transaction.
CallInv ==
  /\ \A t \in Thread :
       /\ pc[t] # "panic"
       /\ held[t] # 0 <=> pc[t] \in {"check", "record"}
       /\ pc[t] \in Working => Cardinality(wrote[t]) <= OpBlocks /\ wrote[t] \subseteq Entries(lh)
       /\ held[t] # 0 => /\ cache[held[t]] # NoBuf
                         /\ Cardinality(wrote[t] \cup {held[t]}) <= OpBlocks
  /\ \A t, u \in Thread : t # u /\ held[t] = held[u] => held[t] = 0

\* Where commit() and recover_from_log() are, and what they have done.
PhaseInv ==
  /\ IF committing THEN outstanding = 0 /\ phase \in {"write_log", "write_head", "install", "done"}
                   ELSE phase \in {"up", "read_head", "install"}
  /\ Booting => outstanding = 0 /\ dirty = {}
  /\ phase \notin {"install", "read_head"} => dhead = <<>>
  /\ phase = "install" => dhead = lh
  /\ phase \in {"read_head", "done"} \/ (phase = "up" /\ outstanding = 0) => lh = <<>>
  /\ phase \notin {"write_log", "install"} => tail = 1
  /\ phase = "write_log" => tail <= Len(lh)

\* What the buffers, the log's data blocks and the home blocks hold.
DataInv ==
  /\ Distinct(lh) /\ Distinct(dhead)
  /\ ~Booting => dirty = {lh[i] : i \in {j \in DOMAIN lh : phase = "install" => j >= tail}}
  /\ \A b \in dirty : cache[b] # NoBuf
  /\ \A b \in Home :
       Booting \/ (b \notin Entries(lh) /\ \A t \in Thread : held[t] # b) => Content(b) = disk[b]
  /\ \A i \in DOMAIN lh :
       /\ phase = "write_head" \/ (phase = "write_log" /\ i < tail) => disk[i] = Content(lh[i])
       /\ phase = "install" /\ i < tail => disk[lh[i]] = disk[i]
       /\ phase = "install" /\ committing => Content(lh[i]) = disk[i]

LogInv ==
  Budget /\ TypeOK /\ CountInv /\ CallInv /\ PhaseInv /\ DataInv /\ SleepersNotLost

-----------------------------------------------------------------------------
(***************************************************************************)
(* What the invariant says of the state.                                   *)
(***************************************************************************)

\* An entry's place is a data block of the log, its value a block behind it.
LEMMA EntryFacts ==
  ASSUME Budget, NEW s \in Seq(Home), Len(s) < LOGSIZE
  PROVE  /\ \A i \in DOMAIN s : /\ s[i] \in Home /\ i \in Nat /\ i > 0 /\ i <= Len(s)
                                /\ i \in DiskBlock /\ i \notin Home
         /\ Entries(s) \subseteq Home /\ Len(s) \in Nat
         /\ \A i \in Nat : i > 0 /\ i <= Len(s) => i \in DOMAIN s
<1>1. DOMAIN s = 1 .. Len(s) /\ Len(s) \in Nat /\ s \in [1 .. Len(s) -> Home]
  OBVIOUS
<1>2. \A i \in 1 .. Len(s) : i \in Nat /\ i > 0 /\ i < LogSize
  BY <1>1, LogSizes DEF Budget
<1>3. \A i \in 1 .. Len(s) : s[i] \in Home /\ i \in DiskBlock /\ i \notin Home
  BY <1>1, <1>2, BlockRanges, Zenon
<1>4. Entries(s) \subseteq Home
  BY <1>1, <1>3, Zenon DEF Entries
<1>. QED BY <1>1, <1>2, <1>3, <1>4

LEMMA LhFacts ==
  ASSUME LogInv
  PROVE  /\ lh \in Seq(Home) /\ dhead \in Seq(Home) /\ Len(lh) \in Nat
         /\ \A i \in DOMAIN lh : /\ lh[i] \in Home /\ i \in Nat /\ i > 0 /\ i <= Len(lh)
                                 /\ i \in DiskBlock /\ i \notin Home
         /\ Entries(lh) \subseteq Home
         /\ \A i \in Nat : i > 0 /\ i <= Len(lh) => i \in DOMAIN lh
<1>1. lh \in Seq(Home) /\ dhead \in Seq(Home)
  BY Zenon DEF LogInv, TypeOK
<1>2. Len(lh) < LOGSIZE /\ Budget
  BY Zenon DEF LogInv, CountInv
<1>. QED BY <1>1, <1>2, EntryFacts, Zenon

\* Outside of calls nothing is locked.
LEMMA NothingHeld ==
  ASSUME LogInv, outstanding = 0
  PROVE  \A t \in Thread : held[t] = 0 /\ pc[t] \notin Working
<1>1. \A t \in Thread : pc[t] \notin Working
  BY NoneInOp, Zenon DEF LogInv, CountInv
<1>. QED BY <1>1, Zenon DEF LogInv, CallInv, Working

LEMMA WrittenFinite ==
  ASSUME TypeOK, NEW t \in Thread
  PROVE  IsFiniteSet(wrote[t]) /\ Cardinality(wrote[t]) \in Nat
<1>1. wrote[t] \in SUBSET Home
  BY Zenon DEF TypeOK
<1>2. IsFiniteSet(wrote[t])
  BY <1>1, BlockRanges, FS_Subset, Zenon
<1>. QED BY <1>2, FS_CardinalityType, Zenon

LEMMA ReservedSame ==
  ASSUME NEW p, NEW wr, NEW q, InOp(q) = InOp(p)
  PROVE  Reserved(q, wr) = Reserved(p, wr)
BY Zenon DEF Reserved

LEMMA DataKept ==
  ASSUME DataInv, UNCHANGED <<disk, dhead, lh, committing, cache, dirty, phase, tail, held>>
  PROVE  DataInv'
BY DEF DataInv, Booting, Content, Entries, Distinct

-----------------------------------------------------------------------------
(***************************************************************************)
(* Calls.                                                                  *)
(***************************************************************************)

LEMMA BeginOpInv ==
  ASSUME LogInv, NEW t \in Thread, BeginOp(t)
  PROVE  LogInv'
<1>0. /\ Budget /\ TypeOK /\ CountInv /\ CallInv /\ PhaseInv /\ DataInv /\ SleepersNotLost
      /\ outstanding \in Nat /\ pc[t] \in {"out", "begin"} /\ pc[t] \notin Working
  BY Zenon DEF LogInv, TypeOK, BeginOp, Working
<1>1. UNCHANGED <<disk, dhead, lh, committing, cache, dirty, phase, tail, held>>
  BY Zenon DEF BeginOp, diskVars, bufVars
<1>2. DataInv'
  BY <1>0, <1>1, DataKept, Zenon
<1>3. Budget'
  BY <1>0, Zenon DEF Budget
<1>4. CASE ~committing /\ Fits
  <2>1. /\ outstanding' = outstanding + 1 /\ pc' = [pc EXCEPT ![t] = "op"]
        /\ wrote' = [wrote EXCEPT ![t] = {}]
    BY <1>4, Zenon DEF BeginOp
  <2>2. TypeOK'
    BY <1>0, <1>1, <2>1 DEF TypeOK
  <2>3. outstanding' = Cardinality(InOp(pc'))
    <3>1. InOp(pc') = InOp(pc) \cup {t} /\ t \notin InOp(pc)
      BY <1>0, <2>1, Zenon DEF InOp, Working, TypeOK
    <3>2. Cardinality(InOp(pc) \cup {t}) = Cardinality(InOp(pc)) + 1
      BY <3>1, InOpFinite, FS_AddElement, Zenon
    <3>. QED BY <1>0, <2>1, <3>1, <3>2, Zenon DEF CountInv
  <2>4. Len(lh) + Cardinality(Reserved(pc', wrote')) <= LOGSIZE
    <3>1. Cardinality(Reserved(pc', wrote')) <= (outstanding + 1) * MAXOPBLOCKS
      BY <2>1, <2>3, ReservedFinite, Zenon
    <3>2. Cardinality(Reserved(pc', wrote')) \in Nat /\ Len(lh) \in Nat
      BY ReservedFinite, LhFacts, Zenon
    <3>3. (outstanding + 1) * MAXOPBLOCKS \in Nat
      BY <1>0, LogSizes
    <3>. QED BY <1>4, <3>1, <3>2, <3>3, LogSizes DEF Fits
  <2>9. outstanding' = 1 => Len(lh) + Cardinality(Reserved(pc', wrote')) < LOGSIZE
    <3>. SUFFICES ASSUME outstanding = 0
                  PROVE  Len(lh) + Cardinality(Reserved(pc', wrote')) < LOGSIZE
      BY <1>0, <2>1
    <3>1. phase = "up"
      BY <1>4, Zenon DEF BeginOp, Booting
    <3>2. lh = <<>>
      BY <1>0, <3>1, Zenon DEF PhaseInv
    <3>3. Cardinality(Reserved(pc', wrote')) <= (outstanding + 1) * MAXOPBLOCKS
      BY <2>1, <2>3, ReservedFinite, Zenon
    <3>4. Len(lh) = 0 /\ (outstanding + 1) * MAXOPBLOCKS = MAXOPBLOCKS
      BY <3>2, LogSizes
    <3>5. Cardinality(Reserved(pc', wrote')) \in Nat
      BY ReservedFinite, Zenon
    <3>. QED BY <1>0, <3>3, <3>4, <3>5, LogSizes DEF Budget
  <2>5. CountInv'
    BY <1>0, <1>1, <2>3, <2>4, <2>9, Zenon DEF CountInv
  <2>6. CallInv'
    <3>1. Cardinality({}) <= OpBlocks /\ {} \subseteq Entries(lh)
      BY FS_EmptySet, LogSizes
    <3>. QED BY <1>0, <1>1, <2>1, <3>1, Zenon DEF CallInv, TypeOK, Working
  <2>7. PhaseInv'
    BY <1>0, <1>1, <1>4, <2>1 DEF PhaseInv, Booting, BeginOp
  <2>8. SleepersNotLost'
    BY <1>0, <2>1, SMTT(30) DEF SleepersNotLost
  <2>. QED BY <1>2, <1>3, <2>2, <2>5, <2>6, <2>7, <2>8, Zenon DEF LogInv
<1>5. CASE ~(~committing /\ Fits)
  <2>1. UNCHANGED <<outstanding, wrote>> /\ pc' = [pc EXCEPT ![t] = "asleep"]
    BY <1>5, Zenon DEF BeginOp
  <2>2. TypeOK'
    BY <1>0, <1>1, <2>1, Zenon DEF TypeOK
  <2>3. CountInv'
    <3>1. InOp(pc') = InOp(pc)
      BY <1>0, <2>1, Zenon DEF InOp, Working, TypeOK
    <3>. QED BY <1>0, <1>1, <2>1, <3>1, ReservedSame, Zenon DEF CountInv
  <2>4. CallInv'
    BY <1>0, <1>1, <2>1, Zenon DEF CallInv, TypeOK, Working
  <2>5. PhaseInv'
    BY <1>0, <1>1, <2>1, Zenon DEF PhaseInv, Booting
  <2>6. SleepersNotLost'
    <3>1. CASE committing
      BY <1>1, <3>1, Zenon DEF SleepersNotLost
    <3>2. CASE ~committing
      <4>. SUFFICES ASSUME outstanding = 0 PROVE FALSE
        BY <1>0, <2>1 DEF SleepersNotLost
      <4>1. phase = "up"
        BY <3>2, Zenon DEF BeginOp, Booting
      <4>2. lh = <<>>
        BY <1>0, <4>1, Zenon DEF PhaseInv
      <4>3. Len(lh) = 0 /\ (outstanding + 1) * MAXOPBLOCKS = MAXOPBLOCKS
        BY <4>2, LogSizes
      <4>. QED BY <1>5, <3>2, <4>3, LogSizes DEF Fits
    <3>. QED BY <3>1, <3>2, Zenon
  <2>. QED BY <1>2, <1>3, <2>2, <2>3, <2>4, <2>5, <2>6, Zenon DEF LogInv
<1>. QED BY <1>4, <1>5, Zenon

LEMMA ModifyInv ==
  ASSUME LogInv, NEW t \in Thread, NEW b \in Home, NEW v \in Val, Modify(t, b, v)
  PROVE  LogInv'
<1>0. /\ Budget /\ TypeOK /\ CountInv /\ CallInv /\ PhaseInv /\ DataInv /\ SleepersNotLost
  BY Zenon DEF LogInv
<1>1. /\ UNCHANGED <<disk, dhead, lh, outstanding, committing, dirty, phase, tail, wrote>>
      /\ pc[t] = "op" /\ Cardinality(wrote[t] \cup {b}) <= OpBlocks
      /\ cache' = [cache EXCEPT ![b] = v] /\ held' = [held EXCEPT ![t] = b]
      /\ pc' = [pc EXCEPT ![t] = "check"]
      /\ \A u \in Thread : held[u] # b
  BY Zenon DEF Modify, diskVars, logVars
<1>2. v # NoBuf /\ b # 0
  BY LogSizes, BlockRanges, Zenon
<1>3. TypeOK'
  BY <1>0, <1>1, Zenon DEF TypeOK
<1>4. CountInv'
  <2>1. InOp(pc') = InOp(pc)
    BY <1>0, <1>1, Zenon DEF InOp, Working, TypeOK
  <2>. QED BY <1>0, <1>1, <2>1, ReservedSame, Zenon DEF CountInv
<1>6. CallInv'
  BY <1>0, <1>1, <1>2, Zenon DEF CallInv, TypeOK, Working
<1>7. outstanding > 0 /\ ~committing /\ ~Booting /\ phase = "up"
  <2>1. outstanding > 0
    BY <1>0, <1>1, SomeInOp, Zenon DEF CountInv, Working
  <2>. QED BY <1>0, <2>1 DEF PhaseInv, Booting
<1>8. PhaseInv'
  BY <1>0, <1>1, Zenon DEF PhaseInv, Booting
<1>9. DataInv'
  <2>1. \A c \in Home : c # b => Content(c)' = Content(c)
    BY <1>0, <1>1, Zenon DEF Content, TypeOK
  <2>2. \A c \in dirty' : cache'[c] # NoBuf
    BY <1>0, <1>1, <1>2, Zenon DEF DataInv, TypeOK
  <2>3. ASSUME NEW c \in Home, c \notin Entries(lh), \A u \in Thread : held'[u] # c
        PROVE  Content(c)' = disk'[c]
    <3>1. c # b
      BY <1>0, <1>1, <2>3, Zenon DEF TypeOK
    <3>2. \A u \in Thread : held[u] # c
      <4>. TAKE u \in Thread
      <4>1. CASE u = t
        <5>1. held[t] = 0
          BY <1>0, <1>1, Zenon DEF CallInv
        <5>. QED BY <4>1, <5>1, BlockRanges, Zenon
      <4>2. CASE u # t
        BY <1>0, <1>1, <2>3, <4>2, Zenon DEF TypeOK
      <4>. QED BY <4>1, <4>2, Zenon
    <3>3. Content(c) = disk[c]
      BY <1>0, <2>3, <3>2, Zenon DEF DataInv
    <3>. QED BY <1>1, <2>1, <3>1, <3>3, Zenon
  <2>4. Entries(lh)' = Entries(lh) /\ Booting' = Booting
    BY <1>1, Zenon DEF Entries, Booting
  <2>5. \A c \in Home : Booting' \/ (c \notin Entries(lh)' /\ \A u \in Thread : held'[u] # c) => Content(c)' = disk'[c]
    BY <1>7, <2>3, <2>4, Zenon
  <2>. QED BY <1>0, <1>1, <1>7, <2>2, <2>4, <2>5, SMTT(30) DEF DataInv, Distinct
<1>10. SleepersNotLost'
  BY <1>0, <1>1, Zenon DEF SleepersNotLost, TypeOK
<1>. QED BY <1>0, <1>3, <1>4, <1>6, <1>8, <1>9, <1>10, Zenon DEF LogInv, Budget

\* The log is never within one block of its end while a call is in progress: the
\* call holds a reservation, and there is one more, of another call or to spare.
LEMMA RoomLeft ==
  ASSUME LogInv, NEW t \in Thread, pc[t] \in Working
  PROVE  Len(lh) < LOGSIZE - 1 /\ outstanding > 0 /\ outstanding \in Nat
<1>0. Budget /\ TypeOK /\ CountInv /\ CallInv
  BY Zenon DEF LogInv
<1>1. outstanding > 0 /\ outstanding \in Nat
  BY <1>0, SomeInOp, Zenon DEF CountInv, TypeOK
<1>2. ASSUME NEW u \in Thread, pc[u] \in Working
      PROVE  Cardinality(wrote[u]) \in Nat /\ Cardinality(wrote[u]) < MAXOPBLOCKS
  <2>1. Cardinality(wrote[u]) \in Nat /\ Cardinality(wrote[u]) <= OpBlocks
    BY <1>0, <1>2, WrittenFinite, Zenon DEF CallInv
  <2>. QED BY <1>0, <2>1, LogSizes DEF Budget
<1>3. Len(lh) \in Nat /\ Cardinality(Reserved(pc, wrote)) \in Nat
  BY LhFacts, ReservedFinite, Zenon
<1>4. CASE outstanding = 1
  <2>1. Cardinality(Reserved(pc, wrote)) >= 1
    BY <1>2, ReservedOne, Zenon
  <2>2. Len(lh) + Cardinality(Reserved(pc, wrote)) < LOGSIZE
    BY <1>0, <1>4, Zenon DEF CountInv
  <2>. QED BY <1>1, <1>3, <2>1, <2>2, LogSizes
<1>5. CASE outstanding # 1
  <2>1. PICK u \in Thread : u # t /\ pc[u] \in Working
    <3>1. t \in InOp(pc) /\ IsFiniteSet(InOp(pc))
      BY InOpFinite, Zenon DEF InOp
    <3>2. /\ IsFiniteSet(InOp(pc) \ {t})
          /\ Cardinality(InOp(pc) \ {t}) = Cardinality(InOp(pc)) - 1
      BY <3>1, FS_RemoveElement, Zenon
    <3>3. Cardinality(InOp(pc)) = outstanding
      BY <1>0, Zenon DEF CountInv
    <3>4. Cardinality(InOp(pc) \ {t}) # 0
      BY <1>1, <1>5, <3>2, <3>3
    <3>5. InOp(pc) \ {t} # {}
      BY <3>4, FS_EmptySet, Zenon
    <3>. QED BY <3>5, Zenon DEF InOp
  <2>2. Cardinality(Reserved(pc, wrote)) >= 2
    BY <1>2, <2>1, ReservedTwo, Zenon
  <2>3. Len(lh) + Cardinality(Reserved(pc, wrote)) <= LOGSIZE
    BY <1>0, Zenon DEF CountInv
  <2>. QED BY <1>1, <1>3, <2>2, <2>3, LogSizes
<1>. QED BY <1>4, <1>5, Zenon

\* The test that log_write makes before it locks does not fail.
LEMMA LogWriteCheckInv ==
  ASSUME LogInv, NEW t \in Thread, LogWriteCheck(t)
  PROVE  LogInv'
<1>0. /\ Budget /\ TypeOK /\ CountInv /\ CallInv /\ PhaseInv /\ DataInv /\ SleepersNotLost
  BY Zenon DEF LogInv
<1>1. /\ UNCHANGED <<disk, dhead, lh, outstanding, committing, cache, dirty, phase, tail, held, wrote>>
      /\ pc[t] = "check" /\ pc[t] \in Working
  BY Zenon DEF LogWriteCheck, diskVars, logVars, bufVars, Working
<1>2. pc' = [pc EXCEPT ![t] = "record"]
  <2>1. Len(lh) < LOGSIZE - 1 /\ outstanding > 0 /\ outstanding \in Nat
    BY <1>1, RoomLeft, Zenon
  <2>5. ~(Len(lh) >= LOGSIZE \/ Len(lh) >= LogSize - 1)
    BY <1>0, <2>1, LhFacts, LogSizes DEF Budget
  <2>6. ~(outstanding < 1)
    BY <2>1
  <2>. QED BY <2>5, <2>6, Zenon DEF LogWriteCheck
<1>3. TypeOK'
  BY <1>0, <1>1, <1>2, Zenon DEF TypeOK
<1>4. CountInv'
  <2>1. InOp(pc') = InOp(pc)
    BY <1>0, <1>1, <1>2, Zenon DEF InOp, Working, TypeOK
  <2>. QED BY <1>0, <1>1, <2>1, ReservedSame, Zenon DEF CountInv
<1>5. CallInv'
  BY <1>0, <1>1, <1>2, Zenon DEF CallInv, TypeOK, Working
<1>6. PhaseInv'
  BY <1>0, <1>1, Zenon DEF PhaseInv, Booting
<1>7. DataInv'
  BY <1>0, <1>1, DataKept, Zenon
<1>8. SleepersNotLost'
  BY <1>0, <1>1, <1>2, Zenon DEF SleepersNotLost, TypeOK
<1>. QED BY <1>0, <1>3, <1>4, <1>5, <1>6, <1>7, <1>8, Zenon DEF LogInv, Budget

\* What absorption makes of the header.
LEMMA Absorbed ==
  ASSUME NEW s \in Seq(Home), NEW x \in Home, NEW z,
         z = IF x \in Entries(s) THEN s ELSE Append(s, x), Distinct(s)
  PROVE  /\ z \in Seq(Home) /\ Distinct(z) /\ Entries(z) = Entries(s) \cup {x}
         /\ Len(z) \in Nat /\ Len(s) \in Nat /\ Len(z) <= Len(s) + 1
<1>1. CASE x \in Entries(s)
  BY <1>1
<1>2. CASE x \notin Entries(s)
  <2>1. /\ z \in Seq(Home) /\ Len(z) = Len(s) + 1 /\ Len(s) \in Nat
        /\ \A i \in 1 .. Len(s) : z[i] = s[i]
        /\ z[Len(s) + 1] = x
    BY <1>2, SMTT(30)
  <2>2. DOMAIN z = 1 .. Len(s) + 1 /\ DOMAIN s = 1 .. Len(s)
    BY <2>1
  <2>3. \A i \in 1 .. Len(s) : s[i] # x
    BY <1>2, <2>2, Zenon DEF Entries
  <2>4. Distinct(z)
    <3>. SUFFICES ASSUME NEW i \in 1 .. Len(s) + 1, NEW j \in 1 .. Len(s) + 1, z[i] = z[j]
                  PROVE  i = j
      BY <2>2, Zenon DEF Distinct
    <3>1. i \in 1 .. Len(s) \/ i = Len(s) + 1
      BY <2>1
    <3>2. j \in 1 .. Len(s) \/ j = Len(s) + 1
      BY <2>1
    <3>. QED BY <2>1, <2>2, <2>3, <3>1, <3>2, Zenon DEF Distinct
  <2>5. Entries(z) = Entries(s) \cup {x}
    <3>1. \A i \in 1 .. Len(s) : i \in 1 .. Len(s) + 1
      BY <2>1
    <3>2. Len(s) + 1 \in 1 .. Len(s) + 1
      BY <2>1
    <3>3. \A i \in 1 .. Len(s) + 1 : i \in 1 .. Len(s) \/ i = Len(s) + 1
      BY <2>1
    <3>. QED BY <2>1, <2>2, <3>1, <3>2, <3>3, ZenonT(30) DEF Entries
  <2>. QED BY <2>1, <2>4, <2>5
<1>. QED BY <1>1, <1>2, Zenon

LEMMA LogWriteRecordInv ==
  ASSUME LogInv, NEW t \in Thread, LogWriteRecord(t)
  PROVE  LogInv'
<1>0. /\ Budget /\ TypeOK /\ CountInv /\ CallInv /\ PhaseInv /\ DataInv /\ SleepersNotLost
  BY Zenon DEF LogInv
<1>1. /\ UNCHANGED <<disk, dhead, outstanding, committing, cache, phase, tail>>
      /\ pc[t] = "record" /\ pc[t] \in Working
      /\ dirty' = dirty \cup {held[t]}
      /\ wrote' = [wrote EXCEPT ![t] = @ \cup {held[t]}]
      /\ held' = [held EXCEPT ![t] = 0] /\ pc' = [pc EXCEPT ![t] = "op"]
  BY Zenon DEF LogWriteRecord, diskVars, Working
<1>2. /\ held[t] \in Home /\ held[t] # 0 /\ cache[held[t]] # NoBuf
      /\ Cardinality(wrote[t]) \in Nat /\ Cardinality(wrote[t] \cup {held[t]}) <= OpBlocks
  <2>1. held[t] # 0 /\ held[t] \in Home \cup {0}
    BY <1>0, <1>1, Zenon DEF CallInv, TypeOK
  <2>2. Cardinality(wrote[t]) \in Nat
    BY <1>0, WrittenFinite, Zenon
  <2>. QED BY <1>0, <2>1, <2>2, Zenon DEF CallInv
<1>3. /\ lh' \in Seq(Home) /\ Distinct(lh') /\ Entries(lh') = Entries(lh) \cup {held[t]}
      /\ Len(lh') \in Nat /\ Len(lh) \in Nat /\ Len(lh') <= Len(lh) + 1
  <2>1. lh' = IF held[t] \in Entries(lh) THEN lh ELSE Append(lh, held[t])
    BY Zenon DEF LogWriteRecord
  <2>2. lh \in Seq(Home) /\ Distinct(lh)
    BY <1>0, Zenon DEF TypeOK, DataInv
  <2>. QED BY <1>2, <2>1, <2>2, Absorbed, Zenon
<1>4. outstanding > 0 /\ ~committing /\ ~Booting /\ phase = "up"
  <2>1. outstanding > 0
    BY <1>0, <1>1, SomeInOp, Zenon DEF CountInv
  <2>. QED BY <1>0, <2>1, SMTT(30) DEF PhaseInv, Booting
<1>5. /\ wrote'[t] = wrote[t] \cup {held[t]} /\ Cardinality(wrote'[t]) <= OpBlocks
      /\ held[t] \notin wrote[t] => Cardinality(wrote'[t]) = Cardinality(wrote[t]) + 1
  <2>1. wrote'[t] = wrote[t] \cup {held[t]}
    BY <1>0, <1>1, Zenon DEF TypeOK
  <2>2. held[t] \notin wrote[t] => Cardinality(wrote[t] \cup {held[t]}) = Cardinality(wrote[t]) + 1
    BY <1>0, WrittenFinite, FS_AddElement, Zenon
  <2>. QED BY <1>2, <2>1, <2>2, Zenon
<1>6. TypeOK'
  BY <1>0, <1>1, <1>2, <1>3, Zenon DEF TypeOK
<1>7. CountInv'
  <2>1. InOp(pc') = InOp(pc)
    BY <1>0, <1>1, Zenon DEF InOp, Working, TypeOK
  <2>2. \A u \in Thread : u # t => wrote'[u] = wrote[u]
    BY <1>0, <1>1, Zenon DEF TypeOK
  <2>3. CASE held[t] \in wrote[t]
    <3>1. held[t] \in Entries(lh)
      BY <1>0, <1>1, <2>3, Zenon DEF CallInv
    <3>2. lh' = lh
      BY <3>1, Zenon DEF LogWriteRecord
    <3>3. wrote' = wrote
      <4>1. wrote'[t] = wrote[t]
        BY <1>5, <2>3, Zenon
      <4>2. wrote \in [Thread -> SUBSET Home] /\ wrote' \in [Thread -> SUBSET Home]
        BY <1>0, <1>6, Zenon DEF TypeOK
      <4>3. \A u \in Thread : wrote'[u] = wrote[u]
        BY <2>2, <4>1, Zenon
      <4>. QED BY <4>2, <4>3
    <3>. QED BY <1>0, <1>1, <2>1, <3>2, <3>3, ReservedSame, Zenon DEF CountInv
  <2>4. CASE held[t] \notin wrote[t]
    <3>1. Cardinality(wrote[t]) < MAXOPBLOCKS /\ Cardinality(wrote'[t]) = Cardinality(wrote[t]) + 1
      BY <1>0, <1>2, <1>5, <2>4, LogSizes, SMTT(30) DEF Budget
    <3>2. Cardinality(Reserved(pc', wrote')) = Cardinality(Reserved(pc, wrote)) - 1
      <4>1. pc[t] \in Working
        BY <1>1, Zenon
      <4>2. Cardinality(wrote[t]) \in Nat
        BY <1>2, Zenon
      <4>. QED BY <2>1, <2>2, <3>1, <4>1, <4>2, ReservedLess, SMTT(30)
    <3>3. Cardinality(Reserved(pc, wrote)) \in Nat /\ Cardinality(Reserved(pc', wrote')) \in Nat
      BY ReservedFinite, Zenon
    <3>4. Len(lh) < LOGSIZE - 1
      BY <1>1, RoomLeft, Zenon
    <3>5. /\ Len(lh') + Cardinality(Reserved(pc', wrote')) <= Len(lh) + Cardinality(Reserved(pc, wrote))
          /\ Len(lh') < LOGSIZE
      BY <1>3, <3>2, <3>3, <3>4, LogSizes
    <3>6. /\ Len(lh') + Cardinality(Reserved(pc', wrote')) <= LOGSIZE
          /\ outstanding = 1 => Len(lh') + Cardinality(Reserved(pc', wrote')) < LOGSIZE
      BY <1>0, <1>3, <3>3, <3>5, LogSizes, SMTT(30) DEF CountInv
    <3>. QED BY <1>0, <1>1, <2>1, <3>5, <3>6, Zenon DEF CountInv
  <2>. QED BY <2>3, <2>4, Zenon
<1>8. CallInv'
  <2>1. Cardinality(wrote'[t]) <= OpBlocks /\ wrote'[t] \subseteq Entries(lh')
    <3>1. wrote[t] \subseteq Entries(lh)
      BY <1>0, <1>1, Zenon DEF CallInv
    <3>. QED BY <1>3, <1>5, <3>1, Zenon
  <2>2. \A u \in Thread : u # t => wrote'[u] = wrote[u] /\ held'[u] = held[u] /\ pc'[u] = pc[u]
    BY <1>0, <1>1, Zenon DEF TypeOK
  <2>3. held'[t] = 0 /\ pc'[t] = "op"
    BY <1>0, <1>1, Zenon DEF TypeOK
  <2>4. ASSUME NEW u \in Thread
        PROVE  /\ pc'[u] # "panic"
               /\ held'[u] # 0 <=> pc'[u] \in {"check", "record"}
               /\ pc'[u] \in Working => /\ Cardinality(wrote'[u]) <= OpBlocks
                                         /\ wrote'[u] \subseteq Entries(lh')
               /\ held'[u] # 0 => /\ cache'[held'[u]] # NoBuf
                                  /\ Cardinality(wrote'[u] \cup {held'[u]}) <= OpBlocks
    <3>1. CASE u = t
      BY <2>1, <2>3, <3>1, Zenon
    <3>2. CASE u # t
      <4>1. pc[u] \in Working => wrote'[u] \subseteq Entries(lh')
        BY <1>0, <1>3, <2>2, <3>2, Zenon DEF CallInv
      <4>. QED BY <1>0, <1>1, <2>2, <3>2, <4>1, Zenon DEF CallInv
    <3>. QED BY <3>1, <3>2, Zenon
  <2>5. \A u, x \in Thread : u # x /\ held'[u] = held'[x] => held'[u] = 0
    BY <1>0, <2>2, <2>3 DEF CallInv
  <2>. QED BY <2>4, <2>5, Zenon DEF CallInv
<1>9. PhaseInv'
  BY <1>0, <1>1, <1>4, SMTT(30) DEF PhaseInv, Booting
<1>10. DataInv'
  <2>1. Content(0)' = Content(0) /\ \A c \in Home : Content(c)' = Content(c)
    BY <1>1, Zenon DEF Content
  <2>2. dirty' = {lh'[i] : i \in {j \in DOMAIN lh' : phase' = "install" => j >= tail'}}
    <3>1. dirty = Entries(lh)
      BY <1>0, <1>4, Zenon DEF DataInv, Entries
    <3>2. dirty' = Entries(lh')
      BY <1>1, <1>3, <3>1, Zenon
    <3>3. {j \in DOMAIN lh' : phase' = "install" => j >= tail'} = DOMAIN lh'
      BY <1>1, <1>4, Zenon
    <3>. QED BY <3>2, <3>3, Zenon DEF Entries
  <2>3. \A c \in dirty' : cache'[c] # NoBuf
    BY <1>0, <1>1, <1>2, Zenon DEF DataInv
  <2>4. ASSUME NEW c \in Home, c \notin Entries(lh'), \A u \in Thread : held'[u] # c
        PROVE  Content(c)' = disk'[c]
    <3>1. c # held[t] /\ c \notin Entries(lh)
      BY <1>3, <2>4, Zenon
    <3>2. \A u \in Thread : held[u] # c
      BY <1>0, <1>1, <2>4, <3>1, Zenon DEF TypeOK
    <3>3. Content(c) = disk[c]
      BY <1>0, <3>1, <3>2, Zenon DEF DataInv
    <3>. QED BY <1>1, <2>1, <3>3, Zenon
  <2>5. Entries(lh)' = Entries(lh') /\ ~Booting'
    BY <1>1, <1>4, Zenon DEF Entries, Booting
  <2>6. \A c \in Home : Booting' \/ (c \notin Entries(lh)' /\ \A u \in Thread : held'[u] # c) => Content(c)' = disk'[c]
    BY <2>4, <2>5, Zenon
  <2>7. Distinct(lh)' /\ Distinct(dhead)'
    BY <1>0, <1>1, <1>3, Zenon DEF DataInv, Distinct
  <2>. QED BY <1>1, <1>4, <2>2, <2>3, <2>6, <2>7, Zenon DEF DataInv
<1>11. SleepersNotLost'
  BY <1>0, <1>1, <1>4, Zenon DEF SleepersNotLost, TypeOK
<1>. QED BY <1>0, <1>6, <1>7, <1>8, <1>9, <1>10, <1>11, Zenon DEF LogInv, Budget

\* A call that ends takes its reservation with it.
LEMMA EndOpCounts ==
  ASSUME LogInv, NEW t \in Thread, pc[t] = "op",
         outstanding' = outstanding - 1, UNCHANGED <<lh, dhead, wrote>>,
         InOp(pc') = InOp(pc) \ {t}
  PROVE  CountInv' /\ outstanding \in Nat /\ outstanding > 0
<1>1. t \in InOp(pc)
  BY Zenon DEF InOp, Working
<1>2. Cardinality(InOp(pc) \ {t}) = Cardinality(InOp(pc)) - 1
  BY <1>1, InOpFinite, FS_RemoveElement, Zenon
<1>3. outstanding > 0 /\ outstanding \in Nat
  BY SomeInOp, Zenon DEF LogInv, CountInv, Working, TypeOK
<1>4. outstanding' = Cardinality(InOp(pc'))
  BY <1>2, Zenon DEF LogInv, CountInv
<1>5. Cardinality(Reserved(pc', wrote)) < Cardinality(Reserved(pc, wrote))
  <2>1. Cardinality(wrote[t]) \in Nat /\ Cardinality(wrote[t]) <= OpBlocks
    BY WrittenFinite, Zenon DEF LogInv, CallInv, Working
  <2>2. Cardinality(wrote[t]) < MAXOPBLOCKS
    BY <2>1, LogSizes DEF LogInv, Budget
  <2>. QED BY <2>1, <2>2, ReservedFewer, Zenon DEF Working
<1>6. Cardinality(Reserved(pc', wrote)) \in Nat /\ Cardinality(Reserved(pc, wrote)) \in Nat /\ Len(lh) \in Nat
  BY ReservedFinite, LhFacts, Zenon
<1>7. Len(lh) + Cardinality(Reserved(pc', wrote)) < LOGSIZE
  BY <1>5, <1>6, LogSizes DEF LogInv, CountInv
<1>8. Len(lh) + Cardinality(Reserved(pc', wrote)) <= LOGSIZE
  BY <1>6, <1>7, LogSizes
<1>. QED BY <1>3, <1>4, <1>7, <1>8, Zenon DEF LogInv, CountInv

LEMMA EndOpInv ==
  ASSUME LogInv, NEW t \in Thread, EndOp(t)
  PROVE  LogInv'
<1>0. /\ Budget /\ TypeOK /\ CountInv /\ CallInv /\ PhaseInv /\ DataInv /\ SleepersNotLost
  BY Zenon DEF LogInv
<1>1. /\ UNCHANGED <<disk, dhead, lh, cache, dirty, tail, held, wrote>>
      /\ pc[t] = "op" /\ pc[t] \in Working /\ outstanding' = outstanding - 1
  BY Zenon DEF EndOp, diskVars, bufVars, Working
<1>2. outstanding > 0 /\ outstanding \in Nat /\ ~committing /\ ~Booting /\ phase = "up"
  <2>1. outstanding > 0 /\ outstanding \in Nat
    BY <1>0, <1>1, SomeInOp, Zenon DEF CountInv, TypeOK
  <2>. QED BY <1>0, <2>1 DEF PhaseInv, Booting
<1>3. dhead = <<>> /\ tail = 1
  BY <1>0, <1>2, Zenon DEF PhaseInv
<1>4. Budget'
  BY <1>0, Zenon DEF Budget
<1>5. CASE outstanding = 1
  <2>1. /\ committing' = TRUE /\ phase' = (IF lh = <<>> THEN "done" ELSE "write_log")
        /\ pc' = [pc EXCEPT ![t] = "commit"]
    BY <1>2, <1>5, Zenon DEF EndOp
  <2>2. InOp(pc') = InOp(pc) \ {t}
    BY <1>0, <2>1, Zenon DEF InOp, Working, TypeOK
  <2>3. CountInv'
    BY <1>1, <2>2, EndOpCounts, Zenon
  <2>4. TypeOK'
    BY <1>0, <1>1, <1>2, <1>5, <2>1, SMTT(30) DEF TypeOK
  <2>5. CallInv'
    BY <1>0, <1>1, <2>1, Zenon DEF CallInv, TypeOK, Working
  <2>6. lh # <<>> => tail <= Len(lh)
    BY <1>3, LhFacts
  <2>7. PhaseInv'
    BY <1>1, <1>3, <1>5, <2>1, <2>6, SMTT(30) DEF PhaseInv, Booting
  <2>8. DataInv'
    <3>1. ~Booting' /\ phase' # "install" /\ phase' # "write_head"
      BY <2>1, Zenon DEF Booting
    <3>2. \A b \in Home : Content(b)' = Content(b)
      BY <1>1, Zenon DEF Content
    <3>3. ~(\E i \in DOMAIN lh : i < tail)
      BY <1>3, LhFacts
    <3>4. {j \in DOMAIN lh : phase' = "install" => j >= tail} = {j \in DOMAIN lh : phase = "install" => j >= tail}
      BY <1>2, <3>1, Zenon
    <3>5. Entries(lh)' = Entries(lh) /\ Distinct(lh)' /\ Distinct(dhead)'
      BY <1>0, <1>1 DEF Entries, Distinct, DataInv
    <3>6. dirty' = {lh'[i] : i \in {j \in DOMAIN lh' : phase' = "install" => j >= tail'}}
      BY <1>0, <1>1, <1>2, <3>4, Zenon DEF DataInv
    <3>7. \A b \in Home : b \notin Entries(lh) /\ (\A u \in Thread : held[u] # b) => Content(b)' = disk'[b]
      BY <1>0, <1>1, <3>2, Zenon DEF DataInv
    <3>8. \A b \in dirty' : cache'[b] # NoBuf
      BY <1>0, <1>1, Zenon DEF DataInv
    <3>. QED BY <1>1, <3>1, <3>3, <3>5, <3>6, <3>7, <3>8, Zenon DEF DataInv
  <2>9. SleepersNotLost'
    BY <2>1, Zenon DEF SleepersNotLost
  <2>. QED BY <1>4, <2>3, <2>4, <2>5, <2>7, <2>8, <2>9, Zenon DEF LogInv
<1>6. CASE outstanding # 1
  <2>1. UNCHANGED <<committing, phase>> /\ pc' = [Awake EXCEPT ![t] = "out"]
    BY <1>2, <1>6, Zenon DEF EndOp
  <2>2. pc'[t] = "out" /\ \A u \in Thread : u # t => pc'[u] = IF pc[u] = "asleep" THEN "begin" ELSE pc[u]
    BY <2>1, Zenon DEF Awake
  <2>3. InOp(pc') = InOp(pc) \ {t}
    BY <2>2, Zenon DEF InOp, Working
  <2>4. CountInv'
    BY <1>1, <2>3, EndOpCounts, Zenon
  <2>5. TypeOK'
    BY <1>0, <1>1, <1>2, <2>1 DEF TypeOK, Awake
  <2>6. CallInv'
    BY <1>0, <1>1, <2>2, Zenon DEF CallInv, Working
  <2>7. PhaseInv'
    BY <1>0, <1>1, <1>2, <1>6, <2>1, SMTT(30) DEF PhaseInv, Booting
  <2>8. DataInv'
    BY <1>0, <1>1, <2>1, DataKept, Zenon
  <2>9. SleepersNotLost'
    BY <2>2, Zenon DEF SleepersNotLost
  <2>. QED BY <1>4, <2>4, <2>5, <2>6, <2>7, <2>8, <2>9, Zenon DEF LogInv
<1>. QED BY <1>5, <1>6, Zenon

LEMMA EndCommitInv ==
  ASSUME LogInv, NEW t \in Thread, EndCommit(t)
  PROVE  LogInv'
<1>0. /\ Budget /\ TypeOK /\ CountInv /\ CallInv /\ PhaseInv /\ DataInv /\ SleepersNotLost
  BY Zenon DEF LogInv
<1>1. /\ UNCHANGED <<disk, dhead, lh, outstanding, cache, dirty, tail, held, wrote>>
      /\ phase = "done" /\ pc[t] = "commit" /\ committing' = FALSE /\ phase' = "up"
      /\ pc' = [Awake EXCEPT ![t] = "out"]
  BY Zenon DEF EndCommit, diskVars, bufVars
<1>2. pc'[t] = "out" /\ \A u \in Thread : u # t => pc'[u] = IF pc[u] = "asleep" THEN "begin" ELSE pc[u]
  BY <1>1, Zenon DEF Awake
<1>3. committing /\ outstanding = 0 /\ lh = <<>> /\ dhead = <<>> /\ tail = 1
  BY <1>0, <1>1, Zenon DEF PhaseInv
<1>4. TypeOK'
  BY <1>0, <1>1, Zenon DEF TypeOK, Awake
<1>5. CountInv'
  <2>1. InOp(pc') = InOp(pc)
    BY <1>1, <1>2, SMTT(30) DEF InOp, Working
  <2>. QED BY <1>0, <1>1, <2>1, ReservedSame, Zenon DEF CountInv
<1>6. CallInv'
  BY <1>0, <1>1, <1>2 DEF CallInv, Working
<1>7. PhaseInv'
  BY <1>1, <1>3, Zenon DEF PhaseInv, Booting
<1>8. DataInv'
  <2>1. DOMAIN lh = {} /\ ~Booting /\ ~Booting'
    BY <1>1, <1>3 DEF Booting
  <2>2. \A b \in Home : Content(b)' = Content(b)
    BY <1>1, Zenon DEF Content
  <2>. QED BY <1>0, <1>1, <1>3, <2>1, <2>2, SMTT(30) DEF DataInv, Distinct, Entries
<1>9. SleepersNotLost'
  BY <1>2, Zenon DEF SleepersNotLost
<1>. QED BY <1>0, <1>4, <1>5, <1>6, <1>7, <1>8, <1>9, Zenon DEF LogInv, Budget

LEMMA EvictInv ==
  ASSUME LogInv, NEW b \in Home, Evict(b)
  PROVE  LogInv' /\ \A c \in Home : ~Booting => Content(c)' = Content(c)
<1>0. /\ Budget /\ TypeOK /\ CountInv /\ CallInv /\ PhaseInv /\ DataInv /\ SleepersNotLost
  BY Zenon DEF LogInv
<1>1. /\ UNCHANGED <<disk, dhead, lh, outstanding, committing, dirty, phase, tail, pc, held, wrote>>
      /\ cache[b] # NoBuf /\ b \notin dirty /\ cache' = [cache EXCEPT ![b] = NoBuf]
      /\ \A t \in Thread : held[t] # b
  BY Zenon DEF Evict, diskVars, logVars, threadVars
<1>2. Content(b) = disk[b]
  <2>1. CASE Booting \/ b \notin Entries(lh)
    BY <1>0, <1>1, <2>1, Zenon DEF DataInv
  <2>2. CASE ~Booting /\ b \in Entries(lh)
    <3>1. PICK i \in DOMAIN lh : lh[i] = b
      BY <2>2, Zenon DEF Entries
    <3>2. phase = "install" /\ ~(i >= tail)
      BY <1>0, <1>1, <2>2, <3>1, Zenon DEF DataInv
    <3>3. i < tail
      BY <1>0, <3>2, LhFacts DEF TypeOK
    <3>4. committing
      BY <2>2, <3>2, Zenon DEF Booting
    <3>. QED BY <1>0, <3>1, <3>2, <3>3, <3>4, Zenon DEF DataInv
  <2>. QED BY <2>1, <2>2, Zenon
<1>3. \A c \in Home : Content(c)' = Content(c)
  BY <1>0, <1>1, <1>2, Zenon DEF Content, TypeOK
<1>4. TypeOK'
  BY <1>0, <1>1, Zenon DEF TypeOK
<1>5. CountInv' /\ PhaseInv' /\ SleepersNotLost'
  BY <1>0, <1>1, Zenon DEF CountInv, PhaseInv, SleepersNotLost, Booting
<1>6. CallInv'
  BY <1>0, <1>1, Zenon DEF CallInv, TypeOK
<1>7. DataInv'
  <2>1. \A c \in dirty' : cache'[c] # NoBuf
    BY <1>0, <1>1, Zenon DEF DataInv, TypeOK
  <2>2. Booting' = Booting /\ Entries(lh)' = Entries(lh) /\ Distinct(lh)' /\ Distinct(dhead)'
    BY <1>0, <1>1 DEF Booting, Entries, Distinct, DataInv
  <2>3. \A i \in DOMAIN lh : lh[i] \in Home
    BY LhFacts, Zenon
  <2>4. \A i \in DOMAIN lh : Content(lh[i])' = Content(lh[i])
    <3>. TAKE i \in DOMAIN lh
    <3>1. PICK c \in Home : c = lh[i]
      BY <2>3, Zenon
    <3>2. lh'[i] = c
      BY <1>1, <3>1, Zenon
    <3>. QED BY <1>1, <1>3, <3>1, <3>2, Zenon DEF Content
  <2>. QED BY <1>0, <1>1, <1>3, <2>1, <2>2, <2>4, SMTT(30) DEF DataInv
<1>. QED BY <1>0, <1>3, <1>4, <1>5, <1>6, <1>7, Zenon DEF LogInv, Budget

-----------------------------------------------------------------------------
(***************************************************************************)
(* Crash, recovery and commit.                                             *)
(***************************************************************************)

\* Memory as it is when the machine starts.
LEMMA Restarted ==
  ASSUME Budget, disk' \in [DiskBlock -> Val], dhead' \in Seq(Home),
         Distinct(dhead'), Len(dhead') < LOGSIZE,
         lh' = <<>>, outstanding' = 0, committing' = FALSE,
         cache' = [b \in Home |-> NoBuf], dirty' = {}, phase' = "read_head", tail' = 1,
         pc' = [t \in Thread |-> "out"], held' = [t \in Thread |-> 0],
         wrote' = [t \in Thread |-> {}]
  PROVE  LogInv'
<1>1. TypeOK'
  <2>1. <<>> \in Seq(Home) /\ 1 \in Nat \ {0} /\ 0 \in Nat
    OBVIOUS
  <2>2. cache' \in [Home -> Val \cup {NoBuf}] /\ held' \in [Thread -> Home \cup {0}]
    BY Zenon
  <2>3. wrote' \in [Thread -> SUBSET Home]
    BY Zenon
  <2>. QED BY <2>1, <2>2, <2>3, Zenon DEF TypeOK
<1>2. CountInv'
  <2>1. InOp(pc') = {}
    BY Zenon DEF InOp, Working
  <2>2. Cardinality(InOp(pc')) = 0
    BY <2>1, FS_EmptySet, Zenon
  <2>3. Cardinality(Reserved(pc', wrote')) = 0
    BY <2>2, NoneInOp, Zenon
  <2>. QED BY <2>2, <2>3, LogSizes DEF CountInv
<1>3. CallInv'
  BY Zenon DEF CallInv, Working
<1>4. PhaseInv'
  BY Zenon DEF PhaseInv, Booting
<1>5. DataInv'
  BY DEF DataInv, Booting, Content, Entries, Distinct
<1>6. SleepersNotLost'
  BY Zenon DEF SleepersNotLost
<1>. QED BY <1>1, <1>2, <1>3, <1>4, <1>5, <1>6, Zenon DEF LogInv, Budget

LEMMA CrashInv ==
  ASSUME LogInv, Crash
  PROVE  LogInv'
<1>1. disk' \in [DiskBlock -> Val] /\ dhead' \in Seq(Home) /\ Distinct(dhead') /\ Len(dhead') < LOGSIZE /\ Budget
  BY Zenon DEF LogInv, TypeOK, DataInv, CountInv, Crash, diskVars, Distinct
<1>. QED BY <1>1, Restarted, Zenon DEF Crash

LEMMA ReadHeadInv ==
  ASSUME LogInv, ReadHead
  PROVE  LogInv'
<1>0. /\ Budget /\ TypeOK /\ CountInv /\ CallInv /\ PhaseInv /\ DataInv /\ SleepersNotLost
  BY Zenon DEF LogInv
<1>1. /\ UNCHANGED <<disk, dhead, outstanding, committing, cache, dirty, tail, pc, held, wrote>>
      /\ phase = "read_head" /\ lh' = dhead /\ phase' = "install"
  BY Zenon DEF ReadHead, diskVars, bufVars, threadVars
<1>2. Booting /\ Booting' /\ ~committing /\ outstanding = 0 /\ dirty = {} /\ tail = 1
  BY <1>0, <1>1, Zenon DEF PhaseInv, Booting
<1>3. TypeOK'
  BY <1>0, <1>1, Zenon DEF TypeOK
<1>4. CountInv'
  <2>1. Cardinality(Reserved(pc, wrote)) = 0
    BY <1>0, <1>2, NoneInOp, Zenon DEF CountInv
  <2>2. Len(dhead) \in Nat /\ Len(dhead) < LOGSIZE
    BY <1>0 DEF TypeOK, CountInv
  <2>. QED BY <1>0, <1>1, <2>1, <2>2, LogSizes, SMTT(30) DEF CountInv
<1>5. CallInv' /\ SleepersNotLost'
  <2>1. \A t \in Thread : pc[t] \notin Working
    BY <1>2, NothingHeld, Zenon
  <2>. QED BY <1>0, <1>1, <2>1, Zenon DEF CallInv, SleepersNotLost
<1>6. PhaseInv'
  BY <1>0, <1>1, <1>2, Zenon DEF PhaseInv, Booting
<1>7. DataInv'
  <2>1. \A b \in Home : Content(b)' = Content(b)
    BY <1>1, Zenon DEF Content
  <2>2. \A i \in DOMAIN dhead : ~(i < tail)
    <3>1. dhead \in Seq(Home) /\ Len(dhead) < LOGSIZE
      BY <1>0, Zenon DEF TypeOK, CountInv
    <3>. QED BY <1>0, <1>2, <3>1, EntryFacts
  <2>3. Distinct(lh)' /\ Distinct(dhead)'
    BY <1>0, <1>1, Zenon DEF DataInv, Distinct
  <2>. QED BY <1>0, <1>1, <1>2, <2>1, <2>2, <2>3, Zenon DEF DataInv
<1>. QED BY <1>0, <1>3, <1>4, <1>5, <1>6, <1>7, Zenon DEF LogInv, Budget

LEMMA ContentType ==
  ASSUME TypeOK, NEW b \in Home
  PROVE  Content(b) \in Val
BY BlockRanges, Zenon DEF TypeOK, Content

\* A write to the log leaves every home block and every buffer as it is.
LEMMA WriteLogEffect ==
  ASSUME LogInv, WriteLog
  PROVE  /\ UNCHANGED <<dhead, lh, outstanding, committing, cache, dirty, pc, held, wrote>>
         /\ phase = "write_log" /\ committing /\ tail \in DOMAIN lh
         /\ disk' = [disk EXCEPT ![tail] = Content(lh[tail])]
         /\ disk' \in [DiskBlock -> Val] /\ disk'[tail] = Content(lh[tail])
         /\ \A b \in Home : disk'[b] = disk[b] /\ Content(b)' = Content(b)
<1>0. TypeOK /\ PhaseInv /\ DataInv /\ CountInv
  BY Zenon DEF LogInv
<1>1. phase = "write_log" /\ committing /\ ~Booting
  BY <1>0, Zenon DEF WriteLog, PhaseInv, Booting
<1>2. tail \in DOMAIN lh /\ lh[tail] \in Home /\ tail \in DiskBlock /\ tail \notin Home
  <2>1. tail \in Nat /\ tail > 0 /\ tail <= Len(lh)
    BY <1>0, <1>1 DEF PhaseInv, TypeOK
  <2>. QED BY <2>1, LhFacts, Zenon
<1>3. /\ disk' = [disk EXCEPT ![tail] = Content(lh[tail])]
      /\ cache' = cache /\ dirty' = dirty
  BY <1>0, <1>2, Zenon DEF WriteLog, DiskWrite, TypeOK
<1>4. UNCHANGED <<dhead, lh, outstanding, committing, pc, held, wrote>>
  BY Zenon DEF WriteLog, logVars, threadVars
<1>5. Content(lh[tail]) \in Val
  BY <1>0, <1>2, ContentType, Zenon
<1>6. /\ disk' \in [DiskBlock -> Val] /\ disk'[tail] = Content(lh[tail])
      /\ \A b \in Home : disk'[b] = disk[b]
  BY <1>0, <1>2, <1>3, <1>5, BlockRanges, Zenon DEF TypeOK
<1>7. \A b \in Home : Content(b)' = Content(b)
  BY <1>3, <1>6, Zenon DEF Content
<1>. QED BY <1>1, <1>2, <1>3, <1>4, <1>6, <1>7, Zenon

LEMMA WriteLogInv ==
  ASSUME LogInv, WriteLog
  PROVE  LogInv'
<1>0. /\ Budget /\ TypeOK /\ CountInv /\ CallInv /\ PhaseInv /\ DataInv /\ SleepersNotLost
  BY Zenon DEF LogInv
<1>1. /\ UNCHANGED <<dhead, lh, outstanding, committing, cache, dirty, pc, held, wrote>>
      /\ phase = "write_log" /\ committing /\ tail \in DOMAIN lh
      /\ disk' = [disk EXCEPT ![tail] = Content(lh[tail])]
      /\ disk' \in [DiskBlock -> Val] /\ disk'[tail] = Content(lh[tail])
      /\ \A b \in Home : disk'[b] = disk[b] /\ Content(b)' = Content(b)
  BY WriteLogEffect, Zenon
<1>2. IF tail < Len(lh) THEN tail' = tail + 1 /\ phase' = phase ELSE tail' = 1 /\ phase' = "write_head"
  BY Zenon DEF WriteLog
<1>3. tail \in Nat /\ tail > 0 /\ tail <= Len(lh) /\ Len(lh) \in Nat
  BY <1>1, LhFacts, Zenon
<1>4. TypeOK'
  BY <1>0, <1>1, <1>2, <1>3 DEF TypeOK
<1>5. CountInv' /\ CallInv' /\ SleepersNotLost'
  BY <1>0, <1>1, Zenon DEF CountInv, CallInv, SleepersNotLost
<1>6. PhaseInv'
  BY <1>0, <1>1, <1>2, <1>3, SMTT(30) DEF PhaseInv, Booting
<1>7. DataInv'
  <2>1. phase' \in {"write_log", "write_head"} /\ ~Booting /\ ~Booting'
    BY <1>1, <1>2, Zenon DEF Booting
  <2>2. Entries(lh)' = Entries(lh) /\ Distinct(lh)' /\ Distinct(dhead)'
    BY <1>0, <1>1, SMTT(30) DEF Entries, Distinct, DataInv
  <2>3. dirty' = {lh'[i] : i \in {j \in DOMAIN lh' : phase' = "install" => j >= tail'}}
    <3>1. {j \in DOMAIN lh : phase' = "install" => j >= tail'} = {j \in DOMAIN lh : phase = "install" => j >= tail}
      BY <1>1, <2>1, Zenon
    <3>. QED BY <1>0, <1>1, <2>1, <3>1 DEF DataInv
  <2>4. \A b \in dirty' : cache'[b] # NoBuf
    BY <1>0, <1>1, Zenon DEF DataInv
  <2>5. \A b \in Home : b \notin Entries(lh) /\ (\A t \in Thread : held[t] # b) => Content(b)' = disk'[b]
    BY <1>0, <1>1, Zenon DEF DataInv
  <2>6. ASSUME NEW i \in DOMAIN lh, phase' = "write_head" \/ i < tail'
        PROVE  disk'[i] = Content(lh[i])'
    <3>1. i \in Nat /\ i <= Len(lh) /\ lh[i] \in Home /\ i \in DiskBlock
      BY LhFacts, Zenon
    <3>2. i <= tail
      <4>1. CASE tail < Len(lh)
        <5>1. tail' = tail + 1 /\ i < tail'
          BY <1>1, <1>2, <2>6, <4>1, Zenon
        <5>. QED BY <1>3, <3>1, <5>1
      <4>2. CASE ~(tail < Len(lh))
        BY <1>3, <3>1, <4>2
      <4>. QED BY <4>1, <4>2, Zenon
    <3>3. Content(lh[i])' = Content(lh[i])
      <4>1. PICK c \in Home : c = lh[i]
        BY <3>1, Zenon
      <4>2. Content(c)' = Content(c) /\ lh'[i] = c
        BY <1>1, <4>1, Zenon
      <4>. QED BY <4>1, <4>2, Zenon DEF Content
    <3>4. CASE i = tail
      BY <1>1, <3>3, <3>4, Zenon
    <3>5. CASE i # tail
      <4>1. i < tail
        BY <1>3, <3>1, <3>2, <3>5, SMTT(30)
      <4>2. disk[i] = Content(lh[i])
        BY <1>0, <1>1, <4>1, Zenon DEF DataInv
      <4>3. disk'[i] = disk[i]
        BY <1>0, <1>1, <3>1, <3>5, Zenon DEF TypeOK
      <4>. QED BY <3>3, <4>2, <4>3, Zenon
    <3>. QED BY <3>4, <3>5, Zenon
  <2>. QED BY <1>1, <2>1, <2>2, <2>3, <2>4, <2>5, <2>6, Zenon DEF DataInv
<1>. QED BY <1>0, <1>4, <1>5, <1>6, <1>7, Zenon DEF LogInv, Budget

LEMMA WriteHeadInv ==
  ASSUME LogInv, WriteHead
  PROVE  LogInv'
<1>0. /\ Budget /\ TypeOK /\ CountInv /\ CallInv /\ PhaseInv /\ DataInv /\ SleepersNotLost
  BY Zenon DEF LogInv
<1>1. /\ UNCHANGED <<disk, lh, outstanding, committing, cache, dirty, tail, pc, held, wrote>>
      /\ phase = "write_head" /\ dhead' = lh /\ phase' = "install"
  BY Zenon DEF WriteHead, logVars, bufVars, threadVars
<1>2. committing /\ ~Booting /\ ~Booting' /\ tail = 1
  BY <1>0, <1>1, Zenon DEF PhaseInv, Booting
<1>3. TypeOK'
  BY <1>0, <1>1, Zenon DEF TypeOK
<1>4. CountInv' /\ CallInv' /\ SleepersNotLost'
  BY <1>0, <1>1, Zenon DEF CountInv, CallInv, SleepersNotLost
<1>5. PhaseInv'
  BY <1>0, <1>1, <1>2, Zenon DEF PhaseInv, Booting
<1>6. DataInv'
  <2>1. \A b : Content(b)' = Content(b)
    BY <1>1, Zenon DEF Content
  <2>2. Entries(lh)' = Entries(lh) /\ Distinct(lh)' /\ Distinct(dhead)'
    BY <1>0, <1>1 DEF Entries, Distinct, DataInv
  <2>3. \A i \in DOMAIN lh : i >= tail /\ ~(i < tail)
    BY <1>2, LhFacts
  <2>4. dirty' = {lh'[i] : i \in {j \in DOMAIN lh' : phase' = "install" => j >= tail'}}
    <3>1. {j \in DOMAIN lh : phase' = "install" => j >= tail} = {j \in DOMAIN lh : phase = "install" => j >= tail}
      BY <2>3, Zenon
    <3>. QED BY <1>0, <1>1, <1>2, <3>1, Zenon DEF DataInv
  <2>5. \A i \in DOMAIN lh : Content(lh[i])' = disk'[i]
    <3>. TAKE i \in DOMAIN lh
    <3>1. Content(lh[i]) = disk[i]
      BY <1>0, <1>1, Zenon DEF DataInv
    <3>. QED BY <1>1, <3>1, Zenon DEF Content
  <2>6. \A b \in Home : b \notin Entries(lh) /\ (\A t \in Thread : held[t] # b) => Content(b)' = disk'[b]
    BY <1>0, <1>1, <2>1, Zenon DEF DataInv
  <2>7. \A b \in dirty' : cache'[b] # NoBuf
    BY <1>0, <1>1, Zenon DEF DataInv
  <2>. QED BY <1>1, <1>2, <2>2, <2>3, <2>4, <2>5, <2>6, <2>7, Zenon DEF DataInv
<1>. QED BY <1>0, <1>3, <1>4, <1>5, <1>6, Zenon DEF LogInv, Budget

\* One block of the log goes to its home: the log stays as it is, and so does
\* every other home block.
LEMMA InstallEffect ==
  ASSUME LogInv, Install
  PROVE  /\ UNCHANGED <<dhead, lh, outstanding, committing, phase, pc, held, wrote>>
         /\ phase = "install" /\ tail \in DOMAIN lh /\ tail' = tail + 1 /\ dhead = lh
         /\ dirty' = dirty \ {lh[tail]}
         /\ disk' \in [DiskBlock -> Val] /\ cache' \in [Home -> Val \cup {NoBuf}]
         /\ \A b \in Home : b = lh[tail] => disk'[b] = disk[tail] /\ Content(b)' = disk[tail]
         /\ \A i \in DOMAIN lh : disk'[i] = disk[i]
         /\ \A b \in Home : b # lh[tail] => disk'[b] = disk[b] /\ Content(b)' = Content(b)
         /\ \A b \in Home : b # lh[tail] => cache'[b] = cache[b]
         /\ cache'[lh[tail]] # NoBuf
<1>0. TypeOK /\ PhaseInv
  BY Zenon DEF LogInv
<1>1. /\ UNCHANGED <<dhead, lh, outstanding, committing, phase, pc, held, wrote>>
      /\ phase = "install" /\ tail' = tail + 1
  BY Zenon DEF Install, logVars, threadVars
<1>2. tail \in DOMAIN lh
  <2>1. tail \in Nat /\ tail > 0 /\ tail <= Len(lh)
    BY <1>0 DEF Install, TypeOK
  <2>. QED BY <2>1, LhFacts, Zenon
<1>3. PICK x \in Home : x = lh[tail]
  BY <1>2, LhFacts, Zenon
<1>4. tail \in DiskBlock /\ x \in DiskBlock /\ disk[tail] \in Val /\ disk[tail] # NoBuf
  <2>1. tail \in DiskBlock /\ x \in DiskBlock
    BY <1>2, LhFacts, BlockRanges, Zenon
  <2>2. disk[tail] \in Val
    BY <1>0, <2>1, Zenon DEF TypeOK
  <2>. QED BY <2>1, <2>2, LogSizes, Zenon
<1>5. /\ disk' = [disk EXCEPT ![x] = disk[tail]] /\ cache' = [cache EXCEPT ![x] = disk[tail]]
      /\ dirty' = dirty \ {x}
  BY <1>3, Zenon DEF Install, DiskWrite
<1>6. disk' \in [DiskBlock -> Val] /\ cache' \in [Home -> Val \cup {NoBuf}]
  BY <1>0, <1>4, <1>5, Zenon DEF TypeOK
<1>7. disk'[x] = disk[tail] /\ cache'[x] = disk[tail]
  BY <1>0, <1>4, <1>5, Zenon DEF TypeOK
<1>8. \A i \in DOMAIN lh : disk'[i] = disk[i]
  <2>. TAKE i \in DOMAIN lh
  <2>1. i \in DiskBlock /\ i # x
    BY LhFacts, Zenon
  <2>. QED BY <1>0, <1>5, <2>1, Zenon DEF TypeOK
<1>9. \A b \in Home : b # x => disk'[b] = disk[b] /\ cache'[b] = cache[b]
  BY <1>0, <1>5, BlockRanges, Zenon DEF TypeOK
<1>10. \A b \in Home : b # x => Content(b)' = Content(b)
  BY <1>9, Zenon DEF Content
<1>11. Content(x)' = disk[tail]
  BY <1>4, <1>7, Zenon DEF Content
<1>12. dhead = lh
  BY <1>0, <1>1, Zenon DEF PhaseInv
<1>. QED BY <1>1, <1>2, <1>3, <1>4, <1>5, <1>6, <1>7, <1>8, <1>9, <1>10, <1>11, <1>12, Zenon

LEMMA InstallInv ==
  ASSUME LogInv, Install
  PROVE  LogInv'
<1>0. /\ Budget /\ TypeOK /\ CountInv /\ CallInv /\ PhaseInv /\ DataInv /\ SleepersNotLost
  BY Zenon DEF LogInv
<1>1. /\ UNCHANGED <<dhead, lh, outstanding, committing, phase, pc, held, wrote>>
      /\ phase = "install" /\ tail \in DOMAIN lh /\ tail' = tail + 1 /\ dhead = lh
      /\ dirty' = dirty \ {lh[tail]}
      /\ disk' \in [DiskBlock -> Val] /\ cache' \in [Home -> Val \cup {NoBuf}]
      /\ \A i \in DOMAIN lh : disk'[i] = disk[i]
  BY InstallEffect, Zenon
<1>2. PICK x \in Home : /\ x = lh[tail] /\ disk'[x] = disk[tail] /\ Content(x)' = disk[tail]
                        /\ cache'[x] # NoBuf
                        /\ \A b \in Home : b # x => /\ disk'[b] = disk[b] /\ Content(b)' = Content(b)
                                                    /\ cache'[b] = cache[b]
  BY <1>1, LhFacts, InstallEffect, Zenon
<1>3. tail \in Nat /\ tail > 0
  BY <1>1, LhFacts, Zenon
<1>4. TypeOK'
  BY <1>0, <1>1, <1>3, SMTT(30) DEF TypeOK
<1>5. CountInv' /\ SleepersNotLost'
  BY <1>0, <1>1, Zenon DEF CountInv, SleepersNotLost
<1>6. CallInv'
  <2>1. outstanding = 0
    BY <1>0, <1>1, Zenon DEF PhaseInv, Booting
  <2>2. \A t \in Thread : held[t] = 0 /\ pc[t] \notin Working
    BY <2>1, NothingHeld, Zenon
  <2>. QED BY <1>0, <1>1, <2>2, Zenon DEF CallInv
<1>7. PhaseInv'
  BY <1>0, <1>1, Zenon DEF PhaseInv, Booting
<1>8. DataInv'
  <2>1. Booting' = Booting /\ Entries(lh)' = Entries(lh) /\ Distinct(lh)' /\ Distinct(dhead)' /\ Distinct(lh)
    BY <1>0, <1>1 DEF Booting, Entries, Distinct, DataInv
  <2>2. \A i \in DOMAIN lh : i \in Nat /\ lh[i] \in Home
    BY LhFacts, Zenon
  <2>3. ~Booting => dirty' = {lh'[i] : i \in {j \in DOMAIN lh' : phase' = "install" => j >= tail'}}
    <3>. SUFFICES ASSUME ~Booting PROVE dirty \ {lh[tail]} = {lh[i] : i \in {j \in DOMAIN lh : j >= tail + 1}}
      BY <1>1, Zenon
    <3>1. dirty = {lh[i] : i \in {j \in DOMAIN lh : j >= tail}}
      BY <1>0, <1>1, Zenon DEF DataInv
    <3>2. \A j \in DOMAIN lh : j >= tail + 1 <=> j >= tail /\ j # tail
      BY <1>3, <2>2
    <3>3. \A j \in DOMAIN lh : j # tail => lh[j] # lh[tail]
      BY <1>1, <2>1, Zenon DEF Distinct
    <3>. QED BY <3>1, <3>2, <3>3, Zenon
  <2>4. \A b \in dirty' : cache'[b] # NoBuf
    BY <1>0, <1>1, <1>2, Zenon DEF DataInv, TypeOK
  <2>5. \A b \in Home : Booting \/ (b \notin Entries(lh) /\ \A t \in Thread : held[t] # b) => Content(b)' = disk'[b]
    BY <1>0, <1>2, Zenon DEF DataInv
  <2>6. ASSUME NEW i \in DOMAIN lh, i < tail'
        PROVE  disk'[lh[i]] = disk'[i]
    <3>1. CASE i = tail
      BY <1>1, <1>2, <3>1, Zenon
    <3>2. CASE i # tail
      <4>1. i < tail
        BY <1>1, <1>3, <2>2, <2>6, <3>2, SMTT(30)
      <4>2. disk[lh[i]] = disk[i]
        BY <1>0, <1>1, <4>1, Zenon DEF DataInv
      <4>3. lh[i] # x /\ lh[i] \in Home
        BY <1>1, <1>2, <2>1, <2>2, <3>2, Zenon DEF Distinct
      <4>. QED BY <1>1, <1>2, <4>2, <4>3, Zenon
    <3>. QED BY <3>1, <3>2, Zenon
  <2>7. ASSUME NEW i \in DOMAIN lh, committing
        PROVE  Content(lh[i])' = disk'[i]
    <3>1. PICK c \in Home : c = lh[i] /\ c = lh'[i]
      BY <1>1, <2>2, Zenon
    <3>2. Content(c)' = disk'[i]
      <4>1. CASE i = tail
        BY <1>1, <1>2, <3>1, <4>1, Zenon
      <4>2. CASE i # tail
        <5>1. Content(lh[i]) = disk[i]
          BY <1>0, <1>1, <2>7, Zenon DEF DataInv
        <5>2. c # x
          BY <1>1, <1>2, <2>1, <3>1, <4>2, SMTT(30) DEF Distinct
        <5>. QED BY <1>1, <1>2, <3>1, <5>1, <5>2, Zenon
      <4>. QED BY <4>1, <4>2, Zenon
    <3>. QED BY <3>1, <3>2, Zenon DEF Content
  <2>. QED BY <1>1, <2>1, <2>3, <2>4, <2>5, <2>6, <2>7, Zenon DEF DataInv
<1>. QED BY <1>0, <1>4, <1>5, <1>6, <1>7, <1>8, Zenon DEF LogInv, Budget

\* When install_trans is done the home blocks are what the buffers are.
LEMMA Installed ==
  ASSUME LogInv, phase = "install", tail > Len(lh)
  PROVE  /\ \A i \in DOMAIN lh : disk[lh[i]] = disk[i]
         /\ \A b \in Home : Content(b) = disk[b]
         /\ outstanding = 0 /\ dhead = lh /\ dirty = {}
<1>0. TypeOK /\ PhaseInv /\ DataInv
  BY Zenon DEF LogInv
<1>1. \A i \in DOMAIN lh : i < tail /\ ~(i >= tail)
  BY <1>0, LhFacts DEF TypeOK
<1>2. \A i \in DOMAIN lh : disk[lh[i]] = disk[i]
  BY <1>0, <1>1, Zenon DEF DataInv
<1>3. outstanding = 0 /\ dhead = lh
  BY <1>0, Zenon DEF PhaseInv, Booting
<1>4. dirty = {}
  <2>1. CASE Booting
    BY <1>0, <2>1, Zenon DEF PhaseInv
  <2>2. CASE ~Booting
    BY <1>0, <1>1, <2>2, Zenon DEF DataInv
  <2>. QED BY <2>1, <2>2, Zenon
<1>5. ASSUME NEW b \in Home PROVE Content(b) = disk[b]
  <2>1. CASE Booting
    BY <1>0, <2>1, Zenon DEF DataInv
  <2>2. CASE b \notin Entries(lh)
    <3>1. \A t \in Thread : held[t] # b
      BY <1>3, NothingHeld, BlockRanges, Zenon
    <3>. QED BY <1>0, <2>2, <3>1, Zenon DEF DataInv
  <2>3. CASE ~Booting /\ b \in Entries(lh)
    <3>1. PICK i \in DOMAIN lh : lh[i] = b
      BY <2>3, Zenon DEF Entries
    <3>2. committing
      BY <2>3, Zenon DEF Booting
    <3>. QED BY <1>0, <1>2, <3>1, <3>2, Zenon DEF DataInv
  <2>. QED BY <2>1, <2>2, <2>3, Zenon
<1>. QED BY <1>2, <1>3, <1>4, <1>5, Zenon

LEMMA EraseInv ==
  ASSUME LogInv, Erase
  PROVE  LogInv'
<1>0. /\ Budget /\ TypeOK /\ CountInv /\ CallInv /\ PhaseInv /\ DataInv /\ SleepersNotLost
  BY Zenon DEF LogInv
<1>1. /\ UNCHANGED <<disk, outstanding, committing, cache, dirty, pc, held, wrote>>
      /\ phase = "install" /\ tail > Len(lh) /\ lh' = <<>> /\ dhead' = <<>> /\ tail' = 1
      /\ phase' = IF committing THEN "done" ELSE "up"
  BY Zenon DEF Erase, bufVars, threadVars
<1>2. (\A b \in Home : Content(b) = disk[b]) /\ outstanding = 0 /\ dirty = {}
  BY <1>1, Installed, Zenon
<1>3. TypeOK'
  <2>1. <<>> \in Seq(Home) /\ 1 \in Nat \ {0}
    OBVIOUS
  <2>. QED BY <1>0, <1>1, <2>1, Zenon DEF TypeOK
<1>4. CountInv'
  <2>1. Len(<<>>) = 0
    BY Zenon
  <2>2. Cardinality(Reserved(pc, wrote)) = 0
    BY <1>0, <1>2, NoneInOp, Zenon DEF CountInv
  <2>. QED BY <1>0, <1>1, <2>1, <2>2, LogSizes, SMTT(30) DEF CountInv
<1>5. CallInv' /\ SleepersNotLost'
  <2>1. \A t \in Thread : pc[t] \notin Working
    BY <1>2, NothingHeld, Zenon
  <2>. QED BY <1>0, <1>1, <2>1, Zenon DEF CallInv, SleepersNotLost
<1>6. PhaseInv'
  BY <1>0, <1>1, <1>2, Zenon DEF PhaseInv, Booting
<1>7. DataInv'
  <2>1. \A b \in Home : Content(b)' = disk'[b]
    BY <1>1, <1>2, Zenon DEF Content
  <2>2. DOMAIN lh' = {} /\ DOMAIN dhead' = {}
    BY <1>1
  <2>. QED BY <1>1, <1>2, <2>1, <2>2, Zenon DEF DataInv, Distinct
<1>. QED BY <1>0, <1>3, <1>4, <1>5, <1>6, <1>7, Zenon DEF LogInv, Budget

LEMMA InitLogInv ==
  ASSUME Budget, Init
  PROVE  LogInv
<1>1. TypeOK
  <2>1. <<>> \in Seq(Home) /\ 1 \in Nat \ {0} /\ 0 \in Nat
    OBVIOUS
  <2>2. cache \in [Home -> Val \cup {NoBuf}] /\ held \in [Thread -> Home \cup {0}]
    BY Zenon DEF Init, InitIn
  <2>3. wrote \in [Thread -> SUBSET Home] /\ disk \in [DiskBlock -> Val]
    BY Zenon DEF Init, InitIn
  <2>. QED BY <2>1, <2>2, <2>3, Zenon DEF TypeOK, Init, InitIn
<1>2. CountInv
  <2>1. InOp(pc) = {}
    BY Zenon DEF InOp, Working, Init, InitIn
  <2>2. Cardinality(InOp(pc)) = 0
    BY <2>1, FS_EmptySet, Zenon
  <2>3. Cardinality(Reserved(pc, wrote)) = 0
    BY <2>2, NoneInOp, Zenon
  <2>. QED BY <2>2, <2>3, LogSizes, SMTT(30) DEF CountInv, Init, InitIn
<1>3. CallInv
  BY Zenon DEF CallInv, Working, Init, InitIn
<1>4. PhaseInv
  BY Zenon DEF PhaseInv, Booting, Init, InitIn
<1>5. DataInv
  BY DEF DataInv, Booting, Content, Entries, Distinct, Init, InitIn
<1>6. SleepersNotLost
  BY Zenon DEF SleepersNotLost, Init, InitIn
<1>. QED BY <1>1, <1>2, <1>3, <1>4, <1>5, <1>6, Zenon DEF LogInv

LEMMA LogStutterInv ==
  ASSUME LogInv, UNCHANGED vars
  PROVE  LogInv'
<1>1. UNCHANGED <<disk, dhead, lh, outstanding, committing, cache, dirty, phase, tail, pc, held, wrote>>
  BY Zenon DEF vars, diskVars, logVars, bufVars, threadVars
<1>2. DataInv'
  BY <1>1, DataKept, Zenon DEF LogInv
<1>. QED BY <1>1, <1>2, Zenon DEF LogInv, Budget, TypeOK, CountInv, CallInv, PhaseInv, SleepersNotLost, Booting

-----------------------------------------------------------------------------
(***************************************************************************)
(* Theorems.                                                               *)
(***************************************************************************)

\* The inductive invariant: every step of a call, of commit and of recovery,
\* and a crash between any two of them, keeps it.
THEOREM LogInvariance == ASSUME Budget PROVE Spec => []LogInv
<1>1. ASSUME LogInv, [Next]_vars PROVE LogInv'
  <2>1. ASSUME NEW t \in Thread, BeginOp(t) PROVE LogInv'
    BY <1>1, <2>1, BeginOpInv, Zenon
  <2>2. ASSUME NEW t \in Thread, Call(t) PROVE LogInv'
    BY <1>1, <2>2, ModifyInv, LogWriteCheckInv, LogWriteRecordInv, EndOpInv, EndCommitInv, Zenon DEF Call
  <2>3. CASE Logger
    BY <1>1, <2>3, WriteLogInv, WriteHeadInv, InstallInv, EraseInv, ReadHeadInv, Zenon DEF Logger
  <2>4. CASE Crash
    BY <1>1, <2>4, CrashInv, Zenon
  <2>5. ASSUME NEW b \in Home, Evict(b) PROVE LogInv'
    BY <1>1, <2>5, EvictInv, Zenon
  <2>6. CASE UNCHANGED vars
    BY <1>1, <2>6, LogStutterInv, Zenon
  <2>. QED BY <1>1, <2>1, <2>2, <2>3, <2>4, <2>5, <2>6, Zenon DEF Next
<1>2. Init => LogInv
  BY InitLogInv, Zenon
<1>. QED BY <1>1, <1>2, PTL DEF Spec

\* log_write and end_op never panic and the transaction fits in the data blocks
\* of the log while calls stay below their reservation, although log_write tests
\* before it takes log.lock.
THEOREM ReservationsSuffice == ASSUME Budget PROVE Spec => []SpaceSuffices
<1>1. LogInv => NoPanic
  BY Zenon DEF LogInv, CallInv, NoPanic
<1>2. LogInv => LogFits
  BY LhFacts, LogSizes DEF LogInv, CountInv, LogFits, Budget
<1>. QED BY <1>1, <1>2, LogInvariance, PTL DEF SpaceSuffices

\* Whenever a thread sleeps in begin_op, some end_op is still to come.
THEOREM NoSleeperLost == ASSUME Budget PROVE Spec => []SleepersNotLost
<1>1. LogInv => SleepersNotLost
  BY Zenon DEF LogInv
<1>. QED BY <1>1, LogInvariance, PTL

-----------------------------------------------------------------------------
(***************************************************************************)
(* The log implements AtomicDisk.                                          *)
(***************************************************************************)

RecoveredOf(d, h, b) ==
  IF b \in Entries(h) THEN d[CHOOSE i \in DOMAIN h : h[i] = b] ELSE d[b]

LEMMA RecoveredFacts ==
  ASSUME NEW d, NEW h, Distinct(h)
  PROVE  /\ \A i \in DOMAIN h : RecoveredOf(d, h, h[i]) = d[i]
         /\ \A b : b \notin Entries(h) => RecoveredOf(d, h, b) = d[b]
<1>1. ASSUME NEW i \in DOMAIN h PROVE RecoveredOf(d, h, h[i]) = d[i]
  <2>1. h[i] \in Entries(h)
    BY Zenon DEF Entries
  <2>2. (CHOOSE j \in DOMAIN h : h[j] = h[i]) = i
    BY Zenon DEF Distinct
  <2>. QED BY <2>1, <2>2, Zenon DEF RecoveredOf
<1>. QED BY <1>1, Zenon DEF RecoveredOf

\* What the file system reads from block b.
Current(b) == IF Booting THEN Recovered(b) ELSE Content(b)

Durable == [b \in Home |-> Recovered(b)]
Cached == [b \in Home |-> Current(b)]

LEMMA AtomicIs ==
  /\ AD!avars = <<Durable, Cached, outstanding>>
  /\ AD!Init <=> Durable \in [Home -> Val] /\ Cached = Durable /\ outstanding = 0
BY Zenon DEF AD!avars, AD!Init, Durable, Cached, Current

LEMMA RecoveredIs == \A b : Recovered(b) = RecoveredOf(disk, dhead, b)
BY Zenon DEF Recovered, RecoveredOf

\* Steps that move data without changing what is durable or what is read.
LEMMA AtomicStutters ==
  ASSUME \A b \in Home : Recovered(b)' = Recovered(b) /\ Current(b)' = Current(b),
         outstanding' = outstanding
  PROVE  UNCHANGED AD!avars
<1>1. Durable' = Durable /\ Cached' = Cached
  BY Zenon DEF Durable, Cached
<1>. QED BY <1>1, Zenon DEF AD!avars, Durable, Cached, Current

LEMMA NothingCommitted ==
  ASSUME dhead = <<>>
  PROVE  \A b : Recovered(b) = disk[b]
BY DEF Recovered, Entries

LEMMA RecoveredKept ==
  ASSUME UNCHANGED diskVars
  PROVE  \A b : Recovered(b)' = Recovered(b)
BY DEF Recovered, Entries, diskVars

\* Pinned follows from the invariant.
LEMMA InvPinned ==
  ASSUME LogInv
  PROVE  Pinned
<1>0. PhaseInv /\ DataInv
  BY Zenon DEF LogInv
<1>. SUFFICES ASSUME NEW b \in Home, ~Booting, Content(b) # Recovered(b),
                     \A t \in Thread : held[t] # b
              PROVE  b \in dirty /\ b \in Entries(lh)
  BY Zenon DEF Pinned
<1>1. CASE phase = "install"
  <2>1. dhead = lh /\ committing
    BY <1>0, <1>1, Zenon DEF PhaseInv, Booting
  <2>2. Distinct(dhead)
    BY <1>0, Zenon DEF DataInv
  <2>3. CASE b \in Entries(lh)
    <3>1. PICK i \in DOMAIN lh : lh[i] = b
      BY <2>3, Zenon DEF Entries
    <3>2. Recovered(b) = disk[i]
      BY <2>1, <2>2, <3>1, RecoveredFacts, RecoveredIs, Zenon
    <3>. QED BY <1>0, <1>1, <2>1, <3>1, <3>2, Zenon DEF DataInv
  <2>4. CASE b \notin Entries(lh)
    <3>1. Recovered(b) = disk[b]
      BY <2>1, <2>4, Zenon DEF Recovered
    <3>. QED BY <1>0, <2>4, <3>1, Zenon DEF DataInv
  <2>. QED BY <2>3, <2>4, Zenon
<1>2. CASE phase # "install"
  <2>1. dhead = <<>>
    BY <1>0, <1>2, Zenon DEF PhaseInv, Booting
  <2>2. Content(b) # disk[b]
    BY <2>1, NothingCommitted, Zenon
  <2>3. b \in Entries(lh)
    BY <1>0, <2>2, Zenon DEF DataInv
  <2>4. dirty = Entries(lh)
    BY <1>0, <1>2, Zenon DEF DataInv, Entries
  <2>. QED BY <2>3, <2>4, Zenon
<1>. QED BY <1>1, <1>2, Zenon

\* No update that is not on disk is ever in a buffer that could be recycled.
THEOREM UpdatesPinned == ASSUME Budget PROVE Spec => []Pinned
<1>1. LogInv => Pinned
  BY InvPinned, Zenon
<1>. QED BY <1>1, LogInvariance, PTL

LEMMA BeginOpImplements ==
  ASSUME LogInv, NEW t \in Thread, BeginOp(t)
  PROVE  [AD!Next]_AD!avars
<1>1. UNCHANGED <<disk, dhead, committing, cache, phase>>
  BY Zenon DEF BeginOp, diskVars, bufVars
<1>2. \A b \in Home : Recovered(b)' = Recovered(b) /\ Current(b)' = Current(b)
  BY <1>1, RecoveredKept, Zenon DEF Current, Booting, Content, diskVars
<1>3. CASE outstanding' = outstanding
  BY <1>2, <1>3, AtomicStutters, Zenon
<1>4. CASE outstanding' = outstanding + 1
  <2>1. Durable' = Durable /\ Cached' = Cached
    BY <1>2, Zenon DEF Durable, Cached
  <2>2. AD!Begin
    BY <1>4, <2>1, Zenon DEF AD!Begin, Durable, Cached, Current
  <2>. QED BY <2>2, Zenon DEF AD!Next
<1>. QED BY <1>3, <1>4, Zenon DEF BeginOp

LEMMA ModifyImplements ==
  ASSUME LogInv, NEW t \in Thread, NEW b \in Home, NEW v \in Val, Modify(t, b, v)
  PROVE  AD!Next
<1>0. TypeOK /\ CountInv /\ PhaseInv
  BY Zenon DEF LogInv
<1>1. /\ UNCHANGED <<disk, dhead, outstanding, committing, phase>> /\ pc[t] = "op"
      /\ cache' = [cache EXCEPT ![b] = v]
  BY Zenon DEF Modify, diskVars, logVars
<1>2. outstanding > 0 /\ ~Booting /\ ~Booting'
  <2>1. outstanding > 0
    BY <1>0, <1>1, SomeInOp, Zenon DEF CountInv, Working
  <2>. QED BY <1>0, <1>1, <2>1 DEF PhaseInv, Booting
<1>3. Durable' = Durable
  <2>1. \A c : Recovered(c)' = Recovered(c)
    BY <1>1, RecoveredKept, Zenon DEF diskVars
  <2>. QED BY <2>1, Zenon DEF Durable
<1>4. Cached' = [Cached EXCEPT ![b] = v]
  <2>1. v # NoBuf
    BY LogSizes, Zenon
  <2>2. \A c \in Home : Content(c)' = IF c = b THEN v ELSE Content(c)
    BY <1>0, <1>1, <2>1, Zenon DEF Content, TypeOK
  <2>. QED BY <1>2, <2>2, Zenon DEF Cached, Current
<1>5. AD!Write
  BY <1>1, <1>2, <1>3, <1>4, Zenon DEF AD!Write, Durable, Cached, Current
<1>. QED BY <1>5, Zenon DEF AD!Next

LEMMA EndOpImplements ==
  ASSUME LogInv, NEW t \in Thread, EndOp(t)
  PROVE  AD!Next
<1>0. TypeOK /\ CountInv /\ PhaseInv
  BY Zenon DEF LogInv
<1>1. UNCHANGED <<disk, dhead, cache>> /\ pc[t] = "op" /\ outstanding' = outstanding - 1
  BY Zenon DEF EndOp, diskVars, bufVars
<1>2. outstanding > 0 /\ ~committing /\ phase = "up"
  <2>1. outstanding > 0
    BY <1>0, <1>1, SomeInOp, Zenon DEF CountInv, Working
  <2>. QED BY <1>0, <2>1 DEF PhaseInv, Booting
<1>3. ~Booting /\ ~Booting'
  BY <1>2, Zenon DEF EndOp, Booting
<1>4. Durable' = Durable /\ Cached' = Cached
  <2>1. \A c : Recovered(c)' = Recovered(c)
    BY <1>1, RecoveredKept, Zenon DEF diskVars
  <2>2. \A c \in Home : Current(c)' = Current(c)
    BY <1>1, <1>3, Zenon DEF Current, Content
  <2>. QED BY <2>1, <2>2, Zenon DEF Durable, Cached
<1>5. AD!End
  BY <1>1, <1>2, <1>4, Zenon DEF AD!End, Durable, Cached, Current
<1>. QED BY <1>5, Zenon DEF AD!Next

\* The header write makes everything that was written durable, at once.
LEMMA WriteHeadImplements ==
  ASSUME LogInv, WriteHead
  PROVE  AD!Next
<1>0. PhaseInv /\ DataInv
  BY Zenon DEF LogInv
<1>1. /\ UNCHANGED <<disk, lh, outstanding, committing, cache>>
      /\ phase = "write_head" /\ phase' = "install" /\ dhead' = lh
  BY Zenon DEF WriteHead, logVars, bufVars
<1>2. committing /\ outstanding = 0 /\ ~Booting /\ ~Booting'
  BY <1>0, <1>1, Zenon DEF PhaseInv, Booting
<1>3. Cached' = Cached
  <2>1. \A c \in Home : Current(c)' = Current(c)
    BY <1>1, <1>2, Zenon DEF Current, Content
  <2>. QED BY <2>1, Zenon DEF Cached
<1>4. ASSUME NEW b \in Home PROVE Recovered(b)' = Current(b)
  <2>1. Recovered(b)' = RecoveredOf(disk, lh, b)
    BY <1>1 DEF Recovered, RecoveredOf, Entries
  <2>2. Current(b) = Content(b)
    BY <1>2, Zenon DEF Current
  <2>3. Distinct(lh)
    BY <1>0, Zenon DEF DataInv
  <2>4. CASE b \in Entries(lh)
    <3>1. PICK i \in DOMAIN lh : lh[i] = b
      BY <2>4, Zenon DEF Entries
    <3>2. RecoveredOf(disk, lh, b) = disk[i]
      BY <2>3, <3>1, RecoveredFacts, Zenon
    <3>3. disk[i] = Content(b)
      BY <1>0, <1>1, <3>1, Zenon DEF DataInv
    <3>. QED BY <2>1, <2>2, <3>2, <3>3, Zenon
  <2>5. CASE b \notin Entries(lh)
    <3>1. \A t \in Thread : held[t] # b
      BY <1>2, NothingHeld, BlockRanges, Zenon
    <3>2. Content(b) = disk[b]
      BY <1>0, <2>5, <3>1, Zenon DEF DataInv
    <3>. QED BY <2>1, <2>2, <2>5, <3>2, Zenon DEF RecoveredOf
  <2>. QED BY <2>4, <2>5, Zenon
<1>5. Durable' = Cached
  BY <1>4, Zenon DEF Durable, Cached
<1>6. AD!Commit
  BY <1>1, <1>2, <1>3, <1>5, Zenon DEF AD!Commit, Durable, Cached, Current
<1>. QED BY <1>6, Zenon DEF AD!Next

LEMMA InstallImplements ==
  ASSUME LogInv, Install
  PROVE  UNCHANGED AD!avars
<1>0. PhaseInv /\ DataInv
  BY Zenon DEF LogInv
<1>1. /\ UNCHANGED <<dhead, lh, outstanding, committing, phase>>
      /\ phase = "install" /\ tail \in DOMAIN lh /\ dhead = lh
      /\ \A i \in DOMAIN lh : disk'[i] = disk[i]
  BY InstallEffect, Zenon
<1>2. PICK x \in Home : /\ x = lh[tail] /\ Content(x)' = disk[tail]
                        /\ \A b \in Home : b # x => disk'[b] = disk[b] /\ Content(b)' = Content(b)
  BY <1>1, LhFacts, InstallEffect, Zenon
<1>3. Distinct(lh) /\ Booting' = Booting
  BY <1>0, <1>1, Zenon DEF DataInv, Booting
<1>4. ASSUME NEW b \in Home PROVE Recovered(b)' = Recovered(b)
  <2>1. Recovered(b)' = RecoveredOf(disk', lh, b) /\ Recovered(b) = RecoveredOf(disk, lh, b)
    BY <1>1, Zenon DEF Recovered, RecoveredOf, Entries
  <2>2. CASE b \in Entries(lh)
    <3>1. PICK i \in DOMAIN lh : lh[i] = b
      BY <2>2, Zenon DEF Entries
    <3>2. RecoveredOf(disk, lh, b) = disk[i] /\ RecoveredOf(disk', lh, b) = disk'[i]
      BY <1>3, <3>1, RecoveredFacts, Zenon
    <3>. QED BY <1>1, <2>1, <3>2, Zenon
  <2>3. CASE b \notin Entries(lh)
    <3>1. b # x
      BY <1>1, <1>2, <2>3, Zenon DEF Entries
    <3>. QED BY <1>2, <2>1, <2>3, <3>1, Zenon DEF RecoveredOf
  <2>. QED BY <2>2, <2>3, Zenon
<1>5. ASSUME NEW b \in Home PROVE Current(b)' = Current(b)
  <2>1. CASE Booting
    BY <1>3, <1>4, <2>1, Zenon DEF Current
  <2>2. CASE ~Booting
    <3>1. committing
      BY <1>1, <2>2, Zenon DEF Booting
    <3>2. Content(b)' = Content(b)
      <4>1. CASE b = x
        <5>1. Content(lh[tail]) = disk[tail]
          BY <1>0, <1>1, <3>1, Zenon DEF DataInv
        <5>. QED BY <1>2, <4>1, <5>1, Zenon
      <4>2. CASE b # x
        BY <1>2, <4>2, Zenon
      <4>. QED BY <4>1, <4>2, Zenon
    <3>. QED BY <1>3, <2>2, <3>2, Zenon DEF Current
  <2>. QED BY <2>1, <2>2, Zenon
<1>. QED BY <1>1, <1>4, <1>5, AtomicStutters, Zenon

LEMMA EraseImplements ==
  ASSUME LogInv, Erase
  PROVE  UNCHANGED AD!avars
<1>1. /\ UNCHANGED <<disk, outstanding, committing, cache>> /\ phase = "install"
      /\ tail > Len(lh) /\ dhead' = <<>> /\ phase' = IF committing THEN "done" ELSE "up"
  BY Zenon DEF Erase, bufVars
<1>2. /\ \A i \in DOMAIN lh : disk[lh[i]] = disk[i]
      /\ \A b \in Home : Content(b) = disk[b]
      /\ dhead = lh /\ Distinct(lh)
  BY <1>1, Installed, Zenon DEF LogInv, DataInv
<1>3. ASSUME NEW b \in Home PROVE Recovered(b) = disk[b]
  <2>1. Recovered(b) = RecoveredOf(disk, lh, b)
    BY <1>2, RecoveredIs, Zenon
  <2>2. CASE b \in Entries(lh)
    <3>1. PICK i \in DOMAIN lh : lh[i] = b
      BY <2>2, Zenon DEF Entries
    <3>2. RecoveredOf(disk, lh, b) = disk[i]
      BY <1>2, <3>1, RecoveredFacts, SMTT(30)
    <3>. QED BY <1>2, <2>1, <3>1, <3>2, Zenon
  <2>3. CASE b \notin Entries(lh)
    BY <2>1, <2>3, Zenon DEF RecoveredOf
  <2>. QED BY <2>2, <2>3, Zenon
<1>4. \A b \in Home : Recovered(b)' = disk[b]
  BY <1>1 DEF Recovered, Entries
<1>5. \A b \in Home : Content(b)' = disk[b]
  BY <1>1, <1>2, Zenon DEF Content
<1>6. \A b \in Home : Recovered(b)' = Recovered(b) /\ Current(b)' = Current(b)
  BY <1>2, <1>3, <1>4, <1>5, Zenon DEF Current
<1>. QED BY <1>1, <1>6, AtomicStutters, Zenon

LEMMA WriteLogImplements ==
  ASSUME LogInv, WriteLog
  PROVE  UNCHANGED AD!avars
<1>1. /\ UNCHANGED <<dhead, outstanding, committing>> /\ phase = "write_log" /\ committing
      /\ \A b \in Home : disk'[b] = disk[b] /\ Content(b)' = Content(b)
  BY WriteLogEffect, Zenon
<1>2. dhead = <<>> /\ dhead' = <<>>
  BY <1>1, Zenon DEF LogInv, PhaseInv
<1>3. \A b \in Home : Recovered(b)' = Recovered(b)
  BY <1>1, <1>2 DEF Recovered, Entries
<1>4. \A b \in Home : Current(b)' = Current(b)
  BY <1>1, Zenon DEF Current, Booting
<1>. QED BY <1>1, <1>3, <1>4, AtomicStutters, Zenon

\* A crash takes what is read back to what is durable.
LEMMA CrashImplements ==
  ASSUME LogInv, Crash
  PROVE  AD!Next
<1>1. Booting' /\ outstanding' = 0 /\ UNCHANGED diskVars
  BY Zenon DEF Crash, Booting
<1>2. \A b : Recovered(b)' = Recovered(b)
  BY <1>1, RecoveredKept, Zenon
<1>3. Durable' = Durable /\ Cached' = Durable
  BY <1>1, <1>2, Zenon DEF Durable, Cached, Current
<1>4. AD!Crash
  BY <1>1, <1>3, Zenon DEF AD!Crash, Durable, Cached, Current
<1>. QED BY <1>4, Zenon DEF AD!Next

LEMMA OthersStutter ==
  ASSUME LogInv, UNCHANGED <<disk, dhead, outstanding>>,
         Booting' = Booting,
         ~Booting => \A b \in Home : Content(b)' = Content(b)
  PROVE  UNCHANGED AD!avars
<1>1. \A b \in Home : Recovered(b)' = Recovered(b)
  BY RecoveredKept, Zenon DEF diskVars
<1>2. \A b \in Home : Current(b)' = Current(b)
  BY <1>1, Zenon DEF Current
<1>. QED BY <1>1, <1>2, AtomicStutters, Zenon

LEMMA StepImplementsAtomicDisk ==
  ASSUME LogInv, [Next]_vars
  PROVE  [AD!Next]_AD!avars
<1>1. ASSUME NEW t \in Thread, BeginOp(t) PROVE [AD!Next]_AD!avars
  BY <1>1, BeginOpImplements, Zenon
<1>2. ASSUME NEW t \in Thread, NEW b \in Home, NEW v \in Val, Modify(t, b, v) PROVE AD!Next
  BY <1>2, ModifyImplements, Zenon
<1>3. ASSUME NEW t \in Thread, LogWriteCheck(t) \/ LogWriteRecord(t) PROVE UNCHANGED AD!avars
  <2>1. UNCHANGED <<disk, dhead, outstanding, committing, phase, cache>>
    BY <1>3, Zenon DEF LogWriteCheck, LogWriteRecord, diskVars, logVars, bufVars
  <2>. QED BY <2>1, OthersStutter, Zenon DEF Booting, Content
<1>4. ASSUME NEW t \in Thread, EndOp(t) PROVE AD!Next
  BY <1>4, EndOpImplements, Zenon
<1>5. ASSUME NEW t \in Thread, EndCommit(t) PROVE UNCHANGED AD!avars
  <2>1. UNCHANGED <<disk, dhead, outstanding, cache>> /\ phase = "done" /\ phase' = "up"
    BY <1>5, Zenon DEF EndCommit, diskVars, bufVars
  <2>2. committing
    BY <2>1, Zenon DEF LogInv, PhaseInv
  <2>3. Booting' = Booting
    BY <2>1, <2>2, Zenon DEF Booting
  <2>4. \A b \in Home : Content(b)' = Content(b)
    BY <2>1, Zenon DEF Content
  <2>. QED BY <2>1, <2>3, <2>4, OthersStutter, Zenon
<1>6. CASE Logger
  <2>1. ASSUME ReadHead PROVE UNCHANGED AD!avars
    <3>1. UNCHANGED <<disk, dhead, outstanding, committing, cache>> /\ phase = "read_head" /\ phase' = "install"
      BY <2>1, Zenon DEF ReadHead, diskVars, bufVars
    <3>. QED BY <3>1, OthersStutter, Zenon DEF Booting, Content
  <2>. QED BY <1>6, <2>1, WriteLogImplements, WriteHeadImplements, InstallImplements, EraseImplements, Zenon DEF Logger
<1>7. CASE Crash
  BY <1>7, CrashImplements, Zenon
<1>8. ASSUME NEW b \in Home, Evict(b) PROVE UNCHANGED AD!avars
  <2>1. UNCHANGED <<disk, dhead, outstanding, committing, phase>>
    BY <1>8, Zenon DEF Evict, diskVars, logVars
  <2>2. ~Booting => \A c \in Home : Content(c)' = Content(c)
    BY <1>8, EvictInv, Zenon
  <2>. QED BY <2>1, <2>2, OthersStutter, Zenon DEF Booting
<1>9. CASE UNCHANGED vars
  <2>1. UNCHANGED <<disk, dhead, outstanding, committing, phase, cache>>
    BY <1>9, Zenon DEF vars, diskVars, logVars, bufVars
  <2>. QED BY <2>1, OthersStutter, Zenon DEF Booting, Content
<1>. QED BY <1>1, <1>2, <1>3, <1>4, <1>5, <1>6, <1>7, <1>8, <1>9, Zenon DEF Next, Call

\* The updates of a transaction reach the disk together or not at all, whatever
\* crashes before, during and after the commit and during recovery, for any
\* number of concurrent calls over any number of blocks.
THEOREM LogImplementsAtomicDisk == ASSUME Budget PROVE Spec => Atomic
<1>1. Init => AD!Init
  <2>. SUFFICES ASSUME Init PROVE AD!Init
    BY Zenon
  <2>1. dhead = <<>> /\ Booting /\ outstanding = 0 /\ disk \in [DiskBlock -> Val]
    BY Zenon DEF Init, InitIn, Booting
  <2>2. \A b : Recovered(b) = disk[b]
    BY <2>1, NothingCommitted, Zenon
  <2>3. Durable \in [Home -> Val] /\ Cached = Durable
    BY <2>1, <2>2, BlockRanges, Zenon DEF Durable, Cached, Current
  <2>. QED BY <2>1, <2>3, AtomicIs, Zenon
<1>2. LogInv /\ [Next]_vars => [AD!Next]_AD!avars
  BY StepImplementsAtomicDisk, Zenon
<1>. QED BY <1>1, <1>2, LogInvariance, PTL DEF Spec, Atomic, AD!Spec
=============================================================================
