--------------------------- MODULE ConsoleProofs ----------------------------
(***************************************************************************)
(* Proofs about the console: its input for every size of the ring, every   *)
(* width of its indices and every number of readers, the display for every *)
(* size of the screen, and the keyboard for every length of its queue.     *)
(***************************************************************************)
EXTENDS Console, Screen, Kbd, ModArith, TLAPS

Index == 0 .. UINT - 1

LEMMA Sizes ==
  /\ UINT \in Nat /\ UINT > 0 /\ INPUT_BUF \in Nat /\ INPUT_BUF > 0 /\ INPUT_BUF < UINT
  /\ UINT % INPUT_BUF = 0 /\ MaxN \in Nat /\ MaxN > 0
BY ConsoleAssumption

-----------------------------------------------------------------------------
(***************************************************************************)
(* Indices.                                                                *)
(***************************************************************************)

LEMMA PlusType == \A x, k \in Int : Plus(x, k) \in Index
BY Sizes, ModRange DEF Plus, Index

LEMMA SlotType == \A x \in Int : Slot(x) \in 0 .. INPUT_BUF - 1
BY Sizes, ModRange, Zenon DEF Slot

LEMMA SlotPlus == \A x, k \in Int : Slot(Plus(x, k)) = Slot(x + k)
<1>. TAKE x, k \in Int
<1>1. PICK a \in Int : a = x + k
  OBVIOUS
<1>2. (a % UINT) % INPUT_BUF = a % INPUT_BUF
  BY Sizes, ModMod, Zenon
<1>. QED BY <1>1, <1>2, Zenon DEF Slot, Plus

LEMMA SlotPlusOn == \A x, k, y \in Int : Slot(Plus(x, k) + y) = Slot(x + k + y)
<1>. TAKE x, k, y \in Int
<1>1. PICK a \in Int : a = x + k
  OBVIOUS
<1>2. ((a % UINT) + y) % INPUT_BUF = (a + y) % INPUT_BUF
  BY Sizes, ModShift, ZenonT(30)
<1>. QED BY <1>1, <1>2, Zenon DEF Slot, Plus

LEMMA SlotsDiffer ==
  \A x, y \in Int : x < y /\ y < x + INPUT_BUF => Slot(x) # Slot(y)
BY Sizes, ModDiffer, Zenon DEF Slot

LEMMA DistType ==
  \A x, y \in Index : /\ Dist(x, y) \in Index /\ Dist(x, y) \in Nat
                      /\ Dist(x, y) = 0 <=> x = y
                      /\ y = Plus(x, Dist(x, y))
BY Sizes, DistIs, SMTT(30) DEF Dist, Plus, Index

LEMMA DistPlus ==
  \A x, y \in Index, k \in Nat : Dist(x, y) + k < UINT => Dist(x, Plus(y, k)) = Dist(x, y) + k
BY Sizes, DistUp, Zenon DEF Dist, Plus, Index

LEMMA DistMinus ==
  \A x, y \in Index, k \in Nat : k <= Dist(x, y) => Dist(x, Plus(y, -k)) = Dist(x, y) - k
BY Sizes, DistBack, Zenon DEF Dist, Plus, Index

LEMMA DistCatch ==
  \A x, y \in Index, k \in Nat : k <= Dist(x, y) => Dist(Plus(x, k), y) = Dist(x, y) - k
BY Sizes, DistDown, Zenon DEF Dist, Plus, Index

LEMMA DistOver ==
  \A x, y, z \in Index : Dist(x, y) + Dist(y, z) < UINT => Dist(x, z) = Dist(x, y) + Dist(y, z)
BY Sizes, DistSum, Zenon DEF Dist, Index

-----------------------------------------------------------------------------
(***************************************************************************)
(* The invariant.  What makes it inductive: the line that can be edited    *)
(* has no newline in it, and a reader in the kernel wants something.       *)
(***************************************************************************)

OneLine == \A i \in 1 .. Dist(w, e) : buf[Slot(w + i - 1)] # Newline

WantsSome == \A p \in Reader : where[p] # "user" => n[p] # 0

ConsoleInv ==
  ConTypeOK /\ Ordered /\ NotWedged /\ SleepsOnEmpty /\ OneLine /\ WantsSome

LEMMA Distances ==
  ASSUME ConTypeOK, Ordered
  PROVE  /\ r \in Index /\ w \in Index /\ e \in Index
         /\ Dist(r, w) \in Nat /\ Dist(w, e) \in Nat
         /\ Dist(r, w) + Dist(w, e) <= INPUT_BUF
         /\ Dist(r, e) = Dist(r, w) + Dist(w, e)
         /\ Dist(r, w) = 0 <=> r = w
<1>1. r \in Index /\ w \in Index /\ e \in Index
  BY Zenon DEF ConTypeOK, Index
<1>2. Dist(r, w) \in Nat /\ Dist(w, e) \in Nat /\ (Dist(r, w) = 0 <=> r = w)
  BY <1>1, DistType, Zenon
<1>3. Dist(r, w) + Dist(w, e) <= INPUT_BUF
  BY Zenon DEF Ordered
<1>4. Dist(r, w) + Dist(w, e) < UINT
  BY <1>2, <1>3, Sizes
<1>. QED BY <1>1, <1>2, <1>3, <1>4, DistOver, Zenon

LEMMA InitConsoleInv == ConInit => ConsoleInv
<1>. SUFFICES ASSUME ConInit PROVE ConsoleInv
  BY Zenon
<1>1. ConTypeOK
  BY Sizes DEF ConInit, ConTypeOK
<1>2. Dist(r, w) = 0 /\ Dist(w, e) = 0 /\ Dist(r, e) = 0
  <2>1. r \in Index /\ w = r /\ e = r
    BY Sizes DEF ConInit, Index
  <2>. QED BY <2>1, DistType, Zenon
<1>3. Ordered /\ NotWedged /\ OneLine
  BY <1>2, Sizes DEF Ordered, NotWedged, OneLine
<1>4. SleepsOnEmpty /\ WantsSome
  BY Zenon DEF ConInit, SleepsOnEmpty, WantsSome
<1>. QED BY <1>1, <1>3, <1>4, Zenon DEF ConsoleInv

\* The key goes to the slot after the last one, which no other key has.
LEMMA InsertSlots ==
  ASSUME ConsoleInv, NEW k \in Chars, Insert(k)
  PROVE  /\ buf'[Slot(e)] = k
         /\ \A i \in 1 .. Dist(w, e) : buf'[Slot(w + i - 1)] = buf[Slot(w + i - 1)]
         /\ \A i \in 1 .. Dist(r, w) : buf'[Slot(r + i - 1)] = buf[Slot(r + i - 1)]
         /\ Slot(e) = Slot(w + Dist(w, e)) /\ Slot(e) = Slot(r + Dist(r, e))
<1>0. /\ r \in Index /\ w \in Index /\ e \in Index
      /\ Dist(r, w) \in Nat /\ Dist(w, e) \in Nat /\ Dist(r, e) < INPUT_BUF
      /\ Dist(r, e) = Dist(r, w) + Dist(w, e)
  BY Distances, Zenon DEF ConsoleInv, Insert
<1>1. buf' = [buf EXCEPT ![Slot(e)] = k] /\ buf \in [0 .. INPUT_BUF - 1 -> Chars]
  BY Zenon DEF Insert, ConsoleInv, ConTypeOK
<1>2. Index \subseteq Int /\ INPUT_BUF \in Nat
  BY Sizes DEF Index
<1>3. Slot(e) = Slot(w + Dist(w, e)) /\ Slot(e) = Slot(r + Dist(r, e)) /\ Slot(w) = Slot(r + Dist(r, w))
  <2>1. e = Plus(w, Dist(w, e)) /\ e = Plus(r, Dist(r, e)) /\ w = Plus(r, Dist(r, w))
    BY <1>0, DistType, Zenon
  <2>2. {r, w, Dist(w, e), Dist(r, e), Dist(r, w)} \subseteq Int
    BY <1>0, <1>2
  <2>3. /\ Slot(Plus(w, Dist(w, e))) = Slot(w + Dist(w, e))
        /\ Slot(Plus(r, Dist(r, e))) = Slot(r + Dist(r, e))
        /\ Slot(Plus(r, Dist(r, w))) = Slot(r + Dist(r, w))
    BY <2>2, SlotPlus, Zenon
  <2>. QED BY <2>1, <2>3, Zenon
<1>4. \A x \in 0 .. INPUT_BUF - 1 : x # Slot(e) => buf'[x] = buf[x]
  BY <1>1, Zenon
<1>5. ASSUME NEW i \in 1 .. Dist(w, e) PROVE buf'[Slot(w + i - 1)] = buf[Slot(w + i - 1)]
  <2>1. w + i - 1 \in Int /\ w + i - 1 < w + Dist(w, e) /\ w + Dist(w, e) < w + i - 1 + INPUT_BUF
    BY <1>0, <1>2
  <2>2. w + Dist(w, e) \in Int
    BY <1>0, <1>2
  <2>3. Slot(w + i - 1) # Slot(e)
    BY <1>3, <2>1, <2>2, SlotsDiffer, Zenon
  <2>. QED BY <1>4, <2>1, <2>3, SlotType, Zenon
<1>6. ASSUME NEW i \in 1 .. Dist(r, w) PROVE buf'[Slot(r + i - 1)] = buf[Slot(r + i - 1)]
  <2>1. r + i - 1 \in Int /\ r + i - 1 < r + Dist(r, e) /\ r + Dist(r, e) < r + i - 1 + INPUT_BUF
    BY <1>0, <1>2
  <2>2. r + Dist(r, e) \in Int
    BY <1>0, <1>2
  <2>3. Slot(r + i - 1) # Slot(e)
    BY <1>3, <2>1, <2>2, SlotsDiffer, Zenon
  <2>. QED BY <1>4, <2>1, <2>3, SlotType, Zenon
<1>7. buf'[Slot(e)] = k
  BY <1>0, <1>1, <1>2, SlotType, Zenon
<1>. QED BY <1>3, <1>5, <1>6, <1>7, Zenon

\* How the distances change with a key, and what consoleintr's test means.
LEMMA InsertDistances ==
  ASSUME ConsoleInv, NEW k \in Chars, Insert(k)
  PROVE  /\ r' = r /\ e' \in Index
         /\ Dist(r, e') = Dist(r, e) + 1 /\ Dist(w, e') = Dist(w, e) + 1 /\ Dist(e', e') = 0
         /\ e' = Plus(r, INPUT_BUF) <=> Dist(r, e) + 1 = INPUT_BUF
<1>0. /\ r \in Index /\ w \in Index /\ e \in Index
      /\ Dist(r, w) \in Nat /\ Dist(w, e) \in Nat /\ Dist(r, e) < INPUT_BUF
      /\ Dist(r, e) = Dist(r, w) + Dist(w, e)
  BY Distances, Zenon DEF ConsoleInv, Insert
<1>1. e' = Plus(e, 1) /\ r' = r
  BY Zenon DEF Insert
<1>2. e' \in Index
  BY <1>0, <1>1, Sizes, PlusType DEF Index
<1>3. Dist(r, e') = Dist(r, e) + 1
  <2>1. Dist(r, e) + 1 < UINT /\ 1 \in Nat
    BY <1>0, Sizes
  <2>. QED BY <1>0, <1>1, <2>1, DistPlus, Zenon
<1>4. Dist(w, e') = Dist(w, e) + 1
  <2>1. Dist(w, e) + 1 < UINT /\ 1 \in Nat
    BY <1>0, Sizes
  <2>. QED BY <1>0, <1>1, <2>1, DistPlus, Zenon
<1>5. Dist(e', e') = 0
  BY <1>2, DistType, Zenon
<1>6. ASSUME e' = Plus(r, INPUT_BUF) PROVE Dist(r, e) + 1 = INPUT_BUF
  <2>1. Dist(r, r) = 0
    BY <1>0, DistType, Zenon
  <2>2. Dist(r, Plus(r, INPUT_BUF)) = Dist(r, r) + INPUT_BUF
    BY <1>0, <2>1, Sizes, DistPlus
  <2>. QED BY <1>3, <1>6, <2>1, <2>2, Sizes
<1>7. ASSUME Dist(r, e) + 1 = INPUT_BUF PROVE e' = Plus(r, INPUT_BUF)
  BY <1>0, <1>2, <1>3, <1>7, DistType
<1>. QED BY <1>1, <1>2, <1>3, <1>4, <1>5, <1>6, <1>7, Zenon

LEMMA InsertInv ==
  ASSUME ConsoleInv, NEW k \in Chars, Insert(k)
  PROVE  ConsoleInv'
<1>0. /\ r \in Index /\ w \in Index /\ e \in Index
      /\ Dist(r, w) \in Nat /\ Dist(w, e) \in Nat /\ Dist(r, e) < INPUT_BUF
      /\ Dist(r, e) = Dist(r, w) + Dist(w, e)
  BY Distances, Zenon DEF ConsoleInv, Insert
<1>1. /\ r' = r /\ e' \in Index
      /\ Dist(r, e') = Dist(r, e) + 1 /\ Dist(w, e') = Dist(w, e) + 1 /\ Dist(e', e') = 0
      /\ e' = Plus(r, INPUT_BUF) <=> Dist(r, e) + 1 = INPUT_BUF
  BY InsertDistances, Zenon
<1>2. buf' \in [0 .. INPUT_BUF - 1 -> Chars]
  BY Zenon DEF Insert, ConsoleInv, ConTypeOK
<1>3. n' = n /\ got' = got /\ killed' = killed
  BY Zenon DEF Insert
<1>4. CASE k = Newline \/ e' = Plus(r, INPUT_BUF)
  <2>1. w' = e' /\ where' = Woken
    BY <1>4, Zenon DEF Insert
  <2>2. ConTypeOK'
    BY <1>0, <1>1, <1>2, <1>3, <2>1, Zenon DEF ConTypeOK, ConsoleInv, Woken, Index
  <2>3. Ordered' /\ NotWedged' /\ OneLine'
    <3>1. Dist(r', w') = Dist(r, e) + 1 /\ Dist(w', e') = 0 /\ Dist(r', e') = Dist(r, e) + 1
      BY <1>1, <2>1, Zenon
    <3>2. r' # w'
      <4>1. Dist(r, e') # 0
        BY <1>0, <1>1
      <4>. QED BY <1>0, <1>1, <2>1, <4>1, DistType, Zenon
    <3>. QED BY <1>0, <3>1, <3>2, Sizes DEF Ordered, NotWedged, OneLine
  <2>4. SleepsOnEmpty'
    BY <2>1, Zenon DEF Woken, Insert, Unlocked, SleepsOnEmpty, ConsoleInv, ConTypeOK
  <2>5. WantsSome'
    BY <1>3, <2>1, Zenon DEF Woken, WantsSome, ConsoleInv
  <2>. QED BY <2>2, <2>3, <2>4, <2>5, Zenon DEF ConsoleInv
<1>5. CASE ~(k = Newline \/ e' = Plus(r, INPUT_BUF))
  <2>1. w' = w /\ where' = where
    BY <1>5, Zenon DEF Insert
  <2>2. ConTypeOK'
    BY <1>0, <1>1, <1>2, <1>3, <2>1, Zenon DEF ConTypeOK, ConsoleInv, Index
  <2>3. Dist(r', w') = Dist(r, w) /\ Dist(w', e') = Dist(w, e) + 1 /\ Dist(r', e') = Dist(r, e) + 1
    BY <1>1, <2>1, Zenon
  <2>4. Dist(r, e) + 1 # INPUT_BUF
    BY <1>1, <1>5, Zenon
  <2>5. Ordered' /\ NotWedged'
    BY <1>0, <2>3, <2>4, Sizes DEF Ordered, NotWedged
  <2>6. OneLine'
    <3>. SUFFICES ASSUME NEW i \in 1 .. Dist(w, e) + 1
                  PROVE  buf'[Slot(w + i - 1)] # Newline
      BY <2>1, <2>3, Zenon DEF OneLine
    <3>1. CASE i \in 1 .. Dist(w, e)
      BY <3>1, InsertSlots, Zenon DEF ConsoleInv, OneLine
    <3>2. CASE i = Dist(w, e) + 1
      <4>1. w + i - 1 = w + Dist(w, e)
        BY <1>0, <3>2 DEF Index
      <4>2. buf'[Slot(w + i - 1)] = k
        BY <4>1, InsertSlots, Zenon
      <4>. QED BY <1>5, <4>2, Zenon
    <3>. QED BY <1>0, <3>1, <3>2
  <2>7. SleepsOnEmpty' /\ WantsSome'
    BY <1>1, <1>3, <2>1, Zenon DEF SleepsOnEmpty, WantsSome, ConsoleInv
  <2>. QED BY <2>2, <2>5, <2>6, <2>7, Zenon DEF ConsoleInv
<1>. QED BY <1>4, <1>5, Zenon

\* Erasing k keys of the line that can be edited.
LEMMA EraseInv ==
  ASSUME ConsoleInv, NEW k \in Nat, k <= Dist(w, e), e' = Plus(e, -k),
         UNCHANGED <<buf, r, w, where, n, got, killed>>
  PROVE  ConsoleInv' /\ Dist(w, e') = Dist(w, e) - k
<1>0. /\ r \in Index /\ w \in Index /\ e \in Index
      /\ Dist(r, w) \in Nat /\ Dist(w, e) \in Nat
      /\ Dist(r, w) + Dist(w, e) <= INPUT_BUF
      /\ Dist(r, e) = Dist(r, w) + Dist(w, e)
  BY Distances, Zenon DEF ConsoleInv
<1>1. e' \in Index
  <2>1. e \in Int /\ -k \in Int
    BY <1>0, Sizes DEF Index
  <2>. QED BY <2>1, PlusType, Zenon
<1>2. Dist(w, e') = Dist(w, e) - k
  BY <1>0, DistMinus, Zenon
<1>3. Dist(r, e') = Dist(r, e) - k
  <2>1. k <= Dist(r, e)
    BY <1>0
  <2>. QED BY <1>0, <2>1, DistMinus, Zenon
<1>4. ConTypeOK'
  BY <1>0, <1>1, Zenon DEF ConTypeOK, ConsoleInv, Index
<1>5. Ordered'
  <2>1. Dist(r', w') = Dist(r, w) /\ Dist(w', e') = Dist(w, e) - k
    BY <1>2, Zenon
  <2>. QED BY <1>0, <2>1, Sizes DEF Ordered
<1>6. NotWedged'
  <2>. SUFFICES ASSUME Dist(r, e') = INPUT_BUF PROVE r # w
    BY Zenon DEF NotWedged
  <2>1. Dist(r, e) = INPUT_BUF
    BY <1>0, <1>3, Sizes
  <2>. QED BY <2>1, Zenon DEF ConsoleInv, NotWedged
<1>7. OneLine'
  <2>. SUFFICES ASSUME NEW i \in 1 .. Dist(w, e) - k PROVE buf[Slot(w + i - 1)] # Newline
    BY <1>2, Zenon DEF OneLine
  <2>1. i \in 1 .. Dist(w, e)
    BY <1>0
  <2>. QED BY <2>1, Zenon DEF ConsoleInv, OneLine
<1>8. SleepsOnEmpty' /\ WantsSome'
  BY Zenon DEF SleepsOnEmpty, WantsSome, ConsoleInv
<1>. QED BY <1>2, <1>4, <1>5, <1>6, <1>7, <1>8, Zenon DEF ConsoleInv

LEMMA BackspaceInv ==
  ASSUME ConsoleInv, Backspace
  PROVE  ConsoleInv' /\ Dist(w, e') = Dist(w, e) - 1
<1>1. Dist(w, e) \in Nat /\ Dist(w, e) # 0
  <2>1. w \in Index /\ e \in Index
    BY Distances, Zenon DEF ConsoleInv
  <2>. QED BY <2>1, DistType, Zenon DEF Backspace
<1>2. PICK k \in Nat : k = 1
  BY Zenon
<1>3. k <= Dist(w, e) /\ e' = Plus(e, -k)
  BY <1>1, <1>2 DEF Backspace
<1>. QED BY <1>2, <1>3, EraseInv, Zenon DEF Backspace

\* There is no newline in the line, so Control-U erases all of it.
LEMMA EraseLineInv ==
  ASSUME ConsoleInv, EraseLine
  PROVE  ConsoleInv' /\ Dist(w, e') = 0
<1>. DEFINE D == Dist(w, e)
            Ends(k) == /\ k = D \/ buf[Slot(Plus(e, -(k + 1)))] = Newline
                       /\ \A j \in 1 .. k : buf[Slot(Plus(e, -j))] # Newline
<1>0. w \in Index /\ e \in Index /\ D \in Nat /\ w \in Int /\ e \in Int
  BY Distances, Sizes DEF ConsoleInv, Index
<1>1. \A j \in 1 .. D : buf[Slot(Plus(e, -j))] # Newline
  <2>. TAKE j \in 1 .. D
  <2>1. e = Plus(w, D) /\ -j \in Int /\ D \in Int
    BY <1>0, DistType
  <2>2. Slot(Plus(e, -j)) = Slot(e + -j)
    BY <1>0, <2>1, SlotPlus, Zenon
  <2>3. Slot(Plus(w, D) + -j) = Slot(w + D + -j)
    BY <1>0, <2>1, SlotPlusOn, Zenon
  <2>4. w + D + -j = w + (D - j + 1) - 1 /\ D - j + 1 \in 1 .. D
    BY <1>0
  <2>5. buf[Slot(w + (D - j + 1) - 1)] # Newline
    BY <2>4, Zenon DEF ConsoleInv, OneLine
  <2>. QED BY <2>1, <2>2, <2>3, <2>4, <2>5, Zenon
<1>2. D \in 0 .. D /\ Ends(D)
  BY <1>0, <1>1
<1>. DEFINE c == CHOOSE k \in 0 .. D : Ends(k)
<1>3. c \in 0 .. D /\ Ends(c)
  BY <1>2, Zenon
<1>4. e' = Plus(e, -c) /\ UNCHANGED <<buf, r, w, where, n, got, killed>>
  BY Zenon DEF EraseLine
<1>5. c = D
  <2>. SUFFICES ASSUME c # D PROVE FALSE
    BY Zenon
  <2>1. buf[Slot(Plus(e, -(c + 1)))] = Newline
    BY <1>3, Zenon
  <2>2. c + 1 \in 1 .. D
    BY <1>0, <1>3
  <2>. HIDE DEF c, D
  <2>. QED BY <1>1, <2>1, <2>2, Zenon
<1>. HIDE DEF c
<1>6. c \in Nat /\ c <= Dist(w, e)
  BY <1>0, <1>5
<1>7. ConsoleInv' /\ Dist(w, e') = Dist(w, e) - c
  BY <1>4, <1>6, EraseInv, Zenon
<1>. QED BY <1>0, <1>5, <1>7

LEMMA ReadInv ==
  ASSUME ConsoleInv, NEW p \in Reader, Read(p)
  PROVE  ConsoleInv'
<1>1. PICK k \in 1 .. MaxN : n' = [n EXCEPT ![p] = k]
  BY Zenon DEF Read
<1>2. where' = [where EXCEPT ![p] = "read"] /\ UNCHANGED <<inputVars, killed>>
  BY Zenon DEF Read
<1>3. ConTypeOK'
  <2>1. n' \in [Reader -> 0 .. MaxN]
    BY <1>1, Sizes DEF ConsoleInv, ConTypeOK
  <2>2. <<>> \in Seq(Chars) /\ got' = [got EXCEPT ![p] = <<>>]
    <3>1. <<>> \in Seq(Chars)
      OBVIOUS
    <3>. QED BY <3>1, Zenon DEF Read
  <2>3. got' \in [Reader -> Seq(Chars)]
    BY <2>2, Zenon DEF ConsoleInv, ConTypeOK
  <2>. QED BY <1>2, <2>1, <2>3, Zenon DEF ConsoleInv, ConTypeOK, inputVars
<1>4. SleepsOnEmpty' /\ WantsSome'
  BY <1>1, <1>2 DEF ConsoleInv, ConTypeOK, SleepsOnEmpty, WantsSome, inputVars
<1>5. Ordered' /\ NotWedged' /\ OneLine'
  BY <1>2, Zenon DEF ConsoleInv, Ordered, NotWedged, OneLine, inputVars, Dist
<1>. QED BY <1>3, <1>4, <1>5, Zenon DEF ConsoleInv

LEMMA SleepInv ==
  ASSUME ConsoleInv, NEW p \in Reader, Sleep(p)
  PROVE  ConsoleInv'
<1>1. ConTypeOK'
  BY Zenon DEF ConsoleInv, ConTypeOK, Sleep, inputVars
<1>2. SleepsOnEmpty' /\ WantsSome'
  BY Zenon DEF ConsoleInv, ConTypeOK, SleepsOnEmpty, WantsSome, Sleep, inputVars
<1>3. Ordered' /\ NotWedged' /\ OneLine'
  BY Zenon DEF ConsoleInv, Ordered, NotWedged, OneLine, inputVars, Dist, Sleep
<1>. QED BY <1>1, <1>2, <1>3, Zenon DEF ConsoleInv

LEMMA KillInv ==
  ASSUME ConsoleInv, NEW p \in Reader, Kill(p)
  PROVE  ConsoleInv'
<1>1. ConTypeOK'
  BY Zenon DEF ConsoleInv, ConTypeOK, Kill, inputVars
<1>2. SleepsOnEmpty' /\ WantsSome'
  BY Zenon DEF ConsoleInv, ConTypeOK, SleepsOnEmpty, WantsSome, Kill, inputVars
<1>3. Ordered' /\ NotWedged' /\ OneLine'
  BY Zenon DEF ConsoleInv, Ordered, NotWedged, OneLine, inputVars, Dist, Kill
<1>. QED BY <1>1, <1>2, <1>3, Zenon DEF ConsoleInv

LEMMA ConsoleWaitInv ==
  ASSUME ConsoleInv, NEW p \in Reader, ConsoleWait(p)
  PROVE  ConsoleInv'
<1>1. ConTypeOK'
  <2>1. 0 \in 0 .. MaxN
    BY Sizes
  <2>. QED BY <2>1, Zenon DEF ConsoleInv, ConTypeOK, ConsoleWait, Return, inputVars
<1>2. SleepsOnEmpty' /\ WantsSome'
  BY Zenon DEF ConsoleInv, ConTypeOK, SleepsOnEmpty, WantsSome, ConsoleWait, Return, inputVars
<1>3. Ordered' /\ NotWedged' /\ OneLine'
  BY Zenon DEF ConsoleInv, Ordered, NotWedged, OneLine, inputVars, Dist, ConsoleWait
<1>. QED BY <1>1, <1>2, <1>3, Zenon DEF ConsoleInv

\* The loop of consoleread stops somewhere: at the first place where it may.
LEMMA TakenStops ==
  ASSUME ConsoleInv, NEW p \in Reader, where[p] = "read", r # w
  PROVE  /\ Taken(p) \in 1 .. Dist(r, w) /\ Taken(p) <= n[p] /\ n[p] \in Nat
         /\ \A i \in 1 .. Taken(p) - 1 : buf[Slot(Plus(r, i - 1))] # Newline
         /\ \/ Taken(p) = n[p] \/ Taken(p) = Dist(r, w)
            \/ buf[Slot(Plus(r, Taken(p) - 1))] = Newline
<1>. DEFINE D == Dist(r, w)
            Stops(k) == k = n[p] \/ k = D \/ buf[Slot(Plus(r, k - 1))] = Newline
            S == {k \in 1 .. D : Stops(k)}
            Right(k) == /\ \A i \in 1 .. k - 1 : buf[Slot(Plus(r, i - 1))] # Newline
                        /\ k <= n[p]
                        /\ Stops(k)
<1>1. D \in Nat /\ D # 0
  BY Distances, Zenon DEF ConsoleInv
<1>2. n[p] \in Nat /\ n[p] # 0
  <2>1. n[p] \in 0 .. MaxN /\ n[p] # 0
    BY Zenon DEF ConsoleInv, ConTypeOK, WantsSome
  <2>. QED BY <2>1
<1>3. S \subseteq Nat /\ D \in S
  BY <1>1
<1>4. PICK x \in S : \A y \in S : x <= y
  <2>. HIDE DEF S
  <2>. QED BY <1>3, LeastNatural, Zenon
<1>5. x \in 1 .. D /\ Stops(x)
  BY Zenon
<1>6. x <= n[p]
  <2>. SUFFICES ASSUME n[p] < x PROVE FALSE
    BY <1>2, <1>5
  <2>1. n[p] \in 1 .. D
    BY <1>1, <1>2, <1>5
  <2>2. n[p] \in S
    BY <2>1, Zenon
  <2>. QED BY <1>2, <1>4, <1>5, <2>2
<1>7. \A i \in 1 .. x - 1 : buf[Slot(Plus(r, i - 1))] # Newline
  <2>. SUFFICES ASSUME NEW i \in 1 .. x - 1, buf[Slot(Plus(r, i - 1))] = Newline PROVE FALSE
    BY Zenon
  <2>1. i \in 1 .. D /\ i < x
    BY <1>1, <1>5
  <2>2. i \in S
    BY <2>1, Zenon
  <2>. QED BY <1>4, <1>5, <2>1, <2>2
<1>8. Right(x)
  BY <1>5, <1>6, <1>7, Zenon
<1>9. Taken(p) = CHOOSE k \in 1 .. D : Right(k)
  BY Zenon DEF Taken
<1>10. Taken(p) \in 1 .. D /\ Right(Taken(p))
  <2>. HIDE DEF Right
  <2>. QED BY <1>5, <1>8, <1>9, Zenon
<1>. QED BY <1>2, <1>10, Zenon

\* What consoleread adds to dst is keys.
LEMMA GotType ==
  ASSUME ConsoleInv, NEW p \in Reader, NEW k \in Nat,
         got' = [got EXCEPT ![p] = @ \o [i \in 1 .. k |-> buf[Slot(Plus(r, i - 1))]]]
  PROVE  got' \in [Reader -> Seq(Chars)]
<1>. DEFINE g == [i \in 1 .. k |-> buf[Slot(Plus(r, i - 1))]]
<1>1. r \in Int /\ buf \in [0 .. INPUT_BUF - 1 -> Chars] /\ got \in [Reader -> Seq(Chars)]
  <2>1. r \in Index
    BY Distances, Zenon DEF ConsoleInv
  <2>2. r \in Int
    BY <2>1, Sizes DEF Index
  <2>. QED BY <2>2, Zenon DEF ConsoleInv, ConTypeOK
<1>2. ASSUME NEW i \in 1 .. k PROVE Slot(Plus(r, i - 1)) \in 0 .. INPUT_BUF - 1
  <2>1. PICK y \in Int : y = i - 1
    OBVIOUS
  <2>2. PICK z \in Int : z = r + y
    BY <1>1
  <2>3. Slot(z) \in 0 .. INPUT_BUF - 1
    BY SlotType, Zenon
  <2>. QED BY <1>1, <2>1, <2>2, <2>3, SlotPlus, Zenon
<1>3. g \in [1 .. k -> Chars]
  BY <1>1, <1>2, Zenon
<1>4. g \in Seq(Chars)
  <2>. HIDE DEF g
  <2>. QED BY <1>3
<1>5. got[p] \o g \in Seq(Chars)
  <2>. HIDE DEF g
  <2>1. got[p] \in Seq(Chars)
    BY <1>1, Zenon
  <2>. QED BY <1>4, <2>1
<1>. QED BY <1>1, <1>5, Zenon

LEMMA ConsoleReadInv ==
  ASSUME ConsoleInv, NEW p \in Reader, ConsoleRead(p)
  PROVE  ConsoleInv'
<1>0. /\ r \in Index /\ w \in Index /\ e \in Index
      /\ Dist(r, w) \in Nat /\ Dist(w, e) \in Nat
      /\ Dist(r, w) + Dist(w, e) <= INPUT_BUF
      /\ Dist(r, e) = Dist(r, w) + Dist(w, e)
  BY Distances, Zenon DEF ConsoleInv
<1>1. PICK k \in Nat : k = Taken(p) /\ k \in 1 .. Dist(r, w) /\ k <= n[p]
                       /\ n[p] \in Nat
                       /\ (k = n[p] \/ k = Dist(r, w) \/ buf[Slot(Plus(r, k - 1))] = Newline)
  <2>1. where[p] = "read" /\ r # w
    BY Zenon DEF ConsoleRead
  <2>2. Taken(p) \in Nat
    BY <1>0, <2>1, TakenStops
  <2>. QED BY <2>1, <2>2, TakenStops, Zenon
<1>2. r' = Plus(r, k) /\ UNCHANGED <<buf, w, e, killed>>
  BY <1>1, Zenon DEF ConsoleRead
<1>3. r' \in Index
  BY <1>0, <1>2, PlusType, Sizes DEF Index
<1>4. Dist(r', w') = Dist(r, w) - k /\ Dist(w', e') = Dist(w, e)
  <2>1. k <= Dist(r, w)
    BY <1>0, <1>1
  <2>2. Dist(Plus(r, k), w) = Dist(r, w) - k
    BY <1>0, <2>1, DistCatch, Zenon
  <2>. QED BY <1>2, <2>2, Zenon
<1>5. Dist(r', e') = Dist(r, e) - k
  <2>1. k <= Dist(r, e)
    BY <1>0, <1>1
  <2>2. Dist(Plus(r, k), e) = Dist(r, e) - k
    BY <1>0, <2>1, DistCatch, Zenon
  <2>. QED BY <1>2, <2>2, Zenon
<1>6. Ordered' /\ NotWedged'
  BY <1>0, <1>1, <1>4, <1>5, Sizes DEF Ordered, NotWedged
<1>7. OneLine'
  BY <1>2, <1>4, Zenon DEF OneLine, ConsoleInv
<1>10. got' \in [Reader -> Seq(Chars)]
  <2>1. got' = [got EXCEPT ![p] = @ \o [i \in 1 .. k |-> buf[Slot(Plus(r, i - 1))]]]
    BY <1>1, Zenon DEF ConsoleRead
  <2>. QED BY <2>1, GotType, Zenon
<1>8. CASE Return(p)
  <2>1. 0 \in 0 .. MaxN
    BY Sizes
  <2>2. ConTypeOK'
    BY <1>0, <1>2, <1>3, <1>8, <1>10, <2>1, Zenon DEF ConTypeOK, ConsoleInv, Return, Index
  <2>3. SleepsOnEmpty'
    BY <1>8, Zenon DEF SleepsOnEmpty, ConsoleInv, ConTypeOK, Return, ConsoleRead, Unlocked
  <2>4. WantsSome'
    BY <1>8, Zenon DEF WantsSome, ConsoleInv, ConTypeOK, Return
  <2>. QED BY <1>6, <1>7, <2>2, <2>3, <2>4, Zenon DEF ConsoleInv
<1>9. CASE /\ k # n[p] /\ buf[Slot(Plus(r, k - 1))] # Newline
           /\ n' = [n EXCEPT ![p] = @ - k] /\ where' = [where EXCEPT ![p] = "tosleep"]
  <2>1. k = Dist(r, w)
    BY <1>1, <1>9, Zenon
  <2>2. r' = w'
    <3>1. Dist(r', w) = 0
      BY <1>0, <1>2, <1>4, <2>1
    <3>. QED BY <1>0, <1>2, <1>3, <3>1, DistType, Zenon
  <2>3. n[p] - k \in 0 .. MaxN /\ n[p] - k # 0
    <3>1. n[p] \in 0 .. MaxN
      BY Zenon DEF ConsoleInv, ConTypeOK
    <3>. QED BY <1>1, <1>9, <3>1, Sizes
  <2>4. ConTypeOK'
    BY <1>0, <1>2, <1>3, <1>9, <1>10, <2>3, Zenon DEF ConTypeOK, ConsoleInv, Index
  <2>5. SleepsOnEmpty'
    BY <2>2, Zenon DEF SleepsOnEmpty
  <2>6. WantsSome'
    BY <1>9, <2>3, Zenon DEF WantsSome, ConsoleInv, ConTypeOK
  <2>. QED BY <1>6, <1>7, <2>4, <2>5, <2>6, Zenon DEF ConsoleInv
<1>. QED BY <1>1, <1>8, <1>9, Zenon DEF ConsoleRead

LEMMA StutterInv ==
  ASSUME ConsoleInv, UNCHANGED conVars
  PROVE  ConsoleInv'
BY Zenon DEF ConsoleInv, ConTypeOK, Ordered, NotWedged, SleepsOnEmpty, OneLine, WantsSome,
       Dist, conVars, inputVars

-----------------------------------------------------------------------------
(***************************************************************************)
(* Theorems.                                                               *)
(***************************************************************************)

\* The inductive invariant, which every key, every read and every kill keeps.
THEOREM ConsoleInvariance == ConSpec => []ConsoleInv
<1>1. ASSUME ConsoleInv, [ConNext]_conVars PROVE ConsoleInv'
  <2>1. CASE Backspace
    BY <1>1, <2>1, BackspaceInv, Zenon
  <2>2. CASE EraseLine
    BY <1>1, <2>2, EraseLineInv, Zenon
  <2>3. ASSUME NEW k \in Chars, Insert(k) PROVE ConsoleInv'
    BY <1>1, <2>3, InsertInv, Zenon
  <2>4. ASSUME NEW p \in Reader, Read(p) \/ Step(p) \/ Kill(p) PROVE ConsoleInv'
    BY <1>1, <2>4, ReadInv, ConsoleReadInv, ConsoleWaitInv, SleepInv, KillInv, Zenon DEF Step
  <2>5. CASE UNCHANGED conVars
    BY <1>1, <2>5, StutterInv, Zenon
  <2>. QED BY <1>1, <2>1, <2>2, <2>3, <2>4, <2>5, Zenon DEF ConNext, Keyboard
<1>. QED BY <1>1, InitConsoleInv, PTL DEF ConSpec

\* The three indices of the ring keep their order, whatever its size and
\* however often the unsigned counters wrap around.
THEOREM IndicesOrdered == ConSpec => []Ordered
BY ConsoleInvariance, PTL DEF ConsoleInv

\* A full ring always has something to read, so consoleintr dropping keys never
\* leaves the console dead; and no reader sleeps, or is about to sleep, in
\* consoleread while there is something to read: no wakeup is lost.
THEOREM ConsoleNeverStuck == ConSpec => []NeverStuck
<1>1. ConsoleInv => NeverStuck
  BY Zenon DEF ConsoleInv, NeverStuck
<1>. QED BY <1>1, ConsoleInvariance, PTL

-----------------------------------------------------------------------------
(***************************************************************************)
(* The ring implements LineQueue.                                          *)
(***************************************************************************)

Region(b, a, u) == [i \in 1 .. u |-> b[Slot(a + i - 1)]]

Ready == Region(buf, r, Dist(r, w))
Edit == Region(buf, w, Dist(w, e))

LEMMA RegionType ==
  ASSUME NEW b \in [0 .. INPUT_BUF - 1 -> Chars], NEW a \in Int, NEW u \in Nat
  PROVE  /\ Region(b, a, u) \in Seq(Chars) /\ Len(Region(b, a, u)) = u
         /\ \A i \in 1 .. u : Region(b, a, u)[i] = b[Slot(a + i - 1)]
<1>1. \A i \in 1 .. u : Slot(a + i - 1) \in 0 .. INPUT_BUF - 1
  BY SlotType
<1>2. Region(b, a, u) \in [1 .. u -> Chars]
  BY <1>1, Zenon DEF Region
<1>3. Region(b, a, u) \in Seq(Chars)
  BY <1>2
<1>4. Len(Region(b, a, u)) = u
  <2>1. /\ DOMAIN Region(b, a, u) = 1 .. u
        /\ DOMAIN Region(b, a, u) = 1 .. Len(Region(b, a, u)) /\ Len(Region(b, a, u)) \in Nat
    BY <1>2, <1>3
  <2>. QED BY <2>1
<1>5. \A i \in 1 .. u : Region(b, a, u)[i] = b[Slot(a + i - 1)]
  BY Zenon DEF Region
<1>. QED BY <1>3, <1>4, <1>5, Zenon

LEMMA ReadyType ==
  ASSUME ConsoleInv
  PROVE  /\ Ready \in Seq(Chars) /\ Len(Ready) = Dist(r, w)
         /\ \A i \in 1 .. Dist(r, w) : Ready[i] = buf[Slot(r + i - 1)]
<1>1. Dist(r, w) \in Nat /\ r \in Int /\ buf \in [0 .. INPUT_BUF - 1 -> Chars]
  BY Distances, Sizes, SMTT(30) DEF ConsoleInv, ConTypeOK, Index
<1>. QED BY <1>1, RegionType, Zenon DEF Ready

LEMMA EditType ==
  ASSUME ConsoleInv
  PROVE  /\ Edit \in Seq(Chars) /\ Len(Edit) = Dist(w, e)
         /\ \A i \in 1 .. Dist(w, e) : Edit[i] = buf[Slot(w + i - 1)]
<1>1. Dist(w, e) \in Nat /\ w \in Int /\ buf \in [0 .. INPUT_BUF - 1 -> Chars]
  BY Distances, Sizes DEF ConsoleInv, ConTypeOK, Index
<1>. QED BY <1>1, RegionType, Zenon DEF Edit

LEMMA LineQueueIs ==
  /\ LQ!Init <=> Ready = <<>> /\ Edit = <<>> /\ got = [p \in Reader |-> <<>>]
  /\ LQ!lvars = <<Ready, Edit, got>>
BY Zenon DEF LQ!Init, LQ!lvars, Ready, Edit, Region

LEMMA LineQueueStutters ==
  ASSUME UNCHANGED <<inputVars, got>>
  PROVE  UNCHANGED LQ!lvars
BY Zenon DEF LQ!lvars, inputVars, Dist, Slot

\* A sequence that is one sequence and then another.
LEMMA Joined ==
  ASSUME NEW S, NEW s \in Seq(S), NEW t \in Seq(S), NEW u \in Seq(S),
         Len(u) = Len(s) + Len(t),
         \A i \in 1 .. Len(s) : u[i] = s[i],
         \A j \in 1 .. Len(t) : u[Len(s) + j] = t[j]
  PROVE  u = s \o t
<1>0. Len(s) \in Nat /\ Len(t) \in Nat
  OBVIOUS
<1>1. /\ s \o t \in Seq(S) /\ Len(s \o t) = Len(s) + Len(t)
      /\ \A i \in 1 .. Len(s) + Len(t) :
           (s \o t)[i] = IF i <= Len(s) THEN s[i] ELSE t[i - Len(s)]
  OBVIOUS
<1>2. ASSUME NEW i \in 1 .. Len(s) + Len(t) PROVE u[i] = (s \o t)[i]
  <2>1. CASE i <= Len(s)
    BY <1>0, <1>1, <2>1
  <2>2. CASE i > Len(s)
    <3>1. i - Len(s) \in 1 .. Len(t) /\ Len(s) + (i - Len(s)) = i
      BY <1>0, <2>2
    <3>2. u[i] = t[i - Len(s)]
      BY <3>1, Zenon
    <3>3. (s \o t)[i] = t[i - Len(s)]
      BY <1>0, <1>1, <2>2
    <3>. QED BY <3>2, <3>3, Zenon
  <2>. QED BY <1>0, <2>1, <2>2
<1>. QED BY <1>1, <1>2

\* What the ring holds after consoleintr has stored a key.
LEMMA TypedRegions ==
  ASSUME ConsoleInv, ConsoleInv', NEW k \in Chars, Insert(k)
  PROVE  IF k = Newline \/ e' = Plus(r, INPUT_BUF)
         THEN Ready' = Ready \o Append(Edit, k) /\ Edit' = <<>>
         ELSE Edit' = Append(Edit, k) /\ Ready' = Ready
<1>0. /\ r \in Index /\ w \in Index /\ e \in Index /\ r \in Int /\ w \in Int
      /\ Dist(r, w) \in Nat /\ Dist(w, e) \in Nat /\ Dist(r, e) < INPUT_BUF
      /\ Dist(r, e) = Dist(r, w) + Dist(w, e)
  BY Distances, Sizes DEF ConsoleInv, Insert, Index
<1>1. /\ r' = r /\ e' \in Index
      /\ Dist(r, e') = Dist(r, e) + 1 /\ Dist(w, e') = Dist(w, e) + 1 /\ Dist(e', e') = 0
  BY InsertDistances, Zenon
<1>2. /\ buf'[Slot(e)] = k
      /\ \A i \in 1 .. Dist(w, e) : buf'[Slot(w + i - 1)] = buf[Slot(w + i - 1)]
      /\ \A i \in 1 .. Dist(r, w) : buf'[Slot(r + i - 1)] = buf[Slot(r + i - 1)]
      /\ Slot(e) = Slot(w + Dist(w, e)) /\ Slot(e) = Slot(r + Dist(r, e))
  BY InsertSlots, Zenon
<1>3. buf' \in [0 .. INPUT_BUF - 1 -> Chars]
  BY Zenon DEF ConsoleInv, ConTypeOK
<1>4. /\ Ready \in Seq(Chars) /\ Len(Ready) = Dist(r, w)
      /\ \A i \in 1 .. Dist(r, w) : Ready[i] = buf[Slot(r + i - 1)]
  BY ReadyType, Zenon
<1>5. /\ Edit \in Seq(Chars) /\ Len(Edit) = Dist(w, e)
      /\ \A i \in 1 .. Dist(w, e) : Edit[i] = buf[Slot(w + i - 1)]
  BY EditType, Zenon
<1>6. /\ Append(Edit, k) \in Seq(Chars) /\ Len(Append(Edit, k)) = Dist(w, e) + 1
      /\ \A i \in 1 .. Dist(w, e) : Append(Edit, k)[i] = buf[Slot(w + i - 1)]
      /\ Append(Edit, k)[Dist(w, e) + 1] = k
  BY <1>0, <1>5
<1>7. \A i \in 1 .. Dist(w, e) + 1 : Append(Edit, k)[i] = buf'[Slot(w + i - 1)]
  <2>. SUFFICES ASSUME NEW i \in 1 .. Dist(w, e) + 1
                PROVE  Append(Edit, k)[i] = buf'[Slot(w + i - 1)]
    BY Zenon
  <2>1. CASE i \in 1 .. Dist(w, e)
    BY <1>2, <1>6, <2>1, Zenon
  <2>2. CASE i = Dist(w, e) + 1
    <3>1. w + i - 1 = w + Dist(w, e)
      BY <1>0, <2>2
    <3>. QED BY <1>2, <1>6, <2>2, <3>1, Zenon
  <2>3. i \in 1 .. Dist(w, e) \/ i = Dist(w, e) + 1
    BY <1>0
  <2>. QED BY <2>1, <2>2, <2>3, Zenon
<1>8. CASE k = Newline \/ e' = Plus(r, INPUT_BUF)
  <2>1. w' = e'
    BY <1>8, Zenon DEF Insert
  <2>2. Edit' = <<>>
    <3>1. Edit' \in Seq(Chars) /\ Len(Edit') = Dist(w', e') /\ Dist(w', e') = 0
      <4>1. w' \in Int /\ 0 \in Nat
        BY <1>1, <2>1, Sizes DEF Index
      <4>2. Edit' = Region(buf', w', Dist(w', e'))
        BY Zenon DEF Edit, Region, Slot, Dist
      <4>3. Dist(w', e') = 0
        BY <1>1, <2>1, Zenon
      <4>. QED BY <1>3, <4>1, <4>2, <4>3, RegionType, Zenon
    <3>. QED BY <3>1
  <2>3. /\ Ready' \in Seq(Chars) /\ Len(Ready') = Dist(r, w) + (Dist(w, e) + 1)
        /\ \A i \in 1 .. Dist(r, w) + (Dist(w, e) + 1) : Ready'[i] = buf'[Slot(r + i - 1)]
    <3>1. Ready' = Region(buf', r, Dist(r, e'))
      BY <1>1, <2>1, Zenon DEF Ready, Region, Slot, Dist
    <3>2. Dist(r, e') = Dist(r, w) + (Dist(w, e) + 1) /\ Dist(r, e') \in Nat
      BY <1>0, <1>1
    <3>. QED BY <1>0, <1>3, <3>1, <3>2, RegionType, ZenonT(30)
  <2>4. \A j \in 1 .. Dist(w, e) + 1 : Slot(r + (Dist(r, w) + j) - 1) = Slot(w + j - 1)
    <3>. TAKE j \in 1 .. Dist(w, e) + 1
    <3>1. w = Plus(r, Dist(r, w))
      BY <1>0, DistType, Zenon
    <3>2. PICK y \in Int : y = j - 1
      BY <1>0
    <3>3. Slot(Plus(r, Dist(r, w)) + y) = Slot(r + Dist(r, w) + y)
      <4>1. PICK d \in Int : d = Dist(r, w)
        BY <1>0
      <4>2. Slot(Plus(r, d) + y) = Slot(r + d + y)
        BY <1>0, SlotPlusOn, Zenon
      <4>. QED BY <4>1, <4>2, Zenon
    <3>4. w + y = w + j - 1 /\ r + Dist(r, w) + y = r + (Dist(r, w) + j) - 1
      BY <1>0, <3>2
    <3>. QED BY <3>1, <3>3, <3>4, Zenon
  <2>5. \A i \in 1 .. Dist(r, w) : Ready'[i] = Ready[i]
    <3>. TAKE i \in 1 .. Dist(r, w)
    <3>1. i \in 1 .. Dist(r, w) + (Dist(w, e) + 1)
      BY <1>0
    <3>. QED BY <1>2, <1>4, <2>3, <3>1, Zenon
  <2>6. \A j \in 1 .. Dist(w, e) + 1 : Ready'[Dist(r, w) + j] = Append(Edit, k)[j]
    <3>. SUFFICES ASSUME NEW j \in 1 .. Dist(w, e) + 1
                  PROVE  Ready'[Dist(r, w) + j] = Append(Edit, k)[j]
      BY Zenon
    <3>1. Dist(r, w) + j \in 1 .. Dist(r, w) + (Dist(w, e) + 1)
      BY <1>0
    <3>. QED BY <1>7, <2>3, <2>4, <3>1, Zenon
  <2>7. Ready' = Ready \o Append(Edit, k)
    <3>1. Len(Ready') = Len(Ready) + Len(Append(Edit, k))
      BY <1>4, <1>6, <2>3, Zenon
    <3>2. \A i \in 1 .. Len(Ready) : Ready'[i] = Ready[i]
      BY <1>4, <2>5, Zenon
    <3>3. \A j \in 1 .. Len(Append(Edit, k)) : Ready'[Len(Ready) + j] = Append(Edit, k)[j]
      BY <1>4, <1>6, <2>6, Zenon
    <3>. QED BY <1>4, <1>6, <2>3, <3>1, <3>2, <3>3, Joined, Zenon
  <2>. QED BY <1>8, <2>2, <2>7, Zenon
<1>9. CASE ~(k = Newline \/ e' = Plus(r, INPUT_BUF))
  <2>1. w' = w
    BY <1>9, Zenon DEF Insert
  <2>2. /\ Edit' \in Seq(Chars) /\ Len(Edit') = Dist(w, e) + 1
        /\ \A i \in 1 .. Dist(w, e) + 1 : Edit'[i] = buf'[Slot(w + i - 1)]
    <3>1. Edit' = Region(buf', w, Dist(w, e'))
      BY <2>1, Zenon DEF Edit, Region, Slot, Dist
    <3>2. Dist(w, e') = Dist(w, e) + 1 /\ Dist(w, e') \in Nat
      BY <1>0, <1>1
    <3>. QED BY <1>0, <1>3, <3>1, <3>2, RegionType, ZenonT(30)
  <2>3. Edit' = Append(Edit, k)
    BY <1>6, <1>7, <2>2, SMTT(30)
  <2>4. /\ Ready' \in Seq(Chars) /\ Len(Ready') = Dist(r, w)
        /\ \A i \in 1 .. Dist(r, w) : Ready'[i] = buf'[Slot(r + i - 1)]
    <3>1. Ready' = Region(buf', r, Dist(r, w))
      BY <1>1, <2>1, Zenon DEF Ready, Region, Slot, Dist
    <3>. QED BY <1>0, <1>3, <3>1, RegionType, Zenon
  <2>5. Ready' = Ready
    BY <1>2, <1>4, <2>4
  <2>. QED BY <1>9, <2>3, <2>5, Zenon
<1>. QED BY <1>8, <1>9, Zenon

LEMMA InsertImplementsType ==
  ASSUME ConsoleInv, ConsoleInv', NEW k \in Chars, Insert(k)
  PROVE  LQ!Type(k)
<1>0. /\ Dist(r, w) \in Nat /\ Dist(w, e) \in Nat /\ Dist(r, e) < INPUT_BUF
      /\ Dist(r, e) = Dist(r, w) + Dist(w, e)
  BY Distances, Zenon DEF ConsoleInv, Insert
<1>1. e' = Plus(r, INPUT_BUF) <=> Dist(r, e) + 1 = INPUT_BUF
  BY InsertDistances, Zenon
<1>2. Len(Ready) = Dist(r, w) /\ Len(Edit) = Dist(w, e)
  BY ReadyType, EditType, Zenon
<1>3. ~(Len(Ready) + Len(Edit) = INPUT_BUF)
  BY <1>0, <1>2, Sizes
<1>4. Len(Ready) + Len(Edit) + 1 = INPUT_BUF <=> e' = Plus(r, INPUT_BUF)
  BY <1>0, <1>1, <1>2, Zenon
<1>5. IF k = Newline \/ Len(Ready) + Len(Edit) + 1 = INPUT_BUF
      THEN Ready' = Ready \o Append(Edit, k) /\ Edit' = <<>>
      ELSE Edit' = Append(Edit, k) /\ Ready' = Ready
  BY <1>4, TypedRegions, Zenon
<1>6. got' = got
  BY Zenon DEF Insert
<1>. QED BY <1>3, <1>5, <1>6, Zenon DEF LQ!Type, LQ!Full, Ready, Edit, Region

\* Erasing k keys takes them from the end of the line.
LEMMA ErasedRegions ==
  ASSUME ConsoleInv, UNCHANGED <<buf, r, w>>, NEW k \in 0 .. Dist(w, e),
         Dist(w, e') = Dist(w, e) - k
  PROVE  Ready' = Ready /\ Edit' = SubSeq(Edit, 1, Len(Edit) - k)
<1>0. Dist(w, e) \in Nat /\ w \in Int /\ buf \in [0 .. INPUT_BUF - 1 -> Chars]
  BY Distances, Sizes, SMTT(30) DEF ConsoleInv, ConTypeOK, Index
<1>1. Ready' = Ready
  BY Zenon DEF Ready, Region, Slot, Dist
<1>2. /\ Edit \in Seq(Chars) /\ Len(Edit) = Dist(w, e)
      /\ \A i \in 1 .. Dist(w, e) : Edit[i] = buf[Slot(w + i - 1)]
  BY EditType, Zenon
<1>3. PICK l \in Nat : l = Dist(w, e) - k /\ l <= Dist(w, e)
  BY <1>0
<1>4. /\ Edit' \in Seq(Chars) /\ Len(Edit') = l
      /\ \A i \in 1 .. l : Edit'[i] = buf[Slot(w + i - 1)]
  <2>1. Edit' = Region(buf, w, l)
    BY <1>3, Zenon DEF Edit, Region, Slot, Dist
  <2>. QED BY <1>0, <2>1, RegionType, Zenon
<1>. DEFINE t == SubSeq(Edit, 1, l)
<1>5. t \in Seq(Chars) /\ Len(t) = l /\ \A i \in 1 .. l : t[i] = Edit[i]
  <2>1. 1 \in 1 .. Len(Edit) + 1 /\ l \in 1 - 1 .. Len(Edit)
    BY <1>0, <1>2, <1>3
  <2>2. t \in Seq(Chars) /\ Len(t) = l
    BY <1>2, <1>3, <2>1
  <2>3. \A i \in 1 .. l : t[i] = Edit[1 + i - 1]
    BY <1>2, <1>3, <2>1
  <2>4. \A i \in 1 .. l : 1 + i - 1 = i
    BY <1>3
  <2>. QED BY <2>2, <2>3, <2>4, Zenon
<1>6. \A i \in 1 .. l : Edit'[i] = t[i]
  <2>. HIDE DEF t
  <2>. TAKE i \in 1 .. l
  <2>1. i \in 1 .. Dist(w, e)
    BY <1>0, <1>3
  <2>. QED BY <1>2, <1>4, <1>5, <2>1, Zenon
<1>7. Edit' = t
  <2>. HIDE DEF t
  <2>. QED BY <1>4, <1>5, <1>6
<1>. QED BY <1>1, <1>2, <1>3, <1>7, Zenon

LEMMA BackspaceImplementsEraseKey ==
  ASSUME ConsoleInv, Backspace
  PROVE  LQ!EraseKey
<1>1. Dist(w, e) \in Nat /\ Dist(w, e) # 0
  <2>1. w \in Index /\ e \in Index
    BY Distances, Zenon DEF ConsoleInv
  <2>. QED BY <2>1, DistType, Zenon DEF Backspace
<1>2. Dist(w, e') = Dist(w, e) - 1 /\ 1 \in 0 .. Dist(w, e)
  BY <1>1, BackspaceInv
<1>3. UNCHANGED <<buf, r, w, got>>
  BY Zenon DEF Backspace
<1>4. Ready' = Ready /\ Edit' = SubSeq(Edit, 1, Len(Edit) - 1)
  BY <1>2, <1>3, ErasedRegions, Zenon
<1>5. Edit # <<>>
  BY <1>1, EditType, Zenon
<1>. QED BY <1>3, <1>4, <1>5, Zenon DEF LQ!EraseKey, Ready, Edit, Region

LEMMA EraseLineImplements ==
  ASSUME ConsoleInv, EraseLine
  PROVE  LQ!EraseLine
<1>1. Dist(w, e) \in Nat
  BY Distances, Zenon DEF ConsoleInv
<1>2. PICK k \in 0 .. Dist(w, e) : k = Dist(w, e)
  BY <1>1
<1>3. Dist(w, e') = Dist(w, e) - k
  BY <1>1, <1>2, EraseLineInv
<1>4. UNCHANGED <<buf, r, w, got>>
  BY Zenon DEF EraseLine
<1>5. Ready' = Ready /\ Edit' = SubSeq(Edit, 1, Len(Edit) - k)
  BY <1>3, <1>4, ErasedRegions, Zenon
<1>6. Edit \in Seq(Chars) /\ Len(Edit) - k = 0
  BY <1>1, <1>2, EditType
<1>7. Edit' = <<>>
  BY <1>5, <1>6
<1>. QED BY <1>4, <1>5, <1>7, Zenon DEF LQ!EraseLine, Ready, Edit, Region

LEMMA ReadImplementsTake ==
  ASSUME ConsoleInv, NEW p \in Reader, ConsoleRead(p)
  PROVE  LQ!Take(p)
<1>0. /\ r \in Index /\ w \in Index /\ r \in Int /\ w \in Int
      /\ Dist(r, w) \in Nat /\ buf \in [0 .. INPUT_BUF - 1 -> Chars]
  BY Distances, Sizes DEF ConsoleInv, ConTypeOK, Index
<1>1. PICK k \in Nat : /\ k = Taken(p) /\ k \in 1 .. Dist(r, w)
                       /\ \A i \in 1 .. k - 1 : buf[Slot(Plus(r, i - 1))] # Newline
  <2>1. where[p] = "read" /\ r # w
    BY Zenon DEF ConsoleRead
  <2>2. Taken(p) \in Nat
    BY <1>0, <2>1, TakenStops
  <2>. QED BY <2>1, <2>2, TakenStops, Zenon
<1>2. r' = Plus(r, k) /\ UNCHANGED <<buf, w, e>>
  BY <1>1, Zenon DEF ConsoleRead
<1>3. Edit' = Edit
  BY <1>2, Zenon DEF Edit, Region, Slot, Dist
<1>4. /\ Ready \in Seq(Chars) /\ Len(Ready) = Dist(r, w)
      /\ \A i \in 1 .. Dist(r, w) : Ready[i] = buf[Slot(r + i - 1)]
  BY ReadyType, Zenon
<1>5. PICK l \in Nat : l = Dist(r, w) - k /\ Dist(r', w) = l
  <2>1. k <= Dist(r, w) /\ Dist(r, w) - k \in Nat
    BY <1>0, <1>1
  <2>2. Dist(Plus(r, k), w) = Dist(r, w) - k
    BY <1>0, <2>1, DistCatch, Zenon
  <2>. QED BY <1>2, <2>1, <2>2, Zenon
<1>6. /\ Ready' \in Seq(Chars) /\ Len(Ready') = l
      /\ \A i \in 1 .. l : Ready'[i] = buf[Slot(Plus(r, k) + i - 1)]
  <2>1. Ready' = Region(buf, Plus(r, k), l)
    BY <1>2, <1>5, Zenon DEF Ready, Region, Slot, Dist
  <2>2. Plus(r, k) \in Int
    BY <1>0, PlusType, Sizes DEF Index
  <2>. QED BY <1>0, <2>1, <2>2, RegionType, Zenon
<1>7. \A i \in 1 .. l : Ready'[i] = Ready[k + i]
  <2>. TAKE i \in 1 .. l
  <2>1. PICK y \in Int : y = i - 1
    OBVIOUS
  <2>2. Slot(Plus(r, k) + y) = Slot(r + k + y)
    BY <1>0, SlotPlusOn
  <2>3. Plus(r, k) + y = Plus(r, k) + i - 1 /\ r + k + y = r + (k + i) - 1
    <3>1. Plus(r, k) \in Int
      BY <1>0, PlusType, Sizes, SMTT(30) DEF Index
    <3>. QED BY <1>0, <2>1, <3>1, SMTT(30)
  <2>4. k + i \in 1 .. Dist(r, w)
    BY <1>0, <1>1, <1>5
  <2>. QED BY <1>4, <1>6, <2>2, <2>3, <2>4, Zenon
<1>. DEFINE t == SubSeq(Ready, k + 1, Len(Ready))
<1>8. t \in Seq(Chars) /\ Len(t) = l /\ \A i \in 1 .. l : t[i] = Ready[k + i]
  <2>1. k + 1 \in 1 .. Len(Ready) + 1 /\ Len(Ready) \in k .. Len(Ready)
    BY <1>0, <1>1, <1>4
  <2>2. t \in Seq(Chars) /\ Len(t) = l
    BY <1>0, <1>1, <1>4, <1>5, <2>1, SMTT(30)
  <2>3. \A i \in 1 .. l : t[i] = Ready[k + 1 + i - 1]
    BY <1>0, <1>1, <1>4, <1>5, <2>1, SMTT(30)
  <2>4. \A i \in 1 .. l : k + 1 + i - 1 = k + i
    BY <1>1, <1>5
  <2>. QED BY <2>2, <2>3, <2>4, Zenon
<1>9. Ready' = t
  <2>. HIDE DEF t
  <2>. QED BY <1>6, <1>7, <1>8, SameSeq, Zenon
<1>10. \A i \in 1 .. k - 1 : Ready[i] # Newline
  <2>. TAKE i \in 1 .. k - 1
  <2>1. PICK y \in Int : y = i - 1
    OBVIOUS
  <2>2. Slot(Plus(r, y)) = Slot(r + y)
    BY <1>0, SlotPlus, Zenon
  <2>3. r + y = r + i - 1 /\ i \in 1 .. Dist(r, w)
    BY <1>0, <1>1, <2>1
  <2>. QED BY <1>1, <1>4, <2>1, <2>2, <2>3, Zenon
<1>11. k \in 1 .. Len(Ready)
  BY <1>1, <1>4, Zenon
<1>12. got' = [got EXCEPT ![p] = @ \o SubSeq(Ready, 1, k)]
  <2>. DEFINE g == [i \in 1 .. k |-> buf[Slot(Plus(r, i - 1))]]
              h == SubSeq(Ready, 1, k)
  <2>1. g = Region(buf, r, k)
    <3>1. ASSUME NEW i \in 1 .. k PROVE Slot(Plus(r, i - 1)) = Slot(r + i - 1)
      <4>1. PICK y \in Int : y = i - 1
        OBVIOUS
      <4>2. Slot(Plus(r, y)) = Slot(r + y) /\ r + y = r + i - 1
        <5>1. r + y = r + i - 1
          BY <1>0, <4>1
        <5>. QED BY <1>0, <5>1, SlotPlus, Zenon
      <4>. QED BY <4>1, <4>2, Zenon
    <3>. QED BY <3>1, Zenon DEF Region
  <2>2. g \in Seq(Chars) /\ Len(g) = k /\ \A i \in 1 .. k : g[i] = buf[Slot(r + i - 1)]
    <3>1. buf \in [0 .. INPUT_BUF - 1 -> Chars]
      BY Zenon DEF ConsoleInv, ConTypeOK
    <3>2. /\ Region(buf, r, k) \in Seq(Chars) /\ Len(Region(buf, r, k)) = k
          /\ \A i \in 1 .. k : Region(buf, r, k)[i] = buf[Slot(r + i - 1)]
      BY <1>0, <3>1, RegionType, Zenon
    <3>. HIDE DEF g
    <3>. QED BY <2>1, <3>2, Zenon
  <2>3. h \in Seq(Chars) /\ Len(h) = k /\ \A i \in 1 .. k : h[i] = Ready[i]
    BY <1>0, <1>1, <1>4, SMTT(30)
  <2>4. \A i \in 1 .. k : h[i] = buf[Slot(r + i - 1)]
    <3>1. \A i \in 1 .. k : i \in 1 .. Dist(r, w)
      BY <1>0, <1>1
    <3>. QED BY <1>4, <2>3, <3>1, Zenon
  <2>5. g = h
    <3>. HIDE DEF g, h
    <3>. QED BY <2>2, <2>3, <2>4, SameSeq, Zenon
  <2>. QED BY <1>1, <2>5, Zenon DEF ConsoleRead
<1>. QED BY <1>3, <1>9, <1>10, <1>11, <1>12, Zenon DEF LQ!Take, Ready, Edit, Region

LEMMA StepImplementsLineQueue ==
  ASSUME ConsoleInv, ConsoleInv', [ConNext]_conVars
  PROVE  [LQ!Next]_LQ!lvars
<1>1. CASE Backspace
  BY <1>1, BackspaceImplementsEraseKey, Zenon DEF LQ!Next
<1>2. CASE EraseLine
  BY <1>2, EraseLineImplements, Zenon DEF LQ!Next
<1>3. ASSUME NEW k \in Chars, Insert(k) PROVE LQ!Next
  <2>1. LQ!Type(k)
    BY <1>3, InsertImplementsType, Zenon
  <2>. QED BY <2>1, Zenon DEF LQ!Next, Chars
<1>4. ASSUME NEW p \in Reader, ConsoleRead(p) PROVE LQ!Next
  BY <1>4, ReadImplementsTake, Zenon DEF LQ!Next
<1>5. ASSUME NEW p \in Reader, ConsoleWait(p) \/ Sleep(p) \/ Kill(p)
      PROVE  UNCHANGED LQ!lvars
  <2>1. UNCHANGED <<inputVars, got>>
    BY <1>5, Zenon DEF ConsoleWait, Sleep, Kill
  <2>. QED BY <2>1, LineQueueStutters, Zenon
<1>7. ASSUME NEW p \in Reader, Read(p) PROVE LQ!Next
  <2>1. Ready' = Ready /\ Edit' = Edit
    BY <1>7, Zenon DEF Read, inputVars, Ready, Edit, Region, Dist, Slot
  <2>2. LQ!Read(p)
    BY <1>7, <2>1, Zenon DEF Read, LQ!Read, Ready, Edit, Region
  <2>. QED BY <2>2, Zenon DEF LQ!Next
<1>6. CASE UNCHANGED conVars
  <2>1. UNCHANGED <<inputVars, got>>
    BY <1>6, Zenon DEF conVars
  <2>. QED BY <2>1, LineQueueStutters, Zenon
<1>. QED BY <1>1, <1>2, <1>3, <1>4, <1>5, <1>6, <1>7, Zenon DEF ConNext, Keyboard, Step

\* A ring of any size with indices of any width, shared by any number of
\* readers, is a line-edited queue: nothing handed over is erased, and every
\* key handed over is read once and in order.
THEOREM ConsoleImplementsLineQueue == ConSpec => LineEdited
<1>1. ConInit => LQ!Init
  <2>. SUFFICES ASSUME ConInit PROVE LQ!Init
    BY Zenon
  <2>1. ConsoleInv
    BY InitConsoleInv, Zenon
  <2>2. Dist(r, w) = 0 /\ Dist(w, e) = 0
    <3>1. r \in Index /\ w = r /\ e = r
      BY Sizes DEF ConInit, Index
    <3>. QED BY <3>1, DistType, Zenon
  <2>3. Ready = <<>> /\ Edit = <<>>
    BY <2>1, <2>2, ReadyType, EditType
  <2>. QED BY <2>3, LineQueueIs, Zenon DEF ConInit
<1>2. ConsoleInv /\ ConsoleInv' /\ [ConNext]_conVars => [LQ!Next]_LQ!lvars
  BY StepImplementsLineQueue, Zenon
<1>. QED BY <1>1, <1>2, ConsoleInvariance, PTL DEF ConSpec, LineEdited, LQ!Spec

-----------------------------------------------------------------------------
(***************************************************************************)
(* The display.                                                            *)
(***************************************************************************)
\* The cells in use, and those of the paper that can be written.
Window == ROWS * COLS
Lines == MaxLines * COLS

LEMMA Measures ==
  /\ COLS \in Nat /\ COLS > 0 /\ Window \in Nat /\ Lines \in Nat /\ ROWS \in Nat
  /\ 2 * COLS <= Window /\ Window <= Lines + COLS
  /\ (ROWS - 1) * COLS = Window - COLS /\ (ROWS + 1) * COLS = Window + COLS
  /\ (MaxLines + 1) * COLS = Lines + COLS
  /\ Cell = 0 .. Window + COLS /\ Sheet = 0 .. Lines + COLS
<1>1. COLS \in Nat /\ COLS > 0 /\ ROWS \in Nat /\ ROWS >= 2 /\ MaxLines \in Nat /\ ROWS <= MaxLines + 1
  BY ScreenAssumption
<1>2. \A a, b, c \in Nat : a <= b => a * c <= b * c
  OBVIOUS
<1>3. /\ (ROWS - 1) * COLS = ROWS * COLS - COLS /\ (ROWS + 1) * COLS = ROWS * COLS + COLS
      /\ (MaxLines + 1) * COLS = MaxLines * COLS + COLS /\ ROWS * COLS \in Nat /\ MaxLines * COLS \in Nat
  BY <1>1
<1>4. 2 * COLS <= ROWS * COLS /\ ROWS * COLS <= (MaxLines + 1) * COLS
  BY <1>1, <1>2, SMTT(30)
<1>. QED BY <1>1, <1>3, <1>4, Zenon DEF Window, Lines, Cell, Sheet

\* The next row begins at a multiple of COLS, and never behind the window.
LEMMA NextRow ==
  ASSUME NEW x \in Nat
  PROVE  /\ x % COLS \in 0 .. COLS - 1
         /\ x < Window => x + COLS - (x % COLS) <= Window
         /\ Scrolls(x) <=> x >= Window
<1>0. COLS \in Nat /\ COLS > 0 /\ ROWS \in Nat
  BY Measures, Zenon
<1>. DEFINE d == x \div COLS  c == x % COLS
<1>1. d \in Int /\ c \in 0 .. COLS - 1 /\ x = COLS * d + c
  BY <1>0, ModDiv, ModRange
<1>. HIDE DEF d, c
<1>2. \A a, b \in Int : a <= b => COLS * a <= COLS * b
  BY <1>0
<1>3. COLS * (d + 1) = COLS * d + COLS /\ ROWS * COLS = COLS * ROWS /\ d + 1 \in Int
  BY <1>0, <1>1
<1>a. PICK t \in Int : t = COLS * d
  BY <1>0, <1>1
<1>4. d >= ROWS => t >= Window
  BY <1>0, <1>1, <1>2, <1>3, <1>a, SMTT(30) DEF Window
<1>5. d < ROWS => t + COLS <= Window
  BY <1>0, <1>1, <1>2, <1>3, <1>a, SMTT(30) DEF Window
<1>6. Window \in Nat
  BY Measures, Zenon
<1>7. Scrolls(x) <=> d >= ROWS
  BY Zenon DEF Scrolls, d
<1>8. x + COLS - c = t + COLS /\ x >= t /\ x < t + COLS
  BY <1>0, <1>1, <1>a
<1>. QED BY <1>0, <1>1, <1>4, <1>5, <1>6, <1>7, <1>8, <1>a, SMTT(30) DEF c

\* The window begins at a row of the paper, and the paper is blank from the
\* cursor on.
ScreenInv ==
  /\ crt \in [Cell -> Glyph \cup {Blank}] /\ paper \in [Sheet -> Glyph \cup {Blank}]
  /\ pos \in 0 .. Window - 1 /\ cgaPanic = FALSE
  /\ cursor \in Nat /\ pos <= cursor /\ cursor <= Lines + COLS
  /\ \E q \in Nat : cursor - pos = COLS * q
  /\ cursor - pos + Window <= Lines + COLS
  /\ \A i \in 0 .. Window - 1 : crt[i] = paper[i + (cursor - pos)]
  /\ \A j \in Sheet : j >= cursor => paper[j] = Blank

LEMMA AdvanceIs ==
  ASSUME NEW x \in Nat, NEW c
  PROVE  /\ c = "nl" => Advance(x, c) = x + COLS - (x % COLS)
         /\ c = "bs" => Advance(x, c) = IF x > 0 THEN x - 1 ELSE x
         /\ c \notin {"nl", "bs"} => Advance(x, c) = x + 1
<1>1. "nl" # "bs"
  BY Zenon
<1>. QED BY <1>1, Zenon DEF Advance

\* The cursors of the screen and of the paper move alike.
LEMMA CursorsMove ==
  ASSUME NEW x \in 0 .. Window - 1, NEW y \in Nat, NEW q \in Nat, y - x = COLS * q,
         NEW c \in Glyph \cup {"nl", "bs"}
  PROVE  LET p == Advance(x, c)
             z == IF c = "bs" /\ x = 0 THEN y ELSE Advance(y, c)
         IN  /\ p \in 0 .. Window /\ z \in Nat /\ z - p = y - x
             /\ c # "bs" => z > y /\ z = Advance(y, c)
             /\ c = "bs" => p < Window /\ z >= y - 1 /\ z <= y
<1>0. COLS \in Nat /\ COLS > 0 /\ Window \in Nat /\ x \in Nat
  BY Measures
<1>a. PICK o \in Nat : o = COLS * q
  BY <1>0
<1>b. y = x + o
  BY <1>0, <1>a, SMTT(30)
<1>1. CASE c = "nl"
  <2>1. x % COLS \in 0 .. COLS - 1 /\ x + COLS - (x % COLS) <= Window
    BY <1>0, NextRow
  <2>2. (x + COLS * q) % COLS = x % COLS
    <3>1. x \in Int /\ q \in Int
      BY <1>0
    <3>. QED BY <1>0, <3>1, ModTurns, Zenon
  <2>3. y % COLS = x % COLS
    BY <1>a, <1>b, <2>2, Zenon
  <2>4. Advance(x, c) = x + COLS - (x % COLS) /\ Advance(y, c) = y + COLS - (x % COLS)
    BY <1>0, <1>1, <2>3, AdvanceIs, SMTT(30)
  <2>. QED BY <1>0, <1>1, <1>b, <2>1, <2>4, SMTT(30)
<1>2. CASE c = "bs"
  BY <1>0, <1>2, <1>b, AdvanceIs, SMTT(30)
<1>3. CASE c \notin {"nl", "bs"}
  BY <1>0, <1>3, <1>b, AdvanceIs, SMTT(30)
<1>. QED BY <1>1, <1>2, <1>3, Zenon

LEMMA CgaputcKeeps ==
  ASSUME ScreenInv, NEW c \in Glyph \cup {"nl", "bs"}, Advance(cursor, c) < Lines, Cgaputc(c)
  PROVE  ScreenInv'
<1>m. /\ COLS \in Nat /\ COLS > 0 /\ Window \in Nat /\ Lines \in Nat
      /\ 2 * COLS <= Window
      /\ (ROWS - 1) * COLS = Window - COLS /\ (ROWS + 1) * COLS = Window + COLS
      /\ Cell = 0 .. Window + COLS /\ Sheet = 0 .. Lines + COLS
  BY Measures, Zenon
<1>i. /\ crt \in [Cell -> Glyph \cup {Blank}] /\ paper \in [Sheet -> Glyph \cup {Blank}]
      /\ pos \in 0 .. Window - 1 /\ cgaPanic = FALSE
      /\ cursor \in Nat /\ pos <= cursor /\ cursor <= Lines + COLS
      /\ cursor - pos + Window <= Lines + COLS
      /\ \A i \in 0 .. Window - 1 : crt[i] = paper[i + (cursor - pos)]
      /\ \A j \in Sheet : j >= cursor => paper[j] = Blank
  BY Zenon DEF ScreenInv
<1>q. PICK q \in Nat : cursor - pos = COLS * q
  BY Zenon DEF ScreenInv
<1>o. PICK o \in Nat : o = cursor - pos
  BY <1>i
<1>p. PICK p : p = Advance(pos, c)
  BY Zenon
<1>z. PICK z : z = IF c = "bs" /\ pos = 0 THEN cursor ELSE Advance(cursor, c)
  BY Zenon
<1>1. /\ p \in 0 .. Window /\ z \in Nat /\ z - p = o
      /\ c # "bs" => z > cursor /\ z = Advance(cursor, c)
      /\ c = "bs" => p < Window /\ z >= cursor - 1 /\ z <= cursor
  BY <1>i, <1>q, <1>o, <1>p, <1>z, CursorsMove, Zenon
<1>s. Scrolls(p) <=> p >= Window
  BY <1>1, <1>m, NextRow
<1>x. PICK x : x = IF p >= Window THEN p - COLS ELSE p
  BY Zenon
<1>y. PICK mem : mem = Put(crt, pos, c)
  BY Zenon
<1>w. PICK sheet : sheet = Put(paper, cursor, c)
  BY Zenon
<1>2. /\ pos' = x /\ cursor' = z /\ paper' = [sheet EXCEPT ![z] = Blank] /\ cgaPanic' = FALSE
      /\ crt' = [(IF p >= Window THEN Scroll(mem, x) ELSE mem) EXCEPT ![x] = Blank]
  <2>1. ~(p > (ROWS + 1) * COLS)
    BY <1>m, <1>1
  <2>2. (IF Scrolls(p) THEN p - COLS ELSE p) = x
    BY <1>s, <1>x, Zenon
  <2>. QED BY <1>i, <1>p, <1>z, <1>s, <1>y, <1>w, <2>1, <2>2, Zenon DEF Cgaputc
<1>3. pos \in Cell /\ cursor \in Sheet /\ z \in Sheet /\ x \in Cell /\ x \in 0 .. Window - 1
  <2>1. c = "bs" => z <= Lines + COLS
    BY <1>i, <1>1, <1>m, SMTT(30)
  <2>2. c # "bs" => z <= Lines + COLS
    BY <1>1, <1>m
  <2>. QED BY <1>i, <1>m, <1>1, <1>x, <2>1, <2>2, SMTT(30)
<1>4. /\ mem \in [Cell -> Glyph \cup {Blank}] /\ sheet \in [Sheet -> Glyph \cup {Blank}]
      /\ c \in Glyph => mem[pos] = c /\ sheet[cursor] = c
      /\ c \notin Glyph => mem = crt /\ sheet = paper
      /\ \A i \in Cell \ {pos} : mem[i] = crt[i]
      /\ \A j \in Sheet \ {cursor} : sheet[j] = paper[j]
  <2>1. /\ mem \in [Cell -> Glyph \cup {Blank}] /\ (c \in Glyph => mem[pos] = c)
        /\ (c \notin Glyph => mem = crt) /\ \A i \in Cell \ {pos} : mem[i] = crt[i]
    <3>1. crt \in [Cell -> Glyph \cup {Blank}] /\ pos \in Cell
      BY <1>i, <1>3, Zenon
    <3>. QED BY <3>1, <1>y, Zenon DEF Put
  <2>2. /\ sheet \in [Sheet -> Glyph \cup {Blank}] /\ (c \in Glyph => sheet[cursor] = c)
        /\ (c \notin Glyph => sheet = paper) /\ \A j \in Sheet \ {cursor} : sheet[j] = paper[j]
    <3>1. paper \in [Sheet -> Glyph \cup {Blank}] /\ cursor \in Sheet
      BY <1>i, <1>3, Zenon
    <3>. QED BY <3>1, <1>w, Zenon DEF Put
  <2>. QED BY <2>1, <2>2, Zenon
<1>5. \A i \in 0 .. Window - 1 : i \in Cell /\ i + o \in Sheet /\ mem[i] = sheet[i + o]
  <2>. SUFFICES ASSUME NEW i \in 0 .. Window - 1
                PROVE  i \in Cell /\ i + o \in Sheet /\ mem[i] = sheet[i + o]
    BY Zenon
  <2>1. i \in Cell /\ i + o \in Sheet
    BY <1>i, <1>m, <1>o, SMTT(30)
  <2>2. crt[i] = paper[i + o]
    BY <1>i, <1>o, Zenon
  <2>3. CASE i = pos
    <3>1. i + o = cursor
      BY <1>i, <1>o, <2>3, SMTT(30)
    <3>. QED BY <1>4, <2>1, <2>2, <2>3, <3>1, Zenon
  <2>4. CASE i # pos
    <3>1. i + o # cursor
      BY <1>i, <1>o, <2>4, SMTT(30)
    <3>. QED BY <1>4, <2>1, <2>2, <2>4, <3>1, Zenon
  <2>. QED BY <2>3, <2>4, Zenon
<1>6. /\ paper' \in [Sheet -> Glyph \cup {Blank}] /\ paper'[z] = Blank
      /\ \A j \in Sheet \ {z} : paper'[j] = sheet[j]
  BY <1>2, <1>3, <1>4, Zenon
<1>7. \A j \in Sheet : j >= z => paper'[j] = Blank
  <2>. SUFFICES ASSUME NEW j \in Sheet, j >= z, j # z
                PROVE  sheet[j] = Blank
    BY <1>6, Zenon
  <2>0. j \in Nat /\ j > z
    BY <1>m, <1>1
  <2>1. CASE c = "bs"
    <3>1. c \notin Glyph
      BY <2>1, ScreenAssumption, Zenon
    <3>2. j >= cursor
      BY <1>i, <1>1, <2>0, <2>1, SMTT(30)
    <3>. QED BY <1>4, <1>i, <3>1, <3>2, Zenon
  <2>2. CASE c # "bs"
    <3>1. j >= cursor /\ j # cursor
      BY <1>i, <1>1, <2>0, <2>2, SMTT(30)
    <3>. QED BY <1>4, <1>i, <3>1, Zenon
  <2>. QED BY <2>1, <2>2, Zenon
<1>8. CASE p < Window
  <2>1. x = p /\ crt' = [mem EXCEPT ![p] = Blank] /\ z - x = o
    BY <1>2, <1>8, <1>x, <1>1, <1>m, SMTT(30)
  <2>2. crt' \in [Cell -> Glyph \cup {Blank}]
    BY <1>4, <2>1, Zenon
  <2>3. ASSUME NEW i \in 0 .. Window - 1
        PROVE  crt'[i] = paper'[i + o]
    <3>0. i \in Cell /\ i + o \in Sheet /\ mem[i] = sheet[i + o]
      BY <1>5, Zenon
    <3>1. CASE i = p
      <4>1. i + o = z
        BY <3>1, <2>1, <1>1, <1>m, SMTT(30)
      <4>. QED BY <3>0, <3>1, <4>1, <1>4, <1>6, <2>1, Zenon
    <3>2. CASE i # p
      <4>1. i + o # z
        BY <3>2, <2>1, <1>1, <1>m, SMTT(30)
      <4>. QED BY <3>0, <3>2, <4>1, <1>4, <1>6, <2>1, Zenon
    <3>. QED BY <3>1, <3>2, Zenon
  <2>4. z - x = cursor - pos /\ x <= z /\ z <= Lines + COLS
    BY <1>1, <1>3, <1>o, <1>m, <2>1, SMTT(30)
  <2>. QED BY <1>2, <1>3, <1>1, <1>6, <1>7, <1>i, <1>q, <1>o, <2>1, <2>2, <2>3, <2>4, ZenonT(30) DEF ScreenInv
<1>9. CASE p = Window
  <2>1. /\ x = Window - COLS /\ crt' = [Scroll(mem, x) EXCEPT ![x] = Blank] /\ z = Window + o
        /\ c # "bs" /\ z < Lines
    BY <1>2, <1>9, <1>x, <1>1, <1>m, SMTT(30)
  <2>2. Scroll(mem, x) \in [Cell -> Glyph \cup {Blank}]
    <3>1. \A i \in Cell : i < Window - COLS => i + COLS \in Cell
      BY <1>m
    <3>. QED BY <1>4, <1>m, <3>1, SMTT(30) DEF Scroll
  <2>3. crt' \in [Cell -> Glyph \cup {Blank}]
    BY <2>1, <2>2, Zenon
  <2>4. \A i \in Cell : /\ i \in x .. Window - 1 => Scroll(mem, x)[i] = Blank
                        /\ i < x => Scroll(mem, x)[i] = mem[i + COLS]
    BY <1>m, <2>1, SMTT(30) DEF Scroll, Window
  <2>5. ASSUME NEW i \in 0 .. Window - 1
        PROVE  crt'[i] = paper'[i + (z - x)]
    <3>0. i \in Cell /\ z - x = o + COLS /\ i + (o + COLS) \in Sheet
      BY <1>m, <1>3, <2>1
    <3>1. CASE i >= x
      <4>1. crt'[i] = Blank
        BY <2>1, <2>2, <2>4, <3>0, <3>1, <1>m, SMTT(30)
      <4>2. i + (o + COLS) >= z
        BY <1>m, <2>1, <3>1, SMTT(30)
      <4>. QED BY <4>1, <4>2, <3>0, <1>7, Zenon
    <3>2. CASE i < x
      <4>1. crt'[i] = mem[i + COLS]
        BY <2>1, <2>2, <2>4, <3>0, <3>2, <1>m, SMTT(30)
      <4>2. i + COLS \in 0 .. Window - 1 /\ (i + COLS) + o = i + (o + COLS) /\ i + (o + COLS) # z
        BY <1>m, <2>1, <3>2
      <4>3. mem[i + COLS] = sheet[i + (o + COLS)]
        BY <4>2, <1>5, Zenon
      <4>. QED BY <4>1, <4>2, <4>3, <3>0, <1>6, Zenon
    <3>. QED BY <3>1, <3>2, <1>m, <2>1
  <2>6. \E t \in Nat : z - x = COLS * t
    <3>1. z - x = o + COLS /\ o = COLS * q
      BY <1>m, <1>o, <1>q, <2>1, SMTT(30)
    <3>2. COLS * (q + 1) = COLS * q + COLS /\ q + 1 \in Nat
      BY <1>m
    <3>. QED BY <3>1, <3>2, Zenon
  <2>7. z - x + Window <= Lines + COLS /\ x <= z /\ z <= Lines + COLS
    BY <1>m, <2>1
  <2>. QED BY <1>2, <1>3, <1>1, <1>6, <1>7, <2>3, <2>5, <2>6, <2>7, ZenonT(30) DEF ScreenInv
<1>. QED BY <1>1, <1>m, <1>8, <1>9, SMTT(30)

\* cgaputc shows what was written: the screen is a window of an unbounded paper
\* that begins at a row of it, and the cursor never leaves the rows in use.
THEOREM ScreenShowsPaper == ScreenSpec => []ScreenExact
<1>1. ScreenInit => ScreenInv
  <2>. SUFFICES ASSUME ScreenInit
                PROVE  ScreenInv
    BY Zenon
  <2>1. COLS * 0 = 0 /\ cursor - pos = 0
    BY Measures DEF ScreenInit
  <2>2. \A i \in 0 .. Window - 1 : i \in Cell /\ i \in Sheet /\ i + 0 = i
    BY Measures
  <2>. QED BY <2>1, <2>2, Measures, SMTT(30) DEF ScreenInit, ScreenInv
<1>2. ScreenInv /\ [ScreenNext]_screenVars => ScreenInv'
  <2>. SUFFICES ASSUME ScreenInv, [ScreenNext]_screenVars
                PROVE  ScreenInv'
    BY Zenon
  <2>1. CASE ScreenNext
    BY <2>1, CgaputcKeeps, Zenon DEF ScreenNext, Lines
  <2>2. CASE UNCHANGED screenVars
    BY <2>2, Zenon DEF screenVars, ScreenInv
  <2>. QED BY <2>1, <2>2, Zenon
<1>3. ScreenInv => ScreenExact
  <2>. SUFFICES ASSUME ScreenInv
                PROVE  ScreenExact
    BY Zenon
  <2>1. PICK q \in Nat : cursor - pos = COLS * q
    BY Zenon DEF ScreenInv
  <2>2. (0 + COLS * q) % COLS = 0 % COLS
    BY Measures, ModTurns
  <2>3. (cursor - pos) % COLS = 0
    BY <2>1, <2>2, Measures, ModSmall
  <2>4. \A i \in 0 .. Window - 1 : i + (cursor - pos) = i + cursor - pos
    BY Zenon DEF ScreenInv
  <2>. QED BY <2>3, <2>4, Zenon DEF ScreenInv, ScreenExact, CursorInside, ShowsPaper, Window
<1>. QED BY <1>1, <1>2, <1>3, PTL DEF ScreenSpec

-----------------------------------------------------------------------------
(***************************************************************************)
(* The keyboard.                                                           *)
(***************************************************************************)
Mods == {"SHIFT", "CTL"}
Flag == Mods \cup {"CAPSLOCK"}
Byte == [code : KbdKey \cup {"E0"}, up : BOOLEAN, held : SUBSET Mods, caps : BOOLEAN,
         double : SUBSET Mods]

\* The flags at the time a byte was sent, and now.
FlagsAt(b) == b.held \cup (IF b.caps THEN {"CAPSLOCK"} ELSE {})
FlagsNow == FlagsOf(down) \cup (IF locked THEN {"CAPSLOCK"} ELSE {})

\* What pressing or releasing key k does to the flags F and to the modifiers d
\* for which two keys were pressed.
Moved(k, up, F, d, F2, d2) ==
  IF up
  THEN F \ shiftcode(k) \subseteq F2 /\ F2 \subseteq F /\ d2 = d \cap F2 /\ shiftcode(k) \cap F2 \subseteq d2
  ELSE F2 = Toggle(F \cup shiftcode(k), togglecode(k)) /\ d2 = d \cup (shiftcode(k) \cap F)

\* The driver has the flags F, but for modifiers with two keys.
Agree(sh, F, d) == sh \ {"E0ESC"} \subseteq F /\ F \ d \subseteq sh

\* A byte moves the flags to those it was sent with; an escape does not.
Link(b, F, d, F2, d2) ==
  IF b.code = "E0" THEN F2 = F /\ d2 = d
  ELSE Moved(b.code, b.up, F, d, F2, d2) /\ F2 = FlagsAt(b) /\ d2 = b.double

\* The flags before each byte of s and after the last.
Chain(f, g, s) ==
  /\ f \in [0 .. Len(s) -> SUBSET Flag] /\ g \in [0 .. Len(s) -> SUBSET Mods]
  /\ \A i \in 1 .. Len(s) : Link(s[i], f[i - 1], g[i - 1], f[i], g[i])

\* The bytes of s lead from the flags F0 and d0 to F and d.
Leads(s, F0, d0, F, d) ==
  \E f, g : Chain(f, g, s) /\ f[0] = F0 /\ g[0] = d0 /\ f[Len(s)] = F /\ g[Len(s)] = d

\* An escape is followed by a code.
Escapes(s) == \A i \in 1 .. Len(s) : s[i].code = "E0" => i + 1 \in 1 .. Len(s) /\ s[i + 1].code # "E0"

\* t is s with b behind it.
Longer(t, s, b) ==
  /\ t \in Seq(Byte) /\ Len(t) = Len(s) + 1 /\ Len(s) \in Nat
  /\ \A i \in 1 .. Len(s) : t[i] = s[i]
  /\ t[Len(s) + 1] = b

Pending(s, F0, d0, F, d) == s \in Seq(Byte) /\ Escapes(s) /\ Leads(s, F0, d0, F, d)

\* s and then the byte b, after the escape esc or not.
Follows(t, s, b, esc) ==
  /\ b \in Byte /\ b.code \in KbdKey /\ esc \in Byte /\ esc.code = "E0"
  /\ t = Append(s, b) \/ t = Append(Append(s, esc), b)

KeyInv ==
  /\ down \subseteq KbdKey /\ locked \in BOOLEAN /\ double \subseteq FlagsOf(down)
  /\ {"lshift", "rshift"} \subseteq down => "SHIFT" \in double
  /\ {"lctl", "rctl"} \subseteq down => "CTL" \in double

KbdInv ==
  /\ KeyInv
  /\ shift \subseteq Flag \cup {"E0ESC"}
  /\ "E0ESC" \in shift => bytes # <<>> /\ bytes[1].code # "E0"
  /\ \E F, d : Agree(shift, F, d) /\ Pending(bytes, F, d, FlagsNow, double)
  /\ TypedAsHeld

LEMMA Codes ==
  /\ shiftcode("lshift") = {"SHIFT"} /\ shiftcode("rshift") = {"SHIFT"}
  /\ shiftcode("lctl") = {"CTL"} /\ shiftcode("rctl") = {"CTL"}
  /\ shiftcode("caps") = {} /\ shiftcode("a") = {}
  /\ togglecode("caps") = {"CAPSLOCK"} /\ \A k \in KbdKey \ {"caps"} : togglecode(k) = {}
  /\ \A k \in KbdKey : shiftcode(k) \subseteq Mods
<1>1. shiftcode("lshift") = {"SHIFT"} /\ shiftcode("rshift") = {"SHIFT"}
  BY Zenon DEF shiftcode
<1>2. shiftcode("lctl") = {"CTL"} /\ shiftcode("rctl") = {"CTL"}
  BY Zenon DEF shiftcode
<1>3. shiftcode("caps") = {} /\ shiftcode("a") = {}
  BY Zenon DEF shiftcode
<1>4. togglecode("caps") = {"CAPSLOCK"} /\ \A k \in KbdKey \ {"caps"} : togglecode(k) = {}
  BY Zenon DEF togglecode
<1>. QED BY <1>1, <1>2, <1>3, <1>4, Zenon DEF KbdKey, Mods

LEMMA FlagsOfIs ==
  ASSUME NEW S \in SUBSET KbdKey
  PROVE  /\ FlagsOf(S) \subseteq Mods
         /\ "SHIFT" \in FlagsOf(S) <=> "lshift" \in S \/ "rshift" \in S
         /\ "CTL" \in FlagsOf(S) <=> "lctl" \in S \/ "rctl" \in S
<1>1. FlagsOf(S) \subseteq Mods
  BY Codes, Zenon DEF FlagsOf
<1>2. \A k \in S : k \in {"lshift", "rshift"} => "SHIFT" \in FlagsOf(S)
  BY Codes, Zenon DEF FlagsOf
<1>3. \A k \in S : k \in {"lctl", "rctl"} => "CTL" \in FlagsOf(S)
  BY Codes, Zenon DEF FlagsOf
<1>4. ASSUME NEW x \in FlagsOf(S)
      PROVE  \E k \in S : x \in shiftcode(k)
  BY <1>4, Zenon DEF FlagsOf
<1>5. "SHIFT" \in FlagsOf(S) => "lshift" \in S \/ "rshift" \in S
  BY <1>4, Codes DEF KbdKey
<1>6. "CTL" \in FlagsOf(S) => "lctl" \in S \/ "rctl" \in S
  BY <1>4, Codes DEF KbdKey
<1>. QED BY <1>1, <1>2, <1>3, <1>5, <1>6, Zenon

\* kbdgetc moves its flags as the key did.
LEMMA DriverFollows ==
  ASSUME NEW k \in KbdKey, NEW up \in BOOLEAN, NEW sh \in SUBSET (Flag \cup {"E0ESC"}),
         NEW F \in SUBSET Flag, NEW d \in SUBSET Mods, NEW F2 \in SUBSET Flag, NEW d2 \in SUBSET Mods,
         Agree(sh, F, d), Moved(k, up, F, d, F2, d2)
  PROVE  LET new == IF up THEN Released(k, sh) ELSE Pressed(k, sh)
         IN  new \in SUBSET Flag /\ Agree(new, F2, d2)
<1>0. shiftcode(Seen(k, sh)) = shiftcode(k) /\ shiftcode(k) \subseteq Mods
  BY Codes, Zenon DEF Seen
<1>1. CASE up
  <2>1. Released(k, sh) = sh \ (shiftcode(k) \cup {"E0ESC"})
    BY <1>0, Zenon DEF Released
  <2>2. /\ F \ shiftcode(k) \subseteq F2 /\ F2 \subseteq F /\ d2 = d \cap F2
        /\ shiftcode(k) \cap F2 \subseteq d2
    BY <1>1, Zenon DEF Moved
  <2>3. "E0ESC" \notin Flag
    BY Zenon DEF Flag, Mods
  <2>. QED BY <1>0, <1>1, <2>1, <2>2, <2>3, Zenon DEF Agree
<1>2. CASE ~up /\ k = "caps"
  <2>1. Pressed(k, sh) = Toggle(sh \ {"E0ESC"}, {"CAPSLOCK"})
    BY <1>0, <1>2, Codes, Zenon DEF Pressed
  <2>2. F2 = Toggle(F, {"CAPSLOCK"}) /\ d2 = d
    BY <1>2, Codes, Zenon DEF Moved
  <2>3. "CAPSLOCK" \notin Mods /\ "E0ESC" \notin Flag /\ "CAPSLOCK" \in Flag
    BY Zenon DEF Flag, Mods
  <2>. QED BY <1>2, <2>1, <2>2, <2>3, Zenon DEF Agree, Toggle
<1>3. CASE ~up /\ k # "caps"
  <2>1. Pressed(k, sh) = (sh \ {"E0ESC"}) \cup shiftcode(k)
    BY <1>0, <1>3, Codes, Zenon DEF Pressed, Toggle
  <2>2. F2 = F \cup shiftcode(k) /\ d2 = d \cup (shiftcode(k) \cap F)
    BY <1>3, Codes, Zenon DEF Moved, Toggle
  <2>3. "E0ESC" \notin Flag /\ Mods \subseteq Flag
    BY Zenon DEF Flag, Mods
  <2>. QED BY <1>0, <1>3, <2>1, <2>2, <2>3, Zenon DEF Agree
<1>. QED BY <1>1, <1>2, <1>3, Zenon

\* Without a modifier that has two keys, the letter is that of the flags.
LEMMA LetterAgrees ==
  ASSUME NEW sh \in SUBSET Flag, NEW F \in SUBSET Flag, Agree(sh, F, {})
  PROVE  Letter(sh) = Letter(F)
<1>1. "E0ESC" \notin Flag
  BY Zenon DEF Flag, Mods
<1>2. sh = F
  BY <1>1, Zenon DEF Agree
<1>. QED BY <1>2, Zenon

LEMMA LeadsTyped ==
  ASSUME NEW s \in Seq(Byte), NEW F0, NEW d0, NEW F, NEW d, Leads(s, F0, d0, F, d)
  PROVE  F0 \in SUBSET Flag /\ d0 \in SUBSET Mods /\ F \in SUBSET Flag /\ d \in SUBSET Mods
<1>1. PICK f, g : Chain(f, g, s) /\ f[0] = F0 /\ g[0] = d0 /\ f[Len(s)] = F /\ g[Len(s)] = d
  BY Zenon DEF Leads
<1>2. 0 \in 0 .. Len(s) /\ Len(s) \in 0 .. Len(s)
  OBVIOUS
<1>3. f \in [0 .. Len(s) -> SUBSET Flag] /\ g \in [0 .. Len(s) -> SUBSET Mods]
  BY <1>1, Zenon DEF Chain
<1>. QED BY <1>1, <1>2, <1>3, Zenon

LEMMA LeadsAppends ==
  ASSUME NEW s \in Seq(Byte), NEW b \in Byte, NEW F0, NEW d0, NEW F, NEW d,
         Leads(s, F0, d0, F, d), NEW F2 \in SUBSET Flag, NEW d2 \in SUBSET Mods, Link(b, F, d, F2, d2)
  PROVE  Leads(Append(s, b), F0, d0, F2, d2)
<1>0. PICK f, g : Chain(f, g, s) /\ f[0] = F0 /\ g[0] = d0 /\ f[Len(s)] = F /\ g[Len(s)] = d
  BY Zenon DEF Leads
<1>a. PICK l \in Nat : l = Len(s)
  OBVIOUS
<1>t. PICK t : t = Append(s, b)
  BY Zenon
<1>1. /\ t \in Seq(Byte) /\ Len(t) = l + 1
      /\ \A i \in 1 .. l : t[i] = s[i]
      /\ t[l + 1] = b
  BY <1>a, <1>t
<1>b. PICK f2 : f2 = [i \in 0 .. l + 1 |-> IF i = l + 1 THEN F2 ELSE f[i]]
  BY Zenon
<1>c. PICK g2 : g2 = [i \in 0 .. l + 1 |-> IF i = l + 1 THEN d2 ELSE g[i]]
  BY Zenon
<1>2. /\ f2 \in [0 .. l + 1 -> SUBSET Flag] /\ g2 \in [0 .. l + 1 -> SUBSET Mods]
      /\ f2[l + 1] = F2 /\ g2[l + 1] = d2
      /\ \A i \in 0 .. l : f2[i] = f[i] /\ g2[i] = g[i]
  BY <1>0, <1>a, <1>b, <1>c, SMTT(30) DEF Chain
<1>3. ASSUME NEW i \in 1 .. l + 1
      PROVE  Link(t[i], f2[i - 1], g2[i - 1], f2[i], g2[i])
  <2>1. CASE i = l + 1
    <3>0. i - 1 = l /\ l \in 0 .. l
      BY <2>1
    <3>1. f2[l] = F /\ g2[l] = d
      BY <1>0, <1>a, <1>2, <3>0, Zenon
    <3>. QED BY <1>1, <1>2, <2>1, <3>0, <3>1, Zenon
  <2>2. CASE i \in 1 .. l
    <3>0. i \in 0 .. l /\ i - 1 \in 0 .. l
      BY <2>2
    <3>1. f2[i] = f[i] /\ g2[i] = g[i] /\ f2[i - 1] = f[i - 1] /\ g2[i - 1] = g[i - 1]
      BY <1>2, <3>0, Zenon
    <3>2. Link(s[i], f[i - 1], g[i - 1], f[i], g[i])
      BY <1>0, <1>a, <2>2, Zenon DEF Chain
    <3>3. t[i] = s[i]
      BY <1>1, <2>2, Zenon
    <3>. QED BY <3>1, <3>2, <3>3, Zenon
  <2>. QED BY <2>1, <2>2
<1>4. Chain(f2, g2, t)
  BY <1>1, <1>2, <1>3, ZenonT(30) DEF Chain
<1>5. f2[0] = F0 /\ g2[0] = d0
  BY <1>0, <1>2
<1>. QED BY <1>t, <1>1, <1>2, <1>4, <1>5, Zenon DEF Leads

LEMMA LeadsTail ==
  ASSUME NEW s \in Seq(Byte), s # <<>>, NEW F0, NEW d0, NEW F, NEW d, Leads(s, F0, d0, F, d)
  PROVE  \E F1, d1 : Link(s[1], F0, d0, F1, d1) /\ Leads(Tail(s), F1, d1, F, d)
<1>f. PICK f, g : Chain(f, g, s) /\ f[0] = F0 /\ g[0] = d0 /\ f[Len(s)] = F /\ g[Len(s)] = d
  BY Zenon DEF Leads
<1>1. /\ Len(s) \in Nat /\ Len(s) >= 1 /\ Tail(s) \in Seq(Byte) /\ Len(Tail(s)) = Len(s) - 1
      /\ \A i \in 1 .. Len(s) - 1 : Tail(s)[i] = s[i + 1]
  OBVIOUS
<1>0. Len(s) - 1 \in Nat
  BY <1>1
<1>a. PICK l \in Nat : l = Len(s) - 1
  BY <1>0, Zenon
<1>b. PICK f2 : f2 = [i \in 0 .. l |-> f[i + 1]]
  BY Zenon
<1>c. PICK g2 : g2 = [i \in 0 .. l |-> g[i + 1]]
  BY Zenon
<1>2. f \in [0 .. l + 1 -> SUBSET Flag] /\ g \in [0 .. l + 1 -> SUBSET Mods]
  BY <1>f, <1>1, <1>a, SMTT(30) DEF Chain
<1>3. f2 \in [0 .. l -> SUBSET Flag] /\ g2 \in [0 .. l -> SUBSET Mods]
  BY <1>2, <1>b, <1>c
<1>4. ASSUME NEW i \in 1 .. l
      PROVE  Link(Tail(s)[i], f2[i - 1], g2[i - 1], f2[i], g2[i])
  <2>1. f2[i] = f[i + 1] /\ g2[i] = g[i + 1] /\ f2[i - 1] = f[i] /\ g2[i - 1] = g[i]
    BY <1>b, <1>c
  <2>2. i + 1 \in 1 .. Len(s) /\ (i + 1) - 1 = i /\ Tail(s)[i] = s[i + 1]
    BY <1>1, <1>a
  <2>3. Link(s[i + 1], f[(i + 1) - 1], g[(i + 1) - 1], f[i + 1], g[i + 1])
    BY <1>f, <2>2, Zenon DEF Chain
  <2>. QED BY <2>1, <2>2, <2>3, Zenon
<1>5. Chain(f2, g2, Tail(s))
  BY <1>1, <1>a, <1>3, <1>4, Zenon DEF Chain
<1>6. f2[0] = f[1] /\ g2[0] = g[1] /\ f2[l] = f[l + 1] /\ g2[l] = g[l + 1]
  BY <1>b, <1>c
<1>7. Link(s[1], F0, d0, f[1], g[1])
  <2>1. 1 \in 1 .. Len(s) /\ 1 - 1 = 0
    BY <1>1, SMTT(30)
  <2>. QED BY <1>f, <2>1, Zenon DEF Chain
<1>8. Leads(Tail(s), f[1], g[1], F, d)
  BY <1>f, <1>1, <1>a, <1>5, <1>6, SMTT(30) DEF Leads
<1>. QED BY <1>7, <1>8, Zenon

LEMMA ByteAppended ==
  ASSUME NEW s, s \in Seq(Byte), NEW b, b \in Byte
  PROVE  Longer(Append(s, b), s, b)
<1>t. PICK t : t = Append(s, b)
  BY Zenon
<1>1. /\ t \in Seq(Byte) /\ Len(t) = Len(s) + 1 /\ Len(s) \in Nat
      /\ \A i \in 1 .. Len(s) : t[i] = s[i]
      /\ t[Len(s) + 1] = b
  BY <1>t
<1>. QED BY <1>t, <1>1, Zenon DEF Longer

\* Send appends the byte of a key, after an escape or not.
LEMMA Sent ==
  ASSUME NEW s, NEW F0, NEW d0, NEW F, NEW d, Pending(s, F0, d0, F, d), NEW b, NEW esc, NEW t,
         Follows(t, s, b, esc), NEW F2 \in SUBSET Flag, NEW d2 \in SUBSET Mods, Link(b, F, d, F2, d2)
  PROVE  Pending(t, F0, d0, F2, d2) /\ t # <<>> /\ (s # <<>> => t[1] = s[1])
<1>a. s \in Seq(Byte) /\ Escapes(s) /\ Leads(s, F0, d0, F, d)
  BY Zenon DEF Pending
<1>b. /\ b \in Byte /\ b.code \in KbdKey /\ esc \in Byte /\ esc.code = "E0"
      /\ t = Append(s, b) \/ t = Append(Append(s, esc), b)
  BY Zenon DEF Follows
<1>n. b.code # "E0"
  BY <1>b, Zenon DEF KbdKey
<1>1. CASE t = Append(s, b)
  <2>2. /\ t \in Seq(Byte) /\ Len(t) = Len(s) + 1 /\ Len(s) \in Nat
        /\ \A i \in 1 .. Len(s) : t[i] = s[i]
        /\ t[Len(s) + 1] = b
    <3>1. Longer(Append(s, b), s, b)
      BY <1>a, <1>b, ByteAppended, Zenon
    <3>2. Longer(t, s, b)
      BY <1>1, <3>1, ZenonT(30)
    <3>. QED BY <3>2, Zenon DEF Longer
  <2>3. Escapes(t)
    <3>1. SUFFICES ASSUME NEW i \in 1 .. Len(t), t[i].code = "E0"
                   PROVE  i + 1 \in 1 .. Len(t) /\ t[i + 1].code # "E0"
      BY Zenon DEF Escapes
    <3>2. i \in 1 .. Len(s)
      <4>1. i # Len(s) + 1
        BY <1>n, <2>2, <3>1, Zenon
      <4>. QED BY <2>2, <4>1
    <3>3. s[i].code = "E0"
      BY <2>2, <3>1, <3>2, Zenon
    <3>4. i + 1 \in 1 .. Len(s) /\ s[i + 1].code # "E0"
      BY <1>a, <3>2, <3>3, Zenon DEF Escapes
    <3>5. t[i + 1].code # "E0"
      BY <2>2, <3>4, Zenon
    <3>. QED BY <2>2, <3>4, <3>5
  <2>4. t # <<>> /\ (s # <<>> => t[1] = s[1])
    <3>1. s # <<>> => 1 \in 1 .. Len(s)
      BY <1>a
    <3>. QED BY <2>2, <3>1, SMTT(30)
  <2>5. Leads(t, F0, d0, F2, d2)
    BY <1>a, <1>b, <1>1, LeadsAppends, Zenon
  <2>. QED BY <2>2, <2>3, <2>4, <2>5, Zenon DEF Pending
<1>2. CASE t = Append(Append(s, esc), b)
  <2>u. PICK u : u = Append(s, esc)
    BY Zenon
  <2>0. /\ u \in Seq(Byte) /\ Len(u) = Len(s) + 1 /\ Len(s) \in Nat
        /\ \A i \in 1 .. Len(s) : u[i] = s[i]
        /\ u[Len(s) + 1] = esc
    <3>1. Longer(Append(s, esc), s, esc)
      BY <1>a, <1>b, ByteAppended, Zenon
    <3>2. Longer(u, s, esc)
      BY <2>u, <3>1, Zenon
    <3>. QED BY <3>2, Zenon DEF Longer
  <2>1. t = Append(u, b)
    BY <1>2, <2>u, Zenon
  <2>2. /\ t \in Seq(Byte) /\ Len(t) = Len(s) + 2
        /\ \A i \in 1 .. Len(s) : t[i] = s[i]
        /\ t[Len(s) + 1] = esc /\ t[Len(s) + 2] = b
    <3>0. u \in Seq(Byte) /\ b \in Byte
      BY <1>b, <2>0, Zenon
    <3>1. /\ t \in Seq(Byte) /\ Len(t) = Len(u) + 1 /\ Len(u) \in Nat
          /\ \A i \in 1 .. Len(u) : t[i] = u[i]
          /\ t[Len(u) + 1] = b
      <4>1. Longer(Append(u, b), u, b)
        BY <3>0, ByteAppended, Zenon
      <4>2. Longer(t, u, b)
        BY <2>1, <4>1, ZenonT(30)
      <4>. QED BY <4>2, Zenon DEF Longer
    <3>2. \A i \in 1 .. Len(s) : i \in 1 .. Len(u)
      BY <2>0
    <3>3. \A i \in 1 .. Len(s) : t[i] = s[i]
      BY <2>0, <3>1, <3>2, ZenonT(30)
    <3>4. Len(s) + 1 \in 1 .. Len(u) /\ (Len(s) + 1) + 1 = Len(s) + 2
      BY <2>0
    <3>5. t[Len(s) + 1] = esc
      BY <2>0, <3>1, <3>4, ZenonT(30)
    <3>. QED BY <2>0, <3>1, <3>3, <3>4, <3>5, Zenon
  <2>3. Escapes(t)
    <3>1. SUFFICES ASSUME NEW i \in 1 .. Len(t), t[i].code = "E0"
                   PROVE  i + 1 \in 1 .. Len(t) /\ t[i + 1].code # "E0"
      BY Zenon DEF Escapes
    <3>2. CASE i \in 1 .. Len(s)
      <4>1. s[i].code = "E0"
        BY <2>2, <3>1, <3>2, Zenon
      <4>2. i + 1 \in 1 .. Len(s) /\ s[i + 1].code # "E0"
        BY <1>a, <3>2, <4>1, Zenon DEF Escapes
      <4>3. t[i + 1].code # "E0"
        BY <2>2, <4>2, ZenonT(30)
      <4>. QED BY <2>0, <2>2, <4>2, <4>3, SMTT(30)
    <3>3. CASE i = Len(s) + 1
      BY <1>n, <2>0, <2>2, <3>3, SMTT(30)
    <3>. QED BY <1>n, <2>0, <2>2, <3>1, <3>2, <3>3, SMTT(30)
  <2>4. t # <<>> /\ (s # <<>> => t[1] = s[1])
    <3>1. s # <<>> => 1 \in 1 .. Len(s)
      BY <1>a
    <3>. QED BY <2>0, <2>2, <3>1, SMTT(30)
  <2>5. F \in SUBSET Flag /\ d \in SUBSET Mods
    BY <1>a, LeadsTyped, Zenon
  <2>6. Link(esc, F, d, F, d)
    BY <1>b, Zenon DEF Link
  <2>7. Leads(u, F0, d0, F, d)
    BY <1>a, <1>b, <2>u, <2>5, <2>6, LeadsAppends, Zenon
  <2>8. Leads(t, F0, d0, F2, d2)
    BY <1>b, <2>0, <2>1, <2>7, LeadsAppends, Zenon
  <2>. QED BY <2>2, <2>3, <2>4, <2>8, Zenon DEF Pending
<1>. QED BY <1>b, <1>1, <1>2, Zenon

\* A key event that moves the flags as Moved says is sent and keeps the invariant.
LEMMA EventKeeps ==
  ASSUME KbdInv, KeyInv', NEW k \in KbdKey, NEW up \in BOOLEAN,
         Moved(k, up, FlagsNow, double, FlagsNow', double'),
         bytes' = bytes \o Send(k, up), UNCHANGED <<shift, decoded>>
  PROVE  KbdInv'
<1>1. FlagsOf(down') \subseteq Mods /\ locked' \in BOOLEAN /\ double' \subseteq Mods
  <2>1. down' \in SUBSET KbdKey /\ double' \subseteq FlagsOf(down') /\ locked' \in BOOLEAN
    BY Zenon DEF KeyInv
  <2>. QED BY <2>1, FlagsOfIs, Zenon
<1>2. FlagsNow' \in SUBSET Flag
  BY <1>1, Zenon DEF FlagsNow, Flag
<1>b. PICK b : b = [code |-> k, up |-> up, held |-> FlagsOf(down'), caps |-> locked', double |-> double']
  BY Zenon
<1>3. b \in Byte /\ b.code = k /\ b.up = up /\ b.double = double' /\ b.held = FlagsOf(down')
  BY <1>b, <1>1, Zenon DEF Byte
<1>4. FlagsAt(b) = FlagsNow'
  BY <1>b, Zenon DEF FlagsAt, FlagsNow
<1>5. PICK F, d : Agree(shift, F, d) /\ Pending(bytes, F, d, FlagsNow, double)
  BY Zenon DEF KbdInv
<1>6. Link(b, FlagsNow, double, FlagsNow', double')
  <2>1. b.code # "E0"
    BY <1>3, Zenon DEF KbdKey
  <2>. QED BY <1>3, <1>4, <2>1, Zenon DEF Link
<1>t. PICK t : t = bytes'
  BY Zenon
<1>e. PICK esc : esc = [b EXCEPT !.code = "E0"]
  BY Zenon
<1>f. esc \in Byte /\ esc.code = "E0"
  BY <1>3, <1>e, Zenon DEF Byte
<1>7. Follows(t, bytes, b, esc)
  <2>1. t = bytes \o <<b>> \/ t = bytes \o <<esc, b>>
    BY <1>b, <1>e, <1>t, Zenon DEF Send
  <2>2. bytes \in Seq(Byte)
    BY <1>5, Zenon DEF Pending
  <2>3. bytes \o <<b>> = Append(bytes, b)
    BY <1>3, <2>2, SMTT(30)
  <2>4. bytes \o <<esc, b>> = Append(Append(bytes, esc), b)
    BY <1>3, <1>f, <2>2, SMTT(30)
  <2>. QED BY <1>3, <1>f, <2>1, <2>3, <2>4, Zenon DEF Follows
<1>8. double' \in SUBSET Mods
  BY <1>1, Zenon
<1>9. Pending(t, F, d, FlagsNow', double') /\ t # <<>> /\ (bytes # <<>> => t[1] = bytes[1])
  <2>1. PICK F2 \in SUBSET Flag, d2 \in SUBSET Mods : F2 = FlagsNow' /\ d2 = double'
    BY <1>2, <1>8, Zenon
  <2>2. PICK s, F1, d1 : s = bytes /\ F1 = FlagsNow /\ d1 = double
    BY Zenon
  <2>3. Pending(s, F, d, F1, d1)
    BY <1>5, <2>2, Zenon
  <2>4. Follows(t, s, b, esc)
    BY <1>7, <2>2, Zenon
  <2>5. Link(b, F1, d1, F2, d2)
    BY <1>6, <2>1, <2>2, Zenon
  <2>6. Pending(t, F, d, F2, d2) /\ t # <<>> /\ (s # <<>> => t[1] = s[1])
    BY <2>3, <2>4, <2>5, Sent, SMTT(30)
  <2>. QED BY <2>1, <2>2, <2>6, Zenon
<1>11. \E x, y : Agree(shift', x, y) /\ Pending(bytes', x, y, FlagsNow', double')
  BY <1>t, <1>5, <1>9, Zenon
<1>12. "E0ESC" \in shift' => bytes' # <<>> /\ bytes'[1].code # "E0"
  BY <1>t, <1>9, Zenon DEF KbdInv
<1>13. TypedAsHeld' /\ shift' \subseteq Flag \cup {"E0ESC"}
  BY Zenon DEF KbdInv, TypedAsHeld
<1>. QED BY <1>t, <1>9, <1>11, <1>12, <1>13, Zenon DEF KbdInv

LEMMA KbdStarts == KbdInit => KbdInv
<1>. SUFFICES ASSUME KbdInit PROVE KbdInv
  BY Zenon
<1>1. FlagsOf(down) = {}
  BY Zenon DEF KbdInit, FlagsOf
<1>2. FlagsNow = {}
  BY <1>1, Zenon DEF FlagsNow, KbdInit
<1>3. KeyInv
  BY <1>1, Zenon DEF KbdInit, KeyInv
<1>4. Pending(bytes, {}, {}, FlagsNow, double)
  <2>1. bytes = <<>> /\ bytes \in Seq(Byte) /\ Len(bytes) = 0 /\ double = {}
    BY DEF KbdInit
  <2>2. PICK f : f = [i \in 0 .. 0 |-> {}]
    BY Zenon
  <2>3. Chain(f, f, bytes) /\ f[0] = {}
    BY <2>1, <2>2 DEF Chain
  <2>4. Leads(bytes, {}, {}, {}, {})
    BY <2>1, <2>3, Zenon DEF Leads
  <2>. QED BY <1>2, <2>1, <2>4, SMTT(30) DEF Pending, Escapes
<1>5. Agree(shift, {}, {}) /\ shift \subseteq Flag \cup {"E0ESC"} /\ "E0ESC" \notin shift
  BY Zenon DEF KbdInit, Agree
<1>6. TypedAsHeld
  BY Zenon DEF KbdInit, TypedAsHeld
<1>. QED BY <1>3, <1>4, <1>5, <1>6, Zenon DEF KbdInv

LEMMA PressKeeps ==
  ASSUME KbdInv, NEW k \in KbdKey, Press(k)
  PROVE  KbdInv'
<1>1. /\ down \in SUBSET KbdKey /\ down' = down \cup {k} /\ k \notin down
      /\ locked \in BOOLEAN /\ locked' = (locked # (k = "caps"))
      /\ double' = double \cup (shiftcode(k) \cap FlagsOf(down)) /\ double \subseteq FlagsOf(down)
  BY Zenon DEF KbdInv, KeyInv, Press
<1>2. FlagsOf(down') = FlagsOf(down) \cup shiftcode(k)
  BY <1>1, Zenon DEF FlagsOf
<1>3. FlagsOf(down) \subseteq Mods /\ shiftcode(k) \subseteq Mods /\ "CAPSLOCK" \notin Mods
  BY <1>1, FlagsOfIs, Codes, Zenon DEF Mods
<1>4. locked' \in BOOLEAN /\ (k # "caps" => locked' = locked) /\ (k = "caps" => locked' = ~locked)
  BY <1>1, Zenon
<1>5. KeyInv'
  <2>1. double' \subseteq FlagsOf(down') /\ down' \subseteq KbdKey
    BY <1>1, <1>2, Zenon
  <2>2. {"lshift", "rshift"} \subseteq down' => "SHIFT" \in double'
    <3>1. SUFFICES ASSUME {"lshift", "rshift"} \subseteq down' PROVE "SHIFT" \in double'
      BY Zenon
    <3>2. CASE k \in {"lshift", "rshift"}
      <4>1. "lshift" \in down \/ "rshift" \in down
        BY <1>1, <3>1, <3>2, Zenon
      <4>2. "SHIFT" \in FlagsOf(down) /\ "SHIFT" \in shiftcode(k)
        BY <1>1, <3>2, <4>1, FlagsOfIs, Codes, Zenon
      <4>. QED BY <1>1, <4>2, Zenon
    <3>3. CASE k \notin {"lshift", "rshift"}
      BY <1>1, <3>1, <3>3, Zenon DEF KbdInv, KeyInv
    <3>. QED BY <3>2, <3>3, Zenon
  <2>3. {"lctl", "rctl"} \subseteq down' => "CTL" \in double'
    <3>1. SUFFICES ASSUME {"lctl", "rctl"} \subseteq down' PROVE "CTL" \in double'
      BY Zenon
    <3>2. CASE k \in {"lctl", "rctl"}
      <4>1. "lctl" \in down \/ "rctl" \in down
        BY <1>1, <3>1, <3>2, Zenon
      <4>2. "CTL" \in FlagsOf(down) /\ "CTL" \in shiftcode(k)
        BY <1>1, <3>2, <4>1, FlagsOfIs, Codes, Zenon
      <4>. QED BY <1>1, <4>2, Zenon
    <3>3. CASE k \notin {"lctl", "rctl"}
      BY <1>1, <3>1, <3>3, Zenon DEF KbdInv, KeyInv
    <3>. QED BY <3>2, <3>3, Zenon
  <2>. QED BY <1>4, <2>1, <2>2, <2>3, Zenon DEF KeyInv
<1>6. Moved(k, FALSE, FlagsNow, double, FlagsNow', double')
  <2>1. double' = double \cup (shiftcode(k) \cap FlagsNow)
    BY <1>1, <1>3, Zenon DEF FlagsNow
  <2>2. FlagsNow' = Toggle(FlagsNow \cup shiftcode(k), togglecode(k))
    <3>1. CASE k = "caps"
      <4>1. shiftcode(k) = {} /\ togglecode(k) = {"CAPSLOCK"} /\ locked' = ~locked
        BY <1>4, <3>1, Codes, Zenon
      <4>2. FlagsNow' = FlagsOf(down) \cup (IF locked THEN {} ELSE {"CAPSLOCK"})
        BY <1>1, <1>2, <4>1, Zenon DEF FlagsNow
      <4>. QED BY <1>3, <4>1, <4>2, Zenon DEF FlagsNow, Toggle
    <3>2. CASE k # "caps"
      <4>1. togglecode(k) = {} /\ locked' = locked
        BY <1>4, <3>2, Codes, Zenon
      <4>. QED BY <1>2, <4>1, Zenon DEF FlagsNow, Toggle
    <3>. QED BY <3>1, <3>2, Zenon
  <2>. QED BY <2>1, <2>2, Zenon DEF Moved
<1>7. bytes' = bytes \o Send(k, FALSE) /\ UNCHANGED <<shift, decoded>>
  BY Zenon DEF Press
<1>. QED BY <1>5, <1>6, <1>7, EventKeeps, Zenon

LEMMA LiftKeeps ==
  ASSUME KbdInv, NEW k \in KbdKey, Lift(k)
  PROVE  KbdInv'
<1>1. /\ down \in SUBSET KbdKey /\ down' = down \ {k} /\ k \in down
      /\ locked \in BOOLEAN /\ locked' = locked
      /\ double' = double \cap FlagsOf(down') /\ double \subseteq FlagsOf(down)
  BY Zenon DEF KbdInv, KeyInv, Lift
<1>2. FlagsOf(down') \subseteq FlagsOf(down) /\ FlagsOf(down) \ shiftcode(k) \subseteq FlagsOf(down')
  BY <1>1, Zenon DEF FlagsOf
<1>3. FlagsOf(down) \subseteq Mods /\ shiftcode(k) \subseteq Mods /\ "CAPSLOCK" \notin Mods
  BY <1>1, FlagsOfIs, Codes, Zenon DEF Mods
<1>4. down' \in SUBSET KbdKey
  BY <1>1, Zenon
\* The other key of the same modifier is down: the modifier has two keys.
<1>5. shiftcode(k) \cap FlagsOf(down') \subseteq double
  <2>1. SUFFICES ASSUME NEW x \in shiftcode(k), x \in FlagsOf(down')
                 PROVE  x \in double
    BY Zenon
  <2>2. CASE x = "SHIFT"
    <3>1. k \in {"lshift", "rshift"}
      BY <2>1, <2>2, Codes, Zenon DEF KbdKey
    <3>2. "lshift" \in down' \/ "rshift" \in down'
      BY <1>4, <2>1, <2>2, FlagsOfIs, Zenon
    <3>3. {"lshift", "rshift"} \subseteq down
      BY <1>1, <3>1, <3>2, Zenon
    <3>. QED BY <2>2, <3>3, Zenon DEF KbdInv, KeyInv
  <2>3. CASE x = "CTL"
    <3>1. k \in {"lctl", "rctl"}
      BY <2>1, <2>3, Codes, Zenon DEF KbdKey
    <3>2. "lctl" \in down' \/ "rctl" \in down'
      BY <1>4, <2>1, <2>3, FlagsOfIs, Zenon
    <3>3. {"lctl", "rctl"} \subseteq down
      BY <1>1, <3>1, <3>2, Zenon
    <3>. QED BY <2>3, <3>3, Zenon DEF KbdInv, KeyInv
  <2>. QED BY <1>3, <2>1, <2>2, <2>3, Zenon DEF Mods
<1>6. KeyInv'
  <2>1. {"lshift", "rshift"} \subseteq down' => "SHIFT" \in double'
    BY <1>1, <1>4, FlagsOfIs, Zenon DEF KbdInv, KeyInv
  <2>2. {"lctl", "rctl"} \subseteq down' => "CTL" \in double'
    BY <1>1, <1>4, FlagsOfIs, Zenon DEF KbdInv, KeyInv
  <2>. QED BY <1>1, <1>4, <2>1, <2>2, Zenon DEF KeyInv
<1>7. Moved(k, TRUE, FlagsNow, double, FlagsNow', double')
  <2>0. PICK C \in SUBSET {"CAPSLOCK"} : C = IF locked THEN {"CAPSLOCK"} ELSE {}
    BY Zenon
  <2>1. FlagsNow = FlagsOf(down) \cup C /\ FlagsNow' = FlagsOf(down') \cup C
    BY <1>1, <2>0, Zenon DEF FlagsNow
  <2>2. FlagsNow \ shiftcode(k) \subseteq FlagsNow' /\ FlagsNow' \subseteq FlagsNow
    BY <1>2, <2>1, Zenon
  <2>3. double' = double \cap FlagsNow' /\ shiftcode(k) \cap FlagsNow' \subseteq double'
    BY <1>1, <1>3, <1>5, <2>1, Zenon
  <2>. QED BY <2>2, <2>3, Zenon DEF Moved
<1>8. bytes' = bytes \o Send(k, TRUE) /\ UNCHANGED <<shift, decoded>>
  BY Zenon DEF Lift
<1>. QED BY <1>6, <1>7, <1>8, EventKeeps, Zenon

LEMMA KbdgetcKeeps ==
  ASSUME KbdInv, Kbdgetc
  PROVE  KbdInv'
<1>1. PICK F, d : Agree(shift, F, d) /\ Pending(bytes, F, d, FlagsNow, double)
  BY Zenon DEF KbdInv
<1>2. bytes \in Seq(Byte) /\ Escapes(bytes) /\ Leads(bytes, F, d, FlagsNow, double) /\ bytes # <<>>
  BY <1>1, Zenon DEF Pending, Kbdgetc
<1>3. PICK F1, d1 : Link(bytes[1], F, d, F1, d1) /\ Leads(Tail(bytes), F1, d1, FlagsNow, double)
  BY <1>2, LeadsTail, Zenon
<1>b. PICK b : b = bytes[1]
  BY Zenon
<1>4. /\ bytes' = Tail(bytes) /\ Tail(bytes) \in Seq(Byte) /\ Len(Tail(bytes)) = Len(bytes) - 1
      /\ Len(bytes) \in Nat /\ Len(bytes) >= 1 /\ b \in Byte /\ b = Head(bytes)
      /\ \A i \in 1 .. Len(bytes) - 1 : Tail(bytes)[i] = bytes[i + 1]
  BY <1>2, <1>b, SMTT(30) DEF Kbdgetc
<1>5. FlagsNow' = FlagsNow /\ double' = double /\ KeyInv'
  BY Zenon DEF KbdInv, KeyInv, Kbdgetc, FlagsNow
<1>6. /\ F \in SUBSET Flag /\ d \in SUBSET Mods /\ F1 \in SUBSET Flag /\ d1 \in SUBSET Mods
  BY <1>2, <1>3, <1>4, LeadsTyped, Zenon
<1>7. Escapes(bytes')
  <2>1. SUFFICES ASSUME NEW i \in 1 .. Len(bytes'), bytes'[i].code = "E0"
                 PROVE  i + 1 \in 1 .. Len(bytes') /\ bytes'[i + 1].code # "E0"
    BY Zenon DEF Escapes
  <2>2. i + 1 \in 1 .. Len(bytes) /\ bytes[i + 1].code = "E0"
    BY <1>4, <2>1, SMTT(30)
  <2>3. (i + 1) + 1 \in 1 .. Len(bytes) /\ bytes[(i + 1) + 1].code # "E0"
    BY <1>2, <2>2, Zenon DEF Escapes
  <2>. QED BY <1>4, <2>3, SMTT(30)
<1>8. Pending(bytes', F1, d1, FlagsNow', double')
  BY <1>3, <1>4, <1>5, <1>7, Zenon DEF Pending
<1>9. shift \in SUBSET (Flag \cup {"E0ESC"}) /\ "E0ESC" \notin Flag
  BY Zenon DEF KbdInv, Flag, Mods
<1>10. CASE b.code = "E0"
  <2>1. shift' = shift \cup {"E0ESC"} /\ decoded' = decoded
    BY <1>4, <1>10, Zenon DEF Kbdgetc
  <2>2. F1 = F /\ d1 = d
    BY <1>3, <1>b, <1>10, Zenon DEF Link
  <2>3. Agree(shift', F1, d1)
    BY <1>1, <2>1, <2>2, Zenon DEF Agree
  <2>4. bytes' # <<>> /\ bytes'[1].code # "E0"
    <3>0. PICK i \in Nat : i = 1
      BY Zenon
    <3>1. i \in 1 .. Len(bytes) /\ bytes[i].code = "E0"
      BY <1>4, <1>b, <1>10, <3>0, SMTT(30)
    <3>2. i + 1 \in 1 .. Len(bytes) /\ bytes[i + 1].code # "E0"
      BY <1>2, <3>1, Zenon DEF Escapes
    <3>3. i \in 1 .. Len(bytes) - 1
      BY <1>4, <3>0, <3>2, SMTT(30)
    <3>4. PICK x, y : x = bytes'[1] /\ y = bytes[i + 1]
      BY Zenon
    <3>5. x = y
      BY <1>4, <3>0, <3>3, <3>4, Zenon
    <3>6. y.code # "E0"
      BY <3>2, <3>4, Zenon
    <3>7. x.code # "E0"
      BY <3>5, <3>6, Zenon
    <3>8. bytes' # <<>>
      <4>1. Len(bytes') >= 1
        BY <1>4, <3>0, <3>3, SMTT(30)
      <4>. QED BY <4>1, SMTT(30)
    <3>. QED BY <3>4, <3>7, <3>8, Zenon
  <2>5. TypedAsHeld'
    BY <2>1, Zenon DEF KbdInv, TypedAsHeld
  <2>. QED BY <1>5, <1>8, <1>9, <2>1, <2>3, <2>4, <2>5, Zenon DEF KbdInv
<1>11. CASE b.code # "E0"
  <2>1. b.code \in KbdKey /\ b.up \in BOOLEAN
    BY <1>4, <1>11, Zenon DEF Byte
  <2>2. shift' = IF b.up THEN Released(b.code, shift) ELSE Pressed(b.code, shift)
    BY <1>4, <1>11, <2>1, Zenon DEF Kbdgetc
  <2>3. Moved(b.code, b.up, F, d, F1, d1) /\ F1 = FlagsAt(b) /\ d1 = b.double
    BY <1>3, <1>b, <1>11, Zenon DEF Link
  <2>4. shift' \in SUBSET Flag /\ Agree(shift', F1, d1)
    BY <1>1, <1>6, <1>9, <2>1, <2>2, <2>3, DriverFollows, ZenonT(30)
  <2>5. TypedAsHeld'
    <3>1. CASE decoded' = decoded
      BY <3>1, Zenon DEF KbdInv, TypedAsHeld
    <3>2. CASE decoded' = <<[ch |-> Letter(shift'), as |-> b]>>
      <4>1. b.double = {} => Letter(shift') = Letter(FlagsAt(b))
        BY <1>6, <2>3, <2>4, LetterAgrees, ZenonT(30)
      <4>2. decoded'[1].as = b /\ decoded'[1].ch = Letter(shift')
        BY <3>2, Zenon
      <4>. QED BY <4>1, <4>2, Zenon DEF TypedAsHeld, FlagsAt
    <3>. QED BY <1>4, <3>1, <3>2, Zenon DEF Kbdgetc
  <2>6. "E0ESC" \notin shift'
    BY <1>9, <2>4, Zenon
  <2>. QED BY <1>5, <1>8, <2>4, <2>5, <2>6, Zenon DEF KbdInv
<1>. QED BY <1>10, <1>11, Zenon

LEMMA KbdDecodes == KbdInv => KeysDecoded
<1>. SUFFICES ASSUME KbdInv PROVE NothingStuck
  BY Zenon DEF KeysDecoded, KbdInv
<1>. SUFFICES ASSUME bytes = <<>>, down = {}
              PROVE  shift = IF locked THEN {"CAPSLOCK"} ELSE {}
  BY Zenon DEF NothingStuck
<1>1. PICK F, d : Agree(shift, F, d) /\ Pending(bytes, F, d, FlagsNow, double)
  BY Zenon DEF KbdInv
<1>2. FlagsOf(down) = {} /\ double = {}
  <2>1. FlagsOf(down) = {}
    BY Zenon DEF FlagsOf
  <2>. QED BY <2>1, Zenon DEF KbdInv, KeyInv
<1>3. F = FlagsNow /\ d = double
  <2>1. Len(bytes) = 0
    BY Zenon
  <2>. QED BY <1>1, <2>1, Zenon DEF Pending, Leads
<1>4. "E0ESC" \notin shift
  BY Zenon DEF KbdInv
<1>5. shift = FlagsNow
  BY <1>1, <1>2, <1>3, <1>4, Zenon DEF Agree
<1>. QED BY <1>2, <1>5, Zenon DEF FlagsNow

\* What kbdgetc() returns is what was typed, whatever the order of presses and
\* releases and however many bytes wait in the controller: a letter gets the
\* modifiers held when it was typed, and no modifier and no escape is left in
\* shift once the keys are up and the bytes are read.
THEOREM KeyboardDecodes == KbdSpec => []KeysDecoded
<1>1. KbdInv /\ [KbdNext]_kbdVars => KbdInv'
  <2>. SUFFICES ASSUME KbdInv, [KbdNext]_kbdVars PROVE KbdInv'
    BY Zenon
  <2>1. CASE UNCHANGED kbdVars
    BY <2>1, Zenon DEF kbdVars, KbdInv, KeyInv, FlagsNow, TypedAsHeld
  <2>2. CASE Kbdgetc
    BY <2>2, KbdgetcKeeps, Zenon
  <2>3. ASSUME NEW k \in KbdKey, Press(k) \/ Lift(k) PROVE KbdInv'
    BY <2>3, PressKeeps, LiftKeeps, Zenon
  <2>. QED BY <2>1, <2>2, <2>3, Zenon DEF KbdNext
<1>. QED BY <1>1, KbdStarts, KbdDecodes, PTL DEF KbdSpec
=============================================================================
