---------------------------- MODULE KernelProofs ----------------------------
(***************************************************************************)
(* Proofs about the parts of the kernel that every call goes through: the  *)
(* order of its locks, interrupts, the arguments of system calls, and the  *)
(* counters and sleeps of a process.                                       *)
(***************************************************************************)
EXTENDS LockOrder, Cli, Args, Syscall, TLAPS

-----------------------------------------------------------------------------
(***************************************************************************)
(* LockOrder, for every set of CPUs.                                       *)
(***************************************************************************)

\* The order in which the kernel nests its locks: those of the devices, the
\* log, pipes and sleep locks, then ptable.lock, then those under which no
\* other is taken.
Rank(l) == IF l \in Leaf THEN 3 ELSE IF l = "ptable" THEN 2 ELSE 1

-----------------------------------------------------------------------------
(***************************************************************************)
(* The places a CPU can be at: what is left of its path, s, and the locks  *)
(* it holds there, H.  The paths have six forms; places that forms share   *)
(* are listed once.                                                        *)
(***************************************************************************)

\* One lock, or the last of several.
One(s, H, l) ==
  \/ s = <<Acq(l), Rel(l)>> /\ H = {}
  \/ s = <<Rel(l)>> /\ H = {l}

\* A wakeup under a lock; memory freed under ptable.lock.
Nested(s, H, l, p) ==
  /\ Rank(l) < Rank(p)
  /\ \/ s = <<Acq(l), Acq(p), Rel(p), Rel(l)>> /\ H = {}
     \/ s = <<Acq(p), Rel(p), Rel(l)>> /\ H = {l}
     \/ s = <<Rel(p), Rel(l)>> /\ H = {l, p}

\* A lock, and sleep() with it.
Sleeping(s, H, l) ==
  /\ Rank(l) = 1
  /\ \/ s = <<Acq(l), Acq("ptable"), Rel(l), Swtch, Rel("ptable")>> /\ H = {}
     \/ s = <<Acq("ptable"), Rel(l), Swtch, Rel("ptable")>> /\ H = {l}
     \/ s = <<Rel(l), Swtch, Rel("ptable")>> /\ H = {l, "ptable"}
     \/ s = <<Swtch, Rel("ptable")>> /\ H = {"ptable"}

\* yield().
Yielding(s, H) ==
  s = <<Acq("ptable"), Swtch, Rel("ptable")>> /\ H = {}

\* A lock, a wakeup and sleep().
Writing(s, H, l) ==
  /\ Rank(l) = 1
  /\ \/ s = <<Acq(l), Acq("ptable"), Rel("ptable"), Acq("ptable"), Rel(l), Swtch, Rel("ptable")>> /\ H = {}
     \/ s = <<Acq("ptable"), Rel("ptable"), Acq("ptable"), Rel(l), Swtch, Rel("ptable")>> /\ H = {l}
     \/ s = <<Rel("ptable"), Acq("ptable"), Rel(l), Swtch, Rel("ptable")>> /\ H = {l, "ptable"}

\* The end of sleep(): ptable.lock is let go before the lock is taken.
Waking(s, H, l) ==
  /\ l # "ptable"
  /\ \/ s = <<Acq("ptable"), Rel("ptable"), Acq(l), Rel(l)>> /\ H = {}
     \/ s = <<Rel("ptable"), Acq(l), Rel(l)>> /\ H = {"ptable"}

Place(s, H) ==
  \/ s = <<>> /\ H = {}
  \/ \E l \in Lock : One(s, H, l) \/ Sleeping(s, H, l) \/ Writing(s, H, l) \/ Waking(s, H, l)
  \/ \E l, p \in Lock : Nested(s, H, l, p)
  \/ Yielding(s, H)

\* The first step of a place: locks are acquired in order and released by the
\* CPU that holds them, only ptable.lock is held at a switch, and the step leads
\* to a place.
Onward(s, H) ==
  LET l == Head(s).lock
  IN  /\ s # <<>> /\ l \in Lock
      /\ \/ /\ Head(s).op = "acquire"
            /\ \A m \in H : Rank(m) < Rank(l)
            /\ Place(Tail(s), H \cup {l})
         \/ Head(s).op = "release" /\ l \in H /\ Place(Tail(s), H \ {l})
         \/ Head(s).op = "swtch" /\ H = {"ptable"} /\ Place(Tail(s), H)

LEMMA Locks == {"ptable", "log"} \subseteq Lock /\ Rank("ptable") = 2 /\ Rank("log") = 1
BY Zenon DEF Lock, Leaf, Rank

LEMMA Ops == \A x : /\ Acq(x).op = "acquire" /\ Acq(x).lock = x
                    /\ Rel(x).op = "release" /\ Rel(x).lock = x
                    /\ Swtch.op = "swtch" /\ Swtch.lock = "ptable"
BY Zenon DEF Acq, Rel, Swtch

LEMMA OneOnward ==
  ASSUME NEW s, NEW H, NEW l \in Lock, One(s, H, l)
  PROVE  Onward(s, H)
<1>1. CASE s = <<Acq(l), Rel(l)>> /\ H = {}
  <2>1. s # <<>> /\ Head(s) = Acq(l) /\ Tail(s) = <<Rel(l)>>
    BY <1>1
  <2>2. One(Tail(s), {l}, l)
    BY <2>1, Locks, Zenon DEF One
  <2>3. Place(Tail(s), {l})
    BY <2>2, Locks, Zenon DEF Place
  <2>4. H \cup {l} = {l}
    BY <1>1, Locks, Zenon DEF One
  <2>5. Head(s).op = "acquire" /\ Head(s).lock = l
    BY <2>1, Ops, Zenon
  <2>6. \A m \in H : Rank(m) < Rank(l)
    BY <1>1, Locks, Zenon DEF One
  <2>. QED BY <2>1, <2>3, <2>4, <2>5, <2>6, Zenon DEF Onward
<1>2. CASE s = <<Rel(l)>> /\ H = {l}
  <2>1. s # <<>> /\ Head(s) = Rel(l) /\ Tail(s) = <<>>
    BY <1>2
  <2>2. Place(Tail(s), {})
    BY <2>1, Zenon DEF Place
  <2>4. H \ {l} = {}
    BY <1>2, Locks, Zenon DEF One
  <2>5. Head(s).op = "release" /\ Head(s).lock = l
    BY <2>1, Ops, Zenon
  <2>6. l \in H
    BY <1>2, Zenon
  <2>. QED BY <2>1, <2>2, <2>4, <2>5, <2>6, Zenon DEF Onward
<1>. QED BY <1>1, <1>2, Zenon DEF One

LEMMA NestedOnward ==
  ASSUME NEW s, NEW H, NEW l \in Lock, NEW p \in Lock, Nested(s, H, l, p)
  PROVE  Onward(s, H)
<1>1. CASE s = <<Acq(l), Acq(p), Rel(p), Rel(l)>> /\ H = {}
  <2>1. s # <<>> /\ Head(s) = Acq(l) /\ Tail(s) = <<Acq(p), Rel(p), Rel(l)>>
    BY <1>1
  <2>2. Nested(Tail(s), {l}, l, p)
    BY <2>1, Locks, Zenon DEF Nested
  <2>3. Place(Tail(s), {l})
    BY <2>2, Locks, Zenon DEF Place
  <2>4. H \cup {l} = {l}
    BY <1>1, Locks, Zenon DEF Nested, Rank
  <2>5. Head(s).op = "acquire" /\ Head(s).lock = l
    BY <2>1, Ops, Zenon
  <2>6. \A m \in H : Rank(m) < Rank(l)
    BY <1>1, Locks, Zenon DEF Nested
  <2>. QED BY <2>1, <2>3, <2>4, <2>5, <2>6, Zenon DEF Onward
<1>2. CASE s = <<Acq(p), Rel(p), Rel(l)>> /\ H = {l}
  <2>1. s # <<>> /\ Head(s) = Acq(p) /\ Tail(s) = <<Rel(p), Rel(l)>>
    BY <1>2
  <2>2. Nested(Tail(s), {l, p}, l, p)
    BY <2>1, Locks, Zenon DEF Nested
  <2>3. Place(Tail(s), {l, p})
    BY <2>2, Locks, Zenon DEF Place
  <2>4. H \cup {p} = {l, p}
    BY <1>2, Locks, Zenon DEF Nested, Rank
  <2>5. Head(s).op = "acquire" /\ Head(s).lock = p
    BY <2>1, Ops, Zenon
  <2>6. \A m \in H : Rank(m) < Rank(p)
    BY <1>2, Locks, Zenon DEF Nested
  <2>. QED BY <2>1, <2>3, <2>4, <2>5, <2>6, Zenon DEF Onward
<1>3. CASE s = <<Rel(p), Rel(l)>> /\ H = {l, p}
  <2>1. s # <<>> /\ Head(s) = Rel(p) /\ Tail(s) = <<Rel(l)>>
    BY <1>3
  <2>2. One(Tail(s), {l}, l)
    BY <2>1, Locks, Zenon DEF Nested, One
  <2>3. Place(Tail(s), {l})
    BY <2>2, Locks, Zenon DEF Place
  <2>4. H \ {p} = {l}
    BY <1>3, Locks DEF Nested, Rank
  <2>5. Head(s).op = "release" /\ Head(s).lock = p
    BY <2>1, Ops, Zenon
  <2>6. p \in H
    BY <1>3, Zenon
  <2>. QED BY <2>1, <2>3, <2>4, <2>5, <2>6, Zenon DEF Onward
<1>. QED BY <1>1, <1>2, <1>3, Zenon DEF Nested

LEMMA SleepingOnward ==
  ASSUME NEW s, NEW H, NEW l \in Lock, Sleeping(s, H, l)
  PROVE  Onward(s, H)
<1>1. CASE s = <<Acq(l), Acq("ptable"), Rel(l), Swtch, Rel("ptable")>> /\ H = {}
  <2>1. s # <<>> /\ Head(s) = Acq(l) /\ Tail(s) = <<Acq("ptable"), Rel(l), Swtch, Rel("ptable")>>
    BY <1>1
  <2>2. Sleeping(Tail(s), {l}, l)
    BY <2>1, Locks, Zenon DEF Sleeping
  <2>3. Place(Tail(s), {l})
    BY <2>2, Locks, Zenon DEF Place
  <2>4. H \cup {l} = {l}
    BY <1>1, Locks, Zenon DEF Sleeping, Rank
  <2>5. Head(s).op = "acquire" /\ Head(s).lock = l
    BY <2>1, Ops, Zenon
  <2>6. \A m \in H : Rank(m) < Rank(l)
    BY <1>1, Locks, Zenon DEF Sleeping
  <2>. QED BY <2>1, <2>3, <2>4, <2>5, <2>6, Zenon DEF Onward
<1>2. CASE s = <<Acq("ptable"), Rel(l), Swtch, Rel("ptable")>> /\ H = {l}
  <2>1. s # <<>> /\ Head(s) = Acq("ptable") /\ Tail(s) = <<Rel(l), Swtch, Rel("ptable")>>
    BY <1>2
  <2>2. Sleeping(Tail(s), {l, "ptable"}, l)
    BY <2>1, Locks, Zenon DEF Sleeping
  <2>3. Place(Tail(s), {l, "ptable"})
    BY <2>2, Locks, Zenon DEF Place
  <2>4. H \cup {"ptable"} = {l, "ptable"}
    BY <1>2, Locks, Zenon DEF Sleeping, Rank
  <2>5. Head(s).op = "acquire" /\ Head(s).lock = "ptable"
    BY <2>1, Ops, Zenon
  <2>6. \A m \in H : Rank(m) < Rank("ptable")
    BY <1>2, Locks DEF Sleeping
  <2>. QED BY <2>1, <2>3, <2>4, <2>5, <2>6, Locks, Zenon DEF Onward
<1>3. CASE s = <<Rel(l), Swtch, Rel("ptable")>> /\ H = {l, "ptable"}
  <2>1. s # <<>> /\ Head(s) = Rel(l) /\ Tail(s) = <<Swtch, Rel("ptable")>>
    BY <1>3
  <2>2. Sleeping(Tail(s), {"ptable"}, l)
    BY <2>1, Locks, Zenon DEF Sleeping
  <2>3. Place(Tail(s), {"ptable"})
    BY <2>2, Locks, Zenon DEF Place
  <2>4. H \ {l} = {"ptable"}
    BY <1>3, Locks DEF Sleeping, Rank
  <2>5. Head(s).op = "release" /\ Head(s).lock = l
    BY <2>1, Ops, Zenon
  <2>6. l \in H
    BY <1>3, Zenon
  <2>. QED BY <2>1, <2>3, <2>4, <2>5, <2>6, Zenon DEF Onward
<1>4. CASE s = <<Swtch, Rel("ptable")>> /\ H = {"ptable"}
  <2>1. s # <<>> /\ Head(s) = Swtch /\ Tail(s) = <<Rel("ptable")>>
    BY <1>4
  <2>2. One(Tail(s), {"ptable"}, "ptable")
    BY <2>1, Locks, Zenon DEF One, Sleeping
  <2>3. Place(Tail(s), {"ptable"})
    BY <2>2, Locks, Zenon DEF Place
  <2>5. Head(s).op = "swtch" /\ Head(s).lock = "ptable"
    BY <2>1, Ops, Zenon
  <2>6. H = {"ptable"}
    BY <1>4, Zenon
  <2>. QED BY <1>4, <2>1, <2>3, <2>5, <2>6, Locks, Zenon DEF Onward
<1>. QED BY <1>1, <1>2, <1>3, <1>4, Zenon DEF Sleeping

LEMMA YieldingOnward ==
  ASSUME NEW s, NEW H, Yielding(s, H)
  PROVE  Onward(s, H)
<1>1. CASE s = <<Acq("ptable"), Swtch, Rel("ptable")>> /\ H = {}
  <2>1. s # <<>> /\ Head(s) = Acq("ptable") /\ Tail(s) = <<Swtch, Rel("ptable")>>
    BY <1>1
  <2>2. Sleeping(Tail(s), {"ptable"}, "log")
    BY <2>1, Locks, Zenon DEF Sleeping, Yielding
  <2>3. Place(Tail(s), {"ptable"})
    BY <2>2, Locks, Zenon DEF Place
  <2>4. H \cup {"ptable"} = {"ptable"}
    BY <1>1, Locks, Zenon DEF Yielding
  <2>5. Head(s).op = "acquire" /\ Head(s).lock = "ptable"
    BY <2>1, Ops, Zenon
  <2>6. \A m \in H : Rank(m) < Rank("ptable")
    BY <1>1, Locks, Zenon DEF Yielding
  <2>. QED BY <2>1, <2>3, <2>4, <2>5, <2>6, Locks, Zenon DEF Onward
<1>. QED BY <1>1, Zenon DEF Yielding

LEMMA WritingOnward ==
  ASSUME NEW s, NEW H, NEW l \in Lock, Writing(s, H, l)
  PROVE  Onward(s, H)
<1>1. CASE s = <<Acq(l), Acq("ptable"), Rel("ptable"), Acq("ptable"), Rel(l), Swtch, Rel("ptable")>> /\ H = {}
  <2>1. s # <<>> /\ Head(s) = Acq(l) /\ Tail(s) = <<Acq("ptable"), Rel("ptable"), Acq("ptable"), Rel(l), Swtch, Rel("ptable")>>
    BY <1>1
  <2>2. Writing(Tail(s), {l}, l)
    BY <2>1, Locks, Zenon DEF Writing
  <2>3. Place(Tail(s), {l})
    BY <2>2, Locks, Zenon DEF Place
  <2>4. H \cup {l} = {l}
    BY <1>1, Locks, Zenon DEF Writing, Rank
  <2>5. Head(s).op = "acquire" /\ Head(s).lock = l
    BY <2>1, Ops, Zenon
  <2>6. \A m \in H : Rank(m) < Rank(l)
    BY <1>1, Locks, Zenon DEF Writing
  <2>. QED BY <2>1, <2>3, <2>4, <2>5, <2>6, Zenon DEF Onward
<1>2. CASE s = <<Acq("ptable"), Rel("ptable"), Acq("ptable"), Rel(l), Swtch, Rel("ptable")>> /\ H = {l}
  <2>1. s # <<>> /\ Head(s) = Acq("ptable") /\ Tail(s) = <<Rel("ptable"), Acq("ptable"), Rel(l), Swtch, Rel("ptable")>>
    BY <1>2
  <2>2. Writing(Tail(s), {l, "ptable"}, l)
    BY <2>1, Locks, Zenon DEF Writing
  <2>3. Place(Tail(s), {l, "ptable"})
    BY <2>2, Locks, Zenon DEF Place
  <2>4. H \cup {"ptable"} = {l, "ptable"}
    BY <1>2, Locks, Zenon DEF Writing, Rank
  <2>5. Head(s).op = "acquire" /\ Head(s).lock = "ptable"
    BY <2>1, Ops, Zenon
  <2>6. \A m \in H : Rank(m) < Rank("ptable")
    BY <1>2, Locks DEF Writing
  <2>. QED BY <2>1, <2>3, <2>4, <2>5, <2>6, Locks, Zenon DEF Onward
<1>3. CASE s = <<Rel("ptable"), Acq("ptable"), Rel(l), Swtch, Rel("ptable")>> /\ H = {l, "ptable"}
  <2>1. s # <<>> /\ Head(s) = Rel("ptable") /\ Tail(s) = <<Acq("ptable"), Rel(l), Swtch, Rel("ptable")>>
    BY <1>3
  <2>2. Sleeping(Tail(s), {l}, l)
    BY <2>1, Locks, Zenon DEF Sleeping, Writing
  <2>3. Place(Tail(s), {l})
    BY <2>2, Locks, Zenon DEF Place
  <2>4. H \ {"ptable"} = {l}
    BY <1>3, Locks DEF Writing, Rank
  <2>5. Head(s).op = "release" /\ Head(s).lock = "ptable"
    BY <2>1, Ops, Zenon
  <2>6. "ptable" \in H
    BY <1>3, Zenon
  <2>. QED BY <2>1, <2>3, <2>4, <2>5, <2>6, Locks, Zenon DEF Onward
<1>. QED BY <1>1, <1>2, <1>3, Zenon DEF Writing

LEMMA WakingOnward ==
  ASSUME NEW s, NEW H, NEW l \in Lock, Waking(s, H, l)
  PROVE  Onward(s, H)
<1>1. CASE s = <<Acq("ptable"), Rel("ptable"), Acq(l), Rel(l)>> /\ H = {}
  <2>1. s # <<>> /\ Head(s) = Acq("ptable") /\ Tail(s) = <<Rel("ptable"), Acq(l), Rel(l)>>
    BY <1>1
  <2>2. Waking(Tail(s), {"ptable"}, l)
    BY <2>1, Locks, Zenon DEF Waking
  <2>3. Place(Tail(s), {"ptable"})
    BY <2>2, Locks, Zenon DEF Place
  <2>4. H \cup {"ptable"} = {"ptable"}
    BY <1>1, Locks, Zenon DEF Waking
  <2>5. Head(s).op = "acquire" /\ Head(s).lock = "ptable"
    BY <2>1, Ops, Zenon
  <2>6. \A m \in H : Rank(m) < Rank("ptable")
    BY <1>1, Locks, Zenon DEF Waking
  <2>. QED BY <2>1, <2>3, <2>4, <2>5, <2>6, Locks, Zenon DEF Onward
<1>2. CASE s = <<Rel("ptable"), Acq(l), Rel(l)>> /\ H = {"ptable"}
  <2>1. s # <<>> /\ Head(s) = Rel("ptable") /\ Tail(s) = <<Acq(l), Rel(l)>>
    BY <1>2
  <2>2. One(Tail(s), {}, l)
    BY <2>1, Locks, Zenon DEF One, Waking
  <2>3. Place(Tail(s), {})
    BY <2>2, Locks, Zenon DEF Place
  <2>4. H \ {"ptable"} = {}
    BY <1>2, Locks, Zenon DEF Waking
  <2>5. Head(s).op = "release" /\ Head(s).lock = "ptable"
    BY <2>1, Ops, Zenon
  <2>6. "ptable" \in H
    BY <1>2, Zenon
  <2>. QED BY <2>1, <2>3, <2>4, <2>5, <2>6, Locks, Zenon DEF Onward
<1>. QED BY <1>1, <1>2, Zenon DEF Waking

LEMMA PlaceOnward ==
  ASSUME NEW s, NEW H, Place(s, H), s # <<>>
  PROVE  Onward(s, H)
BY OneOnward, NestedOnward, SleepingOnward, YieldingOnward, WritingOnward, WakingOnward, Zenon DEF Place

-----------------------------------------------------------------------------
(***************************************************************************)
(* Every path is a place, if no program calls cps().                       *)
(***************************************************************************)

LEMMA Alike ==
  ASSUME NEW T, NEW u \in Seq(T), NEW w \in Seq(T), Len(u) = Len(w), \A i \in 1 .. Len(w) : u[i] = w[i]
  PROVE  u = w
OBVIOUS

LEMMA Joined ==
  ASSUME NEW T, NEW u \in Seq(T), NEW v \in Seq(T), NEW w \in Seq(T),
         Len(w) = Len(u) + Len(v),
         \A i \in 1 .. Len(u) : w[i] = u[i],
         \A i \in 1 .. Len(v) : w[Len(u) + i] = v[i]
  PROVE u \o v = w
<1>1. /\ u \o v \in Seq(T) /\ Len(u \o v) = Len(w)
      /\ \A i \in 1 .. Len(w) : (u \o v)[i] = IF i <= Len(u) THEN u[i] ELSE v[i - Len(u)]
  OBVIOUS
<1>2. \A i \in 1 .. Len(w) : (u \o v)[i] = w[i]
  <2>. TAKE i \in 1 .. Len(w)
  <2>1. CASE i <= Len(u)
    BY <1>1, <2>1
  <2>2. CASE i > Len(u)
    <3>1. i - Len(u) \in 1 .. Len(v) /\ Len(u) + (i - Len(u)) = i
      BY <2>2
    <3>2. w[Len(u) + (i - Len(u))] = v[i - Len(u)]
      BY <3>1, Zenon
    <3>. QED BY <1>1, <2>2, <3>1, <3>2
  <2>. QED BY <2>1, <2>2
<1>. QED BY <1>1, <1>2, Alike

LEMMA Join12 ==
  ASSUME NEW a, NEW b, NEW c
  PROVE  <<a>> \o <<b, c>> = <<a, b, c>>
<1>. DEFINE T == {a, b, c}
<1>1. <<a>> \in Seq(T) /\ <<b, c>> \in Seq(T) /\ <<a, b, c>> \in Seq(T)
  OBVIOUS
<1>2. Len(<<a, b, c>>) = Len(<<a>>) + Len(<<b, c>>)
  OBVIOUS
<1>3. \A i \in 1 .. Len(<<a>>) : <<a, b, c>>[i] = <<a>>[i]
  OBVIOUS
<1>4. \A i \in 1 .. Len(<<b, c>>) : <<a, b, c>>[Len(<<a>>) + i] = <<b, c>>[i]
  OBVIOUS
<1>. HIDE DEF T
<1>. QED BY <1>1, <1>2, <1>3, <1>4, Joined, Zenon

LEMMA Join14 ==
  ASSUME NEW a, NEW b, NEW c, NEW d, NEW e
  PROVE  <<a>> \o <<b, c, d, e>> = <<a, b, c, d, e>>
<1>. DEFINE T == {a, b, c, d, e}
<1>1. <<a>> \in Seq(T) /\ <<b, c, d, e>> \in Seq(T) /\ <<a, b, c, d, e>> \in Seq(T)
  OBVIOUS
<1>2. Len(<<a, b, c, d, e>>) = Len(<<a>>) + Len(<<b, c, d, e>>)
  OBVIOUS
<1>3. \A i \in 1 .. Len(<<a>>) : <<a, b, c, d, e>>[i] = <<a>>[i]
  OBVIOUS
<1>4. \A i \in 1 .. Len(<<b, c, d, e>>) : <<a, b, c, d, e>>[Len(<<a>>) + i] = <<b, c, d, e>>[i]
  OBVIOUS
<1>. HIDE DEF T
<1>. QED BY <1>1, <1>2, <1>3, <1>4, Joined, Zenon

LEMMA Join31 ==
  ASSUME NEW a, NEW b, NEW c, NEW d
  PROVE  <<a, b, c>> \o <<d>> = <<a, b, c, d>>
<1>. DEFINE T == {a, b, c, d}
<1>1. <<a, b, c>> \in Seq(T) /\ <<d>> \in Seq(T) /\ <<a, b, c, d>> \in Seq(T)
  OBVIOUS
<1>2. Len(<<a, b, c, d>>) = Len(<<a, b, c>>) + Len(<<d>>)
  OBVIOUS
<1>3. \A i \in 1 .. Len(<<a, b, c>>) : <<a, b, c, d>>[i] = <<a, b, c>>[i]
  OBVIOUS
<1>4. \A i \in 1 .. Len(<<d>>) : <<a, b, c, d>>[Len(<<a, b, c>>) + i] = <<d>>[i]
  OBVIOUS
<1>. HIDE DEF T
<1>. QED BY <1>1, <1>2, <1>3, <1>4, Joined, Zenon

LEMMA Join34 ==
  ASSUME NEW a, NEW b, NEW c, NEW d, NEW e, NEW f, NEW g
  PROVE  <<a, b, c>> \o <<d, e, f, g>> = <<a, b, c, d, e, f, g>>
<1>. DEFINE T == {a, b, c, d, e, f, g}
<1>1. <<a, b, c>> \in Seq(T) /\ <<d, e, f, g>> \in Seq(T) /\ <<a, b, c, d, e, f, g>> \in Seq(T)
  OBVIOUS
<1>2. Len(<<a, b, c, d, e, f, g>>) = Len(<<a, b, c>>) + Len(<<d, e, f, g>>)
  OBVIOUS
<1>3. \A i \in 1 .. Len(<<a, b, c>>) : <<a, b, c, d, e, f, g>>[i] = <<a, b, c>>[i]
  OBVIOUS
<1>4. \A i \in 1 .. Len(<<d, e, f, g>>) : <<a, b, c, d, e, f, g>>[Len(<<a, b, c>>) + i] = <<d, e, f, g>>[i]
  OBVIOUS
<1>. HIDE DEF T
<1>. QED BY <1>1, <1>2, <1>3, <1>4, Joined, Zenon

LEMMA Concats ==
  /\ \A l : <<Acq(l)>> \o sleep(l) = <<Acq(l), Acq("ptable"), Rel(l), Swtch, Rel("ptable")>>
  /\ \A l : <<Acq(l)>> \o wakeup \o <<Rel(l)>> = <<Acq(l), Acq("ptable"), Rel("ptable"), Rel(l)>>
  /\ pipewrite = <<Acq("pipe"), Acq("ptable"), Rel("ptable"),
                   Acq("ptable"), Rel("pipe"), Swtch, Rel("ptable")>>
<1>1. \A l : <<Acq(l)>> \o wakeup = <<Acq(l), Acq("ptable"), Rel("ptable")>>
  BY Join12, Zenon DEF wakeup
<1>2. \A l : <<Acq(l)>> \o sleep(l) = <<Acq(l), Acq("ptable"), Rel(l), Swtch, Rel("ptable")>>
  BY Join14, Zenon DEF sleep
<1>3. \A l : <<Acq(l)>> \o wakeup \o <<Rel(l)>> = <<Acq(l), Acq("ptable"), Rel("ptable"), Rel(l)>>
  BY <1>1, Join31, Zenon
<1>4. pipewrite = <<Acq("pipe"), Acq("ptable"), Rel("ptable")>> \o sleep("pipe")
  BY <1>1, Zenon DEF pipewrite
<1>5. pipewrite = <<Acq("pipe"), Acq("ptable"), Rel("ptable"),
                    Acq("ptable"), Rel("pipe"), Swtch, Rel("ptable")>>
  BY <1>4, Join34 DEF sleep
<1>. QED BY <1>2, <1>3, <1>5, Zenon

LEMMA Ranks ==
  /\ \A l \in Lock : Rank(l) \in 1 .. 3
  /\ \A l \in {"log", "ide", "pipe", "sleeplock", "cons"} :
       l \in Lock /\ Rank(l) = 1 /\ l # "ptable"
  /\ "kmem" \in Lock /\ Rank("kmem") = 3
  /\ Leaf \subseteq Lock
BY DEF Rank, Lock, Leaf

LEMMA PathsPlaced ==
  ASSUME ~WithCps, NEW s \in Path
  PROVE  Place(s, {})
<1>1. CASE s \in {wakeup, kill, cprintf} \cup {leaf(l) : l \in Leaf}
  <2>1. \E l \in Lock : s = <<Acq(l), Rel(l)>>
    BY <1>1, Locks, Ranks, Zenon DEF wakeup, kill, cprintf, leaf
  <2>. QED BY <2>1, Zenon DEF Place, One
<1>2. CASE s \in {begin_op, iderw, acquiresleep, consoleread}
  <2>1. \E l \in {"log", "ide", "sleeplock", "cons"} : s = <<Acq(l)>> \o sleep(l)
    BY <1>2, Zenon DEF begin_op, iderw, acquiresleep, consoleread
  <2>2. \E l \in Lock : Rank(l) = 1 /\ s = <<Acq(l), Acq("ptable"), Rel(l), Swtch, Rel("ptable")>>
    BY <2>1, Concats, Ranks, Zenon
  <2>. QED BY <2>2, Zenon DEF Place, Sleeping
<1>3. CASE s \in {end_op, ideintr, piperead, releasesleep, consoleintr}
  <2>1. \E l \in {"log", "ide", "pipe", "sleeplock", "cons"} : s = <<Acq(l)>> \o wakeup \o <<Rel(l)>>
    BY <1>3, Zenon DEF end_op, ideintr, piperead, releasesleep, consoleintr
  <2>2. \E l \in Lock : Rank(l) < Rank("ptable") /\ s = <<Acq(l), Acq("ptable"), Rel("ptable"), Rel(l)>>
    BY <2>1, Concats, Ranks, Locks
  <2>. QED BY <2>2, Locks, Zenon DEF Place, Nested
<1>4. CASE s = wait
  BY <1>4, Locks, Ranks DEF wait, Place, Nested
<1>5. CASE s = yield
  BY <1>5, Zenon DEF yield, Place, Yielding
<1>6. CASE s = pipewrite
  BY <1>6, Concats, Ranks, Zenon DEF Place, Writing
<1>7. CASE s \in {wakeLk(l) : l \in {"log", "ide", "pipe", "sleeplock", "cons"}}
  <2>1. \E l \in Lock : l # "ptable" /\ s = <<Acq("ptable"), Rel("ptable"), Acq(l), Rel(l)>>
    BY <1>7, Ranks, Zenon DEF wakeLk
  <2>. QED BY <2>1, Zenon DEF Place, Waking
<1>. QED BY <1>1, <1>2, <1>3, <1>4, <1>5, <1>6, <1>7, Zenon DEF Path

LEMMA EmptyPlace ==
  ASSUME NEW H, Place(<<>>, H)
  PROVE  H = {}
<1>. SUFFICES ASSUME H # {} PROVE FALSE
  BY Zenon
<1>1. \A l \in Lock : ~One(<<>>, H, l) /\ ~Sleeping(<<>>, H, l)
  BY Zenon DEF One, Sleeping
<1>2. \A l \in Lock : ~Writing(<<>>, H, l) /\ ~Waking(<<>>, H, l)
  BY Zenon DEF Writing, Waking
<1>3. \A l, p \in Lock : ~Nested(<<>>, H, l, p)
  BY Zenon DEF Nested
<1>4. ~Yielding(<<>>, H)
  BY Zenon DEF Yielding
<1>. QED BY <1>1, <1>2, <1>3, <1>4, Zenon DEF Place

-----------------------------------------------------------------------------
(***************************************************************************)
(* The invariant: every CPU is at a place with the locks it holds.         *)
(***************************************************************************)

LockInv ==
  /\ holder \in [Lock -> CPU \cup {NOCPU}]
  /\ path = [c \in CPU |-> path[c]]
  /\ \A c \in CPU : Place(path[c], Held(c))

LEMMA InitLockInv == Init => LockInv
<1>. SUFFICES ASSUME Init PROVE LockInv
  BY Zenon
<1>1. \A c \in CPU : Held(c) = {} /\ path[c] = <<>>
  BY LockAssumption, Zenon DEF Init, Held
<1>. QED BY <1>1, Zenon DEF Init, LockInv, Place

LEMMA EnterLockInv ==
  ASSUME ~WithCps, LockInv, NEW c \in CPU, Enter(c)
  PROVE  LockInv'
<1>1. Held(c) = {}
  BY EmptyPlace, Zenon DEF LockInv, Enter
<1>2. \A d \in CPU : Held(d)' = Held(d)
  BY Zenon DEF Enter, Held
<1>3. Place(path'[c], {})
  BY PathsPlaced, Zenon DEF Enter, LockInv
<1>4. \A d \in CPU \ {c} : path'[d] = path[d]
  BY Zenon DEF Enter, LockInv
<1>5. path' = [d \in CPU |-> path'[d]] /\ holder' = holder
  BY Zenon DEF Enter, LockInv
<1>6. \A d \in CPU : Place(path[d]', Held(d)')
  BY <1>1, <1>2, <1>3, <1>4, Zenon DEF LockInv
<1>. QED BY <1>5, <1>6, Zenon DEF LockInv

LEMMA StepLockInv ==
  ASSUME LockInv, NEW c \in CPU, Step(c)
  PROVE  LockInv'
<1>. DEFINE l == Head(path[c]).lock
<1>3. path[c] # <<>> /\ Onward(path[c], Held(c))
  <2>1. path[c] # <<>>
    BY Zenon DEF Step, acquire, release, sched, Does
  <2>. QED BY <2>1, PlaceOnward, Zenon DEF LockInv
<1>7. release(c) => l \in Lock /\ holder[l] = c
  BY <1>3, Zenon DEF release, Onward, Does, Held
<1>0. path' = [path EXCEPT ![c] = Tail(@)]
  BY <1>7, Zenon DEF Step, acquire, release, sched
<1>1. path' = [d \in CPU |-> path'[d]] /\ path'[c] = Tail(path[c])
  BY <1>0, Zenon DEF LockInv
<1>2. \A d \in CPU \ {c} : path'[d] = path[d]
  BY <1>0, Zenon DEF LockInv
<1>4. CASE acquire(c)
  <2>1. l \in Lock /\ holder[l] = NOCPU /\ holder' = [holder EXCEPT ![l] = c]
    BY <1>3, <1>4, Zenon DEF acquire, Onward
  <2>2. holder' \in [Lock -> CPU \cup {NOCPU}]
    BY <2>1, Zenon DEF LockInv
  <2>3. Held(c)' = Held(c) \cup {l}
    BY <2>1, Zenon DEF Held, LockInv
  <2>4. \A d \in CPU \ {c} : Held(d)' = Held(d)
    BY <2>1, LockAssumption, Zenon DEF Held, LockInv
  <2>5. Place(path'[c], Held(c)')
    BY <1>1, <1>3, <1>4, <2>3, Zenon DEF acquire, Does, Onward
  <2>. QED BY <1>1, <1>2, <2>2, <2>4, <2>5, Zenon DEF LockInv
<1>5. CASE release(c)
  <2>1. l \in Lock /\ holder[l] = c /\ holder' = [holder EXCEPT ![l] = NOCPU]
    BY <1>5, <1>7, Zenon DEF release
  <2>2. holder' \in [Lock -> CPU \cup {NOCPU}]
    BY <2>1, Zenon DEF LockInv
  <2>3. Held(c)' = Held(c) \ {l}
    BY <2>1, LockAssumption, Zenon DEF Held, LockInv
  <2>4. \A d \in CPU \ {c} : Held(d)' = Held(d)
    BY <2>1, LockAssumption, Zenon DEF Held, LockInv
  <2>5. Place(path'[c], Held(c)')
    BY <1>1, <1>3, <1>5, <2>3, Zenon DEF release, Does, Onward
  <2>. QED BY <1>1, <1>2, <2>2, <2>4, <2>5, Zenon DEF LockInv
<1>6. CASE sched(c)
  <2>1. holder' = holder /\ \A d \in CPU : Held(d)' = Held(d)
    BY <1>6, Zenon DEF sched, Held
  <2>2. Place(path'[c], Held(c)')
    BY <1>1, <1>3, <1>6, <2>1, Zenon DEF sched, Does, Onward
  <2>. QED BY <1>1, <1>2, <2>1, <2>2, Zenon DEF LockInv
<1>. QED BY <1>4, <1>5, <1>6, Zenon DEF Step

\* Every CPU is at a place of one of the six forms with exactly the locks of
\* that place, whatever the others do.
THEOREM LockInvariance ==
  ASSUME ~WithCps
  PROVE  Spec => []LockInv
<1>1. LockInv /\ [Next]_vars => LockInv'
  <2>. SUFFICES ASSUME LockInv, [Next]_vars PROVE LockInv'
    BY Zenon
  <2>1. CASE Next
    BY <2>1, EnterLockInv, StepLockInv, Zenon DEF Next
  <2>2. CASE UNCHANGED vars
    BY <2>2, Zenon DEF vars, LockInv, Held
  <2>. QED BY <2>1, <2>2, Zenon
<1>. QED BY <1>1, InitLockInv, PTL DEF Spec

-----------------------------------------------------------------------------
LEMMA WaitRank ==
  ASSUME LockInv, NEW c \in CPU, NEW d \in CPU, NEW e \in CPU, WaitsFor(c, d), WaitsFor(d, e)
  PROVE  /\ Rank(Head(path[c]).lock) \in 1 .. 3 /\ Rank(Head(path[d]).lock) \in 1 .. 3
         /\ Rank(Head(path[c]).lock) < Rank(Head(path[d]).lock)
<1>1. Onward(path[c], Held(c)) /\ Onward(path[d], Held(d))
  BY PlaceOnward, Zenon DEF LockInv, WaitsFor, Does
<1>2. Head(path[c]).lock \in Lock /\ Head(path[d]).lock \in Lock
  BY <1>1, Zenon DEF Onward
<1>3. Head(path[c]).lock \in Held(d)
  BY <1>2, Zenon DEF WaitsFor, Held
<1>4. \A m \in Held(d) : Rank(m) < Rank(Head(path[d]).lock)
  BY <1>1, Zenon DEF Onward, WaitsFor, Does
<1>. QED BY <1>2, <1>3, <1>4, Ranks, Zenon

LEMMA InvNoDeadlock == LockInv => NoDeadlock
<1>10. ASSUME LockInv, NEW c \in CPU PROVE ~Does(c, "panic")
  <2>. SUFFICES ASSUME Does(c, "panic") PROVE FALSE
    BY Zenon
  <2>1. Onward(path[c], Held(c))
    BY <1>10, PlaceOnward, Zenon DEF LockInv, Does
  <2>2. Head(path[c]).op \in {"acquire", "release", "swtch"}
    BY <2>1, Zenon DEF Onward
  <2>. QED BY <2>2, Zenon DEF Does
<1>. SUFFICES ASSUME LockInv, NEW S \in (SUBSET CPU) \ {{}},
                     \A c \in S : \E d \in S : WaitsFor(c, d)
              PROVE  FALSE
  BY <1>10, Zenon DEF NoDeadlock
<1>1. PICK a : a \in S
  BY Zenon
<1>2. PICK b \in S : WaitsFor(a, b)
  BY <1>1, Zenon
<1>3. PICK c \in S : WaitsFor(b, c)
  BY Zenon
<1>4. PICK d \in S : WaitsFor(c, d)
  BY Zenon
<1>5. PICK e \in S : WaitsFor(d, e)
  BY Zenon
<1>6. {a, b, c, d, e} \subseteq CPU
  BY <1>1, Zenon
<1>. DEFINE R(x) == Rank(Head(path[x]).lock)
<1>7. {R(a), R(b), R(c), R(d)} \subseteq 1 .. 3
  BY <1>1, <1>2, <1>3, <1>4, <1>5, <1>6, WaitRank, Zenon
<1>8. R(a) < R(b) /\ R(b) < R(c)
  BY <1>1, <1>2, <1>3, <1>4, <1>6, WaitRank, Zenon
<1>9. R(c) < R(d)
  BY <1>4, <1>5, <1>6, WaitRank, Zenon
<1>. QED BY <1>7, <1>8, <1>9

\* On any number of CPUs no CPU spins for a lock of its own, none releases a lock
\* it does not hold and none spin in a circle, as long as no program calls cps():
\* each waits for a lock of a higher rank than those it holds, and there are three
\* ranks.
THEOREM DeadlockFree ==
  ASSUME ~WithCps
  PROVE  Spec => []NoDeadlock
<1>1. LockInv => NoDeadlock
  BY InvNoDeadlock, Zenon
<1>. QED BY <1>1, LockInvariance, PTL

\* On any number of CPUs sched() is called with ptable.lock and no other lock.
THEOREM SwitchesClean ==
  ASSUME ~WithCps
  PROVE  Spec => []SchedLocks
<1>1. LockInv => SchedLocks
  <2>. SUFFICES ASSUME LockInv, NEW c \in CPU, Does(c, "swtch") PROVE Held(c) = {"ptable"}
    BY Zenon DEF SchedLocks
  <2>1. Onward(path[c], Held(c))
    BY PlaceOnward, Zenon DEF LockInv, Does
  <2>. QED BY <2>1, Zenon DEF Onward, Does
<1>. QED BY <1>1, LockInvariance, PTL

-----------------------------------------------------------------------------
(***************************************************************************)
(* Cli, for every number of CPUs, threads and locks.                       *)
(***************************************************************************)

CliTypeOK ==
  /\ runs \in [Cpu -> Context]
  /\ fl \in [Cpu -> BOOLEAN] /\ ncli \in [Cpu -> Nat] /\ cpuIntena \in [Cpu -> BOOLEAN]
  /\ handler \subseteq Context /\ wants \subseteq Context
  /\ eflags \in [Context -> [Level -> Flag]]
  /\ held \in [Context -> Nat]
  /\ ptLock \in Context \cup {"free"}
  /\ intena \in [Context -> {"none", "new", "on", "off"}]
  /\ ready \subseteq Thread /\ atTop \subseteq Cpu

\* A context is on at most one CPU: a scheduler on its own, a thread on any,
\* and then it is not RUNNABLE.
RunInv ==
  \A c \in Cpu :
    /\ runs[c] = c \/ runs[c] \in Thread
    /\ runs[c] \notin ready
    /\ \A d \in Cpu : runs[c] = runs[d] => c = d

OffCpu(x) == \A c \in Cpu : runs[c] # x

\* A context that is on no CPU has no locks: it has handed ptable.lock on.  A
\* thread's saved intena is what its level calls for, or it has not run yet.
OffInv ==
  \A x \in Context : OffCpu(x) =>
    /\ held[x] = 0 /\ x \notin wants /\ ptLock # x
    /\ eflags[x][Lv(x)] = "none"
    /\ x \in Cpu => x \notin handler /\ x \notin atTop
    /\ x \in Thread => intena[x] = IF x \in handler THEN "off"
                                   ELSE IF intena[x] = "new" THEN "new" ELSE "on"

\* A scheduler that is not in a handler takes ptable.lock only, and below the
\* top of its loop.
TopInv ==
  \A c \in Cpu :
    /\ c \in atTop => eflags[c][0] = "none"
    /\ c \notin handler => held[c] = 0 /\ (c \in atTop => ptLock # c /\ c \notin wants)

\* A thread in forkret takes no lock, except in a handler that interrupts it.
NewInv ==
  \A x \in Context :
    intena[x] = "new" => /\ x \in Thread /\ eflags[x][0] = "none"
                         /\ x \notin handler => held[x] = 0 /\ x \notin wants

\* Who waits for the lock does not have it and is past readeflags.
WantInv == \A x \in wants : ptLock # x /\ eflags[x][Lv(x)] = "none"

\* pushcli has read what the level calls for, unless a lock is held anyway.
ReadInv ==
  /\ \A x \in Context : /\ x \in handler => eflags[x][0] # "off" /\ eflags[x][1] # "on"
                        /\ x \notin handler => eflags[x][1] = "none"
  /\ \A c \in Cpu : runs[c] \notin handler /\ eflags[runs[c]][0] = "off" => ncli[c] > 0

\* While locks are held intena is what the level calls for.
IntenaInv ==
  \A c \in Cpu : ncli[c] > 0 =>
    /\ runs[c] \in handler => ~cpuIntena[c]
    /\ runs[c] \in Thread \ handler /\ ~Forkret(runs[c]) => cpuIntena[c]

CliInv ==
  /\ CliTypeOK /\ RunInv /\ OffInv /\ TopInv /\ NewInv /\ WantInv /\ ReadInv /\ IntenaInv
  /\ LocksMask /\ FlagsKept
-----------------------------------------------------------------------------

\* Pushcli reads the flag.
LEMMA PushReadInv ==
  ASSUME CliInv, NEW c \in Cpu, PushRead(c) PROVE CliInv'
<1>. USE CliAssumption DEF CliInv, CliTypeOK, Context, Level, Flag, Lv, Spins, Forkret, Flags, OffCpu, PushRead
<1>1. CliTypeOK'
  BY Zenon DEF LocksMask, RunInv
<1>2. RunInv'
  BY Zenon DEF RunInv
<1>3. OffInv'
  BY Zenon DEF OffInv, RunInv, TopInv, WantInv, IntenaInv, LocksMask
<1>4. TopInv'
  BY DEF TopInv, RunInv, OffInv, LocksMask, WantInv
<1>5. NewInv'
  BY SMTT(30) DEF NewInv, RunInv, OffInv, LocksMask
<1>6. WantInv'
  BY SMTT(30) DEF WantInv, RunInv, OffInv, LocksMask
<1>7. ReadInv'
  BY DEF ReadInv, RunInv, OffInv, LocksMask, FlagsKept
<1>8. IntenaInv'
  BY Zenon DEF IntenaInv, RunInv, OffInv, NewInv, ReadInv, LocksMask, FlagsKept
<1>9. LocksMask'
  BY Zenon DEF LocksMask, RunInv, OffInv, TopInv, NewInv, WantInv, ReadInv
<1>10. FlagsKept'
  BY Zenon DEF FlagsKept, RunInv, OffInv, TopInv, NewInv, LocksMask, IntenaInv, ReadInv
<1>. QED BY <1>1, <1>2, <1>3, <1>4, <1>5, <1>6, <1>7, <1>8, <1>9, <1>10, Zenon DEF CliInv

\* Pushcli counts the lock.
LEMMA PushCliInv ==
  ASSUME CliInv, NEW c \in Cpu, NEW pt \in BOOLEAN, PushCli(c, pt) PROVE CliInv'
<1>. USE CliAssumption DEF CliInv, CliTypeOK, Context, Level, Flag, Lv, Spins, Forkret, Flags, OffCpu, PushCli
<1>1. CliTypeOK'
  <2>1. eflags' \in [Context -> [Level -> Flag]]
    BY Zenon
  <2>2. ncli' \in [Cpu -> Nat] /\ wants' \subseteq Context
    OBVIOUS
  <2>4. held' \in [Context -> Nat]
    <3>1. CASE pt
      BY <3>1, Zenon
    <3>2. CASE ~pt
      BY <3>2
    <3>. QED BY <3>1, <3>2, Zenon
  <2>3. fl' \in [Cpu -> BOOLEAN] /\ cpuIntena' \in [Cpu -> BOOLEAN]
    BY Zenon
  <2>. QED BY <2>1, <2>2, <2>3, <2>4, Zenon
<1>2. RunInv'
  BY Zenon DEF RunInv
<1>3. OffInv'
  BY SMTT(30) DEF OffInv, RunInv, TopInv, WantInv, IntenaInv, LocksMask
<1>4. TopInv'
  BY SMTT(30) DEF TopInv, RunInv, OffInv, LocksMask, WantInv
<1>5. NewInv'
  BY SMTT(30) DEF NewInv, RunInv, OffInv, LocksMask
<1>6. WantInv'
  BY SMTT(30) DEF WantInv, RunInv, OffInv, LocksMask
<1>7. ReadInv'
  BY SMTT(30) DEF ReadInv, RunInv, OffInv, LocksMask, FlagsKept
<1>8. IntenaInv'
  BY SMTT(30) DEF IntenaInv, RunInv, OffInv, NewInv, ReadInv, LocksMask, FlagsKept
<1>9. LocksMask'
  BY DEF LocksMask, RunInv, OffInv, TopInv, NewInv, WantInv, ReadInv
<1>10. FlagsKept'
  <2>. SUFFICES ASSUME NEW d \in Cpu, ncli'[d] = 0, runs'[d] \notin atTop' \ handler', ~Forkret(runs[d])'
                PROVE  fl'[d] = (runs'[d] \notin handler')
    BY Zenon DEF FlagsKept
  <2>1. CASE d = c
    BY <2>1 DEF LocksMask, FlagsKept, TopInv, NewInv
  <2>2. CASE d # c
    BY <2>2, Zenon DEF FlagsKept, RunInv
  <2>. QED BY <2>1, <2>2, Zenon
<1>. QED BY <1>1, <1>2, <1>3, <1>4, <1>5, <1>6, <1>7, <1>8, <1>9, <1>10, Zenon DEF CliInv

\* Acquire gets ptable.lock.
LEMMA TakeLockInv ==
  ASSUME CliInv, NEW c \in Cpu, TakeLock(c) PROVE CliInv'
<1>. USE CliAssumption DEF CliInv, CliTypeOK, Context, Level, Flag, Lv, Spins, Forkret, Flags, OffCpu, TakeLock
<1>1. CliTypeOK'
  BY Zenon DEF LocksMask, RunInv
<1>2. RunInv'
  BY Zenon DEF RunInv
<1>3. OffInv'
  BY Zenon DEF OffInv, RunInv, TopInv, WantInv, IntenaInv, LocksMask
<1>4. TopInv'
  BY DEF TopInv, RunInv, OffInv, LocksMask, WantInv
<1>5. NewInv'
  BY Zenon DEF NewInv, RunInv, OffInv, LocksMask
<1>6. WantInv'
  BY Zenon DEF WantInv, RunInv, OffInv, LocksMask
<1>7. ReadInv'
  BY Zenon DEF ReadInv, RunInv, OffInv, LocksMask, FlagsKept
<1>8. IntenaInv'
  BY Zenon DEF IntenaInv, RunInv, OffInv, NewInv, ReadInv, LocksMask, FlagsKept
<1>9. LocksMask'
  BY DEF LocksMask, RunInv, OffInv, TopInv, NewInv, WantInv, ReadInv
<1>10. FlagsKept'
  BY Zenon DEF FlagsKept, RunInv, OffInv, TopInv, NewInv, LocksMask, IntenaInv, ReadInv
<1>. QED BY <1>1, <1>2, <1>3, <1>4, <1>5, <1>6, <1>7, <1>8, <1>9, <1>10, Zenon DEF CliInv

\* Release, with popcli.
LEMMA ReleaseInv ==
  ASSUME CliInv, NEW c \in Cpu, NEW pt \in BOOLEAN, Release(c, pt) PROVE CliInv'
<1>. USE CliAssumption DEF CliInv, CliTypeOK, Context, Level, Flag, Lv, Spins, Forkret, Flags, OffCpu, Release, PopCli
<1>1. CliTypeOK'
  <2>1. ncli[c] > 0
    BY SMTT(30) DEF LocksMask
  <2>2. ncli' \in [Cpu -> Nat]
    BY <2>1
  <2>3. fl' \in [Cpu -> BOOLEAN]
    BY Zenon
  <2>4. CASE pt
    BY <2>2, <2>3, <2>4, SMTT(30)
  <2>5. CASE ~pt
    <3>1. held' = [held EXCEPT ![runs[c]] = @ - 1] /\ held[runs[c]] > 0 /\ UNCHANGED ptLock
      BY <2>5, Zenon
    <3>2. held' \in [Context -> Nat]
      BY <3>1
    <3>. QED BY <2>2, <2>3, <3>1, <3>2
  <2>. QED BY <2>4, <2>5, Zenon
<1>2. RunInv'
  BY Zenon DEF RunInv
<1>3. OffInv'
  BY SMTT(30) DEF OffInv, RunInv, TopInv, WantInv, IntenaInv, LocksMask
<1>4. TopInv'
  BY SMTT(30) DEF TopInv, RunInv, OffInv, LocksMask, WantInv
<1>5. NewInv'
  BY SMTT(30) DEF NewInv, RunInv, OffInv, LocksMask
<1>6. WantInv'
  BY SMTT(30) DEF WantInv, RunInv, OffInv, LocksMask
<1>7. ReadInv'
  BY SMTT(30) DEF ReadInv, RunInv, OffInv, LocksMask, FlagsKept
<1>8. IntenaInv'
  BY SMTT(30) DEF IntenaInv, RunInv, OffInv, NewInv, ReadInv, LocksMask, FlagsKept
<1>9. LocksMask'
  BY SMTT(30) DEF LocksMask, RunInv, OffInv, TopInv, NewInv, WantInv, ReadInv
<1>10. FlagsKept'
  BY SMTT(30) DEF FlagsKept, RunInv, OffInv, TopInv, NewInv, LocksMask, IntenaInv, ReadInv
<1>. QED BY <1>1, <1>2, <1>3, <1>4, <1>5, <1>6, <1>7, <1>8, <1>9, <1>10, Zenon DEF CliInv

\* The scheduler enables interrupts.
LEMMA StiInv ==
  ASSUME CliInv, NEW c \in Cpu, Sti(c) PROVE CliInv'
<1>. USE CliAssumption DEF CliInv, CliTypeOK, Context, Level, Flag, Lv, Spins, Forkret, Flags, OffCpu, Sti
<1>1. CliTypeOK'
  BY Zenon DEF LocksMask, RunInv
<1>2. RunInv'
  BY Zenon DEF RunInv
<1>3. OffInv'
  BY Zenon DEF OffInv, RunInv, TopInv, WantInv, IntenaInv, LocksMask
<1>4. TopInv'
  BY Zenon DEF TopInv, RunInv, OffInv, LocksMask, WantInv
<1>5. NewInv'
  BY Zenon DEF NewInv, RunInv, OffInv, LocksMask
<1>6. WantInv'
  BY Zenon DEF WantInv, RunInv, OffInv, LocksMask
<1>7. ReadInv'
  BY Zenon DEF ReadInv, RunInv, OffInv, LocksMask, FlagsKept
<1>8. IntenaInv'
  BY Zenon DEF IntenaInv, RunInv, OffInv, NewInv, ReadInv, LocksMask, FlagsKept
<1>9. LocksMask'
  BY DEF LocksMask, RunInv, OffInv, TopInv, NewInv, WantInv, ReadInv
<1>10. FlagsKept'
  <2>. SUFFICES ASSUME NEW d \in Cpu, ncli'[d] = 0, runs'[d] \notin atTop' \ handler', ~Forkret(runs[d])'
                PROVE  fl'[d] = (runs'[d] \notin handler')
    BY Zenon DEF FlagsKept
  <2>1. CASE d = c
    BY <2>1, Zenon DEF LocksMask, FlagsKept, TopInv, NewInv
  <2>2. CASE d # c
    BY <2>2, Zenon DEF FlagsKept, RunInv
  <2>. QED BY <2>1, <2>2, Zenon
<1>. QED BY <1>1, <1>2, <1>3, <1>4, <1>5, <1>6, <1>7, <1>8, <1>9, <1>10, Zenon DEF CliInv

\* A thread gives up the CPU and hands its lock to the scheduler.
LEMMA SchedInv ==
  ASSUME CliInv, NEW c \in Cpu, Sched(c) PROVE CliInv'
<1>. USE CliAssumption DEF CliInv, CliTypeOK, Context, Level, Flag, Lv, Spins, Forkret, Flags, OffCpu, Sched
<1>1. CliTypeOK'
  BY Zenon DEF LocksMask, RunInv
<1>2. RunInv'
  BY ZenonT(30) DEF RunInv
<1>3. OffInv'
  BY DEF OffInv, RunInv, TopInv, WantInv, IntenaInv, LocksMask
<1>4. TopInv'
  BY DEF TopInv, RunInv, OffInv, LocksMask, WantInv
<1>5. NewInv'
  BY Zenon DEF NewInv, RunInv, OffInv, LocksMask
<1>6. WantInv'
  BY SMTT(30) DEF WantInv, RunInv, OffInv, LocksMask
<1>7. ReadInv'
  BY SMTT(30) DEF ReadInv, RunInv, OffInv, LocksMask, FlagsKept
<1>8. IntenaInv'
  BY SMTT(30) DEF IntenaInv, RunInv, OffInv, NewInv, ReadInv, LocksMask, FlagsKept
<1>9. LocksMask'
  BY SMTT(30) DEF LocksMask, RunInv, OffInv, TopInv, NewInv, WantInv, ReadInv
<1>10. FlagsKept'
  BY SMTT(30) DEF FlagsKept, RunInv, OffInv, TopInv, NewInv, LocksMask, IntenaInv, ReadInv
<1>. QED BY <1>1, <1>2, <1>3, <1>4, <1>5, <1>6, <1>7, <1>8, <1>9, <1>10, Zenon DEF CliInv

\* The scheduler hands its lock to a thread.
LEMMA SwtchToInv ==
  ASSUME CliInv, NEW c \in Cpu, NEW t \in Thread, SwtchTo(c, t) PROVE CliInv'
<1>. USE CliAssumption DEF CliInv, CliTypeOK, Context, Level, Flag, Lv, Spins, Forkret, Flags, OffCpu, SwtchTo, Resume
<1>1. CliTypeOK'
  BY Zenon DEF LocksMask, RunInv
<1>2. RunInv'
  BY ZenonT(30) DEF RunInv
<1>3. OffInv'
  BY SMTT(30) DEF OffInv, RunInv, TopInv, WantInv, IntenaInv, LocksMask
<1>4. TopInv'
  BY DEF TopInv, RunInv, OffInv, LocksMask, WantInv
<1>5. NewInv'
  BY Zenon DEF NewInv, RunInv, OffInv, LocksMask
<1>6. WantInv'
  BY SMTT(30) DEF WantInv, RunInv, OffInv, LocksMask
<1>7. ReadInv'
  BY DEF ReadInv, RunInv, OffInv, LocksMask, FlagsKept
<1>8. IntenaInv'
  <2>. SUFFICES ASSUME NEW d \in Cpu, ncli'[d] > 0
                PROVE  /\ runs'[d] \in handler' => ~cpuIntena'[d]
                       /\ runs'[d] \in Thread \ handler' /\ ~Forkret(runs[d])' => cpuIntena'[d]
    BY Zenon DEF IntenaInv
  <2>1. OffCpu(t)
    BY DEF RunInv
  <2>2. CASE d = c
    <3>1. t \in handler => intena[t] = "off"
      BY <2>1, Zenon DEF OffInv
    <3>2. t \notin handler => Forkret(t) \/ intena[t] = "on"
      BY <2>1, Zenon DEF OffInv
    <3>3. ~Forkret(t) => cpuIntena'[c] = (intena[t] = "on")
      BY Zenon
    <3>. QED BY <2>2, <3>1, <3>2, <3>3, Zenon
  <2>3. CASE d # c
    BY <2>3, Zenon DEF IntenaInv, RunInv
  <2>. QED BY <2>2, <2>3, Zenon
<1>9. LocksMask'
  BY SMTT(30) DEF LocksMask, RunInv, OffInv, TopInv, NewInv, WantInv, ReadInv
<1>10. FlagsKept'
  BY DEF FlagsKept, RunInv, OffInv, TopInv, NewInv, LocksMask, IntenaInv, ReadInv
<1>. QED BY <1>1, <1>2, <1>3, <1>4, <1>5, <1>6, <1>7, <1>8, <1>9, <1>10, Zenon DEF CliInv

\* An interrupt, which finds no locks.
LEMMA InterruptInv ==
  ASSUME CliInv, NEW c \in Cpu, Interrupt(c) PROVE CliInv'
<1>. USE CliAssumption DEF CliInv, CliTypeOK, Context, Level, Flag, Lv, Spins, Forkret, Flags, OffCpu, Interrupt
<1>1. CliTypeOK'
  BY DEF LocksMask, RunInv
<1>2. RunInv'
  BY Zenon DEF RunInv
<1>3. OffInv'
  BY DEF OffInv, RunInv, TopInv, WantInv, IntenaInv, LocksMask
<1>4. TopInv'
  BY Zenon DEF TopInv, RunInv, OffInv, LocksMask, WantInv
<1>5. NewInv'
  BY Zenon DEF NewInv, RunInv, OffInv, LocksMask
<1>6. WantInv'
  BY SMTT(30) DEF WantInv, RunInv, OffInv, LocksMask
<1>7. ReadInv'
  BY DEF ReadInv, RunInv, OffInv, LocksMask, FlagsKept
<1>8. IntenaInv'
  <2>. SUFFICES ASSUME NEW d \in Cpu, ncli'[d] > 0
                PROVE  /\ runs'[d] \in handler' => ~cpuIntena'[d]
                       /\ runs'[d] \in Thread \ handler' /\ ~Forkret(runs[d])' => cpuIntena'[d]
    BY Zenon DEF IntenaInv
  <2>1. ncli[c] = 0
    BY DEF LocksMask, NewInv, WantInv
  <2>2. d # c
    BY <2>1, SMTT(30)
  <2>. QED BY <2>2, Zenon DEF IntenaInv, RunInv
<1>9. LocksMask'
  BY DEF LocksMask, RunInv, OffInv, TopInv, NewInv, WantInv, ReadInv
<1>10. FlagsKept'
  <2>. SUFFICES ASSUME NEW d \in Cpu, ncli'[d] = 0, runs'[d] \notin atTop' \ handler', ~Forkret(runs[d])'
                PROVE  fl'[d] = (runs'[d] \notin handler')
    BY Zenon DEF FlagsKept
  <2>1. CASE d = c
    <3>1. fl'[c] = FALSE /\ runs'[c] \in handler'
      BY Zenon
    <3>. QED BY <2>1, <3>1, Zenon
  <2>2. CASE d # c
    BY <2>2, Zenon DEF FlagsKept, RunInv
  <2>. QED BY <2>1, <2>2, Zenon
<1>. QED BY <1>1, <1>2, <1>3, <1>4, <1>5, <1>6, <1>7, <1>8, <1>9, <1>10, Zenon DEF CliInv

\* The return from it.
LEMMA IretInv ==
  ASSUME CliInv, NEW c \in Cpu, Iret(c) PROVE CliInv'
<1>. USE CliAssumption DEF CliInv, CliTypeOK, Context, Level, Flag, Lv, Spins, Forkret, Flags, OffCpu, Iret
<1>1. CliTypeOK'
  BY Zenon DEF LocksMask, RunInv
<1>2. RunInv'
  BY Zenon DEF RunInv
<1>3. OffInv'
  BY ZenonT(30) DEF OffInv, RunInv, TopInv, WantInv, IntenaInv, LocksMask
<1>4. TopInv'
  BY DEF TopInv, RunInv, OffInv, LocksMask, WantInv
<1>5. NewInv'
  BY SMTT(30) DEF NewInv, RunInv, OffInv, LocksMask
<1>6. WantInv'
  BY DEF WantInv, RunInv, OffInv, LocksMask
<1>7. ReadInv'
  BY Zenon DEF ReadInv, RunInv, OffInv, LocksMask, FlagsKept
<1>8. IntenaInv'
  <2>. SUFFICES ASSUME NEW d \in Cpu, ncli'[d] > 0
                PROVE  /\ runs'[d] \in handler' => ~cpuIntena'[d]
                       /\ runs'[d] \in Thread \ handler' /\ ~Forkret(runs[d])' => cpuIntena'[d]
    BY Zenon DEF IntenaInv
  <2>1. ncli[c] = 0
    BY DEF LocksMask, NewInv, WantInv
  <2>2. d # c
    BY <2>1, SMTT(30)
  <2>. QED BY <2>2, Zenon DEF IntenaInv, RunInv
<1>9. LocksMask'
  <2>1. ncli[c] = 0
    BY DEF LocksMask, NewInv, WantInv
  <2>2. \A d \in Cpu : d # c => fl'[d] = fl[d]
    BY Zenon
  <2>3. runs' = runs /\ ncli' = ncli /\ held' = held /\ ptLock' = ptLock /\ wants' = wants
    BY Zenon
  <2>. QED BY <2>1, <2>2, <2>3, SMTT(30) DEF LocksMask
<1>10. FlagsKept'
  <2>. SUFFICES ASSUME NEW d \in Cpu, ncli'[d] = 0, runs'[d] \notin atTop' \ handler', ~Forkret(runs[d])'
                PROVE  fl'[d] = (runs'[d] \notin handler')
    BY Zenon DEF FlagsKept
  <2>1. CASE d = c
    BY <2>1, Zenon DEF LocksMask, FlagsKept, TopInv, NewInv
  <2>2. CASE d # c
    BY <2>2, Zenon DEF FlagsKept, RunInv
  <2>. QED BY <2>1, <2>2, Zenon
<1>. QED BY <1>1, <1>2, <1>3, <1>4, <1>5, <1>6, <1>7, <1>8, <1>9, <1>10, Zenon DEF CliInv

\* The first return to user mode.
LEMMA ForkretIretInv ==
  ASSUME CliInv, NEW c \in Cpu, ForkretIret(c) PROVE CliInv'
<1>. USE CliAssumption DEF CliInv, CliTypeOK, Context, Level, Flag, Lv, Spins, Forkret, Flags, OffCpu, ForkretIret
<1>1. CliTypeOK'
  BY Zenon DEF LocksMask, RunInv
<1>2. RunInv'
  BY Zenon DEF RunInv
<1>3. OffInv'
  BY Zenon DEF OffInv, RunInv, TopInv, WantInv, IntenaInv, LocksMask
<1>4. TopInv'
  BY Zenon DEF TopInv, RunInv, OffInv, LocksMask, WantInv
<1>5. NewInv'
  BY Zenon DEF NewInv, RunInv, OffInv, LocksMask
<1>6. WantInv'
  BY Zenon DEF WantInv, RunInv, OffInv, LocksMask
<1>7. ReadInv'
  BY Zenon DEF ReadInv, RunInv, OffInv, LocksMask, FlagsKept
<1>8. IntenaInv'
  <2>. SUFFICES ASSUME NEW d \in Cpu, ncli'[d] > 0
                PROVE  /\ runs'[d] \in handler' => ~cpuIntena'[d]
                       /\ runs'[d] \in Thread \ handler' /\ ~Forkret(runs[d])' => cpuIntena'[d]
    BY Zenon DEF IntenaInv
  <2>1. ncli[c] = 0
    BY DEF LocksMask, NewInv, WantInv
  <2>2. d # c
    BY <2>1, SMTT(30)
  <2>. QED BY <2>2, Zenon DEF IntenaInv, RunInv
<1>9. LocksMask'
  <2>1. ncli[c] = 0
    BY DEF LocksMask, NewInv, WantInv
  <2>2. \A d \in Cpu : d # c => fl'[d] = fl[d]
    BY Zenon
  <2>3. runs' = runs /\ ncli' = ncli /\ held' = held /\ ptLock' = ptLock /\ wants' = wants
    BY Zenon
  <2>. QED BY <2>1, <2>2, <2>3, SMTT(30) DEF LocksMask
<1>10. FlagsKept'
  <2>. SUFFICES ASSUME NEW d \in Cpu, ncli'[d] = 0, runs'[d] \notin atTop' \ handler', ~Forkret(runs[d])'
                PROVE  fl'[d] = (runs'[d] \notin handler')
    BY Zenon DEF FlagsKept
  <2>1. CASE d = c
    BY <2>1, Zenon DEF LocksMask, FlagsKept, TopInv, NewInv
  <2>2. CASE d # c
    BY <2>2, Zenon DEF FlagsKept, RunInv
  <2>. QED BY <2>1, <2>2, Zenon
<1>. QED BY <1>1, <1>2, <1>3, <1>4, <1>5, <1>6, <1>7, <1>8, <1>9, <1>10, Zenon DEF CliInv

\* The invariant holds in every reachable state.
THEOREM CliInvariance == CliSpec => []CliInv
<1>1. CliInit => CliInv
  <2>. SUFFICES ASSUME CliInit PROVE CliInv
    BY Zenon
  <2>. USE CliAssumption DEF CliInit, Context, Level, Flag, Lv, Forkret, OffCpu
  <2>1. CliTypeOK
    BY Zenon DEF CliTypeOK
  <2>2. RunInv /\ TopInv /\ NewInv /\ WantInv
    BY Zenon DEF RunInv, TopInv, NewInv, WantInv
  <2>3. OffInv
    BY Zenon DEF OffInv
  <2>4. ReadInv /\ IntenaInv
    BY Zenon DEF ReadInv, IntenaInv
  <2>5. LocksMask
    BY DEF LocksMask
  <2>6. FlagsKept
    BY Zenon DEF FlagsKept
  <2>. QED BY <2>1, <2>2, <2>3, <2>4, <2>5, <2>6, Zenon DEF CliInv
<1>2. CliInv /\ [CliNext]_cliVars => CliInv'
  <2>. SUFFICES ASSUME CliInv, [CliNext]_cliVars PROVE CliInv'
    BY Zenon
  <2>1. CASE UNCHANGED cliVars
    <3>. USE <2>1 DEF CliInv, cliVars, Lv, Forkret
    <3>1. CliTypeOK' /\ RunInv'
      BY Zenon DEF CliTypeOK, RunInv
    <3>2. OffInv'
      BY Zenon DEF OffInv, OffCpu
    <3>3. TopInv' /\ NewInv' /\ WantInv'
      BY Zenon DEF TopInv, NewInv, WantInv
    <3>4. ReadInv' /\ IntenaInv'
      BY Zenon DEF ReadInv, IntenaInv
    <3>5. LocksMask' /\ FlagsKept'
      BY Zenon DEF LocksMask, FlagsKept
    <3>. QED BY <3>1, <3>2, <3>3, <3>4, <3>5, Zenon
  <2>2. CASE CliNext
    <3>1. PICK c \in Cpu : \/ PushRead(c) \/ TakeLock(c) \/ Sti(c) \/ Sched(c) \/ Interrupt(c)
                           \/ Iret(c) \/ ForkretIret(c)
                           \/ \E pt \in BOOLEAN : PushCli(c, pt) \/ Release(c, pt)
                           \/ \E t \in Thread : SwtchTo(c, t)
      BY <2>2, Zenon DEF CliNext
    <3>. QED BY <3>1, PushReadInv, TakeLockInv, StiInv, SchedInv, InterruptInv, IretInv,
                ForkretIretInv, PushCliInv, ReleaseInv, SwtchToInv, Zenon
  <2>. QED BY <2>1, <2>2, Zenon
<1>. QED BY <1>1, <1>2, PTL DEF CliSpec

\* A CPU with a lock takes no interrupt, and a thread gets back the interrupt flag
\* it had, on whatever CPU it goes on.
THEOREM InterruptsAreMatched == CliSpec => []InterruptsMatched
<1>1. CliInv => InterruptsMatched
  BY Zenon DEF CliInv, InterruptsMatched
<1>. QED BY <1>1, CliInvariance, PTL

-----------------------------------------------------------------------------
(***************************************************************************)
(* Args, for every width of an address, every size of a word and every     *)
(* memory of a process that is at most half the address space, as KERNBASE *)
(* makes it.                                                               *)
(***************************************************************************)
INSTANCE ModArith

\* What the calls do not change, and no answer before the first.
ArgInv ==
  /\ usz \in 0 .. MaxSz
  /\ umem \in [0 .. usz - 1 -> Vals]
  /\ esp \in 0 .. UWORD - 1
  /\ ofiles \subseteq 0 .. Fds - 1
  /\ args.kind \in {"none", "int", "ptr", "str", "fd"}
  /\ args.ok \in BOOLEAN
  /\ args.kind = "none" => ~args.ok

\* What fetchint's test admits is a word inside the memory: the sum does not
\* wrap around, because the memory ends in the lower half.
LEMMA FetchInside ==
  ASSUME ArgInv, NEW a \in 0 .. UWORD - 1, FetchOk(a)
  PROVE  a \in 0 .. usz - WORD /\ a \in 0 .. usz - 1 /\ umem[a] \in Int
<1>1. usz \in Nat /\ 2 * usz <= UWORD /\ UWORD \in Nat /\ WORD \in Nat /\ 2 * WORD <= UWORD /\ WORD > 0
  BY ArgsAssumption DEF ArgInv
<1>2. a < usz /\ (a + WORD) % UWORD <= usz
  BY Zenon DEF FetchOk, Plus
<1>3. a + WORD \in Nat /\ a + WORD < UWORD
  BY <1>1, <1>2
<1>4. (a + WORD) % UWORD = a + WORD
  BY <1>1, <1>3, ModSmall, Zenon
<1>5. a \in 0 .. usz - 1
  BY <1>1, <1>2
<1>6. umem[a] \in Vals
  BY <1>5, Zenon DEF ArgInv
<1>. QED BY <1>1, <1>2, <1>4, <1>5, <1>6, ArgsAssumption, SMTT(30)

\* An argument is at an address.
LEMMA ArgAddrType ==
  ASSUME ArgInv, NEW n \in 0 .. 1
  PROVE  ArgAddr(n) \in 0 .. UWORD - 1
<1>1. esp + (WORD + WORD * n) \in Int /\ UWORD \in Nat /\ UWORD > 0
  BY ArgsAssumption, SMTT(30) DEF ArgInv
<1>. QED BY <1>1, ModRange, Zenon DEF ArgAddr, Plus

\* An int of a process taken for a uint, in either direction.
LEMMA UintValue ==
  ASSUME NEW i \in Vals
  PROVE  /\ i \in Int /\ Uint(i) \in Nat /\ Uint(i) < UWORD
         /\ i >= 0 => Uint(i) = i
         /\ i < 0 => 2 * Uint(i) >= UWORD
<1>1. i \in Int /\ -UWORD <= 2 * i /\ 2 * i < UWORD /\ UWORD \in Nat /\ UWORD > 0
  BY ArgsAssumption
<1>2. Uint(i) \in Nat /\ Uint(i) < UWORD
  BY <1>1, ModRange DEF Uint
<1>3. i >= 0 => Uint(i) = i
  BY <1>1, ModSmall DEF Uint
<1>4. ASSUME i < 0 PROVE Uint(i) = i + UWORD
  BY <1>1, <1>4, ModTurn, SMTT(30) DEF Uint
<1>. QED BY <1>1, <1>2, <1>3, <1>4, SMTT(30)

\* What argptr's test admits is a block inside the memory.
LEMMA PtrInside ==
  ASSUME ArgInv, NEW i \in Vals, NEW size \in Asked, PtrOk(i, size)
  PROVE  size \in Nat /\ Uint(i) \in Nat /\ Uint(i) + size <= usz
<1>1. usz \in Nat /\ 2 * usz <= UWORD /\ UWORD \in Nat /\ size \in Int /\ 2 * size < UWORD
  BY ArgsAssumption DEF ArgInv
<1>2. size >= 0 /\ Uint(i) < usz /\ (Uint(i) + size) % UWORD <= usz
  BY Zenon DEF PtrOk, Plus
<1>3. Uint(i) \in Nat
  BY UintValue, Zenon
<1>4. Uint(i) + size \in Nat /\ Uint(i) + size < UWORD
  BY <1>1, <1>2, <1>3
<1>5. (Uint(i) + size) % UWORD = Uint(i) + size
  BY <1>1, <1>4, ModSmall, Zenon
<1>. QED BY <1>1, <1>2, <1>3, <1>5, SMTT(30)

\* fetchstr finds the first 0, and that inside the memory, or none.
LEMMA StrInside ==
  ASSUME ArgInv, NEW s \in Nat
  PROVE  /\ StrLen(s) >= 0 => s + StrLen(s) \in Nat /\ s + StrLen(s) < usz /\ umem[s + StrLen(s)] = 0
         /\ ~(StrLen(s) >= 0) => \A t \in s .. usz - 1 : umem[t] # 0
<1>. DEFINE Z == {z \in s .. usz - 1 : umem[z] = 0}
            First(z) == umem[z] = 0 /\ \A t \in s .. z - 1 : umem[t] # 0
<1>0. usz \in Nat
  BY ArgsAssumption DEF ArgInv
<1>1. CASE Z = {}
  <2>1. StrLen(s) = -1
    BY <1>1, Zenon DEF StrLen
  <2>. QED BY <1>1, <2>1
<1>2. CASE Z # {}
  <2>1. PICK z \in Z : \A y \in Z : z <= y
    <3>1. Z \subseteq Nat
      BY <1>0
    <3>. QED BY <1>2, <3>1, LeastNatural, Zenon
  <2>2. z \in s .. usz - 1 /\ First(z)
    BY <1>0, <2>1
  <2>. DEFINE f == CHOOSE x \in s .. usz - 1 : First(x)
  <2>3. f \in s .. usz - 1 /\ First(f)
    BY <2>2, Zenon
  <2>4. StrLen(s) = f - s
    BY <2>2, Zenon DEF StrLen
  <2>. QED BY <1>0, <2>3, <2>4, SMTT(30)
<1>. QED BY <1>1, <1>2, Zenon

\* The arguments answer to ArgInv after every call.
LEMMA ArgTyped == ArgSpec => []ArgInv
<1>1. ArgInit => ArgInv
  BY SMTT(30) DEF ArgInit, ArgInv, Fetched
<1>2. ArgInv /\ [ArgNext]_argVars => ArgInv'
  <2>. SUFFICES ASSUME ArgInv, [ArgNext]_argVars PROVE ArgInv'
    BY Zenon
  <2>1. CASE UNCHANGED argVars
    BY <2>1, Zenon DEF ArgInv, argVars
  <2>2. CASE ArgNext
    <3>1. UNCHANGED <<usz, umem, esp, ofiles>>
      BY <2>2, Zenon DEF ArgNext
    <3>2. \E k \in {"int", "ptr", "str", "fd"}, b \in BOOLEAN : \E i, n, v : args' = Fetched(k, i, n, b, v)
      BY <2>2, Zenon DEF ArgNext, ArgInt, ArgPtr, ArgStr, ArgFd, FetchOk
    <3>. QED BY <3>1, <3>2 DEF ArgInv, Fetched
  <2>. QED BY <2>1, <2>2, Zenon
<1>. QED BY <1>1, <1>2, PTL DEF ArgSpec

\* A call that takes an argument leaves one that is inside the memory.
LEMMA StepInside ==
  ASSUME ArgInv, ArgNext PROVE ArgsInside'
<1>0. UNCHANGED <<usz, umem, esp, ofiles>>
  BY Zenon DEF ArgNext
<1>1. PICK n \in 0 .. 1 : ArgInt(n) \/ ArgStr(n) \/ ArgFd(n) \/ \E size \in Asked : ArgPtr(n, size)
  BY Zenon DEF ArgNext
<1>. DEFINE a == ArgAddr(n)
<1>2. a \in 0 .. UWORD - 1 /\ ArgAddr(n)' = a
  BY <1>0, ArgAddrType, Zenon DEF ArgAddr
<1>3. CASE ArgInt(n)
  <2>1. args' = Fetched("int", n, 0, FetchOk(a), IF FetchOk(a) THEN umem[a] ELSE 0)
    BY <1>3, Zenon DEF ArgInt
  <2>2. args'.ok => args'.kind = "int" /\ args'.arg = n /\ args'.val = umem[a] /\ a \in 0 .. usz - WORD
    BY <2>1, <1>2, FetchInside, Zenon DEF Fetched
  <2>. QED BY <1>0, <1>2, <2>2, Zenon DEF ArgsInside, ArgAddr, Plus
<1>4. CASE ArgStr(n)
  <2>. DEFINE s == Uint(umem[a])
  <2>1. args' = IF FetchOk(a) /\ s < usz /\ StrLen(s) >= 0
                THEN Fetched("str", n, StrLen(s), TRUE, s) ELSE Fetched("str", n, 0, FALSE, 0)
    BY <1>4, Zenon DEF ArgStr
  <2>2. CASE FetchOk(a) /\ s < usz /\ StrLen(s) >= 0
    <3>1. umem[a] \in Vals
      BY <1>2, <2>2, FetchInside, Zenon DEF ArgInv
    <3>2. s \in Nat
      BY <3>1, UintValue, Zenon
    <3>3. s + StrLen(s) < usz /\ umem[s + StrLen(s)] = 0
      BY <2>2, <3>2, StrInside, Zenon
    <3>4. args'.kind = "str" /\ args'.val = s /\ args'.n = StrLen(s)
      BY <2>1, <2>2, Zenon DEF Fetched
    <3>. QED BY <1>0, <3>3, <3>4, Zenon DEF ArgsInside
  <2>3. CASE ~(FetchOk(a) /\ s < usz /\ StrLen(s) >= 0)
    BY <2>1, <2>3, Zenon DEF ArgsInside, Fetched
  <2>. QED BY <2>2, <2>3, Zenon
<1>5. CASE ArgFd(n)
  BY <1>0, <1>5, Zenon DEF ArgFd, FdOk, ArgsInside, Fetched
<1>6. ASSUME NEW size \in Asked, ArgPtr(n, size) PROVE ArgsInside'
  <2>1. CASE FetchOk(a) /\ PtrOk(umem[a], size)
    <3>1. umem[a] \in Vals
      BY <1>2, <2>1, FetchInside, Zenon DEF ArgInv
    <3>2. size \in Nat /\ Uint(umem[a]) \in Nat /\ Uint(umem[a]) + size <= usz
      BY <2>1, <3>1, PtrInside, Zenon
    <3>3. args'.kind = "ptr" /\ args'.n = size /\ args'.val = Uint(umem[a])
      BY <1>6, <2>1, Zenon DEF ArgPtr, Fetched
    <3>. QED BY <1>0, <3>2, <3>3, SMTT(30) DEF ArgsInside
  <2>2. CASE ~(FetchOk(a) /\ PtrOk(umem[a], size))
    BY <1>6, <2>2, Zenon DEF ArgPtr, ArgsInside, Fetched
  <2>. QED BY <2>1, <2>2, Zenon
<1>. QED BY <1>1, <1>3, <1>4, <1>5, <1>6, Zenon

\* What fetchint's test refuses is not inside the memory.
LEMMA FetchOutside ==
  ASSUME ArgInv, NEW a \in 0 .. UWORD - 1, ~FetchOk(a)
  PROVE  a + WORD > usz
<1>1. usz \in Nat /\ 2 * usz <= UWORD /\ UWORD \in Nat /\ WORD \in Nat /\ 2 * WORD <= UWORD /\ WORD > 0
  BY ArgsAssumption DEF ArgInv
<1>2. CASE a >= usz
  BY <1>1, <1>2, SMTT(30)
<1>3. CASE a < usz
  <2>1. a + WORD \in Nat /\ a + WORD < UWORD
    BY <1>1, <1>3
  <2>2. (a + WORD) % UWORD = a + WORD
    BY <1>1, <2>1, ModSmall, Zenon
  <2>. QED BY <1>1, <1>3, <2>2, SMTT(30) DEF FetchOk, Plus
<1>. QED BY <1>1, <1>2, <1>3, SMTT(30)

\* What argptr's test refuses is not a block inside the memory.
LEMMA PtrOutside ==
  ASSUME ArgInv, NEW i \in Vals, NEW size \in Asked, ~PtrOk(i, size)
  PROVE  i < 0 \/ i >= usz \/ size < 0 \/ i + size > usz
<1>1. usz \in Nat /\ 2 * usz <= UWORD /\ UWORD \in Nat /\ size \in Int /\ 2 * size < UWORD
  BY ArgsAssumption, SMTT(30) DEF ArgInv
<1>2. SUFFICES ASSUME i >= 0, i < usz, size >= 0 PROVE i + size > usz
  BY <1>1, UintValue
<1>3. Uint(i) = i /\ i \in Nat
  BY <1>2, UintValue, Zenon
<1>4. i + size \in Nat /\ i + size < UWORD
  BY <1>1, <1>2, <1>3, SMTT(30)
<1>5. (i + size) % UWORD = i + size
  BY <1>1, <1>4, ModSmall, Zenon
<1>. QED BY <1>1, <1>2, <1>3, <1>5, SMTT(30) DEF PtrOk, Plus

\* A call that refuses an argument has a reason.
LEMMA StepComplete ==
  ASSUME ArgInv, ArgNext PROVE ArgsComplete'
<1>0. UNCHANGED <<usz, umem, esp, ofiles>>
  BY Zenon DEF ArgNext
<1>1. PICK n \in 0 .. 1 : ArgInt(n) \/ ArgStr(n) \/ ArgFd(n) \/ \E size \in Asked : ArgPtr(n, size)
  BY Zenon DEF ArgNext
<1>. DEFINE a == ArgAddr(n)
            Why == \/ a + WORD > usz
                   \/ args'.kind = "ptr" /\ (umem[a] < 0 \/ umem[a] >= usz
                                              \/ args'.n < 0 \/ umem[a] + args'.n > usz)
                   \/ args'.kind = "str" /\ (umem[a] < 0 \/ \A t \in umem[a] .. usz - 1 : umem[t] # 0)
                   \/ args'.kind = "fd" /\ umem[a] \notin ofiles
<1>2. a \in 0 .. UWORD - 1 /\ ArgAddr(n)' = a
  BY <1>0, ArgAddrType, Zenon DEF ArgAddr
<1>num. args'.arg = n
  <2>0. \A kind, size, ok, val : Fetched(kind, n, size, ok, val).arg = n
    BY Zenon DEF Fetched
  <2>1. ArgInt(n) => args'.arg = n
    BY <2>0, Zenon DEF ArgInt
  <2>2. ArgStr(n) => args'.arg = n
    BY <2>0, Zenon DEF ArgStr
  <2>3. ArgFd(n) => args'.arg = n
    BY <2>0, Zenon DEF ArgFd
  <2>4. \A size \in Asked : ArgPtr(n, size) => args'.arg = n
    BY <2>0, Zenon DEF ArgPtr
  <2>. QED BY <1>1, <2>1, <2>2, <2>3, <2>4, Zenon
<1>3. SUFFICES ASSUME ~args'.ok, FetchOk(a) PROVE Why
  BY <1>0, <1>2, <1>num, FetchOutside, Zenon DEF ArgsComplete
<1>4. umem[a] \in Vals /\ umem[a] \in Int
  BY <1>2, <1>3, FetchInside, Zenon DEF ArgInv
<1>5. CASE ArgInt(n)
  BY <1>3, <1>5, Zenon DEF ArgInt, Fetched
<1>6. CASE ArgStr(n)
  <2>. DEFINE s == Uint(umem[a])
  <2>1. ~(s < usz /\ StrLen(s) >= 0) /\ args'.kind = "str"
    BY <1>3, <1>6, Zenon DEF ArgStr, Fetched
  <2>2. CASE umem[a] >= 0
    <3>1. s = umem[a] /\ s \in Nat
      BY <1>4, <2>2, UintValue, Zenon
    <3>2. usz \in Nat
      BY ArgsAssumption, SMTT(30) DEF ArgInv
    <3>3. \A t \in s .. usz - 1 : umem[t] # 0
      BY <2>1, <3>1, <3>2, StrInside, SMTT(30)
    <3>. QED BY <2>1, <3>1, <3>3, Zenon
  <2>. QED BY <1>4, <2>1, <2>2, SMTT(30)
<1>7. CASE ArgFd(n)
  <2>1. ofiles \subseteq 0 .. Fds - 1 /\ Fds \in Nat
    BY ArgsAssumption, Zenon DEF ArgInv
  <2>2. ~FdOk(umem[a]) /\ args'.kind = "fd"
    BY <1>3, <1>7, Zenon DEF ArgFd, Fetched
  <2>3. umem[a] \notin ofiles
    BY <1>4, <2>1, <2>2, SMTT(30) DEF FdOk
  <2>. QED BY <2>2, <2>3, Zenon
<1>8. ASSUME NEW size \in Asked, ArgPtr(n, size) PROVE Why
  <2>1. ~PtrOk(umem[a], size) /\ args'.kind = "ptr" /\ args'.n = size
    BY <1>3, <1>8, Zenon DEF ArgPtr, Fetched
  <2>. QED BY <1>4, <2>1, PtrOutside, Zenon
<1>. QED BY <1>1, <1>5, <1>6, <1>7, <1>8, Zenon

\* Whatever address a system call is given, and whatever width addresses have,
\* what fetchint, argptr, fetchstr and argfd admit lies in the process's memory
\* and its open files: no sum of uints that wraps around is taken for one that
\* does not.
THEOREM ArgumentsInside == ArgSpec => []ArgsInside
<1>1. ArgInit => ArgsInside
  BY DEF ArgInit, ArgsInside, Fetched
<1>2. ArgInv /\ ArgsInside /\ [ArgNext]_argVars => ArgsInside'
  <2>. SUFFICES ASSUME ArgInv, ArgsInside, [ArgNext]_argVars PROVE ArgsInside'
    BY Zenon
  <2>1. CASE UNCHANGED argVars
    BY <2>1, Zenon DEF argVars, ArgsInside, ArgAddr, Plus
  <2>. QED BY <2>1, StepInside, Zenon
<1>. QED BY <1>1, <1>2, ArgTyped, PTL DEF ArgSpec

\* And nothing that lies in the memory of the process is refused.
THEOREM ArgumentsComplete == ArgSpec => []ArgsComplete
<1>1. ArgInit => ArgsComplete
  BY SMTT(30) DEF ArgInit, ArgsComplete, Fetched
<1>2. ArgInv /\ ArgsComplete /\ [ArgNext]_argVars => ArgsComplete'
  <2>. SUFFICES ASSUME ArgInv, ArgsComplete, [ArgNext]_argVars PROVE ArgsComplete'
    BY Zenon
  <2>1. CASE UNCHANGED argVars
    BY <2>1, Zenon DEF argVars, ArgsComplete, ArgAddr, Plus
  <2>. QED BY <2>1, StepComplete, Zenon
<1>. QED BY <1>1, <1>2, ArgTyped, PTL DEF ArgSpec

\* The tests of the arguments accept what they should and nothing else, for
\* every address space, argument and word of every width.
THEOREM ArgumentsExact == ArgSpec => []ArgsExact
BY ArgumentsInside, ArgumentsComplete, PTL DEF ArgsExact

-----------------------------------------------------------------------------
(***************************************************************************)
(* System calls: the counters of a process and the time it sleeps.         *)
(***************************************************************************)
Naps == [on : BOOLEAN, t0 : 0 .. Ticks - 1, n : Int, passed : Nat]

SysTypes ==
  /\ cells \in [Proc -> [Cells -> Nat]] /\ calls \in [Proc -> [1 .. Calls -> Nat]]
  /\ used \subseteq Proc /\ ticks \in 0 .. Ticks - 1 /\ nap \in [Proc -> Naps]
  /\ told = [p \in Proc |-> told[p]]

\* The entries of sys_count are the counts of the process that has the slot.
EntryInv == \A p \in used, n \in 1 .. SYS_cn : cells[p][n - 1] = calls[p][n]

\* What sys_sleep's loop computes is the time that has passed.
NapInv == \A p \in Proc : nap[p].on => nap[p].passed = (ticks - nap[p].t0) % Ticks

SysInv == SysTypes /\ EntryInv /\ NapInv /\ CountsOwn

\* syscall() counts a call where getcount looks for it.
LEMMA CountedKeeps ==
  ASSUME SysTypes, EntryInv, NEW p \in Proc, NEW num \in 1 .. Calls, Counted(p, num),
         UNCHANGED used
  PROVE  /\ cells' \in [Proc -> [Cells -> Nat]] /\ calls' \in [Proc -> [1 .. Calls -> Nat]]
         /\ EntryInv'
<1>a. PICK c : c = [cells[p] EXCEPT ![num - 1] = @ + 1]
  BY Zenon
<1>b. PICK d : d = [calls[p] EXCEPT ![num] = @ + 1]
  BY Zenon
<1>1. cells' = [cells EXCEPT ![p] = c] /\ calls' = [calls EXCEPT ![p] = d]
  BY <1>a, <1>b, Zenon DEF Counted
<1>c. /\ cells \in [Proc -> [Cells -> Nat]] /\ calls \in [Proc -> [1 .. Calls -> Nat]]
      /\ cells[p] \in [Cells -> Nat] /\ calls[p] \in [1 .. Calls -> Nat]
  BY Zenon DEF SysTypes
<1>2. c \in [Cells -> Nat] /\ d \in [1 .. Calls -> Nat]
  <2>1. c = [k \in Cells |-> IF k = num - 1 THEN cells[p][k] + 1 ELSE cells[p][k]]
    BY <1>a, <1>c, Zenon
  <2>2. d = [k \in 1 .. Calls |-> IF k = num THEN calls[p][k] + 1 ELSE calls[p][k]]
    BY <1>b, <1>c, Zenon
  <2>. QED BY <2>1, <2>2, <1>c, SMTT(30)
<1>3. /\ cells' \in [Proc -> [Cells -> Nat]] /\ calls' \in [Proc -> [1 .. Calls -> Nat]]
      /\ cells'[p] = c /\ calls'[p] = d
      /\ \A q \in Proc \ {p} : cells'[q] = cells[q] /\ calls'[q] = calls[q]
  BY <1>1, <1>2, <1>c, Zenon
<1>4. ASSUME NEW n \in 1 .. SYS_cn, p \in used
      PROVE  c[n - 1] = d[n]
  <2>1. n \in 1 .. Calls /\ n - 1 \in Cells /\ cells[p][n - 1] = calls[p][n]
    BY <1>4, SyscallAssumption DEF Cells, EntryInv
  <2>2. CASE n = num
    <3>1. n - 1 = num - 1
      BY <2>2, Zenon
    <3>2. c[n - 1] = cells[p][n - 1] + 1
      BY <1>a, <1>c, <2>1, <3>1, Zenon
    <3>3. d[n] = calls[p][n] + 1
      BY <1>b, <1>c, <2>1, <2>2, Zenon
    <3>. QED BY <2>1, <3>2, <3>3, Zenon
  <2>3. CASE n # num
    <3>1. n - 1 # num - 1
      BY <2>3, SyscallAssumption
    <3>2. c[n - 1] = cells[p][n - 1]
      BY <1>a, <1>c, <2>1, <3>1, Zenon
    <3>3. d[n] = calls[p][n]
      BY <1>b, <1>c, <2>1, <2>3, Zenon
    <3>. QED BY <2>1, <3>2, <3>3, Zenon
  <2>. QED BY <2>2, <2>3, Zenon
<1>5. EntryInv'
  <2>. SUFFICES ASSUME NEW q \in used, NEW n \in 1 .. SYS_cn
                PROVE  cells'[q][n - 1] = calls'[q][n]
    BY Zenon DEF EntryInv
  <2>1. CASE q = p
    BY <2>1, <1>3, <1>4, Zenon
  <2>2. CASE q # p
    BY <2>2, <1>3, Zenon DEF EntryInv, SysTypes
  <2>. QED BY <2>1, <2>2, Zenon
<1>. QED BY <1>3, <1>5, Zenon

LEMMA SysInitInv ==
  ASSUME SysInit
  PROVE  SysInv
<1>. USE SyscallAssumption DEF SysInit
<1>1. Awake \in Naps /\ Awake.on = FALSE
  BY DEF Awake, Naps
<1>2. SysTypes
  BY <1>1 DEF SysTypes
<1>3. EntryInv
  BY Zenon DEF EntryInv
<1>4. NapInv
  BY <1>1, Zenon DEF NapInv
<1>5. CountsOwn
  BY Zenon DEF CountsOwn, Nothing
<1>. QED BY <1>2, <1>3, <1>4, <1>5, Zenon DEF SysInv

\* Sleeps go on and everything that getcount uses stays.
LEMMA SameSleeps ==
  ASSUME NapInv, UNCHANGED <<ticks, nap>>
  PROVE  NapInv'
BY Zenon DEF NapInv

LEMMA SysStepInv ==
  ASSUME SysInv, [SysNext]_sysVars
  PROVE  SysInv'
<1>. USE SyscallAssumption DEF SysInv
<1>1. ASSUME NEW p \in Proc, AllocprocCells(p)
      PROVE  SysInv'
  <2>a. PICK c : c = [k \in Cells |-> IF k < SYS_cn THEN 0 ELSE cells[p][k]]
    BY Zenon
  <2>b. PICK d : d = [n \in 1 .. Calls |-> 0]
    BY Zenon
  <2>1. /\ used' = used \cup {p} /\ cells' = [cells EXCEPT ![p] = c]
        /\ calls' = [calls EXCEPT ![p] = d] /\ UNCHANGED <<ticks, nap, told>>
    BY <1>1, <2>a, <2>b, Zenon DEF AllocprocCells
  <2>2. c \in [Cells -> Nat] /\ d \in [1 .. Calls -> Nat]
    BY <2>a, <2>b, SMTT(30) DEF SysTypes, Cells
  <2>3. \A n \in 1 .. SYS_cn : c[n - 1] = 0 /\ d[n] = 0
    BY <2>a, <2>b DEF Cells
  <2>4. SysTypes'
    BY <2>1, <2>2, Zenon DEF SysTypes
  <2>5. EntryInv'
    <3>. SUFFICES ASSUME NEW q \in used', NEW n \in 1 .. SYS_cn
                  PROVE  cells'[q][n - 1] = calls'[q][n]
      BY Zenon DEF EntryInv
    <3>1. CASE q = p
      BY <3>1, <2>1, <2>3, Zenon DEF SysTypes
    <3>2. CASE q # p
      BY <3>2, <2>1, Zenon DEF EntryInv, SysTypes
    <3>. QED BY <3>1, <3>2, Zenon
  <2>6. NapInv'
    BY <2>1, SameSleeps, Zenon
  <2>7. CountsOwn'
    BY <2>1, Zenon DEF CountsOwn
  <2>. QED BY <2>4, <2>5, <2>6, <2>7, Zenon
<1>2. ASSUME NEW p \in Proc, Leave(p)
      PROVE  SysInv'
  <2>1. /\ used' = used \ {p} /\ told' = [told EXCEPT ![p] = Nothing]
        /\ UNCHANGED <<cells, calls, ticks, nap>>
    BY <1>2, Zenon DEF Leave
  <2>2. SysTypes' /\ EntryInv'
    BY <2>1, Zenon DEF SysTypes, EntryInv
  <2>3. CountsOwn'
    BY <2>1, Zenon DEF SysTypes, CountsOwn, Nothing
  <2>. QED BY <2>1, <2>2, <2>3, SameSleeps, Zenon
<1>3. ASSUME NEW p \in Proc, SleepReturns(p)
      PROVE  SysInv'
  <2>0. Awake \in Naps /\ Awake.on = FALSE
    BY DEF Awake, Naps
  <2>1. nap' = [nap EXCEPT ![p] = Awake] /\ UNCHANGED <<cells, calls, used, ticks, told>>
    BY <1>3, Zenon DEF SleepReturns
  <2>2. nap'[p] = Awake /\ \A q \in Proc \ {p} : nap'[q] = nap[q]
    BY <2>1, Zenon DEF SysTypes
  <2>3. SysTypes' /\ EntryInv' /\ CountsOwn'
    BY <2>0, <2>1, Zenon DEF SysTypes, EntryInv, CountsOwn
  <2>4. NapInv'
    BY <2>0, <2>1, <2>2, Zenon DEF NapInv
  <2>. QED BY <2>3, <2>4, Zenon
<1>4. ASSUME NEW p \in Proc, NEW num \in 1 .. Calls, Call(p, num)
      PROVE  SysInv'
  <2>1. Counted(p, num) /\ told' = [told EXCEPT ![p] = Nothing] /\ UNCHANGED <<used, ticks, nap>>
    BY <1>4, Zenon DEF Call
  <2>2. /\ cells' \in [Proc -> [Cells -> Nat]] /\ calls' \in [Proc -> [1 .. Calls -> Nat]]
        /\ EntryInv'
    BY <2>1, CountedKeeps, Zenon
  <2>3. SysTypes'
    BY <2>1, <2>2, Zenon DEF SysTypes
  <2>4. CountsOwn'
    BY <2>1, Zenon DEF SysTypes, CountsOwn, Nothing
  <2>. QED BY <2>1, <2>2, <2>3, <2>4, SameSleeps, Zenon
<1>5. ASSUME NEW p \in Proc, NEW n \in 1 .. Calls, Getcount(p, n)
      PROVE  SysInv'
  <2>a. PICK r : r = [of |-> n, count |-> calls'[p][n], is |-> cells'[p][n - 1]]
    BY Zenon
  <2>1. /\ p \in used /\ Counted(p, SYS_getcount) /\ told' = [told EXCEPT ![p] = r]
        /\ UNCHANGED <<used, ticks, nap>>
    BY <1>5, <2>a, Zenon DEF Getcount, Runs
  <2>2. /\ cells' \in [Proc -> [Cells -> Nat]] /\ calls' \in [Proc -> [1 .. Calls -> Nat]]
        /\ EntryInv'
    BY <2>1, CountedKeeps, Zenon
  <2>3. SysTypes'
    BY <2>1, <2>2, Zenon DEF SysTypes
  <2>4. r.of \in 1 .. SYS_cn => r.is = r.count
    BY <2>a, <2>1, <2>2, Zenon DEF EntryInv
  <2>5. told'[p] = r /\ \A q \in Proc \ {p} : told'[q] = told[q]
    BY <2>1, Zenon DEF SysTypes
  <2>6. CountsOwn'
    BY <2>4, <2>5, Zenon DEF CountsOwn
  <2>. QED BY <2>1, <2>2, <2>3, <2>6, SameSleeps, Zenon
<1>6. ASSUME NEW p \in Proc, NEW q \in Proc, NEW v \in Priorities, Chpr(p, q, v)
      PROVE  SysInv'
  <2>1. UNCHANGED <<cells, calls, used, ticks, nap, told>>
    BY <1>6, Zenon DEF Chpr
  <2>. QED BY <2>1, SameSleeps, Zenon DEF SysTypes, EntryInv, CountsOwn
<1>7. ASSUME NEW p \in Proc, NEW n \in Lengths, Sleeps(p, n)
      PROVE  SysInv'
  <2>a. PICK r : r = [on |-> TRUE, t0 |-> ticks, n |-> n, passed |-> 0]
    BY Zenon
  <2>1. nap' = [nap EXCEPT ![p] = r] /\ UNCHANGED <<cells, calls, used, ticks, told>>
    BY <1>7, <2>a, Zenon DEF Sleeps
  <2>2. r \in Naps /\ r.passed = 0 /\ r.t0 = ticks
    BY <2>a, Zenon DEF Naps, SysTypes
  <2>3. nap'[p] = r /\ \A q \in Proc \ {p} : nap'[q] = nap[q]
    BY <2>1, Zenon DEF SysTypes
  <2>4. SysTypes' /\ EntryInv' /\ CountsOwn'
    BY <2>1, <2>2, Zenon DEF SysTypes, EntryInv, CountsOwn
  <2>5. (ticks - ticks) % Ticks = 0
    BY DistIs, SMTT(30) DEF SysTypes
  <2>6. NapInv'
    BY <2>1, <2>2, <2>3, <2>5, SMTT(30) DEF NapInv
  <2>. QED BY <2>4, <2>6, Zenon
<1>8. ASSUME SysTick
      PROVE  SysInv'
  <2>1. /\ \A p \in Proc : nap[p].passed < Ticks - 1
        /\ ticks' = (ticks + 1) % Ticks /\ UNCHANGED <<cells, calls, used, told>>
        /\ nap' = [p \in Proc |-> IF nap[p].on THEN [nap[p] EXCEPT !.passed = @ + 1] ELSE nap[p]]
    BY <1>8, Zenon DEF SysTick
  <2>2. ticks' \in 0 .. Ticks - 1
    BY <2>1, ModRange, SMTT(30) DEF SysTypes
  <2>3. ASSUME NEW p \in Proc
        PROVE  /\ nap'[p] \in Naps
               /\ nap'[p].on => nap'[p].passed = (ticks' - nap'[p].t0) % Ticks
    <3>0. nap[p] \in Naps
      BY Zenon DEF SysTypes
    <3>1. CASE nap[p].on
      <4>1. nap'[p] = [nap[p] EXCEPT !.passed = @ + 1]
        BY <2>1, <3>1, Zenon
      <4>2. nap'[p] \in Naps /\ nap'[p].t0 = nap[p].t0 /\ nap'[p].passed = nap[p].passed + 1
        BY <3>0, <4>1, SMTT(30) DEF Naps
      <4>3. nap[p].passed = (ticks - nap[p].t0) % Ticks
        BY <3>1, Zenon DEF NapInv
      <4>a. PICK a \in 0 .. Ticks - 1 : a = nap[p].t0
        BY <3>0, Zenon DEF Naps
      <4>b. ticks \in 0 .. Ticks - 1
        BY Zenon DEF SysTypes
      <4>4. ((ticks - a) % Ticks) + 1 < Ticks
        BY <2>1, <3>0, <4>3, <4>a, SMTT(30) DEF Naps
      <4>c. PICK k \in Nat : k = 1
        BY Zenon
      <4>d. ((ticks - a) % Ticks) + k < Ticks
        BY <4>4, <4>c, Zenon
      <4>5. (((ticks + k) % Ticks) - a) % Ticks = ((ticks - a) % Ticks) + k
        BY <4>b, <4>d, DistUp, SMTT(30)
      <4>. QED BY <2>1, <4>2, <4>3, <4>5, <4>a, <4>c, Zenon
    <3>2. CASE ~nap[p].on
      <4>1. nap'[p] = nap[p]
        BY <2>1, <3>2, Zenon
      <4>. QED BY <3>0, <3>2, <4>1, Zenon
    <3>. QED BY <3>1, <3>2, Zenon
  <2>4. nap' \in [Proc -> Naps]
    BY <2>1, <2>3, Zenon
  <2>5. SysTypes' /\ EntryInv' /\ CountsOwn'
    BY <2>1, <2>2, <2>4, Zenon DEF SysTypes, EntryInv, CountsOwn
  <2>6. NapInv'
    BY <2>3, Zenon DEF NapInv
  <2>. QED BY <2>5, <2>6, Zenon
<1>9. CASE UNCHANGED sysVars
  BY <1>9, SameSleeps, Zenon DEF sysVars, SysTypes, EntryInv, CountsOwn
<1>. QED BY <1>1, <1>2, <1>3, <1>4, <1>5, <1>6, <1>7, <1>8, <1>9, ZenonT(30) DEF SysNext

\* A sleep ends where sys_sleep's loop does.
LEMMA SleepEnds ==
  ASSUME SysInv, [SysNext]_sysVars, NEW p \in Proc, nap[p].on, ~nap'[p].on
  PROVE  nap[p].passed >= nap[p].n % Ticks
<1>0. nap \in [Proc -> Naps]
  BY Zenon DEF SysInv, SysTypes
<1>1. SleepReturns(p)
  <2>1. ASSUME NEW q \in Proc, SleepReturns(q)
        PROVE  SleepReturns(p)
    <3>1. nap' = [nap EXCEPT ![q] = Awake]
      BY <2>1, Zenon DEF SleepReturns
    <3>2. q = p
      BY <1>0, <3>1, Zenon
    <3>. QED BY <2>1, <3>2, Zenon
  <2>2. ASSUME NEW q \in Proc, NEW n \in Lengths, Sleeps(q, n)
        PROVE  FALSE
    <3>1. /\ ~nap[q].on
          /\ nap' = [nap EXCEPT ![q] = [on |-> TRUE, t0 |-> ticks, n |-> n, passed |-> 0]]
      BY <2>2, Zenon DEF Sleeps
    <3>2. p # q
      BY <3>1, Zenon
    <3>. QED BY <1>0, <3>1, <3>2, Zenon
  <2>3. ASSUME SysTick
        PROVE  FALSE
    <3>1. nap'[p] = [nap[p] EXCEPT !.passed = @ + 1]
      BY <2>3, Zenon DEF SysTick
    <3>2. nap'[p].on = nap[p].on
      BY <1>0, <3>1, Zenon DEF Naps
    <3>. QED BY <3>2, Zenon
  <2>4. nap' # nap
    BY Zenon
  <2>. QED BY <2>1, <2>2, <2>3, <2>4, Zenon DEF SysNext, sysVars, AllocprocCells, Leave, Call, Getcount, Chpr
<1>2. Slept(p)
  BY <1>1, Zenon DEF SleepReturns
<1>. QED BY <1>2, Zenon DEF Slept, SysInv, NapInv

\* getcount tells a process how often it has made a call, whatever an earlier
\* process in its slot did, and sleep(n) returns after n ticks and not before,
\* also over the wrap-around of ticks.
THEOREM CallsExact == SysSpec => SyscallsExact
<1>1. SysInit => SysInv
  BY SysInitInv, Zenon
<1>2. SysInv /\ [SysNext]_sysVars => SysInv'
  BY SysStepInv, Zenon
<1>3. SysInv => CountsOwn
  BY Zenon DEF SysInv
<1>4. SysInv /\ [SysNext]_sysVars =>
        [\A p \in Proc : nap[p].on /\ ~nap'[p].on => nap[p].passed >= nap[p].n % Ticks]_sysVars
  BY SleepEnds, Zenon
<1>. QED BY <1>1, <1>2, <1>3, <1>4, PTL DEF SysSpec, SyscallsExact, SleepsLong
=============================================================================
