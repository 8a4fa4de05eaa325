----------------------------- MODULE FileProofs -----------------------------
(***************************************************************************)
(* Proofs about File for every number of processes, files, descriptors and *)
(* pipes, of programs that call dup2 with two different open descriptors.  *)
(***************************************************************************)
EXTENDS File, TLAPS

\* Every step of a call, and the lists of steps that are left of one.
Steps ==
  [op : {"openfd", "pipefile", "close"}, f : FileIds]
  \cup [op : {"opentype"}, f : FileIds, fd : FD]
  \cup [op : {"pipepage"}, f : FileIds, g : FileIds]
  \cup [op : {"pipeclose"}, pipe : Pipes, writable : BOOLEAN]
  \cup [op : {"iput"}]
  \cup [op : {"dup"}, oldfd : FD, newfd : FD]
Todos ==
  {<<>>} \cup {<<s>> : s \in Steps}
  \cup {<<s, t>> : s \in {x \in Steps : x.op \in {"close", "pipeclose", "iput"}},
                   t \in {x \in Steps : x.op \in {"close", "dup"}}}

\* A file that a call has taken from the table and not yet filled in: nobody
\* else has a reference to it.
Fresh(f) == ref[f] = 1 /\ type[f] = "FD_NONE"

\* What a pending step relies on.
Justified(p, s) ==
  /\ s.op \in {"openfd", "opentype", "pipefile"} => Fresh(s.f)
  /\ s.op = "opentype" => ofile[p][s.fd] = s.f
  /\ s.op = "pipepage" => s.f # s.g /\ Fresh(s.f) /\ Fresh(s.g)
  /\ s.op = "dup" => s.oldfd # s.newfd /\ ofile[p][s.oldfd] # NULL

\* A call that closes two files closes two different ones.
Apart(s, t) == s.op = "close" /\ t.op = "close" => s.f # t.f

StepInv ==
  \A p \in Process :
    /\ \A s \in Pending(p) : Justified(p, s)
    /\ \A s, t \in Steps : todo[p] = <<s, t>> => Apart(s, t)

\* The processes that have still to close an end of a pipe, or to put an inode.
Closers(q, w) == {p \in Process : PipeCloseStep(q, w) \in Pending(p)}
Putters == {p \in Process : IputStep \in Pending(p)}

\* An end of a pipe has one owner, a file or the closer of that file.
OneOwner ==
  /\ \A f \in FileIds : type[f] = "FD_PIPE" => pipe[f] \in Pipes
  /\ \A f \in FileIds, q \in Pipes, w \in BOOLEAN :
       type[f] = "FD_PIPE" /\ pipe[f] = q /\ writable[f] = w => Closers(q, w) = {}
  /\ \A f, g \in FileIds :
       type[f] = "FD_PIPE" /\ type[g] = "FD_PIPE" /\ pipe[f] = pipe[g] /\ writable[f] = writable[g]
         => f = g
  /\ \A q \in Pipes, w \in BOOLEAN : \A p, r \in Closers(q, w) : p = r

\* A file without references is not in use.
FreeUnused == \A f \in FileIds : ref[f] = 0 => type[f] = "FD_NONE"

FileInv ==
  /\ TypeOK /\ todo \in [Process -> Todos]
  /\ StepInv /\ RefCount /\ FreeUnused
  /\ FdValid /\ PipeEnds /\ OneOwner /\ InodeRefs
  /\ NoPanic

-----------------------------------------------------------------------------
(***************************************************************************)
(* Counting.                                                               *)
(***************************************************************************)
\* What the proofs use of finite sets and their sizes.  Counted, below, derives
\* it from the theorems of FiniteSetTheorems.
Counting ==
  /\ Cardinality({}) = 0
  /\ \A x : IsFiniteSet({x}) /\ Cardinality({x}) = 1
  /\ \A S : IsFiniteSet(S) => /\ Cardinality(S) \in Nat
                              /\ Cardinality(S) = 0 <=> S = {}
                              /\ Cardinality(S) = 1 <=> \E x : S = {x}
                              /\ \A T \in SUBSET S : IsFiniteSet(T)
  /\ \A S, x : IsFiniteSet(S) /\ x \notin S
       => IsFiniteSet(S \cup {x}) /\ Cardinality(S \cup {x}) = Cardinality(S) + 1
  /\ \A S, x : IsFiniteSet(S) /\ x \in S
       => IsFiniteSet(S \ {x}) /\ Cardinality(S \ {x}) = Cardinality(S) - 1
  /\ \A a, b \in Int : IsFiniteSet(a .. b)
  /\ \A S, T : IsFiniteSet(S) /\ IsFiniteSet(T)
       => /\ IsFiniteSet(S \X T) /\ Cardinality(S \X T) = Cardinality(S) * Cardinality(T)
          /\ Cardinality(S \cup T) = Cardinality(S) + Cardinality(T) - Cardinality(S \cap T)

LEMMA Plus ==
  ASSUME Counting, NEW S, NEW T, NEW x, IsFiniteSet(S), x \notin S, T = S \cup {x}
  PROVE  IsFiniteSet(T) /\ Cardinality(T) = Cardinality(S) + 1
BY Zenon DEF Counting

LEMMA Minus ==
  ASSUME Counting, NEW S, NEW T, NEW x, IsFiniteSet(S), x \in S, T = S \ {x}
  PROVE  IsFiniteSet(T) /\ Cardinality(T) = Cardinality(S) - 1
BY Zenon DEF Counting

LEMMA None0 ==
  ASSUME Counting
  PROVE  Cardinality({}) = 0
BY Zenon DEF Counting

LEMMA One1 ==
  ASSUME Counting, NEW x
  PROVE  IsFiniteSet({x}) /\ Cardinality({x}) = 1
BY Zenon DEF Counting

LEMMA Size ==
  ASSUME Counting, NEW S, IsFiniteSet(S)
  PROVE  /\ Cardinality(S) \in Nat
         /\ Cardinality(S) = 0 <=> S = {}
         /\ Cardinality(S) = 1 <=> \E x : S = {x}
BY Zenon DEF Counting

LEMMA Subsets ==
  ASSUME Counting, NEW S, IsFiniteSet(S), NEW T \in SUBSET S
  PROVE  IsFiniteSet(T) /\ Cardinality(T) \in Nat
BY Zenon DEF Counting

LEMMA Interval ==
  ASSUME Counting, NEW a \in Int, NEW b \in Int
  PROVE  IsFiniteSet(a .. b)
BY Zenon DEF Counting

LEMMA Pairs ==
  ASSUME Counting, NEW S, NEW T, IsFiniteSet(S), IsFiniteSet(T)
  PROVE  /\ IsFiniteSet(S \X T) /\ Cardinality(S \X T) = Cardinality(S) * Cardinality(T)
         /\ Cardinality(S \cup T) = Cardinality(S) + Cardinality(T) - Cardinality(S \cap T)
<1>1. \A U, V : IsFiniteSet(U) /\ IsFiniteSet(V)
        => /\ IsFiniteSet(U \X V) /\ Cardinality(U \X V) = Cardinality(U) * Cardinality(V)
           /\ Cardinality(U \cup V) = Cardinality(U) + Cardinality(V) - Cardinality(U \cap V)
  BY Zenon DEF Counting
<1>. QED BY <1>1, Zenon

LEMMA RefsFinite ==
  ASSUME Counting, NEW f
  PROVE  /\ IsFiniteSet(Descriptors(f)) /\ Cardinality(Descriptors(f)) \in Nat
         /\ IsFiniteSet(Held(f)) /\ Cardinality(Held(f)) \in Nat
<1>1. IsFiniteSet(FD)
  BY FileAssumption, Interval DEF FD
<1>2. IsFiniteSet(Process \X FD)
  BY <1>1, FileAssumption, Pairs, Zenon
<1>3. Descriptors(f) \in SUBSET (Process \X FD) /\ Held(f) \in SUBSET Process
  BY Zenon DEF Descriptors, Held
<1>. QED BY <1>2, <1>3, FileAssumption, Subsets, Zenon

\* Who holds a reference is counted.
LEMMA Referenced ==
  ASSUME Counting, FileInv, NEW f \in FileIds
  PROVE  /\ Held(f) # {} => ref[f] >= 1
         /\ Descriptors(f) # {} => ref[f] >= 1
         /\ ref[f] = 0 => Held(f) = {} /\ Descriptors(f) = {}
         /\ \A p \in Held(f) : ref[f] = 1 => Held(f) = {p} /\ Descriptors(f) = {}
<1>1. ref[f] = Cardinality(Descriptors(f)) + Cardinality(Held(f)) /\ ref[f] \in Nat
  BY Zenon DEF FileInv, RefCount, TypeOK
<1>2. Descriptors(f) # {} => Cardinality(Descriptors(f)) >= 1
  BY RefsFinite, Size
<1>3. Held(f) # {} => Cardinality(Held(f)) >= 1
  BY RefsFinite, Size
<1>4. ASSUME NEW p \in Held(f), ref[f] = 1
      PROVE  Held(f) = {p} /\ Descriptors(f) = {}
  <2>1. Cardinality(Held(f)) = 1 /\ Cardinality(Descriptors(f)) = 0
    BY <1>1, <1>3, <1>4, RefsFinite
  <2>2. Descriptors(f) = {}
    BY <2>1, RefsFinite, Size, Zenon
  <2>3. \E x : Held(f) = {x}
    BY <2>1, RefsFinite, Size, Zenon
  <2>. QED BY <2>2, <2>3, <1>4, Zenon
<1>. QED BY <1>1, <1>2, <1>3, <1>4, RefsFinite

-----------------------------------------------------------------------------
(***************************************************************************)
(* Lists of steps.                                                         *)
(***************************************************************************)
PendingOf(t) == {t[i] : i \in DOMAIN t}

LEMMA ListOfNone == PendingOf(<<>>) = {}
BY DEF PendingOf

LEMMA ListOfOne ==
  ASSUME NEW s
  PROVE  PendingOf(<<s>>) = {s} /\ Head(<<s>>) = s /\ Tail(<<s>>) = <<>> /\ <<s>> # <<>>
BY DEF PendingOf

LEMMA ListOfTwo ==
  ASSUME NEW s, NEW t
  PROVE  PendingOf(<<s, t>>) = {s, t} /\ Head(<<s, t>>) = s /\ Tail(<<s, t>>) = <<t>> /\ <<s, t>> # <<>>
BY DEF PendingOf

LEMMA SameSeq ==
  ASSUME NEW S, NEW s \in Seq(S), NEW t \in Seq(S),
         Len(s) = Len(t), \A i \in 1 .. Len(s) : s[i] = t[i]
  PROVE  s = t
OBVIOUS

LEMMA Joined ==
  ASSUME NEW a, NEW b
  PROVE  /\ <<>> \o <<>> = <<>> /\ <<>> \o <<a>> = <<a>> /\ <<a>> \o <<>> = <<a>>
         /\ <<a>> \o <<b>> = <<a, b>> /\ <<a, b>> \o <<>> = <<a, b>>
<1>. DEFINE S == {a, b}
<1>1. <<>> \in Seq(S) /\ <<a>> \in Seq(S) /\ <<b>> \in Seq(S) /\ <<a, b>> \in Seq(S)
  OBVIOUS
<1>2. /\ <<a>> \o <<b>> \in Seq(S) /\ Len(<<a>> \o <<b>>) = 2
      /\ (<<a>> \o <<b>>)[1] = a /\ (<<a>> \o <<b>>)[2] = b
  BY <1>1
<1>3. Len(<<a, b>>) = 2 /\ \A i \in 1 .. 2 : (<<a>> \o <<b>>)[i] = <<a, b>>[i]
  BY <1>2
<1>4. <<a>> \o <<b>> = <<a, b>>
  <2>. HIDE DEF S
  <2>. QED BY <1>1, <1>2, <1>3, SameSeq, Zenon
<1>. QED BY <1>1, <1>4

\* Only the list of the process that takes the step changes.
LEMMA ListMoves ==
  ASSUME NEW p \in Process, NEW t, todo \in [Process -> Todos], todo' = [todo EXCEPT ![p] = t]
  PROVE  Pending(p)' = PendingOf(t) /\ \A r \in Process \ {p} : Pending(r)' = Pending(r)
BY Zenon DEF Pending, PendingOf

-----------------------------------------------------------------------------
(***************************************************************************)
(* What a step leaves alone.                                               *)
(***************************************************************************)

\* Pipes and inodes are not touched, nor are the closers of either.
LEMMA ObjectsKept ==
  ASSUME PipeEnds, OneOwner, InodeRefs, UNCHANGED <<type, pipe, writable, ends, irefs, opening>>,
         \A q \in Pipes, w \in BOOLEAN : Closers(q, w)' = Closers(q, w),
         Putters' = Putters, writable \in [FileIds -> BOOLEAN]
  PROVE  PipeEnds' /\ OneOwner' /\ InodeRefs'
<1>1. PipeEnds'
  <2>. SUFFICES ASSUME NEW q \in Pipes, NEW w \in BOOLEAN
                PROVE  (IF w THEN "write" ELSE "read") \in ends[q] <=>
                         \/ \E f \in FileIds : type[f] = "FD_PIPE" /\ pipe[f] = q /\ writable[f] = w
                         \/ Closers(q, w)' # {}
    BY Zenon DEF PipeEnds, Closers
  <2>. QED BY Zenon DEF PipeEnds, Closers
<1>2. OneOwner'
  BY DEF OneOwner
<1>3. InodeRefs'
  BY Zenon DEF InodeRefs, Putters
<1>. QED BY <1>1, <1>2, <1>3, Zenon

\* The steps of one process change, and none of them closes an end or puts an inode.
LEMMA ClosersKept ==
  ASSUME NEW p \in Process,
         \A r \in Process \ {p} : Pending(r)' = Pending(r),
         \A s \in Pending(p) \cup Pending(p)' : s.op \notin {"pipeclose", "iput"}
  PROVE  (\A q \in Pipes, w \in BOOLEAN : Closers(q, w)' = Closers(q, w)) /\ Putters' = Putters
<1>1. \A q, w : PipeCloseStep(q, w).op = "pipeclose"
  BY Zenon DEF PipeCloseStep
<1>2. IputStep.op = "iput"
  BY Zenon DEF IputStep
<1>. QED BY <1>1, <1>2, Zenon DEF Closers, Putters

\* Likewise if no file becomes or ceases to be the file of a pipe.
LEMMA EndsKept ==
  ASSUME PipeEnds, OneOwner, UNCHANGED <<pipe, writable, ends>>,
         \A f \in FileIds : type'[f] = "FD_PIPE" <=> type[f] = "FD_PIPE",
         \A q \in Pipes, w \in BOOLEAN : Closers(q, w)' = Closers(q, w),
         writable \in [FileIds -> BOOLEAN]
  PROVE  PipeEnds' /\ OneOwner'
<1>1. PipeEnds'
  <2>. SUFFICES ASSUME NEW q \in Pipes, NEW w \in BOOLEAN
                PROVE  (IF w THEN "write" ELSE "read") \in ends[q] <=>
                         \/ \E f \in FileIds : type'[f] = "FD_PIPE" /\ pipe[f] = q /\ writable[f] = w
                         \/ Closers(q, w)' # {}
    BY Zenon DEF PipeEnds, Closers
  <2>. QED BY Zenon DEF PipeEnds, Closers
<1>2. OneOwner'
  BY DEF OneOwner
<1>. QED BY <1>1, <1>2, Zenon

LEMMA InodesFinite ==
  ASSUME Counting
  PROVE  /\ IsFiniteSet({f \in FileIds : type[f] = "FD_INODE"})
         /\ Cardinality({f \in FileIds : type[f] = "FD_INODE"}) \in Nat
         /\ IsFiniteSet(Putters) /\ Cardinality(Putters) \in Nat
         /\ \A S \in SUBSET Process : IsFiniteSet(S) /\ Cardinality(S) \in Nat
<1>1. IsFiniteSet(FileIds)
  BY FileAssumption, Interval DEF FileIds
<1>2. {f \in FileIds : type[f] = "FD_INODE"} \in SUBSET FileIds /\ Putters \in SUBSET Process
  BY Zenon DEF Putters
<1>. QED BY <1>1, <1>2, FileAssumption, Subsets, Zenon

\* open gets the inode, or puts it.
Booking ==
  \/ irefs' = irefs /\ opening' = opening
  \/ \E p \in Process :
       \/ p \notin opening /\ irefs' = irefs + 1 /\ opening' = opening \cup {p}
       \/ p \in opening /\ irefs' = irefs - 1 /\ opening' = opening \ {p}

LEMMA Booked ==
  ASSUME Counting, FileInv, Booking, type' = type, Putters' = Putters
  PROVE  irefs' \in Nat /\ opening' \subseteq Process /\ InodeRefs'
<1>. DEFINE S == {f \in FileIds : type[f] = "FD_INODE"}
<1>1. opening \in SUBSET Process
  BY Zenon DEF FileInv, TypeOK
<1>2. /\ Cardinality(S) \in Nat /\ Cardinality(Putters) \in Nat
      /\ IsFiniteSet(opening) /\ Cardinality(opening) \in Nat
  BY <1>1, InodesFinite, Zenon
<1>3. irefs = Cardinality(S) + Cardinality(Putters) + Cardinality(opening)
  BY Zenon DEF FileInv, InodeRefs, Putters
<1>. HIDE DEF S
<1>4. /\ irefs' \in Nat /\ opening' \subseteq Process
      /\ irefs' = Cardinality(S) + Cardinality(Putters) + Cardinality(opening')
  <2>1. CASE irefs' = irefs /\ opening' = opening
    BY <1>1, <1>2, <1>3, <2>1
  <2>2. ASSUME NEW p \in Process, p \notin opening, irefs' = irefs + 1, opening' = opening \cup {p}
        PROVE  <1>4!:
    <3>1. Cardinality(opening') = Cardinality(opening) + 1
      BY <1>2, <2>2, Plus, Zenon
    <3>2. opening' \subseteq Process
      BY <1>1, <2>2, Zenon
    <3>. QED BY <1>2, <1>3, <2>2, <3>1, <3>2
  <2>3. ASSUME NEW p \in Process, p \in opening, irefs' = irefs - 1, opening' = opening \ {p}
        PROVE  <1>4!:
    <3>1. opening' \in SUBSET Process
      BY <1>1, <2>3, Zenon
    <3>2. Cardinality(opening') = Cardinality(opening) - 1 /\ Cardinality(opening') \in Nat
      BY <1>2, <2>3, <3>1, InodesFinite, Minus, Zenon
    <3>. QED BY <1>2, <1>3, <2>3, <3>1, <3>2
  <2>. QED BY <2>1, <2>2, <2>3, Zenon DEF Booking
<1>. QED BY <1>4, Zenon DEF InodeRefs, Putters, S

\* The files of pending steps are entries of the table.
LEMMA StepFiles ==
  ASSUME todo \in [Process -> Todos], NEW r \in Process, NEW x \in Pending(r)
  PROVE  /\ x \in Steps
         /\ x.op \in {"openfd", "opentype", "pipefile", "close"} => x.f \in FileIds
         /\ x.op = "pipepage" => x.f \in FileIds /\ x.g \in FileIds
<1>1. todo[r] \in Todos /\ x \in PendingOf(todo[r])
  BY Zenon DEF Pending, PendingOf
<1>2. x \in Steps
  <2>1. CASE todo[r] = <<>>
    BY <1>1, <2>1, ListOfNone, Zenon
  <2>2. ASSUME NEW y \in Steps, todo[r] = <<y>>
        PROVE  x \in Steps
    BY <1>1, <2>2, ListOfOne, Zenon
  <2>3. ASSUME NEW y \in Steps, NEW z \in Steps, todo[r] = <<y, z>>
        PROVE  x \in Steps
    <3>1. PendingOf(<<y, z>>) = {y, z}
      BY ListOfTwo, Zenon
    <3>. QED BY <1>1, <2>3, <3>1, Zenon
  <2>. QED BY <1>1, <2>1, <2>2, <2>3 DEF Todos
<1>. QED BY <1>2, Zenon DEF Steps

-----------------------------------------------------------------------------
(***************************************************************************)
(* open and pipe take a file from the table.                               *)
(***************************************************************************)
LEMMA Taken ==
  ASSUME Counting, FileInv, NEW p \in Process, todo[p] = <<>>, NEW f \in FileIds, ref[f] = 0,
         NEW s \in Steps, s.op \in {"openfd", "pipefile"}, s.f = f,
         ref' = [ref EXCEPT ![f] = 1], todo' = [todo EXCEPT ![p] = <<s>>],
         Booking, UNCHANGED <<type, pipe, writable, ends, ofile, alive, panic>>
  PROVE  FileInv'
<1>1. /\ Pending(p) = {} /\ Pending(p)' = {s}
      /\ \A r \in Process \ {p} : Pending(r)' = Pending(r)
  BY ListMoves, ListOfNone, ListOfOne DEF FileInv, Pending, PendingOf
<1>b. (\A q \in Pipes, w \in BOOLEAN : Closers(q, w)' = Closers(q, w)) /\ Putters' = Putters
  BY <1>1, ClosersKept, Zenon
<1>c. irefs' \in Nat /\ opening' \subseteq Process /\ InodeRefs'
  BY <1>b, Booked, Zenon
<1>2. TypeOK' /\ todo' \in [Process -> Todos]
  BY <1>c DEF FileInv, TypeOK, Todos
<1>3. \A r \in Process, fd \in FD : Replaced(r, fd)' <=> Replaced(r, fd)
  BY <1>1, Zenon DEF Replaced
<1>4. \A g \in FileIds : Descriptors(g)' = Descriptors(g)
  BY <1>3, Zenon DEF Descriptors
<1>5. \A g \in FileIds \ {f} : Held(g)' = Held(g)
  BY <1>1 DEF Held, Holds
<1>6. Held(f)' = {p} /\ Held(f) = {} /\ Descriptors(f) = {}
  <2>1. Held(f) = {} /\ Descriptors(f) = {}
    BY Referenced, Zenon
  <2>. QED BY <1>1, <2>1 DEF Held, Holds
<1>7. RefCount'
  <2>1. ASSUME NEW g \in FileIds \ {f}
        PROVE  ref'[g] = Cardinality(Descriptors(g)') + Cardinality(Held(g)')
    BY <1>4, <1>5, Zenon DEF FileInv, RefCount, TypeOK
  <2>2. Cardinality(Descriptors(f)') = 0 /\ Cardinality(Held(f)') = 1
    BY <1>4, <1>6, None0, One1, Zenon
  <2>3. ref'[f] = Cardinality(Descriptors(f)') + Cardinality(Held(f)')
    BY <2>2 DEF FileInv, TypeOK
  <2>. QED BY <2>1, <2>3, Zenon DEF RefCount
<1>8. StepInv'
  <2>1. type[f] = "FD_NONE"
    BY Zenon DEF FileInv, FreeUnused
  <2>2. Justified(p, s)'
    BY <2>1, Zenon DEF Justified, Fresh, FileInv, TypeOK
  <2>3. ASSUME NEW r \in Process \ {p}, NEW x \in Pending(r)
        PROVE  Justified(r, x)'
    BY DEF Justified, Fresh, FileInv, StepInv, TypeOK
  <2>4. \A r \in Process : \A x, y \in Steps : todo'[r] = <<x, y>> => Apart(x, y)
    BY Zenon DEF FileInv, StepInv
  <2>. QED BY <1>1, <2>2, <2>3, <2>4 DEF StepInv, Apart
<1>9. FreeUnused'
  BY Zenon DEF FileInv, FreeUnused, TypeOK
<1>10. FdValid'
  BY <1>3, Zenon DEF FileInv, FdValid
<1>11. PipeEnds' /\ OneOwner'
  BY <1>b, EndsKept, Zenon DEF FileInv, TypeOK
<1>. QED BY <1>c, <1>2, <1>7, <1>8, <1>9, <1>10, <1>11, Zenon DEF FileInv, NoPanic

\* What is left of a call that has taken a file: one step.
LEMMA Alone ==
  ASSUME FileInv, NEW p \in Process, NEW op \in {"openfd", "opentype", "pipefile", "pipepage", "dup"}, Doing(p, op)
  PROVE  /\ Head(todo[p]) \in Steps /\ Head(todo[p]).op = op
         /\ todo[p] = <<Head(todo[p])>> /\ Tail(todo[p]) = <<>>
         /\ Pending(p) = {Head(todo[p])}
<1>1. todo[p] \in Todos /\ todo[p] # <<>> /\ Head(todo[p]).op = op
  BY Zenon DEF FileInv, Doing
<1>2. PICK x \in Steps : todo[p] = <<x>>
  <2>1. ASSUME NEW x \in Steps, NEW y \in Steps, x.op \in {"close", "pipeclose", "iput"},
               todo[p] = <<x, y>>
        PROVE  FALSE
    BY <1>1, <2>1
  <2>. QED BY <1>1, <2>1 DEF Todos
<1>. QED BY <1>1, <1>2, ListOfOne DEF Pending, PendingOf

\* A table without room, or descriptors without room: fileclose comes next.
LEMMA GivenUp ==
  ASSUME FileInv, NEW p \in Process, NEW s \in Steps, todo[p] = <<s>>, Pending(p) = {s},
         s.op \in {"openfd", "pipefile"}, todo' = [todo EXCEPT ![p] = <<CloseStep(s.f)>>],
         UNCHANGED <<ref, type, pipe, writable, ends, irefs, opening, ofile, alive, panic>>
  PROVE  FileInv'
<1>. DEFINE c == CloseStep(s.f)
<1>0. c \in Steps /\ c.op = "close" /\ c.f = s.f /\ s.f \in FileIds
  BY Zenon DEF CloseStep, Steps
<1>. HIDE DEF c
<1>1. Pending(p)' = {c} /\ \A r \in Process \ {p} : Pending(r)' = Pending(r)
  BY ListMoves, ListOfOne, Zenon DEF FileInv, c
<1>2. TypeOK' /\ todo' \in [Process -> Todos]
  BY <1>0 DEF FileInv, TypeOK, Todos, c
<1>3. \A r \in Process, fd \in FD : Replaced(r, fd)' <=> Replaced(r, fd)
  BY <1>0, <1>1, Zenon DEF Replaced
<1>4. \A g \in FileIds : Descriptors(g)' = Descriptors(g)
  BY <1>3, Zenon DEF Descriptors
<1>5. \A g \in FileIds : Held(g)' = Held(g)
  BY <1>0, <1>1 DEF Held, Holds
<1>6. RefCount'
  BY <1>4, <1>5, Zenon DEF FileInv, RefCount
<1>7. StepInv'
  <2>1. Justified(p, c)'
    BY <1>0, Zenon DEF Justified
  <2>2. ASSUME NEW r \in Process \ {p}, NEW x \in Pending(r)
        PROVE  Justified(r, x)'
    BY Zenon DEF Justified, Fresh, FileInv, StepInv
  <2>3. \A r \in Process : \A x, y \in Steps : todo'[r] = <<x, y>> => Apart(x, y)
    BY Zenon DEF FileInv, StepInv
  <2>. QED BY <1>1, <2>1, <2>2, <2>3 DEF StepInv, Apart
<1>8. FreeUnused'
  BY Zenon DEF FileInv, FreeUnused
<1>9. FdValid'
  BY <1>3, Zenon DEF FileInv, FdValid
<1>10. PipeEnds' /\ OneOwner' /\ InodeRefs'
  <2>1. (\A q \in Pipes, w \in BOOLEAN : Closers(q, w)' = Closers(q, w)) /\ Putters' = Putters
    BY <1>0, <1>1, ClosersKept, Zenon
  <2>. QED BY <2>1, ObjectsKept, Zenon DEF FileInv, TypeOK
<1>. QED BY <1>2, <1>6, <1>7, <1>8, <1>9, <1>10, Zenon DEF FileInv, NoPanic

\* open installs its file, which is still fresh.
LEMMA Installed ==
  ASSUME FileInv, NEW p \in Process, NEW s \in Steps, todo[p] = <<s>>, Pending(p) = {s},
         s.op = "openfd", NEW fd \in FD, ofile[p][fd] = NULL,
         ofile' = [ofile EXCEPT ![p][fd] = s.f],
         todo' = [todo EXCEPT ![p] = <<OpenTypeStep(s.f, fd)>>],
         UNCHANGED <<ref, type, pipe, writable, ends, irefs, opening, alive, panic>>
  PROVE  FileInv'
<1>. DEFINE c == OpenTypeStep(s.f, fd)
<1>0. c \in Steps /\ c.op = "opentype" /\ c.f = s.f /\ c.fd = fd /\ s.f \in FileIds
  BY Zenon DEF OpenTypeStep, Steps
<1>. HIDE DEF c
<1>1. Pending(p)' = {c} /\ \A r \in Process \ {p} : Pending(r)' = Pending(r)
  BY ListMoves, ListOfOne, Zenon DEF FileInv, c
<1>2. TypeOK' /\ todo' \in [Process -> Todos]
  BY <1>0 DEF FileInv, TypeOK, Todos, c
<1>3. /\ \A r \in Process, a \in FD : <<r, a>> # <<p, fd>> => (Replaced(r, a)' <=> Replaced(r, a))
      /\ Replaced(p, fd)'
  <2>1. \A r \in Process, a \in FD : r # p => (Replaced(r, a)' <=> Replaced(r, a))
    BY <1>1, Zenon DEF Replaced
  <2>2. \A a \in FD : ~Replaced(p, a) /\ (Replaced(p, a)' <=> a = fd)
    BY <1>0, <1>1, Zenon DEF Replaced
  <2>. QED BY <2>1, <2>2, Zenon
<1>4. /\ \A r \in Process, a \in FD : <<r, a>> # <<p, fd>> => ofile'[r][a] = ofile[r][a]
      /\ \A r \in Process \ {p} : ofile'[r] = ofile[r]
      /\ ofile'[p][fd] = s.f
  BY Zenon DEF FileInv, TypeOK
<1>5. ASSUME NEW g \in FileIds
      PROVE  Descriptors(g)' = Descriptors(g)
  <2>1. <<p, fd>> \notin Descriptors(g)
    BY DEF Descriptors, FileIds, NULL
  <2>2. <<p, fd>> \notin Descriptors(g)'
    BY <1>3, Zenon DEF Descriptors
  <2>3. ASSUME NEW r \in Process, NEW a \in FD, <<r, a>> # <<p, fd>>
        PROVE  <<r, a>> \in Descriptors(g)' <=> <<r, a>> \in Descriptors(g)
    BY <1>3, <1>4, <2>3 DEF Descriptors
  <2>4. Descriptors(g)' \subseteq Process \X FD /\ Descriptors(g) \subseteq Process \X FD
    BY Zenon DEF Descriptors
  <2>. QED BY <2>1, <2>2, <2>3, <2>4
<1>6. \A g \in FileIds : Held(g)' = Held(g)
  BY <1>0, <1>1 DEF Held, Holds
<1>7. RefCount'
  BY <1>5, <1>6, Zenon DEF FileInv, RefCount
<1>8. StepInv'
  <2>1. Justified(p, c)'
    <3>1. Fresh(s.f)
      BY Zenon DEF FileInv, StepInv, Justified
    <3>2. Fresh(c.f)' /\ ofile'[p][c.fd] = c.f
      BY <1>0, <1>4, <3>1, Zenon DEF Fresh
    <3>. QED BY <1>0, <3>2, Zenon DEF Justified
  <2>2. ASSUME NEW r \in Process \ {p}, NEW x \in Pending(r)
        PROVE  Justified(r, x)'
    <3>1. Justified(r, x)
      BY Zenon DEF FileInv, StepInv
    <3>2. ofile'[r] = ofile[r] /\ \A f : Fresh(f)' <=> Fresh(f)
      BY <1>4, Zenon DEF Fresh
    <3>. QED BY <3>1, <3>2, Zenon DEF Justified
  <2>3. \A r \in Process : \A x, y \in Steps : todo'[r] = <<x, y>> => Apart(x, y)
    BY Zenon DEF FileInv, StepInv
  <2>. QED BY <1>1, <2>1, <2>2, <2>3 DEF StepInv, Apart
<1>9. FreeUnused'
  BY Zenon DEF FileInv, FreeUnused
<1>10. FdValid'
  BY <1>3, <1>4, ZenonT(30) DEF FileInv, FdValid
<1>11. PipeEnds' /\ OneOwner' /\ InodeRefs'
  <2>1. (\A q \in Pipes, w \in BOOLEAN : Closers(q, w)' = Closers(q, w)) /\ Putters' = Putters
    BY <1>0, <1>1, ClosersKept, Zenon
  <2>. QED BY <2>1, ObjectsKept, Zenon DEF FileInv, TypeOK
<1>. QED BY <1>2, <1>7, <1>8, <1>9, <1>10, <1>11, Zenon DEF FileInv, NoPanic

\* open fills in its file, and the inode is the file's from now on.
LEMMA Opened ==
  ASSUME Counting, FileInv, NEW p \in Process, NEW s \in Steps, todo[p] = <<s>>, Pending(p) = {s},
         s.op = "opentype", p \in opening, type' = [type EXCEPT ![s.f] = "FD_INODE"],
         opening' = opening \ {p}, todo' = [todo EXCEPT ![p] = <<>>],
         UNCHANGED <<ref, pipe, writable, ends, irefs, ofile, alive, panic>>
  PROVE  FileInv'
<1>. DEFINE f == s.f
            fd == s.fd
<1>0. f \in FileIds /\ f # NULL /\ fd \in FD /\ ofile[p][fd] = f
  <2>1. f \in FileIds /\ f # NULL /\ fd \in FD
    BY DEF Steps, FileIds, NULL
  <2>. QED BY <2>1, Zenon DEF FileInv, StepInv, Justified
<1>1. Pending(p)' = {} /\ \A r \in Process \ {p} : Pending(r)' = Pending(r)
  BY ListMoves, ListOfNone, Zenon DEF FileInv
<1>2. TypeOK' /\ todo' \in [Process -> Todos]
  BY <1>0 DEF FileInv, TypeOK, Todos
<1>3. /\ \A r \in Process, a \in FD : <<r, a>> # <<p, fd>> => (Replaced(r, a)' <=> Replaced(r, a))
      /\ Replaced(p, fd) /\ ~Replaced(p, fd)'
  <2>1. \A r \in Process, a \in FD : r # p => (Replaced(r, a)' <=> Replaced(r, a))
    BY <1>1, Zenon DEF Replaced
  <2>2. \A a \in FD : ~Replaced(p, a)' /\ (Replaced(p, a) <=> a = fd)
    BY <1>0, <1>1, Zenon DEF Replaced
  <2>. QED BY <1>0, <2>1, <2>2, Zenon
<1>4. Fresh(f) /\ Held(f) = {p} /\ Descriptors(f) = {}
  <2>1. Fresh(f)
    BY Zenon DEF FileInv, StepInv, Justified
  <2>2. p \in Held(f)
    BY Zenon DEF Held, Holds
  <2>. QED BY <1>0, <2>1, <2>2, Referenced, Zenon DEF Fresh
<1>. HIDE DEF f, fd
<1>5. \A g \in FileIds \ {f} : Descriptors(g)' = Descriptors(g) /\ Held(g)' = Held(g)
  <2>2. ASSUME NEW g \in FileIds \ {f}
        PROVE  Descriptors(g)' = Descriptors(g)
    BY <1>0, <1>3, Zenon DEF Descriptors
  <2>3. ASSUME NEW g \in FileIds \ {f}
        PROVE  Held(g)' = Held(g)
    BY <1>1, Zenon DEF Held, Holds, f
  <2>. QED BY <2>2, <2>3, Zenon
<1>6. Held(f)' = {} /\ Descriptors(f)' = {<<p, fd>>}
  <2>1. Held(f)' = {}
    BY <1>1, <1>4, Zenon DEF Held
  <2>3. <<p, fd>> \in Descriptors(f)'
    BY <1>0, <1>3, Zenon DEF Descriptors
  <2>5. \A x \in Descriptors(f)' : x = <<p, fd>>
    BY <1>3, <1>4 DEF Descriptors
  <2>. QED BY <2>1, <2>3, <2>5, Zenon
<1>7. RefCount'
  <2>1. ASSUME NEW g \in FileIds \ {f}
        PROVE  ref'[g] = Cardinality(Descriptors(g)') + Cardinality(Held(g)')
    BY <1>5, Zenon DEF FileInv, RefCount
  <2>2. Cardinality(Descriptors(f)') = 1 /\ Cardinality(Held(f)') = 0
    BY <1>6, None0, One1, Zenon
  <2>3. ref'[f] = Cardinality(Descriptors(f)') + Cardinality(Held(f)')
    BY <1>4, <2>2 DEF Fresh
  <2>. QED BY <2>1, <2>3, Zenon DEF RefCount
<1>8. StepInv'
  <2>1. ASSUME NEW r \in Process \ {p}, NEW x \in Pending(r)
        PROVE  Justified(r, x)'
    <3>1. ~Holds(x, f)
      BY <1>4, Zenon DEF Held
    <3>2. Justified(r, x)
      BY Zenon DEF FileInv, StepInv
    <3>3. ofile'[r] = ofile[r] /\ \A g \in FileIds \ {f} : type'[g] = type[g]
      BY Zenon DEF FileInv, TypeOK, f
    <3>. QED BY <3>1, <3>2, <3>3, StepFiles, Zenon DEF Justified, Fresh, Holds, FileInv
  <2>2. \A r \in Process : \A x, y \in Steps : todo'[r] = <<x, y>> => Apart(x, y)
    BY Zenon DEF FileInv, StepInv
  <2>. QED BY <1>1, <2>1, <2>2, ZenonT(30) DEF StepInv, Apart
<1>9. FreeUnused'
  BY <1>4 DEF FileInv, FreeUnused, TypeOK, Fresh, f
<1>10. FdValid'
  <2>. SUFFICES ASSUME NEW r \in Process, NEW a \in FD, ofile'[r][a] # NULL, ~Replaced(r, a)'
                PROVE  type'[ofile'[r][a]] # "FD_NONE"
    BY Zenon DEF FdValid
  <2>1. CASE <<r, a>> = <<p, fd>>
    BY <1>0, <2>1, Zenon DEF FileInv, TypeOK, f
  <2>2. CASE <<r, a>> # <<p, fd>>
    <3>1. ofile'[r][a] = ofile[r][a] /\ ~Replaced(r, a) /\ ofile[r][a] \in FileIds
      BY <1>3, <2>2 DEF FileInv, TypeOK
    <3>2. type[ofile[r][a]] # "FD_NONE"
      BY <3>1, Zenon DEF FileInv, FdValid
    <3>. QED BY <3>1, <3>2, Zenon DEF FileInv, TypeOK
  <2>. QED BY <2>1, <2>2, Zenon
<1>11. (\A q \in Pipes, w \in BOOLEAN : Closers(q, w)' = Closers(q, w)) /\ Putters' = Putters
  BY <1>1, ClosersKept, Zenon
<1>12. PipeEnds' /\ OneOwner'
  <2>1. \A g \in FileIds : type'[g] = "FD_PIPE" <=> type[g] = "FD_PIPE"
    BY <1>4, Zenon DEF Fresh, FileInv, TypeOK, f
  <2>. QED BY <2>1, <1>11, EndsKept, Zenon DEF FileInv, TypeOK
<1>13. InodeRefs'
  <2>. DEFINE S == {g \in FileIds : type[g] = "FD_INODE"}
  <2>1. S' = S \cup {f} /\ f \notin S
    BY <1>0, <1>4, Zenon DEF Fresh, FileInv, TypeOK, f
  <2>a. opening \in SUBSET Process
    BY Zenon DEF FileInv, TypeOK
  <2>2. /\ IsFiniteSet(S) /\ Cardinality(S) \in Nat /\ Cardinality(Putters) \in Nat
        /\ IsFiniteSet(opening) /\ Cardinality(opening) \in Nat
    BY <2>a, InodesFinite, Zenon
  <2>3. Cardinality(S') = Cardinality(S) + 1
    <3>. HIDE DEF S
    <3>. QED BY <2>1, <2>2, Plus, Zenon
  <2>b. Cardinality(opening') = Cardinality(opening) - 1
    BY <2>2, Minus, Zenon
  <2>4. irefs = Cardinality(S) + Cardinality(Putters) + Cardinality(opening)
    BY Zenon DEF FileInv, InodeRefs, Putters
  <2>5. irefs' = Cardinality(S') + Cardinality(Putters') + Cardinality(opening')
    BY <1>11, <2>2, <2>3, <2>b, <2>4
  <2>. QED BY <2>5, Zenon DEF InodeRefs, Putters
<1>. QED BY <1>2, <1>7, <1>8, <1>9, <1>10, <1>12, <1>13, Zenon DEF FileInv, NoPanic

\* pipe takes a second file.
LEMMA TakenSecond ==
  ASSUME Counting, FileInv, NEW p \in Process, NEW s \in Steps, todo[p] = <<s>>, Pending(p) = {s},
         s.op = "pipefile", NEW g \in FileIds, ref[g] = 0,
         ref' = [ref EXCEPT ![g] = 1], todo' = [todo EXCEPT ![p] = <<PipePageStep(s.f, g)>>],
         UNCHANGED <<type, pipe, writable, ends, irefs, opening, ofile, alive, panic>>
  PROVE  FileInv'
<1>. DEFINE c == PipePageStep(s.f, g)
<1>0. c \in Steps /\ c.op = "pipepage" /\ c.f = s.f /\ c.g = g /\ s.f \in FileIds
  BY Zenon DEF PipePageStep, Steps
<1>. HIDE DEF c
<1>1. Pending(p)' = {c} /\ \A r \in Process \ {p} : Pending(r)' = Pending(r)
  BY ListMoves, ListOfOne, Zenon DEF FileInv, c
<1>2. TypeOK' /\ todo' \in [Process -> Todos]
  BY <1>0 DEF FileInv, TypeOK, Todos, c
<1>3. \A r \in Process, fd \in FD : Replaced(r, fd)' <=> Replaced(r, fd)
  BY <1>0, <1>1, Zenon DEF Replaced
<1>4. \A h \in FileIds : Descriptors(h)' = Descriptors(h)
  BY <1>3, Zenon DEF Descriptors
<1>5. Fresh(s.f) /\ s.f # g
  BY DEF FileInv, StepInv, Justified, Fresh
<1>6. Held(g) = {} /\ Descriptors(g) = {}
  BY Referenced, Zenon
<1>7. \A h \in FileIds \ {g} : Held(h)' = Held(h)
  BY <1>0, <1>1 DEF Held, Holds
<1>8. Held(g)' = {p}
  BY <1>0, <1>1, <1>6 DEF Held, Holds
<1>9. RefCount'
  <2>1. ASSUME NEW h \in FileIds \ {g}
        PROVE  ref'[h] = Cardinality(Descriptors(h)') + Cardinality(Held(h)')
    BY <1>4, <1>7, Zenon DEF FileInv, RefCount, TypeOK
  <2>2. Cardinality(Descriptors(g)') = 0 /\ Cardinality(Held(g)') = 1
    BY <1>4, <1>6, <1>8, None0, One1, Zenon
  <2>3. ref'[g] = Cardinality(Descriptors(g)') + Cardinality(Held(g)')
    BY <2>2 DEF FileInv, TypeOK
  <2>. QED BY <2>1, <2>3, Zenon DEF RefCount
<1>10. StepInv'
  <2>1. Justified(p, c)'
    BY <1>0, <1>5, Zenon DEF Justified, Fresh, FileInv, FreeUnused, TypeOK
  <2>2. ASSUME NEW r \in Process \ {p}, NEW x \in Pending(r)
        PROVE  Justified(r, x)'
    BY DEF Justified, Fresh, FileInv, StepInv, TypeOK
  <2>3. \A r \in Process : \A x, y \in Steps : todo'[r] = <<x, y>> => Apart(x, y)
    BY Zenon DEF FileInv, StepInv
  <2>. QED BY <1>1, <2>1, <2>2, <2>3 DEF StepInv, Apart
<1>11. FreeUnused'
  BY Zenon DEF FileInv, FreeUnused, TypeOK
<1>12. FdValid'
  BY <1>3, Zenon DEF FileInv, FdValid
<1>13. PipeEnds' /\ OneOwner' /\ InodeRefs'
  <2>1. (\A q \in Pipes, w \in BOOLEAN : Closers(q, w)' = Closers(q, w)) /\ Putters' = Putters
    BY <1>0, <1>1, ClosersKept, Zenon
  <2>. QED BY <2>1, ObjectsKept, Zenon DEF FileInv, TypeOK
<1>. QED BY <1>2, <1>9, <1>10, <1>11, <1>12, <1>13, Zenon DEF FileInv, NoPanic

-----------------------------------------------------------------------------
(***************************************************************************)
(* pipe has both files.                                                    *)
(***************************************************************************)

\* The files are fresh, and the process is the only one that has them.
LEMMA BothFresh ==
  ASSUME Counting, FileInv, NEW p \in Process, NEW s \in Steps, Pending(p) = {s}, s.op = "pipepage"
  PROVE  /\ s.f \in FileIds /\ s.g \in FileIds /\ s.f # s.g /\ Fresh(s.f) /\ Fresh(s.g)
         /\ Held(s.f) = {p} /\ Held(s.g) = {p}
         /\ Descriptors(s.f) = {} /\ Descriptors(s.g) = {}
<1>1. s.f \in FileIds /\ s.g \in FileIds
  BY Zenon DEF Steps
<1>2. s.f # s.g /\ Fresh(s.f) /\ Fresh(s.g)
  BY Zenon DEF FileInv, StepInv, Justified
<1>3. p \in Held(s.f) /\ p \in Held(s.g)
  BY Zenon DEF Held, Holds
<1>. QED BY <1>1, <1>2, <1>3, Referenced, Zenon DEF Fresh

\* The steps of others do not need a file that p alone has.
LEMMA OthersJustified ==
  ASSUME FileInv, NEW p \in Process, NEW F \in SUBSET FileIds,
         \A f \in F : Held(f) \subseteq {p},
         \A f \in FileIds \ F : ref'[f] = ref[f] /\ type'[f] = type[f],
         \A r \in Process \ {p} : ofile'[r] = ofile[r],
         NEW r \in Process \ {p}, NEW x \in Pending(r)
  PROVE  Justified(r, x)'
<1>1. \A f \in F : ~Holds(x, f)
  BY Zenon DEF Held
<1>2. Justified(r, x)
  BY Zenon DEF FileInv, StepInv
<1>3. /\ x.op \in {"openfd", "opentype", "pipefile", "close"} => x.f \in FileIds
      /\ x.op = "pipepage" => x.f \in FileIds /\ x.g \in FileIds
  BY StepFiles, Zenon DEF FileInv
<1>. QED BY <1>1, <1>2, <1>3, Zenon DEF Justified, Fresh, Holds

\* A page was found: both ends of a pipe get their file.
LEMMA PipeObjects ==
  ASSUME FileInv, NEW rf \in FileIds, NEW wf \in FileIds, rf # wf, Fresh(rf), Fresh(wf),
         NEW q \in Pipes, ends[q] = {},
         ends' = [ends EXCEPT ![q] = {"read", "write"}],
         type' = [type EXCEPT ![rf] = "FD_PIPE", ![wf] = "FD_PIPE"],
         pipe' = [pipe EXCEPT ![rf] = q, ![wf] = q],
         writable' = [writable EXCEPT ![rf] = FALSE, ![wf] = TRUE],
         irefs' = irefs, opening' = opening,
         \A k \in Pipes, w \in BOOLEAN : Closers(k, w)' = Closers(k, w), Putters' = Putters
  PROVE  PipeEnds' /\ OneOwner' /\ InodeRefs'
<1>1. /\ \A w \in BOOLEAN : Closers(q, w) = {}
      /\ \A f \in FileIds : type[f] = "FD_PIPE" => pipe[f] # q
  <2>1. ASSUME NEW w \in BOOLEAN
        PROVE  Closers(q, w) = {} /\ \A f \in FileIds : ~(type[f] = "FD_PIPE" /\ pipe[f] = q /\ writable[f] = w)
    BY Zenon DEF FileInv, PipeEnds, Closers
  <2>. QED BY <2>1, Zenon DEF FileInv, TypeOK
<1>2. /\ type'[rf] = "FD_PIPE" /\ pipe'[rf] = q /\ writable'[rf] = FALSE
      /\ type'[wf] = "FD_PIPE" /\ pipe'[wf] = q /\ writable'[wf] = TRUE
      /\ \A f \in FileIds \ {rf, wf} :
           type'[f] = type[f] /\ pipe'[f] = pipe[f] /\ writable'[f] = writable[f]
      /\ type[rf] = "FD_NONE" /\ type[wf] = "FD_NONE"
  BY Zenon DEF FileInv, TypeOK, Fresh
<1>3. /\ ends'[q] = {"read", "write"} /\ \A k \in Pipes \ {q} : ends'[k] = ends[k]
  BY Zenon DEF FileInv, TypeOK
<1>4. PipeEnds'
  <2>. SUFFICES ASSUME NEW k \in Pipes, NEW w \in BOOLEAN
                PROVE  (IF w THEN "write" ELSE "read") \in ends'[k] <=>
                         \/ \E f \in FileIds : type'[f] = "FD_PIPE" /\ pipe'[f] = k /\ writable'[f] = w
                         \/ Closers(k, w)' # {}
    BY Zenon DEF PipeEnds, Closers
  <2>1. CASE k = q
    BY <1>2, <1>3, <2>1, Zenon
  <2>2. CASE k # q
    <3>1. (\E f \in FileIds : type'[f] = "FD_PIPE" /\ pipe'[f] = k /\ writable'[f] = w)
          <=> (\E f \in FileIds : type[f] = "FD_PIPE" /\ pipe[f] = k /\ writable[f] = w)
      BY <1>2, <2>2, ZenonT(30)
    <3>2. (IF w THEN "write" ELSE "read") \in ends[k] <=>
            \/ \E f \in FileIds : type[f] = "FD_PIPE" /\ pipe[f] = k /\ writable[f] = w
            \/ Closers(k, w) # {}
      BY Zenon DEF FileInv, PipeEnds, Closers
    <3>. QED BY <1>3, <2>2, <3>1, <3>2, Zenon
  <2>. QED BY <2>1, <2>2, Zenon
<1>5. OneOwner'
  <2>1. ASSUME NEW f \in FileIds, type'[f] = "FD_PIPE"
        PROVE  /\ pipe'[f] \in Pipes
               /\ \A k \in Pipes, w \in BOOLEAN :
                    pipe'[f] = k /\ writable'[f] = w => Closers(k, w)' = {}
    <3>1. CASE f \in {rf, wf}
      <4>1. pipe'[f] = q
        BY <1>2, <3>1, Zenon
      <4>2. \A w \in BOOLEAN : Closers(q, w)' = {}
        BY <1>1, Zenon
      <4>. QED BY <4>1, <4>2, Zenon
    <3>2. CASE f \notin {rf, wf}
      <4>1. f \in FileIds \ {rf, wf}
        BY <3>2, Zenon
      <4>2. type[f] = "FD_PIPE" /\ pipe'[f] = pipe[f] /\ writable'[f] = writable[f]
        BY <1>2, <2>1, <4>1, Zenon
      <4>3. /\ pipe[f] \in Pipes
            /\ \A k \in Pipes, w \in BOOLEAN : pipe[f] = k /\ writable[f] = w => Closers(k, w) = {}
        BY <4>2, ZenonT(30) DEF FileInv, OneOwner
      <4>. QED BY <4>2, <4>3, Zenon
    <3>. QED BY <3>1, <3>2, Zenon
  <2>2. ASSUME NEW f \in FileIds, NEW g \in FileIds, type'[f] = "FD_PIPE", type'[g] = "FD_PIPE",
               pipe'[f] = pipe'[g], writable'[f] = writable'[g]
        PROVE  f = g
    <3>1. CASE f \notin {rf, wf} /\ g \notin {rf, wf}
      <4>1. f \in FileIds \ {rf, wf} /\ g \in FileIds \ {rf, wf}
        BY <3>1, Zenon
      <4>2. /\ type[f] = "FD_PIPE" /\ pipe'[f] = pipe[f] /\ writable'[f] = writable[f]
            /\ type[g] = "FD_PIPE" /\ pipe'[g] = pipe[g] /\ writable'[g] = writable[g]
        BY <1>2, <2>2, <4>1, Zenon
      <4>. QED BY <2>2, <4>2, Zenon DEF FileInv, OneOwner
    <3>2. \A h \in FileIds : type'[h] = "FD_PIPE" /\ h \notin {rf, wf} => pipe'[h] # q
      BY <1>1, <1>2, Zenon
    <3>3. \A h \in {rf, wf} : pipe'[h] = q
      BY <1>2, Zenon
    <3>4. CASE f \in {rf, wf} /\ g \in {rf, wf}
      <4>1. writable'[rf] # writable'[wf]
        BY <1>2, Zenon
      <4>2. ~(f = rf /\ g = wf) /\ ~(f = wf /\ g = rf)
        BY <2>2, <4>1, Zenon
      <4>. QED BY <3>4, <4>2, Zenon
    <3>. QED BY <2>2, <3>1, <3>2, <3>3, <3>4, Zenon
  <2>3. \A k \in Pipes, w \in BOOLEAN : \A a, b \in Closers(k, w)' : a = b
    BY DEF FileInv, OneOwner
  <2>. QED BY <2>1, <2>2, <2>3, Zenon DEF OneOwner
<1>6. InodeRefs'
  <2>1. {f \in FileIds : type'[f] = "FD_INODE"} = {f \in FileIds : type[f] = "FD_INODE"}
    BY <1>2, Zenon
  <2>. QED BY <2>1, Zenon DEF FileInv, InodeRefs, Putters
<1>. QED BY <1>4, <1>5, <1>6, Zenon

\* kalloc() returned page q, and the fields of both files are filled in.
Paged(rf, wf, q) ==
  /\ ends[q] = {}
  /\ ends' = [ends EXCEPT ![q] = {"read", "write"}]
  /\ type' = [type EXCEPT ![rf] = "FD_PIPE", ![wf] = "FD_PIPE"]
  /\ pipe' = [pipe EXCEPT ![rf] = q, ![wf] = q]
  /\ writable' = [writable EXCEPT ![rf] = FALSE, ![wf] = TRUE]

\* A file of which the type changes was fresh and is not any more.
LEMMA PagedTypes ==
  ASSUME FileInv, NEW rf \in FileIds, NEW wf \in FileIds, rf # wf, NEW q \in Pipes, Paged(rf, wf, q)
  PROVE  /\ \A f \in FileIds \ {rf, wf} : type'[f] = type[f]
         /\ type'[rf] = "FD_PIPE" /\ type'[wf] = "FD_PIPE"
         /\ type' \in [FileIds -> {"FD_NONE", "FD_PIPE", "FD_INODE"}]
         /\ pipe' \in [FileIds -> Pipes \cup {NULL}]
         /\ writable' \in [FileIds -> BOOLEAN]
         /\ ends' \in [Pipes -> SUBSET {"read", "write"}]
BY Zenon DEF FileInv, TypeOK, Paged

\* No page, or no descriptors: pipe closes both files.
LEMMA PipeGivenUp ==
  ASSUME Counting, FileInv, NEW p \in Process, NEW s \in Steps, todo[p] = <<s>>, Pending(p) = {s},
         s.op = "pipepage", todo' = [todo EXCEPT ![p] = <<CloseStep(s.f), CloseStep(s.g)>>],
         UNCHANGED <<ref, irefs, opening, ofile, alive, panic>>,
         UNCHANGED <<type, pipe, writable, ends>> \/ \E q \in Pipes : Paged(s.f, s.g, q)
  PROVE  FileInv'
<1>. DEFINE c == CloseStep(s.f)  d == CloseStep(s.g)
<1>0. /\ c \in Steps /\ c.op = "close" /\ c.f = s.f
      /\ d \in Steps /\ d.op = "close" /\ d.f = s.g
      /\ s.f \in FileIds /\ s.g \in FileIds
  BY Zenon DEF CloseStep, Steps
<1>. HIDE DEF c, d
<1>1. Pending(p)' = {c, d} /\ \A r \in Process \ {p} : Pending(r)' = Pending(r)
  BY ListMoves, ListOfTwo, Zenon DEF FileInv, c, d
<1>2. /\ s.f # s.g /\ Fresh(s.f) /\ Fresh(s.g) /\ Held(s.f) = {p} /\ Held(s.g) = {p}
      /\ Descriptors(s.f) = {} /\ Descriptors(s.g) = {}
  BY BothFresh, Zenon
<1>3. /\ \A f \in FileIds \ {s.f, s.g} : type'[f] = type[f]
      /\ \A f \in FileIds : type'[f] = "FD_NONE" => type[f] = "FD_NONE"
      /\ TypeOK'
  <2>1. CASE UNCHANGED <<type, pipe, writable, ends>>
    BY <2>1, Zenon DEF FileInv, TypeOK
  <2>2. ASSUME NEW q \in Pipes, Paged(s.f, s.g, q)
        PROVE  /\ \A f \in FileIds \ {s.f, s.g} : type'[f] = type[f]
               /\ \A f \in FileIds : type'[f] = "FD_NONE" => type[f] = "FD_NONE"
               /\ TypeOK'
    BY <1>0, <1>2, <2>2, PagedTypes, ZenonT(30) DEF FileInv, TypeOK
  <2>. QED BY <2>1, <2>2, Zenon
<1>4. todo' \in [Process -> Todos]
  BY <1>0 DEF FileInv, Todos, c, d
<1>5. \A r \in Process, fd \in FD : Replaced(r, fd)' <=> Replaced(r, fd)
  BY <1>0, <1>1, Zenon DEF Replaced
<1>6. \A h \in FileIds : Descriptors(h)' = Descriptors(h)
  BY <1>5, Zenon DEF Descriptors
<1>7. \A h \in FileIds : Held(h)' = Held(h)
  BY <1>0, <1>1 DEF Held, Holds
<1>8. RefCount'
  BY <1>6, <1>7, Zenon DEF FileInv, RefCount
<1>9. StepInv'
  <2>1. \A x \in {c, d} : Justified(p, x)'
    BY <1>0, Zenon DEF Justified
  <2>2. ASSUME NEW r \in Process \ {p}, NEW x \in Pending(r)
        PROVE  Justified(r, x)'
    <3>1. {s.f, s.g} \in SUBSET FileIds /\ \A f \in {s.f, s.g} : Held(f) \subseteq {p}
      BY <1>0, <1>2, Zenon
    <3>2. /\ \A f \in FileIds \ {s.f, s.g} : ref'[f] = ref[f] /\ type'[f] = type[f]
          /\ \A i \in Process \ {p} : ofile'[i] = ofile[i]
      BY <1>3, Zenon
    <3>. QED BY <2>2, <3>1, <3>2, OthersJustified, ZenonT(30)
  <2>3. \A r \in Process \ {p} : \A x, y \in Steps : todo'[r] = <<x, y>> => Apart(x, y)
    BY Zenon DEF FileInv, StepInv
  <2>4. \A x, y \in Steps : todo'[p] = <<x, y>> => Apart(x, y)
    <3>1. todo'[p] = <<c, d>>
      BY Zenon DEF FileInv, c, d
    <3>. QED BY <1>0, <1>2, <3>1 DEF Apart
  <2>. QED BY <1>1, <2>1, <2>2, <2>3, <2>4 DEF StepInv, Apart
<1>10. FreeUnused'
  BY <1>2, <1>3 DEF FileInv, FreeUnused, Fresh
<1>11. FdValid'
  BY <1>3, <1>5 DEF FileInv, FdValid, TypeOK
<1>12. PipeEnds' /\ OneOwner' /\ InodeRefs'
  <2>1. (\A q \in Pipes, w \in BOOLEAN : Closers(q, w)' = Closers(q, w)) /\ Putters' = Putters
    BY <1>0, <1>1, ClosersKept, Zenon
  <2>2. CASE UNCHANGED <<type, pipe, writable, ends>>
    BY <2>1, <2>2, ObjectsKept, Zenon DEF FileInv, TypeOK
  <2>3. ASSUME NEW q \in Pipes, Paged(s.f, s.g, q)
        PROVE  PipeEnds' /\ OneOwner' /\ InodeRefs'
    BY <1>0, <1>2, <2>1, <2>3, PipeObjects, Zenon DEF Paged
  <2>. QED BY <2>2, <2>3, Zenon
<1>. QED BY <1>3, <1>4, <1>8, <1>9, <1>10, <1>11, <1>12, Zenon DEF FileInv, NoPanic

\* pipe installs both files.
LEMMA PipeMade ==
  ASSUME Counting, FileInv, NEW p \in Process, NEW s \in Steps, todo[p] = <<s>>, Pending(p) = {s},
         s.op = "pipepage", todo' = [todo EXCEPT ![p] = <<>>],
         UNCHANGED <<ref, irefs, opening, alive, panic>>, NEW q \in Pipes, Paged(s.f, s.g, q),
         NEW fd0 \in FD, NEW fd1 \in FD, fd0 # fd1, ofile[p][fd0] = NULL, ofile[p][fd1] = NULL,
         ofile' = [ofile EXCEPT ![p][fd0] = s.f, ![p][fd1] = s.g]
  PROVE  FileInv'
<1>0. s.f \in FileIds /\ s.g \in FileIds /\ \A f \in FileIds : f # NULL
  BY BothFresh DEF FileIds, NULL
<1>1. Pending(p)' = {} /\ \A r \in Process \ {p} : Pending(r)' = Pending(r)
  BY ListMoves, ListOfNone, Zenon DEF FileInv
<1>2. /\ s.f # s.g /\ Fresh(s.f) /\ Fresh(s.g) /\ Held(s.f) = {p} /\ Held(s.g) = {p}
      /\ Descriptors(s.f) = {} /\ Descriptors(s.g) = {}
  BY BothFresh, Zenon
<1>3. /\ \A f \in FileIds \ {s.f, s.g} : type'[f] = type[f]
      /\ type'[s.f] = "FD_PIPE" /\ type'[s.g] = "FD_PIPE"
      /\ type' \in [FileIds -> {"FD_NONE", "FD_PIPE", "FD_INODE"}]
      /\ pipe' \in [FileIds -> Pipes \cup {NULL}]
      /\ writable' \in [FileIds -> BOOLEAN]
      /\ ends' \in [Pipes -> SUBSET {"read", "write"}]
  BY <1>0, <1>2, PagedTypes, Zenon
<1>4. /\ ofile'[p][fd0] = s.f /\ ofile'[p][fd1] = s.g
      /\ \A r \in Process, a \in FD :
           <<r, a>> \notin {<<p, fd0>>, <<p, fd1>>} => ofile'[r][a] = ofile[r][a]
      /\ ofile' \in [Process -> [FD -> FileIds \cup {NULL}]]
      /\ \A r \in Process \ {p} : ofile'[r] = ofile[r]
  BY <1>0, ZenonT(30) DEF FileInv, TypeOK
<1>5. TypeOK' /\ todo' \in [Process -> Todos]
  <2>1. TypeOK /\ todo \in [Process -> Todos]
    BY Zenon DEF FileInv
  <2>2. TypeOK'
    BY <1>3, <1>4, <2>1, Zenon DEF TypeOK
  <2>3. <<>> \in Todos
    BY DEF Todos
  <2>4. todo' \in [Process -> Todos]
    BY <2>1, <2>3, Zenon
  <2>. QED BY <2>2, <2>4, Zenon
<1>6. /\ \A r \in Process, a \in FD : Replaced(r, a)' <=> Replaced(r, a)
      /\ \A a \in FD : ~Replaced(p, a)
  BY <1>1, Zenon DEF Replaced
<1>7. ASSUME NEW h \in FileIds \ {s.f, s.g}
      PROVE  Descriptors(h)' = Descriptors(h) /\ Held(h)' = Held(h)
  <2>1. Descriptors(h)' = Descriptors(h)
    <3>1. ASSUME NEW r \in Process, NEW a \in FD
          PROVE  ofile'[r][a] = h <=> ofile[r][a] = h
      BY <1>0, <1>4
    <3>. QED BY <1>6, <3>1, ZenonT(30) DEF Descriptors
  <2>2. Held(h)' = Held(h)
    BY <1>1, Zenon DEF Held, Holds
  <2>. QED BY <2>1, <2>2, Zenon
<1>8. Held(s.f)' = {} /\ Held(s.g)' = {}
  BY <1>1, <1>2 DEF Held
<1>9. Descriptors(s.f)' = {<<p, fd0>>} /\ Descriptors(s.g)' = {<<p, fd1>>}
  <2>1. <<p, fd0>> \in Descriptors(s.f)' /\ <<p, fd1>> \in Descriptors(s.g)'
    BY <1>4, <1>6, Zenon DEF Descriptors
  <2>2. ASSUME NEW r \in Process, NEW a \in FD, <<r, a>> \in Descriptors(s.f)'
        PROVE  <<r, a>> = <<p, fd0>>
    <3>1. ofile'[r][a] = s.f /\ ~Replaced(r, a)
      BY <1>6, <2>2, Zenon DEF Descriptors
    <3>2. ofile[r][a] # s.f
      <4>1. ofile[r][a] = s.f => <<r, a>> \in Descriptors(s.f)
        BY <3>1, Zenon DEF Descriptors
      <4>. QED BY <1>2, <4>1, Zenon
    <3>. QED BY <1>2, <1>4, <3>1, <3>2, Zenon
  <2>3. ASSUME NEW r \in Process, NEW a \in FD, <<r, a>> \in Descriptors(s.g)'
        PROVE  <<r, a>> = <<p, fd1>>
    <3>1. ofile'[r][a] = s.g /\ ~Replaced(r, a)
      BY <1>6, <2>3, Zenon DEF Descriptors
    <3>2. ofile[r][a] # s.g
      <4>1. ofile[r][a] = s.g => <<r, a>> \in Descriptors(s.g)
        BY <3>1, Zenon DEF Descriptors
      <4>. QED BY <1>2, <4>1, Zenon
    <3>. QED BY <1>2, <1>4, <3>1, <3>2, Zenon
  <2>4. Descriptors(s.f)' \subseteq Process \X FD /\ Descriptors(s.g)' \subseteq Process \X FD
    BY Zenon DEF Descriptors
  <2>. QED BY <2>1, <2>2, <2>3, <2>4
<1>10. RefCount'
  <2>1. ASSUME NEW h \in FileIds \ {s.f, s.g}
        PROVE  ref'[h] = Cardinality(Descriptors(h)') + Cardinality(Held(h)')
    BY <1>7, Zenon DEF FileInv, RefCount
  <2>2. ASSUME NEW h \in {s.f, s.g}
        PROVE  ref'[h] = Cardinality(Descriptors(h)') + Cardinality(Held(h)')
    <3>1. Cardinality(Descriptors(h)') = 1 /\ Cardinality(Held(h)') = 0
      BY <1>8, <1>9, None0, One1, Zenon
    <3>. QED BY <1>2, <3>1 DEF Fresh
  <2>. QED BY <2>1, <2>2, Zenon DEF RefCount
<1>11. StepInv'
  <2>1. ASSUME NEW r \in Process \ {p}, NEW x \in Pending(r)
        PROVE  Justified(r, x)'
    <3>1. {s.f, s.g} \in SUBSET FileIds /\ \A f \in {s.f, s.g} : Held(f) \subseteq {p}
      BY <1>0, <1>2, Zenon
    <3>2. /\ \A f \in FileIds \ {s.f, s.g} : ref'[f] = ref[f] /\ type'[f] = type[f]
          /\ \A i \in Process \ {p} : ofile'[i] = ofile[i]
      BY <1>3, <1>4, Zenon
    <3>. QED BY <2>1, <3>1, <3>2, OthersJustified, ZenonT(30)
  <2>2. \A r \in Process : \A x, y \in Steps : todo'[r] = <<x, y>> => Apart(x, y)
    BY Zenon DEF FileInv, StepInv
  <2>. QED BY <1>1, <2>1, <2>2 DEF StepInv, Apart
<1>12. FreeUnused'
  BY <1>2, <1>3 DEF FileInv, FreeUnused, Fresh
<1>13. FdValid'
  <2>. SUFFICES ASSUME NEW r \in Process, NEW a \in FD, ofile'[r][a] # NULL, ~Replaced(r, a)'
                PROVE  type'[ofile'[r][a]] # "FD_NONE"
    BY Zenon DEF FdValid
  <2>1. CASE <<r, a>> \in {<<p, fd0>>, <<p, fd1>>}
    BY <1>3, <1>4, <2>1, Zenon
  <2>2. CASE <<r, a>> \notin {<<p, fd0>>, <<p, fd1>>}
    <3>1. ofile'[r][a] = ofile[r][a] /\ ~Replaced(r, a) /\ ofile[r][a] \in FileIds
      BY <1>4, <1>6, <2>2 DEF FileInv, TypeOK
    <3>2. type[ofile[r][a]] # "FD_NONE"
      BY <3>1, Zenon DEF FileInv, FdValid
    <3>. QED BY <1>3, <3>1, <3>2, Zenon
  <2>. QED BY <2>1, <2>2, Zenon
<1>14. PipeEnds' /\ OneOwner' /\ InodeRefs'
  <2>1. (\A k \in Pipes, w \in BOOLEAN : Closers(k, w)' = Closers(k, w)) /\ Putters' = Putters
    BY <1>1, ClosersKept, Zenon
  <2>. QED BY <1>0, <1>2, <2>1, PipeObjects, Zenon DEF Paged
<1>. QED BY <1>5, <1>10, <1>11, <1>12, <1>13, <1>14, Zenon DEF FileInv, NoPanic

-----------------------------------------------------------------------------
(***************************************************************************)
(* dup and dup2.                                                           *)
(***************************************************************************)

\* dup: one more descriptor of a file.
LEMMA Duped ==
  ASSUME Counting, FileInv, NEW p \in Process, todo[p] = <<>>, NEW fd \in FD, ofile[p][fd] # NULL,
         NEW new \in FD, ofile[p][new] = NULL,
         ofile' = [ofile EXCEPT ![p][new] = ofile[p][fd]],
         ref' = [ref EXCEPT ![ofile[p][fd]] = @ + 1],
         UNCHANGED <<type, pipe, writable, ends, irefs, opening, alive, todo, panic>>
  PROVE  FileInv'
<1>a. PICK f \in FileIds : ofile[p][fd] = f
  BY DEF FileInv, TypeOK
<1>0. \A g \in FileIds : g # NULL
  BY DEF FileIds, NULL
<1>1. \A r \in Process : Pending(r)' = Pending(r)
  BY Zenon DEF Pending
<1>2. Pending(p) = {}
  BY ListOfNone, Zenon DEF Pending, PendingOf
<1>3. /\ \A r \in Process, a \in FD : Replaced(r, a)' <=> Replaced(r, a)
      /\ \A a \in FD : ~Replaced(p, a)
  BY <1>1, <1>2, Zenon DEF Replaced
<1>4. /\ ofile'[p][new] = f
      /\ \A r \in Process, a \in FD : <<r, a>> # <<p, new>> => ofile'[r][a] = ofile[r][a]
      /\ ofile' \in [Process -> [FD -> FileIds \cup {NULL}]]
      /\ \A r \in Process \ {p} : ofile'[r] = ofile[r]
  BY <1>a, Zenon DEF FileInv, TypeOK
<1>5. ref'[f] = ref[f] + 1 /\ (\A g \in FileIds \ {f} : ref'[g] = ref[g]) /\ ref' \in [FileIds -> Nat]
  BY <1>a DEF FileInv, TypeOK
<1>6. <<p, fd>> \in Descriptors(f)
  BY <1>a, <1>3, Zenon DEF Descriptors
<1>7. TypeOK' /\ todo' \in [Process -> Todos]
  BY <1>4, <1>5, Zenon DEF FileInv, TypeOK
<1>8. \A g \in FileIds : Held(g)' = Held(g)
  BY <1>1, Zenon DEF Held
<1>9. ASSUME NEW g \in FileIds \ {f}
      PROVE  Descriptors(g)' = Descriptors(g)
  <2>1. ASSUME NEW r \in Process, NEW a \in FD
        PROVE  ofile'[r][a] = g <=> ofile[r][a] = g
    BY <1>0, <1>4, Zenon
  <2>. QED BY <1>3, <2>1, ZenonT(30) DEF Descriptors
<1>10. Descriptors(f)' = Descriptors(f) \cup {<<p, new>>} /\ <<p, new>> \notin Descriptors(f)
  <2>1. <<p, new>> \notin Descriptors(f)
    BY <1>0, Zenon DEF Descriptors
  <2>2. <<p, new>> \in Descriptors(f)'
    BY <1>3, <1>4, Zenon DEF Descriptors
  <2>3. ASSUME NEW r \in Process, NEW a \in FD, <<r, a>> # <<p, new>>
        PROVE  <<r, a>> \in Descriptors(f)' <=> <<r, a>> \in Descriptors(f)
    BY <1>3, <1>4, <2>3 DEF Descriptors
  <2>4. Descriptors(f)' \subseteq Process \X FD /\ Descriptors(f) \subseteq Process \X FD
    BY Zenon DEF Descriptors
  <2>. QED BY <2>1, <2>2, <2>3, <2>4
<1>11. RefCount'
  <2>1. ASSUME NEW g \in FileIds \ {f}
        PROVE  ref'[g] = Cardinality(Descriptors(g)') + Cardinality(Held(g)')
    BY <1>5, <1>8, <1>9, Zenon DEF FileInv, RefCount
  <2>2. Cardinality(Descriptors(f)') = Cardinality(Descriptors(f)) + 1
    BY <1>10, RefsFinite, Plus, Zenon
  <2>3. ref[f] = Cardinality(Descriptors(f)) + Cardinality(Held(f))
    BY Zenon DEF FileInv, RefCount
  <2>4. ref'[f] = Cardinality(Descriptors(f)') + Cardinality(Held(f)')
    BY <1>0, <1>5, <1>8, <2>2, <2>3, RefsFinite
  <2>. QED BY <2>1, <2>4, Zenon DEF RefCount
<1>12. StepInv'
  <2>1. ASSUME NEW r \in Process \ {p}, NEW x \in Pending(r)
        PROVE  Justified(r, x)'
    <3>1. \A g \in FileIds : Fresh(g) /\ r \in Held(g) => g # f
      <4>1. ASSUME NEW g \in FileIds, Fresh(g), r \in Held(g)
            PROVE  Descriptors(g) = {}
        BY <4>1, Referenced, Zenon DEF Fresh
      <4>. QED BY <1>6, <4>1, Zenon
    <3>2. Justified(r, x) /\ \A g \in FileIds : Holds(x, g) => r \in Held(g)
      BY Zenon DEF FileInv, StepInv, Held
    <3>3. /\ x.op \in {"openfd", "opentype", "pipefile", "close"} => x.f \in FileIds
          /\ x.op = "pipepage" => x.f \in FileIds /\ x.g \in FileIds
      BY StepFiles, Zenon DEF FileInv
    <3>. QED BY <1>4, <1>5, <3>1, <3>2, <3>3, ZenonT(30) DEF Justified, Fresh, Holds
  <2>2. \A r \in Process : \A x, y \in Steps : todo'[r] = <<x, y>> => Apart(x, y)
    BY Zenon DEF FileInv, StepInv
  <2>. QED BY <1>1, <1>2, <2>1, <2>2, Zenon DEF StepInv, Apart
<1>13. FreeUnused'
  BY <1>0, <1>5 DEF FileInv, FreeUnused, TypeOK
<1>14. FdValid'
  <2>. SUFFICES ASSUME NEW r \in Process, NEW a \in FD, ofile'[r][a] # NULL, ~Replaced(r, a)'
                PROVE  type[ofile'[r][a]] # "FD_NONE"
    BY Zenon DEF FdValid
  <2>1. CASE <<r, a>> = <<p, new>>
    <3>1. type[f] # "FD_NONE"
      BY <1>a, <1>0, <1>3, Zenon DEF FileInv, FdValid
    <3>. QED BY <1>4, <2>1, <3>1, Zenon
  <2>2. CASE <<r, a>> # <<p, new>>
    BY <1>3, <1>4, <2>2 DEF FileInv, FdValid
  <2>. QED BY <2>1, <2>2, Zenon
<1>15. PipeEnds' /\ OneOwner' /\ InodeRefs'
  <2>1. (\A q \in Pipes, w \in BOOLEAN : Closers(q, w)' = Closers(q, w)) /\ Putters' = Putters
    BY <1>1, Zenon DEF Closers, Putters
  <2>. QED BY <2>1, ObjectsKept, Zenon DEF FileInv, TypeOK
<1>. QED BY <1>7, <1>11, <1>12, <1>13, <1>14, <1>15, Zenon DEF FileInv, NoPanic

LEMMA SamePairs ==
  ASSUME NEW S, NEW T, S \subseteq Process \X FD, T \subseteq Process \X FD,
         \A r \in Process, a \in FD : <<r, a>> \in S <=> <<r, a>> \in T
  PROVE  S = T
<1>1. \A x \in Process \X FD : x \in S <=> x \in T
  OBVIOUS
<1>. QED BY <1>1, Zenon

\* dup2 with an open newfd: its file is about to be closed.
LEMMA Dup2Begun ==
  ASSUME Counting, FileInv, NEW p \in Process, todo[p] = <<>>, NEW oldfd \in FD, NEW newfd \in FD,
         oldfd # newfd, ofile[p][oldfd] # NULL, ofile[p][newfd] # NULL,
         todo' = [todo EXCEPT ![p] = <<CloseStep(ofile[p][newfd]), DupStep(oldfd, newfd)>>],
         UNCHANGED <<ref, type, pipe, writable, ends, irefs, opening, ofile, alive, panic>>
  PROVE  FileInv'
<1>a. PICK f \in FileIds : ofile[p][newfd] = f
  BY DEF FileInv, TypeOK
<1>. DEFINE c == CloseStep(f)  d == DupStep(oldfd, newfd)
<1>0. /\ c \in Steps /\ c.op = "close" /\ c.f = f
      /\ d \in Steps /\ d.op = "dup" /\ d.oldfd = oldfd /\ d.newfd = newfd
  BY Zenon DEF CloseStep, DupStep, Steps
<1>. HIDE DEF c, d
<1>1. /\ Pending(p) = {} /\ Pending(p)' = {c, d} /\ todo'[p] = <<c, d>>
      /\ \A r \in Process \ {p} : Pending(r)' = Pending(r)
  <2>1. Pending(p) = {}
    BY ListOfNone, Zenon DEF Pending, PendingOf
  <2>2. todo' = [todo EXCEPT ![p] = <<c, d>>]
    BY <1>a, Zenon DEF c, d
  <2>. QED BY <2>1, <2>2, ListMoves, ListOfTwo, Zenon DEF FileInv
<1>2. TypeOK' /\ todo' \in [Process -> Todos]
  BY <1>0, <1>1 DEF FileInv, TypeOK, Todos
<1>3. /\ \A r \in Process, a \in FD : <<r, a>> # <<p, newfd>> => (Replaced(r, a)' <=> Replaced(r, a))
      /\ Replaced(p, newfd)' /\ ~Replaced(p, newfd)
  BY <1>0, <1>1, Zenon DEF Replaced
<1>4. ASSUME NEW g \in FileIds \ {f}
      PROVE  Descriptors(g)' = Descriptors(g)
  BY <1>a, <1>3, Zenon DEF Descriptors
<1>5. Descriptors(f)' = Descriptors(f) \ {<<p, newfd>>} /\ <<p, newfd>> \in Descriptors(f)
  <2>1. <<p, newfd>> \in Descriptors(f) /\ <<p, newfd>> \notin Descriptors(f)'
    BY <1>a, <1>3, Zenon DEF Descriptors
  <2>2. ASSUME NEW r \in Process, NEW a \in FD, <<r, a>> # <<p, newfd>>
        PROVE  <<r, a>> \in Descriptors(f)' <=> <<r, a>> \in Descriptors(f)
    BY <1>3, <2>2, Zenon DEF Descriptors
  <2>3. Descriptors(f)' \subseteq Process \X FD /\ Descriptors(f) \subseteq Process \X FD
    BY Zenon DEF Descriptors
  <2>. QED BY <2>1, <2>2, <2>3
<1>6. ASSUME NEW g \in FileIds \ {f}
      PROVE  Held(g)' = Held(g)
  BY <1>0, <1>1, Zenon DEF Held, Holds
<1>7. Held(f)' = Held(f) \cup {p} /\ p \notin Held(f)
  BY <1>0, <1>1, Zenon DEF Held, Holds
<1>8. RefCount'
  <2>1. ASSUME NEW g \in FileIds \ {f}
        PROVE  ref'[g] = Cardinality(Descriptors(g)') + Cardinality(Held(g)')
    BY <1>4, <1>6, Zenon DEF FileInv, RefCount
  <2>2. Cardinality(Descriptors(f)') = Cardinality(Descriptors(f)) - 1
    BY <1>5, RefsFinite, Minus, Zenon
  <2>3. Cardinality(Held(f)') = Cardinality(Held(f)) + 1
    BY <1>7, RefsFinite, Plus, Zenon
  <2>4. ref[f] = Cardinality(Descriptors(f)) + Cardinality(Held(f))
    BY Zenon DEF FileInv, RefCount
  <2>5. ref'[f] = Cardinality(Descriptors(f)') + Cardinality(Held(f)')
    BY <2>2, <2>3, <2>4, RefsFinite
  <2>. QED BY <2>1, <2>5, Zenon DEF RefCount
<1>9. StepInv'
  <2>1. \A x \in {c, d} : Justified(p, x)'
    BY <1>0, Zenon DEF Justified
  <2>2. ASSUME NEW r \in Process \ {p}, NEW x \in Pending(r)
        PROVE  Justified(r, x)'
    BY Zenon DEF Justified, Fresh, FileInv, StepInv
  <2>3. \A r \in Process \ {p} : \A x, y \in Steps : todo'[r] = <<x, y>> => Apart(x, y)
    BY Zenon DEF FileInv, StepInv
  <2>4. \A x, y \in Steps : todo'[p] = <<x, y>> => Apart(x, y)
    BY <1>0, <1>1 DEF Apart
  <2>. QED BY <1>1, <2>1, <2>2, <2>3, <2>4 DEF StepInv, Apart
<1>10. FreeUnused'
  BY Zenon DEF FileInv, FreeUnused
<1>11. FdValid'
  BY <1>3, Zenon DEF FileInv, FdValid
<1>12. PipeEnds' /\ OneOwner' /\ InodeRefs'
  <2>1. (\A q \in Pipes, w \in BOOLEAN : Closers(q, w)' = Closers(q, w)) /\ Putters' = Putters
    BY <1>0, <1>1, ClosersKept, Zenon
  <2>. QED BY <2>1, ObjectsKept, Zenon DEF FileInv, TypeOK
<1>. QED BY <1>2, <1>8, <1>9, <1>10, <1>11, <1>12, Zenon DEF FileInv, NoPanic

\* dup2 has closed what newfd referred to; oldfd is still open.
LEMMA Dup2Source ==
  ASSUME Counting, FileInv, NEW p \in Process, NEW s \in Steps, Pending(p) = {s}, s.op = "dup",
         NEW f, f = ofile[p][s.oldfd]
  PROVE  /\ s.oldfd \in FD /\ s.newfd \in FD /\ s.oldfd # s.newfd
         /\ f \in FileIds /\ <<p, s.oldfd>> \in Descriptors(f) /\ ref[f] >= 1
         /\ type[f] # "FD_NONE"
<1>1. s.oldfd \in FD /\ s.newfd \in FD /\ s.oldfd # s.newfd /\ f \in FileIds
  BY DEF FileInv, StepInv, Justified, TypeOK, Steps, FileIds, NULL
<1>2. ~Replaced(p, s.oldfd)
  BY <1>1, Zenon DEF Replaced
<1>3. <<p, s.oldfd>> \in Descriptors(f)
  BY <1>1, <1>2, Zenon DEF Descriptors
<1>4. ref[f] >= 1
  BY <1>1, <1>3, Referenced, Zenon
<1>5. type[f] # "FD_NONE"
  BY <1>1, <1>2 DEF FileInv, FdValid, FileIds, NULL
<1>. QED BY <1>1, <1>3, <1>4, <1>5, Zenon

\* dup2 installs the file of oldfd.
LEMMA Dup2Ended ==
  ASSUME Counting, FileInv, NEW p \in Process, NEW s \in Steps, Pending(p) = {s},
         s.op = "dup", NEW f, f = ofile[p][s.oldfd],
         todo' = [todo EXCEPT ![p] = <<>>],
         ref' = [ref EXCEPT ![f] = @ + 1], ofile' = [ofile EXCEPT ![p][s.newfd] = f],
         UNCHANGED <<type, pipe, writable, ends, irefs, opening, alive, panic>>
  PROVE  FileInv'
<1>. DEFINE new == s.newfd
<1>0. /\ s.oldfd \in FD /\ new \in FD /\ s.oldfd # new /\ f \in FileIds
      /\ \A g \in FileIds : g # NULL
  <2>1. \A g \in FileIds : g # NULL
    BY DEF FileIds, NULL
  <2>. QED BY <2>1, Dup2Source, Zenon
<1>1. Pending(p)' = {} /\ \A r \in Process \ {p} : Pending(r)' = Pending(r)
  BY ListMoves, ListOfNone, Zenon DEF FileInv
<1>2. /\ \A r \in Process, a \in FD : <<r, a>> # <<p, new>> => (Replaced(r, a)' <=> Replaced(r, a))
      /\ \A a \in FD : Replaced(p, a) <=> a = new
      /\ ~Replaced(p, new)'
  BY <1>1, Zenon DEF Replaced
<1>3. <<p, s.oldfd>> \in Descriptors(f)
  BY Dup2Source, Zenon
<1>5. /\ ofile'[p][new] = f
      /\ \A r \in Process, a \in FD : <<r, a>> # <<p, new>> => ofile'[r][a] = ofile[r][a]
      /\ ofile' \in [Process -> [FD -> FileIds \cup {NULL}]]
      /\ \A r \in Process \ {p} : ofile'[r] = ofile[r]
  BY <1>0, Zenon DEF FileInv, TypeOK
<1>6. ref'[f] = ref[f] + 1 /\ (\A g \in FileIds \ {f} : ref'[g] = ref[g]) /\ ref' \in [FileIds -> Nat]
  BY <1>0 DEF FileInv, TypeOK
<1>. HIDE DEF new
<1>7. TypeOK' /\ todo' \in [Process -> Todos]
  BY <1>5, <1>6 DEF FileInv, TypeOK, Todos
<1>8. \A g \in FileIds : Held(g)' = Held(g)
  BY <1>1 DEF Held, Holds
<1>9. ASSUME NEW g \in FileIds \ {f}
      PROVE  Descriptors(g)' = Descriptors(g)
  <2>1. <<p, new>> \notin Descriptors(g) /\ <<p, new>> \notin Descriptors(g)'
    BY <1>0, <1>2, <1>5, Zenon DEF Descriptors
  <2>2. ASSUME NEW r \in Process, NEW a \in FD
        PROVE  <<r, a>> \in Descriptors(g)' <=> <<r, a>> \in Descriptors(g)
    <3>1. CASE <<r, a>> = <<p, new>>
      BY <2>1, <3>1, Zenon
    <3>2. CASE <<r, a>> # <<p, new>>
      BY <1>2, <1>5, <3>2, Zenon DEF Descriptors
    <3>. QED BY <3>1, <3>2, Zenon
  <2>3. Descriptors(g)' \subseteq Process \X FD /\ Descriptors(g) \subseteq Process \X FD
    BY Zenon DEF Descriptors
  <2>. QED BY <2>2, <2>3, SamePairs, Zenon
<1>10. Descriptors(f)' = Descriptors(f) \cup {<<p, new>>} /\ <<p, new>> \notin Descriptors(f)
  <2>1. <<p, new>> \notin Descriptors(f)
    BY <1>0, <1>2, Zenon DEF Descriptors
  <2>2. <<p, new>> \in Descriptors(f)'
    BY <1>0, <1>2, <1>5, Zenon DEF Descriptors
  <2>3. ASSUME NEW r \in Process, NEW a \in FD, <<r, a>> # <<p, new>>
        PROVE  <<r, a>> \in Descriptors(f)' <=> <<r, a>> \in Descriptors(f)
    BY <1>2, <1>5, <2>3 DEF Descriptors
  <2>4. Descriptors(f)' \subseteq Process \X FD /\ Descriptors(f) \subseteq Process \X FD
    BY Zenon DEF Descriptors
  <2>. QED BY <2>1, <2>2, <2>3, <2>4
<1>11. RefCount'
  <2>1. ASSUME NEW g \in FileIds \ {f}
        PROVE  ref'[g] = Cardinality(Descriptors(g)') + Cardinality(Held(g)')
    BY <1>6, <1>8, <1>9, Zenon DEF FileInv, RefCount
  <2>2. Cardinality(Descriptors(f)') = Cardinality(Descriptors(f)) + 1
    BY <1>10, RefsFinite, Plus, Zenon
  <2>3. ref[f] = Cardinality(Descriptors(f)) + Cardinality(Held(f))
    BY <1>0, Zenon DEF FileInv, RefCount
  <2>4. ref'[f] = Cardinality(Descriptors(f)') + Cardinality(Held(f)')
    BY <1>0, <1>6, <1>8, <2>2, <2>3, RefsFinite
  <2>. QED BY <2>1, <2>4, Zenon DEF RefCount
<1>12. StepInv'
  <2>1. ASSUME NEW r \in Process \ {p}, NEW x \in Pending(r)
        PROVE  Justified(r, x)'
    <3>1. \A g \in FileIds : Fresh(g) /\ r \in Held(g) => g # f
      <4>1. ASSUME NEW g \in FileIds, Fresh(g), r \in Held(g)
            PROVE  Descriptors(g) = {}
        BY <4>1, Referenced, Zenon DEF Fresh
      <4>. QED BY <1>3, <4>1, Zenon
    <3>2. Justified(r, x) /\ \A g \in FileIds : Holds(x, g) => r \in Held(g)
      BY Zenon DEF FileInv, StepInv, Held
    <3>3. /\ x.op \in {"openfd", "opentype", "pipefile", "close"} => x.f \in FileIds
          /\ x.op = "pipepage" => x.f \in FileIds /\ x.g \in FileIds
      BY StepFiles, Zenon DEF FileInv
    <3>. QED BY <1>5, <1>6, <3>1, <3>2, <3>3, Zenon DEF Justified, Fresh, Holds
  <2>2. \A r \in Process : \A x, y \in Steps : todo'[r] = <<x, y>> => Apart(x, y)
    BY Zenon DEF FileInv, StepInv
  <2>. QED BY <1>1, <2>1, <2>2, ZenonT(30) DEF StepInv, Apart
<1>13. FreeUnused'
  BY <1>0, <1>6 DEF FileInv, FreeUnused, TypeOK
<1>14. FdValid'
  <2>. SUFFICES ASSUME NEW r \in Process, NEW a \in FD, ofile'[r][a] # NULL, ~Replaced(r, a)'
                PROVE  type[ofile'[r][a]] # "FD_NONE"
    BY Zenon DEF FdValid
  <2>1. CASE <<r, a>> = <<p, new>>
    <3>1. type[f] # "FD_NONE"
      BY <1>0, <1>2, Zenon DEF FileInv, FdValid
    <3>. QED BY <1>5, <2>1, <3>1, Zenon
  <2>2. CASE <<r, a>> # <<p, new>>
    BY <1>2, <1>5, <2>2 DEF FileInv, FdValid
  <2>. QED BY <2>1, <2>2, Zenon
<1>15. PipeEnds' /\ OneOwner' /\ InodeRefs'
  <2>1. (\A q \in Pipes, w \in BOOLEAN : Closers(q, w)' = Closers(q, w)) /\ Putters' = Putters
    BY <1>1, ClosersKept, Zenon
  <2>. QED BY <2>1, ObjectsKept, Zenon DEF FileInv, TypeOK
<1>. QED BY <1>7, <1>11, <1>12, <1>13, <1>14, <1>15, Zenon DEF FileInv, NoPanic

-----------------------------------------------------------------------------
(***************************************************************************)
(* close and exit.                                                         *)
(***************************************************************************)

\* A descriptor goes, and the call has its reference until fileclose.
LEMMA PutAside ==
  ASSUME Counting, FileInv, NEW p \in Process, todo[p] = <<>>, NEW fd \in FD, ofile[p][fd] # NULL,
         ofile' = [ofile EXCEPT ![p][fd] = NULL],
         todo' = [todo EXCEPT ![p] = <<CloseStep(ofile[p][fd])>>],
         UNCHANGED <<ref, type, pipe, writable, ends, irefs, opening, alive, panic>>
  PROVE  FileInv'
<1>a. PICK f \in FileIds : ofile[p][fd] = f
  BY DEF FileInv, TypeOK
<1>. DEFINE c == CloseStep(f)
<1>0. /\ c \in Steps /\ c.op = "close" /\ c.f = f /\ \A g \in FileIds : g # NULL
  BY DEF CloseStep, Steps, FileIds, NULL
<1>. HIDE DEF c
<1>1. /\ Pending(p) = {} /\ Pending(p)' = {c} /\ todo'[p] = <<c>>
      /\ \A r \in Process \ {p} : Pending(r)' = Pending(r)
  <2>1. Pending(p) = {}
    BY ListOfNone, Zenon DEF Pending, PendingOf
  <2>2. todo' = [todo EXCEPT ![p] = <<c>>]
    BY <1>a, Zenon DEF c
  <2>. QED BY <2>1, <2>2, ListMoves, ListOfOne, Zenon DEF FileInv
<1>2. /\ ofile'[p][fd] = NULL
      /\ \A r \in Process, a \in FD : <<r, a>> # <<p, fd>> => ofile'[r][a] = ofile[r][a]
      /\ ofile' \in [Process -> [FD -> FileIds \cup {NULL}]]
      /\ \A r \in Process \ {p} : ofile'[r] = ofile[r]
  BY Zenon DEF FileInv, TypeOK
<1>3. TypeOK' /\ todo' \in [Process -> Todos]
  BY <1>0, <1>1, <1>2 DEF FileInv, TypeOK, Todos
<1>4. /\ \A r \in Process, a \in FD : Replaced(r, a)' <=> Replaced(r, a)
      /\ ~Replaced(p, fd)
  BY <1>0, <1>1, Zenon DEF Replaced
<1>5. ASSUME NEW g \in FileIds \ {f}
      PROVE  Descriptors(g)' = Descriptors(g)
  <2>1. <<p, fd>> \notin Descriptors(g) /\ <<p, fd>> \notin Descriptors(g)'
    BY <1>0, <1>a, <1>2, Zenon DEF Descriptors
  <2>2. ASSUME NEW r \in Process, NEW a \in FD
        PROVE  <<r, a>> \in Descriptors(g)' <=> <<r, a>> \in Descriptors(g)
    <3>1. CASE <<r, a>> = <<p, fd>>
      BY <2>1, <3>1, Zenon
    <3>2. CASE <<r, a>> # <<p, fd>>
      BY <1>2, <1>4, <3>2, Zenon DEF Descriptors
    <3>. QED BY <3>1, <3>2, Zenon
  <2>3. Descriptors(g)' \subseteq Process \X FD /\ Descriptors(g) \subseteq Process \X FD
    BY Zenon DEF Descriptors
  <2>. QED BY <2>2, <2>3, SamePairs, Zenon
<1>6. Descriptors(f)' = Descriptors(f) \ {<<p, fd>>} /\ <<p, fd>> \in Descriptors(f)
  <2>1. <<p, fd>> \in Descriptors(f)
    BY <1>a, <1>4, Zenon DEF Descriptors
  <2>2. <<p, fd>> \notin Descriptors(f)'
    BY <1>0, <1>2, Zenon DEF Descriptors
  <2>3. ASSUME NEW r \in Process, NEW a \in FD, <<r, a>> # <<p, fd>>
        PROVE  <<r, a>> \in Descriptors(f)' <=> <<r, a>> \in Descriptors(f)
    BY <1>2, <1>4, <2>3, Zenon DEF Descriptors
  <2>4. Descriptors(f)' \subseteq Process \X FD /\ Descriptors(f) \subseteq Process \X FD
    BY Zenon DEF Descriptors
  <2>. QED BY <2>1, <2>2, <2>3, <2>4
<1>7. ASSUME NEW g \in FileIds \ {f}
      PROVE  Held(g)' = Held(g)
  BY <1>0, <1>1, Zenon DEF Held, Holds
<1>8. Held(f)' = Held(f) \cup {p} /\ p \notin Held(f)
  BY <1>0, <1>1, Zenon DEF Held, Holds
<1>9. RefCount'
  <2>1. ASSUME NEW g \in FileIds \ {f}
        PROVE  ref'[g] = Cardinality(Descriptors(g)') + Cardinality(Held(g)')
    BY <1>5, <1>7, Zenon DEF FileInv, RefCount
  <2>2. Cardinality(Descriptors(f)') = Cardinality(Descriptors(f)) - 1
    BY <1>6, RefsFinite, Minus, Zenon
  <2>3. Cardinality(Held(f)') = Cardinality(Held(f)) + 1
    BY <1>8, RefsFinite, Plus, Zenon
  <2>4. ref[f] = Cardinality(Descriptors(f)) + Cardinality(Held(f))
    BY Zenon DEF FileInv, RefCount
  <2>5. ref'[f] = Cardinality(Descriptors(f)') + Cardinality(Held(f)')
    BY <2>2, <2>3, <2>4, RefsFinite
  <2>. QED BY <2>1, <2>5, Zenon DEF RefCount
<1>10. StepInv'
  <2>1. Justified(p, c)'
    BY <1>0, ZenonT(30) DEF Justified
  <2>2. ASSUME NEW r \in Process \ {p}, NEW x \in Pending(r)
        PROVE  Justified(r, x)'
    BY <1>2 DEF Justified, Fresh, FileInv, StepInv
  <2>3. \A r \in Process : \A x, y \in Steps : todo'[r] = <<x, y>> => Apart(x, y)
    BY <1>1, Zenon DEF FileInv, StepInv
  <2>. QED BY <1>1, <2>1, <2>2, <2>3, Zenon DEF StepInv, Apart
<1>11. FreeUnused'
  BY ZenonT(30) DEF FileInv, FreeUnused
<1>12. FdValid'
  BY <1>2, <1>4 DEF FileInv, FdValid
<1>13. PipeEnds' /\ OneOwner' /\ InodeRefs'
  <2>1. (\A q \in Pipes, w \in BOOLEAN : Closers(q, w)' = Closers(q, w)) /\ Putters' = Putters
    BY <1>0, <1>1, ClosersKept, Zenon
  <2>. QED BY <2>1, ObjectsKept, Zenon DEF FileInv, TypeOK
<1>. QED BY <1>3, <1>9, <1>10, <1>11, <1>12, <1>13, Zenon DEF FileInv, NoPanic

\* The steps of closing, which another closing or the end of dup2 may follow.
Closing == {"close", "pipeclose", "iput"}

LEMMA Rest ==
  ASSUME FileInv, NEW p \in Process, NEW op \in Closing, Doing(p, op)
  PROVE  /\ Head(todo[p]) \in Steps /\ Head(todo[p]).op = op
         /\ Pending(p) = {Head(todo[p])} \cup PendingOf(Tail(todo[p]))
         /\ \A x \in PendingOf(Tail(todo[p])) :
              x \in Steps /\ x.op \in {"close", "dup"} /\ Apart(Head(todo[p]), x)
         /\ \/ Tail(todo[p]) = <<>>
            \/ \E t \in Steps : t.op \in {"close", "dup"} /\ Tail(todo[p]) = <<t>>
<1>1. todo[p] # <<>> /\ Head(todo[p]).op = op /\ todo[p] \in Todos
  BY Zenon DEF Doing, FileInv
<1>2. CASE \E s \in Steps : todo[p] = <<s>>
  <2>1. PICK s \in Steps : todo[p] = <<s>>
    BY <1>2, Zenon
  <2>2. Pending(p) = PendingOf(<<s>>)
    BY <2>1, Zenon DEF Pending, PendingOf
  <2>. QED BY <1>1, <2>1, <2>2, ListOfOne, ListOfNone, Zenon
<1>3. CASE \E s, t \in Steps : t.op \in {"close", "dup"} /\ todo[p] = <<s, t>>
  <2>1. PICK s \in Steps, t \in Steps : t.op \in {"close", "dup"} /\ todo[p] = <<s, t>>
    BY <1>3, Zenon
  <2>2. Pending(p) = PendingOf(<<s, t>>) /\ Apart(s, t)
    BY <2>1, Zenon DEF Pending, PendingOf, FileInv, StepInv
  <2>3. Head(todo[p]) = s /\ Tail(todo[p]) = <<t>> /\ PendingOf(<<s, t>>) = {s, t} /\ PendingOf(<<t>>) = {t}
    BY <2>1, ListOfTwo, ListOfOne
  <2>. QED BY <1>1, <2>1, <2>2, <2>3, Zenon
<1>. QED BY <1>1, <1>2, <1>3 DEF Todos

\* One list of steps is replaced by another.
LEMMA ListReplaced ==
  ASSUME FileInv, NEW p \in Process, NEW t \in Todos, todo' = [todo EXCEPT ![p] = t],
         \A x, y \in Steps : t = <<x, y>> => Apart(x, y)
  PROVE  /\ todo' \in [Process -> Todos]
         /\ Pending(p)' = PendingOf(t)
         /\ \A r \in Process \ {p} : Pending(r)' = Pending(r)
         /\ \A r \in Process : \A x, y \in Steps : todo'[r] = <<x, y>> => Apart(x, y)
<1>1. todo \in [Process -> Todos]
  BY Zenon DEF FileInv
<1>2. todo'[p] = t /\ \A r \in Process \ {p} : todo'[r] = todo[r]
  BY <1>1, Zenon
<1>3. \A r \in Process : \A x, y \in Steps : todo'[r] = <<x, y>> => Apart(x, y)
  BY <1>2, Zenon DEF FileInv, StepInv
<1>. QED BY <1>1, <1>3, ListMoves, Zenon

\* A closing step is done, and N, if anything, is what it leaves to do.
LEMMA Advanced ==
  ASSUME FileInv, NEW p \in Process, NEW op \in Closing, Doing(p, op), NEW N,
         \/ N = {} /\ Then(p, <<>>)
         \/ \E n \in Steps : n.op \in {"pipeclose", "iput"} /\ N = {n} /\ Then(p, <<n>>)
  PROVE  /\ todo' \in [Process -> Todos]
         /\ Pending(p)' = N \cup PendingOf(Tail(todo[p]))
         /\ \A r \in Process \ {p} : Pending(r)' = Pending(r)
         /\ \A r \in Process : \A x, y \in Steps : todo'[r] = <<x, y>> => Apart(x, y)
<1>. DEFINE Replacing ==
       \E t \in Todos : /\ todo' = [todo EXCEPT ![p] = t]
                        /\ \A x, y \in Steps : t = <<x, y>> => Apart(x, y)
                        /\ PendingOf(t) = N \cup PendingOf(Tail(todo[p]))
<1>1. ASSUME N = {}, Then(p, <<>>), Tail(todo[p]) = <<>>
      PROVE  Replacing
  <2>1. todo' = [todo EXCEPT ![p] = <<>>]
    BY <1>1, Joined, Zenon DEF Then
  <2>2. <<>> \in Todos /\ \A x, y \in Steps : <<>> = <<x, y>> => Apart(x, y)
    BY DEF Todos
  <2>3. PendingOf(<<>>) = N \cup PendingOf(Tail(todo[p]))
    BY <1>1, ListOfNone, Zenon
  <2>. QED BY <2>1, <2>2, <2>3, Zenon
<1>2. ASSUME NEW t \in Steps, t.op \in {"close", "dup"}, Tail(todo[p]) = <<t>>, N = {}, Then(p, <<>>)
      PROVE  Replacing
  <2>1. <<>> \o <<t>> = <<t>>
    BY Joined, Zenon
  <2>2. todo' = [todo EXCEPT ![p] = <<t>>]
    BY <1>2, <2>1, Zenon DEF Then
  <2>3. <<t>> \in Todos /\ \A x, y \in Steps : <<t>> = <<x, y>> => Apart(x, y)
    BY DEF Todos
  <2>4. PendingOf(<<t>>) = N \cup PendingOf(Tail(todo[p]))
    BY <1>2, Zenon
  <2>. QED BY <2>2, <2>3, <2>4, Zenon
<1>3. ASSUME NEW n \in Steps, n.op \in {"pipeclose", "iput"}, N = {n}, Then(p, <<n>>), Tail(todo[p]) = <<>>
      PROVE  Replacing
  <2>1. <<n>> \o <<>> = <<n>>
    BY Joined, Zenon
  <2>2. todo' = [todo EXCEPT ![p] = <<n>>]
    BY <1>3, <2>1, Zenon DEF Then
  <2>3. <<n>> \in Todos /\ \A x, y \in Steps : <<n>> = <<x, y>> => Apart(x, y)
    BY DEF Todos
  <2>4. PendingOf(<<n>>) = N \cup PendingOf(Tail(todo[p]))
    BY <1>3, ListOfOne, ListOfNone, Zenon
  <2>. QED BY <2>2, <2>3, <2>4, Zenon
<1>4. ASSUME NEW n \in Steps, n.op \in {"pipeclose", "iput"}, N = {n}, Then(p, <<n>>),
             NEW t \in Steps, t.op \in {"close", "dup"}, Tail(todo[p]) = <<t>>
      PROVE  Replacing
  <2>1. <<n>> \o <<t>> = <<n, t>>
    BY Joined, Zenon
  <2>2. todo' = [todo EXCEPT ![p] = <<n, t>>]
    BY <1>4, <2>1, Zenon DEF Then
  <2>3. <<n, t>> \in Todos
    BY <1>4 DEF Todos
  <2>4. \A x, y \in Steps : <<n, t>> = <<x, y>> => Apart(x, y)
    BY <1>4, Zenon DEF Apart
  <2>5. PendingOf(<<n, t>>) = {n, t} /\ PendingOf(<<t>>) = {t}
    BY ListOfOne, ListOfTwo, Zenon
  <2>6. PendingOf(<<n, t>>) = N \cup PendingOf(Tail(todo[p]))
    BY <1>4, <2>5, Zenon
  <2>. QED BY <2>2, <2>3, <2>4, <2>6, Zenon
<1>. HIDE DEF Replacing
<1>5. \/ Tail(todo[p]) = <<>>
      \/ \E t \in Steps : t.op \in {"close", "dup"} /\ Tail(todo[p]) = <<t>>
  BY Rest, Zenon
<1>6. Replacing
  <2>1. CASE Tail(todo[p]) = <<>>
    BY <1>1, <1>3, <2>1, Zenon
  <2>2. CASE \E t \in Steps : t.op \in {"close", "dup"} /\ Tail(todo[p]) = <<t>>
    BY <1>2, <1>4, <2>2, Zenon
  <2>. QED BY <1>5, <2>1, <2>2, Zenon
<1>7. PICK t \in Todos : /\ todo' = [todo EXCEPT ![p] = t]
                         /\ \A x, y \in Steps : t = <<x, y>> => Apart(x, y)
                         /\ PendingOf(t) = N \cup PendingOf(Tail(todo[p]))
  BY <1>6, Zenon DEF Replacing
<1>. QED BY <1>7, ListReplaced, Zenon

\* Who refers to what, after a closing step.
LEMMA AdvancedRefs ==
  ASSUME FileInv, NEW p \in Process, NEW op \in Closing, Doing(p, op), NEW s, s = Head(todo[p]), NEW N,
         \A n \in N : n.op \in {"pipeclose", "iput"},
         Pending(p)' = N \cup PendingOf(Tail(todo[p])),
         \A r \in Process \ {p} : Pending(r)' = Pending(r)
  PROVE  /\ \A r \in Process, a \in FD : Replaced(r, a)' <=> Replaced(r, a)
         /\ \A g \in FileIds : (op = "close" /\ g = s.f) \/ Held(g)' = Held(g)
         /\ op = "close" => /\ s.f \in FileIds
                            /\ p \in Held(s.f)
                            /\ Held(s.f)' = Held(s.f) \ {p}
<1>b. PICK R : R = PendingOf(Tail(todo[p]))
  BY Zenon
<1>0. /\ s \in Steps /\ s.op = op /\ Pending(p) = {s} \cup R /\ Pending(p)' = N \cup R
      /\ \A x \in R : x \in Steps /\ x.op \in {"close", "dup"} /\ Apart(s, x)
  BY <1>b, Rest, Zenon
<1>1. \A r \in Process, a \in FD : Replaced(r, a)' <=> Replaced(r, a)
  BY <1>0, Zenon DEF Replaced, Closing
<1>2. ASSUME NEW g \in FileIds, ~(op = "close" /\ g = s.f)
      PROVE  Held(g)' = Held(g)
  <2>1. \A x \in {s} \cup N : ~Holds(x, g)
    BY <1>0, <1>2, Zenon DEF Holds, Closing
  <2>2. p \in Held(g)' <=> p \in Held(g)
    BY <1>0, <2>1, Zenon DEF Held, Holds
  <2>3. \A r \in Process \ {p} : r \in Held(g)' <=> r \in Held(g)
    BY Zenon DEF Held, Holds
  <2>4. Held(g) \subseteq Process /\ Held(g)' \subseteq Process
    BY Zenon DEF Held
  <2>. QED BY <2>2, <2>3, <2>4
<1>3. ASSUME op = "close"
      PROVE  s.f \in FileIds /\ p \in Held(s.f) /\ Held(s.f)' = Held(s.f) \ {p}
  <2>1. s.f \in FileIds
    BY <1>0, <1>3, StepFiles, Zenon DEF FileInv
  <2>2. p \in Held(s.f)
    BY <1>0, <1>3, Zenon DEF Held, Holds
  <2>3. p \notin Held(s.f)'
    BY <1>0, <1>3, Zenon DEF Held, Holds, Apart
  <2>4. \A r \in Process \ {p} : r \in Held(s.f)' <=> r \in Held(s.f)
    BY Zenon DEF Held, Holds
  <2>5. Held(s.f) \subseteq Process /\ Held(s.f)' \subseteq Process
    BY Zenon DEF Held
  <2>. QED BY <2>1, <2>2, <2>3, <2>4, <2>5, Zenon
<1>. QED BY <1>1, <1>2, <1>3, Zenon

\* fileclose of a file with more references than this one, or of one that was
\* never filled in, has nothing else to give back.
LEMMA FileClosed ==
  ASSUME Counting, FileInv, NEW p \in Process, Doing(p, "close"), NEW f, f = Head(todo[p]).f, NEW N,
         \A n \in N : n.op \in {"pipeclose", "iput"},
         todo' \in [Process -> Todos], Pending(p)' = N \cup PendingOf(Tail(todo[p])),
         \A r \in Process \ {p} : Pending(r)' = Pending(r),
         \A r \in Process : \A x, y \in Steps : todo'[r] = <<x, y>> => Apart(x, y),
         ref' = [ref EXCEPT ![f] = @ - 1],
         type' = [type EXCEPT ![f] = IF ref[f] = 1 THEN "FD_NONE" ELSE @],
         UNCHANGED <<pipe, writable, ends, irefs, opening, ofile, alive, panic>>
  PROVE  /\ TypeOK' /\ StepInv' /\ RefCount' /\ FreeUnused' /\ FdValid' /\ NoPanic'
         /\ f \in FileIds
<1>a. PICK s : s = Head(todo[p])
  BY Zenon
<1>b. "close" \in Closing
  BY Zenon DEF Closing
<1>0. /\ \A r \in Process, a \in FD : Replaced(r, a)' <=> Replaced(r, a)
      /\ \A g \in FileIds \ {f} : Held(g)' = Held(g)
      /\ f \in FileIds /\ p \in Held(f) /\ Held(f)' = Held(f) \ {p}
  <2>1. /\ \A r \in Process, a \in FD : Replaced(r, a)' <=> Replaced(r, a)
        /\ \A g \in FileIds : ("close" = "close" /\ g = s.f) \/ Held(g)' = Held(g)
        /\ "close" = "close" => s.f \in FileIds /\ p \in Held(s.f) /\ Held(s.f)' = Held(s.f) \ {p}
    BY <1>a, <1>b, AdvancedRefs, Zenon
  <2>. QED BY <1>a, <2>1, Zenon
<1>1. ref[f] >= 1 /\ (ref[f] = 1 => Held(f) = {p} /\ Descriptors(f) = {})
  BY <1>0, Referenced, ZenonT(30)
<1>2. /\ ref'[f] = ref[f] - 1 /\ ref' \in [FileIds -> Nat]
      /\ \A g \in FileIds \ {f} : ref'[g] = ref[g] /\ type'[g] = type[g]
      /\ type'[f] = IF ref[f] = 1 THEN "FD_NONE" ELSE type[f]
      /\ type' \in [FileIds -> {"FD_NONE", "FD_PIPE", "FD_INODE"}]
  BY <1>0, <1>1 DEF FileInv, TypeOK
<1>3. TypeOK'
  BY <1>2, Zenon DEF FileInv, TypeOK
<1>4. \A g \in FileIds : Descriptors(g)' = Descriptors(g)
  BY <1>0, Zenon DEF Descriptors
<1>5. RefCount'
  <2>1. ASSUME NEW g \in FileIds \ {f}
        PROVE  ref'[g] = Cardinality(Descriptors(g)') + Cardinality(Held(g)')
    BY <1>0, <1>2, <1>4 DEF FileInv, RefCount
  <2>2. Cardinality(Held(f)') = Cardinality(Held(f)) - 1
    BY <1>0, RefsFinite, Minus, ZenonT(30)
  <2>3. ref[f] = Cardinality(Descriptors(f)) + Cardinality(Held(f))
    BY <1>0, Zenon DEF FileInv, RefCount
  <2>4. ref'[f] = Cardinality(Descriptors(f)') + Cardinality(Held(f)')
    BY <1>0, <1>2, <1>4, <2>2, <2>3, RefsFinite
  <2>. QED BY <2>1, <2>4, ZenonT(30) DEF RefCount
<1>6. StepInv'
  <2>1. ASSUME NEW r \in Process \ {p}, NEW x \in Pending(r)
        PROVE  Justified(r, x)'
    <3>1. \A g \in FileIds : Fresh(g) /\ r \in Held(g) => g # f
      BY <1>0, <1>1, Zenon DEF Fresh
    <3>2. Justified(r, x) /\ \A g \in FileIds : Holds(x, g) => r \in Held(g)
      BY Zenon DEF FileInv, StepInv, Held
    <3>3. /\ x.op \in {"openfd", "opentype", "pipefile", "close"} => x.f \in FileIds
          /\ x.op = "pipepage" => x.f \in FileIds /\ x.g \in FileIds
      BY StepFiles, Zenon DEF FileInv
    <3>4. \A g \in FileIds : Fresh(g) /\ r \in Held(g) => Fresh(g)'
      BY <1>2, <3>1, Zenon DEF Fresh
    <3>. QED BY <3>2, <3>3, <3>4, Zenon DEF Justified, Holds
  <2>2. ASSUME NEW x \in Pending(p)'
        PROVE  Justified(p, x)'
    <3>1. x \in N \/ x \in PendingOf(Tail(todo[p]))
      BY Zenon
    <3>2. CASE x \in N
      BY <3>2, Zenon DEF Justified
    <3>3. CASE x \in PendingOf(Tail(todo[p]))
      <4>1. x.op \in {"close", "dup"} /\ x \in Pending(p)
        BY <1>b, <3>3, Rest, Zenon
      <4>2. Justified(p, x)
        BY <4>1, ZenonT(30) DEF FileInv, StepInv
      <4>. QED BY <4>1, <4>2, Zenon DEF Justified
    <3>. QED BY <3>1, <3>2, <3>3, Zenon
  <2>. QED BY <2>1, <2>2, Zenon DEF StepInv, Apart
<1>7. FreeUnused'
  BY <1>0, <1>1, <1>2 DEF FileInv, FreeUnused, TypeOK
<1>8. FdValid'
  <2>. SUFFICES ASSUME NEW r \in Process, NEW a \in FD, ofile[r][a] # NULL, ~Replaced(r, a)
                PROVE  type'[ofile[r][a]] # "FD_NONE"
    BY <1>0, Zenon DEF FdValid
  <2>1. type[ofile[r][a]] # "FD_NONE" /\ ofile[r][a] \in FileIds
    BY DEF FileInv, FdValid, TypeOK
  <2>2. ofile[r][a] = f => <<r, a>> \in Descriptors(f)
    BY Zenon DEF Descriptors
  <2>. QED BY <1>1, <1>2, <2>1, <2>2, Zenon
<1>. QED BY <1>0, <1>3, <1>5, <1>6, <1>7, <1>8, Zenon DEF FileInv, NoPanic

LEMMA SameBut ==
  ASSUME NEW A, NEW B, NEW x, B \ {x} = A \ {x}, x \notin A
  PROVE  (x \in B => B = A \cup {x}) /\ (x \notin B => B = A)
OBVIOUS

\* Process p, done with the step s, has the steps N to do: who has an end to close
\* or an inode to put, before and after.
HandedOver(p, s, N) ==
  /\ \A q \in Pipes, w \in BOOLEAN :
       /\ Closers(q, w)' \ {p} = Closers(q, w) \ {p}
       /\ p \in Closers(q, w)' <=> PipeCloseStep(q, w) \in N
       /\ p \in Closers(q, w) <=> PipeCloseStep(q, w) = s
  /\ Putters' \ {p} = Putters \ {p}
  /\ p \in Putters' <=> IputStep \in N
  /\ p \in Putters <=> IputStep = s

LEMMA AdvancedObjects ==
  ASSUME FileInv, NEW p \in Process, NEW op \in Closing, Doing(p, op), NEW s, s = Head(todo[p]), NEW N,
         \A n \in N : n.op \in {"pipeclose", "iput"},
         Pending(p)' = N \cup PendingOf(Tail(todo[p])),
         \A r \in Process \ {p} : Pending(r)' = Pending(r)
  PROVE  HandedOver(p, s, N)
<1>b. PICK R : R = PendingOf(Tail(todo[p]))
  BY Zenon
<1>0. /\ Pending(p) = {s} \cup R /\ Pending(p)' = N \cup R
      /\ \A x \in R : x.op \in {"close", "dup"}
  BY <1>b, Rest, Zenon
<1>1. IputStep \notin R /\ \A q, w : PipeCloseStep(q, w) \notin R
  BY <1>0, Zenon DEF IputStep, PipeCloseStep
<1>2. ASSUME NEW q \in Pipes, NEW w \in BOOLEAN
      PROVE  /\ Closers(q, w)' \ {p} = Closers(q, w) \ {p}
             /\ p \in Closers(q, w)' <=> PipeCloseStep(q, w) \in N
             /\ p \in Closers(q, w) <=> PipeCloseStep(q, w) = s
  <2>1. /\ p \in Closers(q, w)' <=> PipeCloseStep(q, w) \in N
        /\ p \in Closers(q, w) <=> PipeCloseStep(q, w) = s
    BY <1>0, <1>1, Zenon DEF Closers, PipeCloseStep
  <2>2. \A r \in Process \ {p} : r \in Closers(q, w)' <=> r \in Closers(q, w)
    BY Zenon DEF Closers, PipeCloseStep
  <2>3. Closers(q, w) \subseteq Process /\ Closers(q, w)' \subseteq Process
    BY Zenon DEF Closers
  <2>. QED BY <2>1, <2>2, <2>3, Zenon
<1>3. /\ Putters' \ {p} = Putters \ {p}
      /\ p \in Putters' <=> IputStep \in N
      /\ p \in Putters <=> IputStep = s
  <2>1. /\ p \in Putters' <=> IputStep \in N
        /\ p \in Putters <=> IputStep = s
    BY <1>0, <1>1, Zenon DEF Putters, IputStep
  <2>2. \A r \in Process \ {p} : r \in Putters' <=> r \in Putters
    BY Zenon DEF Putters, IputStep
  <2>3. Putters \subseteq Process /\ Putters' \subseteq Process
    BY Zenon DEF Putters
  <2>. QED BY <2>1, <2>2, <2>3, Zenon
<1>. QED BY <1>2, <1>3, Zenon DEF HandedOver

\* fileclose drops the last reference to an open inode.
LEMMA InodeReleased ==
  ASSUME Counting, PipeEnds, OneOwner, InodeRefs, TypeOK, NEW p \in Process, NEW f \in FileIds,
         type[f] = "FD_INODE", type' = [type EXCEPT ![f] = "FD_NONE"],
         UNCHANGED <<pipe, writable, ends, irefs, opening>>,
         \A q \in Pipes, w \in BOOLEAN : Closers(q, w)' = Closers(q, w),
         p \notin Putters, Putters' = Putters \cup {p}
  PROVE  PipeEnds' /\ OneOwner' /\ InodeRefs'
<1>1. /\ type'[f] = "FD_NONE" /\ \A g \in FileIds \ {f} : type'[g] = type[g]
  BY Zenon DEF TypeOK
<1>2. PipeEnds' /\ OneOwner'
  <2>1. \A g \in FileIds : type'[g] = "FD_PIPE" <=> type[g] = "FD_PIPE"
    BY <1>1, Zenon
  <2>. QED BY <2>1, EndsKept, Zenon DEF TypeOK
<1>3. InodeRefs'
  <2>. DEFINE S == {g \in FileIds : type[g] = "FD_INODE"}
              T == {g \in FileIds : type'[g] = "FD_INODE"}
  <2>1. T = S \ {f} /\ f \in S
    BY <1>1, Zenon
  <2>2. Cardinality(T) = Cardinality(S) - 1
    BY <2>1, InodesFinite, Minus, Zenon
  <2>3. Cardinality(Putters') = Cardinality(Putters) + 1
    BY InodesFinite, Plus, Zenon
  <2>4. /\ irefs = Cardinality(S) + Cardinality(Putters) + Cardinality(opening)
        /\ Cardinality(S) \in Nat /\ Cardinality(Putters) \in Nat /\ Cardinality(opening) \in Nat
    BY InodesFinite, Zenon DEF InodeRefs, Putters, TypeOK
  <2>5. irefs' = Cardinality(T) + Cardinality(Putters') + Cardinality(opening')
    BY <2>2, <2>3, <2>4
  <2>. QED BY <2>5, Zenon DEF InodeRefs, Putters
<1>. QED BY <1>2, <1>3, Zenon

\* fileclose drops the last reference to an end of a pipe.
LEMMA EndReleased ==
  ASSUME PipeEnds, OneOwner, InodeRefs, TypeOK, NEW p \in Process, NEW f \in FileIds,
         type[f] = "FD_PIPE", type' = [type EXCEPT ![f] = "FD_NONE"],
         UNCHANGED <<pipe, writable, ends, irefs, opening>>,
         NEW k \in Pipes, NEW v \in BOOLEAN, pipe[f] = k, writable[f] = v,
         Closers(k, v)' = {p},
         \A q \in Pipes, w \in BOOLEAN : <<q, w>> # <<k, v>> => Closers(q, w)' = Closers(q, w),
         Putters' = Putters
  PROVE  PipeEnds' /\ OneOwner' /\ InodeRefs'
<1>1. /\ type'[f] = "FD_NONE" /\ \A g \in FileIds \ {f} : type'[g] = type[g]
  BY Zenon DEF TypeOK
<1>2. Closers(k, v) = {}
  BY Zenon DEF OneOwner
<1>3. ASSUME NEW q \in Pipes, NEW w \in BOOLEAN
      PROVE  (IF w THEN "write" ELSE "read") \in ends[q] <=>
               \/ \E g \in FileIds : type'[g] = "FD_PIPE" /\ pipe[g] = q /\ writable[g] = w
               \/ Closers(q, w)' # {}
  <2>1. (IF w THEN "write" ELSE "read") \in ends[q] <=>
          \/ \E g \in FileIds : type[g] = "FD_PIPE" /\ pipe[g] = q /\ writable[g] = w
          \/ Closers(q, w) # {}
    BY Zenon DEF PipeEnds, Closers
  <2>2. CASE <<q, w>> = <<k, v>>
    <3>1. (IF w THEN "write" ELSE "read") \in ends[q]
      BY <2>1, <2>2, Zenon
    <3>2. Closers(q, w)' # {}
      BY <2>2, Zenon
    <3>. QED BY <3>1, <3>2, Zenon
  <2>3. CASE <<q, w>> # <<k, v>>
    <3>1. ASSUME NEW g \in FileIds
          PROVE  type'[g] = "FD_PIPE" /\ pipe[g] = q /\ writable[g] = w
                   <=> type[g] = "FD_PIPE" /\ pipe[g] = q /\ writable[g] = w
      <4>1. g = f => ~(pipe[g] = q /\ writable[g] = w)
        BY <2>3, Zenon
      <4>2. g # f => type'[g] = type[g]
        BY <1>1, Zenon
      <4>. QED BY <1>1, <4>1, <4>2, Zenon
    <3>2. Closers(q, w)' = Closers(q, w)
      BY <2>3, Zenon
    <3>. QED BY <2>1, <3>1, <3>2, Zenon
  <2>. QED BY <2>2, <2>3, Zenon
<1>4. PipeEnds'
  BY <1>3, ZenonT(30) DEF PipeEnds, Closers
<1>5. OneOwner'
  <2>1. \A g \in FileIds : type'[g] = "FD_PIPE" => type[g] = "FD_PIPE" /\ g # f
    BY <1>1, Zenon
  <2>2. \A g \in FileIds : type'[g] = "FD_PIPE" => pipe[g] \in Pipes
    BY <2>1, Zenon DEF OneOwner
  <2>3. ASSUME NEW g \in FileIds, NEW q \in Pipes, NEW w \in BOOLEAN,
               type'[g] = "FD_PIPE", pipe[g] = q, writable[g] = w
        PROVE  Closers(q, w)' = {}
    <3>1. Closers(q, w) = {}
      BY <2>1, <2>3, Zenon DEF OneOwner
    <3>2. <<q, w>> # <<k, v>>
      <4>1. type[g] = "FD_PIPE" /\ g # f
        BY <2>1, <2>3, Zenon
      <4>2. ~(pipe[g] = pipe[f] /\ writable[g] = writable[f])
        BY <4>1, Zenon DEF OneOwner
      <4>. QED BY <2>3, <4>2, Zenon
    <3>. QED BY <3>1, <3>2, Zenon
  <2>4. \A g, h \in FileIds :
          type'[g] = "FD_PIPE" /\ type'[h] = "FD_PIPE" /\ pipe[g] = pipe[h] /\ writable[g] = writable[h]
            => g = h
    BY <2>1, Zenon DEF OneOwner
  <2>5. ASSUME NEW q \in Pipes, NEW w \in BOOLEAN, NEW x \in Closers(q, w)', NEW y \in Closers(q, w)'
        PROVE  x = y
    <3>1. CASE <<q, w>> = <<k, v>>
      BY <3>1
    <3>2. CASE <<q, w>> # <<k, v>>
      <4>1. Closers(q, w)' = Closers(q, w)
        BY <3>2, Zenon
      <4>. QED BY <4>1 DEF OneOwner
    <3>. QED BY <3>1, <3>2, Zenon
  <2>. QED BY <2>2, <2>3, <2>4, <2>5, Zenon DEF OneOwner
<1>6. InodeRefs'
  <2>1. {g \in FileIds : type'[g] = "FD_INODE"} = {g \in FileIds : type[g] = "FD_INODE"}
    BY <1>1, Zenon
  <2>. QED BY <2>1, Zenon DEF InodeRefs, Putters
<1>. QED BY <1>4, <1>5, <1>6, Zenon

\* fileclose.
LEMMA FileCloseKeeps ==
  ASSUME Counting, FileInv, NEW p \in Process, FileClose(p)
  PROVE  FileInv'
<1>a. PICK s : s = Head(todo[p])
  BY Zenon
<1>b. PICK f : f = s.f
  BY Zenon
<1>0. "close" \in Closing /\ Doing(p, "close") /\ UNCHANGED <<pipe, writable, ends, irefs, opening, ofile, alive>>
  BY ZenonT(30) DEF Closing, FileClose
<1>1. s \in Steps /\ s.op = "close" /\ f \in FileIds /\ s # IputStep /\ \A q, w : PipeCloseStep(q, w) # s
  <2>1. s \in Steps /\ s.op = "close" /\ s \in Pending(p)
    BY <1>0, <1>a, Rest, Zenon
  <2>. QED BY <1>b, <2>1, StepFiles DEF FileInv, IputStep, PipeCloseStep
<1>2. ref[f] >= 1
  <2>1. s \in Pending(p)
    BY <1>0, <1>a, Rest, Zenon
  <2>2. p \in Held(f)
    BY <1>1, <1>b, <2>1, Zenon DEF Held, Holds
  <2>. QED BY <1>1, <2>2, Referenced, Zenon
<1>3. /\ ref' = [ref EXCEPT ![f] = @ - 1]
      /\ type' = [type EXCEPT ![f] = IF ref[f] = 1 THEN "FD_NONE" ELSE @]
      /\ Then(p, IF ref[f] = 1 THEN Release(f) ELSE <<>>)
      /\ panic' = panic
  <2>1. ref[f] \in Nat /\ ~(ref[f] < 1)
    BY <1>1, <1>2 DEF FileInv, TypeOK
  <2>. QED BY <1>a, <1>b, <2>1, Zenon DEF FileClose
<1>. DEFINE Objects == PipeEnds' /\ OneOwner' /\ InodeRefs'
<1>. DEFINE Left(N) ==
              /\ \A n \in N : n.op \in {"pipeclose", "iput"}
              /\ \/ N = {} /\ Then(p, <<>>)
                 \/ \E n \in Steps : n.op \in {"pipeclose", "iput"} /\ N = {n} /\ Then(p, <<n>>)
            Result(N) ==
              /\ \A q \in Pipes, w \in BOOLEAN :
                   /\ PipeCloseStep(q, w) \notin N => Closers(q, w)' = Closers(q, w)
                   /\ PipeCloseStep(q, w) \in N => Closers(q, w)' = Closers(q, w) \cup {p}
              /\ p \notin Putters
              /\ Putters' = IF IputStep \in N THEN Putters \cup {p} ELSE Putters
              /\ Objects => FileInv'
<1>4. ASSUME NEW N, Left(N)
      PROVE  Result(N)
  <2>1. /\ todo' \in [Process -> Todos]
        /\ Pending(p)' = N \cup PendingOf(Tail(todo[p]))
        /\ \A r \in Process \ {p} : Pending(r)' = Pending(r)
        /\ \A r \in Process : \A x, y \in Steps : todo'[r] = <<x, y>> => Apart(x, y)
    BY <1>0, <1>4, Advanced, Zenon
  <2>2. /\ \A q \in Pipes, w \in BOOLEAN :
             /\ Closers(q, w)' \ {p} = Closers(q, w) \ {p}
             /\ p \in Closers(q, w)' <=> PipeCloseStep(q, w) \in N
             /\ p \in Closers(q, w) <=> PipeCloseStep(q, w) = s
        /\ Putters' \ {p} = Putters \ {p}
        /\ p \in Putters' <=> IputStep \in N
        /\ p \in Putters <=> IputStep = s
    <3>1. \A m \in N : m.op \in {"pipeclose", "iput"}
      BY <1>4, Zenon
    <3>2. "close" \in Closing /\ Doing(p, "close")
      BY <1>0, Zenon
    <3>3. /\ Pending(p)' = N \cup PendingOf(Tail(todo[p]))
          /\ \A r \in Process \ {p} : Pending(r)' = Pending(r)
      BY <2>1, Zenon
    <3>4. HandedOver(p, s, N)
      BY <1>a, <3>1, <3>2, <3>3, AdvancedObjects, Zenon
    <3>. QED BY <3>4, Zenon DEF HandedOver
  <2>3. /\ p \notin Putters /\ \A q \in Pipes, w \in BOOLEAN : p \notin Closers(q, w)
        /\ Putters' = IF IputStep \in N THEN Putters \cup {p} ELSE Putters
    <3>1. IputStep # s /\ \A q \in Pipes, w \in BOOLEAN : PipeCloseStep(q, w) # s
      BY <1>1, Zenon DEF IputStep, PipeCloseStep
    <3>2. p \notin Putters /\ \A q \in Pipes, w \in BOOLEAN : p \notin Closers(q, w)
      BY <2>2, <3>1, Zenon
    <3>3. /\ IputStep \in N => Putters' = Putters \cup {p}
          /\ IputStep \notin N => Putters' = Putters
      BY <2>2, <3>2, SameBut, Zenon
    <3>. QED BY <3>2, <3>3, Zenon
  <2>4. ASSUME NEW q \in Pipes, NEW w \in BOOLEAN
        PROVE  /\ PipeCloseStep(q, w) \notin N => Closers(q, w)' = Closers(q, w)
               /\ PipeCloseStep(q, w) \in N => Closers(q, w)' = Closers(q, w) \cup {p}
    <3>1. /\ Closers(q, w)' \ {p} = Closers(q, w) \ {p}
          /\ p \in Closers(q, w)' <=> PipeCloseStep(q, w) \in N
          /\ p \notin Closers(q, w)
      BY <2>2, <2>3, Zenon
    <3>. QED BY <3>1, SameBut, Zenon
  <2>5. TypeOK' /\ StepInv' /\ RefCount' /\ FreeUnused' /\ FdValid' /\ NoPanic'
    BY <1>0, <1>3, <1>4, <1>a, <1>b, <2>1, FileClosed, Zenon
  <2>. QED BY <2>1, <2>3, <2>4, <2>5, Zenon DEF FileInv
<1>. HIDE DEF Left, Result
<1>5. PipeEnds /\ OneOwner /\ InodeRefs /\ TypeOK
  BY Zenon DEF FileInv
<1>6. CASE ref[f] # 1 \/ type[f] = "FD_NONE"
  <2>1. Then(p, <<>>) /\ UNCHANGED type
    <3>1. type \in [FileIds -> {"FD_NONE", "FD_PIPE", "FD_INODE"}]
      BY <1>5, Zenon DEF TypeOK
    <3>. QED BY <1>1, <1>3, <1>6, <3>1, Zenon DEF Release
  <2>2. Left({})
    BY <2>1, Zenon DEF Left
  <2>3. Result({})
    BY <1>4, <2>2, Zenon
  <2>4. (\A q \in Pipes, w \in BOOLEAN : Closers(q, w)' = Closers(q, w)) /\ Putters' = Putters
    BY <2>3, Zenon DEF Result
  <2>5. Objects
    BY <1>0, <1>5, <2>1, <2>4, ObjectsKept, Zenon DEF TypeOK
  <2>. QED BY <2>3, <2>5, Zenon DEF Result
<1>7. CASE ref[f] = 1 /\ type[f] = "FD_INODE"
  <2>1. Then(p, <<IputStep>>) /\ type' = [type EXCEPT ![f] = "FD_NONE"]
    BY <1>3, <1>7, Zenon DEF Release
  <2>2. IputStep \in Steps /\ IputStep.op = "iput" /\ \A q, w : PipeCloseStep(q, w) # IputStep
    BY Zenon DEF IputStep, Steps, PipeCloseStep
  <2>3. Left({IputStep})
    BY <2>1, <2>2, Zenon DEF Left
  <2>4. Result({IputStep})
    BY <1>4, <2>3, Zenon
  <2>5. \A q \in Pipes, w \in BOOLEAN : Closers(q, w)' = Closers(q, w)
    BY <2>2, <2>4, Zenon DEF Result
  <2>6. p \notin Putters /\ Putters' = Putters \cup {p}
    BY <2>4, Zenon DEF Result
  <2>7. Objects
    BY <1>0, <1>1, <1>5, <1>7, <2>1, <2>5, <2>6, InodeReleased, Zenon
  <2>. QED BY <2>4, <2>7, Zenon DEF Result
<1>8. CASE ref[f] = 1 /\ type[f] = "FD_PIPE"
  <2>a. PICK k \in Pipes, v \in BOOLEAN : pipe[f] = k /\ writable[f] = v
    <3>1. pipe[f] \in Pipes
      BY <1>1, <1>5, <1>8, Zenon DEF OneOwner
    <3>2. writable[f] \in BOOLEAN
      BY <1>1, <1>5, Zenon DEF TypeOK
    <3>. QED BY <3>1, <3>2, Zenon
  <2>b. PICK n : n = PipeCloseStep(k, v)
    BY Zenon
  <2>1. Then(p, <<n>>) /\ type' = [type EXCEPT ![f] = "FD_NONE"]
    BY <1>3, <1>8, <2>a, <2>b, Zenon DEF Release
  <2>2. n \in Steps /\ n.op = "pipeclose" /\ IputStep # n
    BY <2>a, <2>b, Zenon DEF IputStep, Steps, PipeCloseStep
  <2>3. \A q \in Pipes, w \in BOOLEAN : PipeCloseStep(q, w) = n <=> q = k /\ w = v
    BY <2>a, <2>b, Zenon DEF PipeCloseStep
  <2>4. Result({n})
    <3>1. Left({n})
      BY <2>1, <2>2, Zenon DEF Left
    <3>. QED BY <1>4, <3>1, Zenon
  <2>5. Closers(k, v) = {}
    BY <1>1, <1>5, <1>8, <2>a, Zenon DEF OneOwner
  <2>6. Closers(k, v)' = {p}
    BY <2>3, <2>4, <2>5, Zenon DEF Result
  <2>7. ASSUME NEW q \in Pipes, NEW w \in BOOLEAN, <<q, w>> # <<k, v>>
        PROVE  Closers(q, w)' = Closers(q, w)
    BY <2>3, <2>4, <2>7, Zenon DEF Result
  <2>8. Putters' = Putters
    BY <2>2, <2>4, Zenon DEF Result
  <2>9. Objects
    <3>1. \A q \in Pipes, w \in BOOLEAN : <<q, w>> # <<k, v>> => Closers(q, w)' = Closers(q, w)
      BY <2>7, Zenon
    <3>2. UNCHANGED <<pipe, writable, ends, irefs, opening>>
      BY <1>0, Zenon
    <3>3. type[f] = "FD_PIPE" /\ type' = [type EXCEPT ![f] = "FD_NONE"] /\ f \in FileIds
      BY <1>1, <1>8, <2>1, Zenon
    <3>4. PipeEnds' /\ OneOwner' /\ InodeRefs'
      BY <1>5, <2>a, <2>6, <2>8, <3>1, <3>2, <3>3, EndReleased, ZenonT(30)
    <3>. QED BY <3>4, Zenon
  <2>. QED BY <2>4, <2>9, Zenon DEF Result
<1>9. type[f] \in {"FD_NONE", "FD_PIPE", "FD_INODE"}
  BY <1>1, <1>5, Zenon DEF TypeOK
<1>. QED BY <1>6, <1>7, <1>8, <1>9, Zenon

\* A closing step that concerns no file of the table leaves the references alone.
LEMMA RefsKept ==
  ASSUME FileInv, NEW p \in Process, NEW op \in {"pipeclose", "iput"}, Doing(p, op), Then(p, <<>>),
         UNCHANGED <<ref, type, pipe, writable, ofile, alive, panic>>
  PROVE  /\ todo' \in [Process -> Todos] /\ StepInv' /\ RefCount' /\ FreeUnused' /\ FdValid' /\ NoPanic'
         /\ Pending(p)' = PendingOf(Tail(todo[p]))
         /\ \A r \in Process \ {p} : Pending(r)' = Pending(r)
<1>a. PICK s : s = Head(todo[p])
  BY Zenon
<1>b. op \in Closing /\ op # "close"
  BY Zenon DEF Closing
<1>1. /\ todo' \in [Process -> Todos]
      /\ Pending(p)' = {} \cup PendingOf(Tail(todo[p]))
      /\ \A r \in Process \ {p} : Pending(r)' = Pending(r)
      /\ \A r \in Process : \A x, y \in Steps : todo'[r] = <<x, y>> => Apart(x, y)
  BY <1>b, Advanced, Zenon
<1>2. /\ \A r \in Process, a \in FD : Replaced(r, a)' <=> Replaced(r, a)
      /\ \A g \in FileIds : Held(g)' = Held(g)
  <2>a. PICK N : N = {}
    BY Zenon
  <2>1. /\ \A n \in N : n.op \in {"pipeclose", "iput"}
        /\ Pending(p)' = N \cup PendingOf(Tail(todo[p]))
        /\ \A r \in Process \ {p} : Pending(r)' = Pending(r)
    BY <1>1, <2>a, Zenon
  <2>2. /\ \A r \in Process, a \in FD : Replaced(r, a)' <=> Replaced(r, a)
        /\ \A g \in FileIds : (op = "close" /\ g = s.f) \/ Held(g)' = Held(g)
    BY <1>a, <1>b, <2>1, AdvancedRefs, Zenon
  <2>. QED BY <1>b, <2>2, Zenon
<1>3. RefCount'
  <2>1. \A g \in FileIds : Descriptors(g)' = Descriptors(g)
    BY <1>2, Zenon DEF Descriptors
  <2>. QED BY <1>2, <2>1, Zenon DEF FileInv, RefCount
<1>4. StepInv'
  <2>1. ASSUME NEW r \in Process, NEW x \in Pending(r)'
        PROVE  Justified(r, x)'
    <3>1. x \in Pending(r)
      BY <1>b, <1>1, Rest, Zenon
    <3>. QED BY <3>1, Zenon DEF Justified, Fresh, FileInv, StepInv
  <2>. QED BY <1>1, <2>1, Zenon DEF StepInv, Apart
<1>5. FreeUnused' /\ FdValid'
  BY <1>2, Zenon DEF FileInv, FreeUnused, FdValid
<1>. QED BY <1>1, <1>3, <1>4, <1>5, Zenon DEF FileInv, NoPanic

\* pipeclose.
LEMMA PipeCloseKeeps ==
  ASSUME FileInv, NEW p \in Process, PipeClose(p)
  PROVE  FileInv'
<1>a. PICK s : s = Head(todo[p])
  BY Zenon
<1>0. /\ Doing(p, "pipeclose") /\ Then(p, <<>>) /\ "pipeclose" \in {"pipeclose", "iput"} /\ "pipeclose" \in Closing
      /\ UNCHANGED <<ref, type, pipe, writable, opening, ofile, alive, panic>> /\ irefs' = irefs
      /\ ends' = [ends EXCEPT ![s.pipe] = @ \ {IF s.writable THEN "write" ELSE "read"}]
  BY <1>a, Zenon DEF PipeClose, tableVars, Closing
<1>1. s \in Steps /\ s.op = "pipeclose"
  BY <1>0, <1>a, Rest, Zenon
<1>b. PICK k \in Pipes, v \in BOOLEAN : s.pipe = k /\ s.writable = v
  <2>1. s \in [op : {"pipeclose"}, pipe : Pipes, writable : BOOLEAN]
    BY <1>1, Zenon DEF Steps
  <2>. QED BY <2>1, Zenon
<1>2. s = PipeCloseStep(k, v) /\ \A q \in Pipes, w \in BOOLEAN : PipeCloseStep(q, w) = s <=> q = k /\ w = v
  <2>1. s \in [op : {"pipeclose"}, pipe : Pipes, writable : BOOLEAN]
    BY <1>1, Zenon DEF Steps
  <2>2. s = [op |-> "pipeclose", pipe |-> s.pipe, writable |-> s.writable]
    BY <2>1, Zenon
  <2>. QED BY <1>b, <2>2 DEF PipeCloseStep
<1>3. /\ todo' \in [Process -> Todos] /\ StepInv' /\ RefCount' /\ FreeUnused' /\ FdValid' /\ NoPanic'
      /\ Pending(p)' = PendingOf(Tail(todo[p]))
      /\ \A r \in Process \ {p} : Pending(r)' = Pending(r)
  BY <1>0, RefsKept, Zenon
<1>4. /\ \A q \in Pipes, w \in BOOLEAN :
           /\ Closers(q, w)' \ {p} = Closers(q, w) \ {p}
           /\ p \notin Closers(q, w)'
           /\ p \in Closers(q, w) <=> PipeCloseStep(q, w) = s
      /\ Putters' \ {p} = Putters \ {p}
      /\ p \notin Putters'
      /\ p \in Putters <=> IputStep = s
  <2>a. PICK N : N = {}
    BY Zenon
  <2>1. /\ \A m \in N : m.op \in {"pipeclose", "iput"}
        /\ Pending(p)' = N \cup PendingOf(Tail(todo[p]))
        /\ \A r \in Process \ {p} : Pending(r)' = Pending(r)
    BY <1>3, <2>a, Zenon
  <2>2. PICK op \in Closing : op = "pipeclose" /\ Doing(p, op)
    BY <1>0, Zenon
  <2>3. HandedOver(p, s, N)
    BY <1>a, <2>1, <2>2, AdvancedObjects, Zenon
  <2>. QED BY <2>a, <2>3, Zenon DEF HandedOver
<1>5. Putters' = Putters
  BY <1>2, <1>4 DEF IputStep, PipeCloseStep
<1>6. /\ \A q \in Pipes, w \in BOOLEAN : <<q, w>> # <<k, v>> => Closers(q, w)' = Closers(q, w)
      /\ Closers(k, v)' = {} /\ Closers(k, v) = {p}
  <2>1. ASSUME NEW q \in Pipes, NEW w \in BOOLEAN, <<q, w>> # <<k, v>>
        PROVE  Closers(q, w)' = Closers(q, w)
    <3>1. PipeCloseStep(q, w) # s
      BY <1>2, <2>1, Zenon
    <3>2. Closers(q, w)' \ {p} = Closers(q, w) \ {p} /\ p \notin Closers(q, w)' /\ p \notin Closers(q, w)
      BY <1>4, <3>1, Zenon
    <3>. QED BY <3>2
  <2>2. Closers(k, v) = {p}
    BY <1>2, <1>4 DEF FileInv, OneOwner
  <2>. QED BY <1>4, <2>1, <2>2, ZenonT(30)
<1>7. \A g \in FileIds : ~(type[g] = "FD_PIPE" /\ pipe[g] = k /\ writable[g] = v)
  BY <1>6, Zenon DEF FileInv, OneOwner
<1>8. /\ \A q \in Pipes, w \in BOOLEAN :
           (IF w THEN "write" ELSE "read") \in ends'[q]
             <=> (IF w THEN "write" ELSE "read") \in ends[q] /\ <<q, w>> # <<k, v>>
      /\ ends' \in [Pipes -> SUBSET {"read", "write"}]
  <2>1. ends \in [Pipes -> SUBSET {"read", "write"}]
    BY Zenon DEF FileInv, TypeOK
  <2>. QED BY <1>0, <1>b, <2>1
<1>9. TypeOK'
  BY <1>0, <1>8, Zenon DEF FileInv, TypeOK
<1>10. PipeEnds'
  <2>1. ASSUME NEW q \in Pipes, NEW w \in BOOLEAN
        PROVE  (IF w THEN "write" ELSE "read") \in ends'[q] <=>
                 \/ \E g \in FileIds : type[g] = "FD_PIPE" /\ pipe[g] = q /\ writable[g] = w
                 \/ Closers(q, w)' # {}
    <3>1. (IF w THEN "write" ELSE "read") \in ends[q] <=>
            \/ \E g \in FileIds : type[g] = "FD_PIPE" /\ pipe[g] = q /\ writable[g] = w
            \/ Closers(q, w) # {}
      BY Zenon DEF FileInv, PipeEnds, Closers
    <3>2. CASE <<q, w>> = <<k, v>>
      <4>1. q = k /\ w = v
        BY <3>2, Zenon
      <4>2. ~((IF w THEN "write" ELSE "read") \in ends'[q])
        BY <1>8, <3>2, Zenon
      <4>. QED BY <1>6, <1>7, <4>1, <4>2, Zenon
    <3>3. CASE <<q, w>> # <<k, v>>
      <4>1. Closers(q, w)' = Closers(q, w)
        BY <1>6, <3>3, Zenon
      <4>2. (IF w THEN "write" ELSE "read") \in ends'[q] <=> (IF w THEN "write" ELSE "read") \in ends[q]
        BY <1>8, <3>3, Zenon
      <4>. QED BY <3>1, <4>1, <4>2, Zenon
    <3>. QED BY <3>2, <3>3, Zenon
  <2>2. type' = type /\ pipe' = pipe /\ writable' = writable
    BY <1>0, Zenon
  <2>. QED BY <2>1, <2>2, Zenon DEF PipeEnds, Closers
<1>11. OneOwner'
  <2>1. type' = type /\ pipe' = pipe /\ writable' = writable
    BY <1>0, Zenon
  <2>2. \A q \in Pipes, w \in BOOLEAN : Closers(q, w)' \subseteq Closers(q, w)
    BY <1>4, Zenon
  <2>. QED BY <2>1, <2>2, Zenon DEF FileInv, OneOwner
<1>12. InodeRefs'
  BY <1>0, <1>5, Zenon DEF FileInv, InodeRefs, Putters
<1>. QED BY <1>3, <1>9, <1>10, <1>11, <1>12, Zenon DEF FileInv

\* iput.
LEMMA IputKeeps ==
  ASSUME Counting, FileInv, NEW p \in Process, Iput(p)
  PROVE  FileInv'
<1>a. PICK s : s = Head(todo[p])
  BY Zenon
<1>0. /\ Doing(p, "iput") /\ Then(p, <<>>) /\ "iput" \in {"pipeclose", "iput"} /\ "iput" \in Closing
      /\ UNCHANGED <<ref, type, pipe, writable, opening, ofile, alive, panic>> /\ ends' = ends /\ irefs' = irefs - 1
  BY <1>a, Zenon DEF Iput, tableVars, Closing
<1>1. s \in Steps /\ s.op = "iput"
  BY <1>0, <1>a, Rest, Zenon
<1>2. s = IputStep /\ \A q, w : PipeCloseStep(q, w) # s
  <2>1. s \in [op : {"iput"}]
    BY <1>1, Zenon DEF Steps
  <2>2. s = [op |-> "iput"]
    BY <2>1, Zenon
  <2>. QED BY <1>1, <2>2, Zenon DEF IputStep, PipeCloseStep
<1>3. /\ todo' \in [Process -> Todos] /\ StepInv' /\ RefCount' /\ FreeUnused' /\ FdValid' /\ NoPanic'
      /\ Pending(p)' = PendingOf(Tail(todo[p]))
      /\ \A r \in Process \ {p} : Pending(r)' = Pending(r)
  BY <1>0, RefsKept, Zenon
<1>4. /\ \A q \in Pipes, w \in BOOLEAN :
           /\ Closers(q, w)' \ {p} = Closers(q, w) \ {p}
           /\ p \notin Closers(q, w)'
           /\ p \in Closers(q, w) <=> PipeCloseStep(q, w) = s
      /\ Putters' \ {p} = Putters \ {p}
      /\ p \notin Putters'
      /\ p \in Putters <=> IputStep = s
  <2>a. PICK N : N = {}
    BY Zenon
  <2>1. /\ \A m \in N : m.op \in {"pipeclose", "iput"}
        /\ Pending(p)' = N \cup PendingOf(Tail(todo[p]))
        /\ \A r \in Process \ {p} : Pending(r)' = Pending(r)
    BY <1>3, <2>a, Zenon
  <2>2. PICK op \in Closing : op = "iput" /\ Doing(p, op)
    BY <1>0, Zenon
  <2>3. HandedOver(p, s, N)
    BY <1>a, <2>1, <2>2, AdvancedObjects, Zenon
  <2>. QED BY <2>a, <2>3, Zenon DEF HandedOver
<1>5. Putters' = Putters \ {p} /\ p \in Putters
  BY <1>2, <1>4, Zenon
<1>6. \A q \in Pipes, w \in BOOLEAN : Closers(q, w)' = Closers(q, w)
  BY <1>2, <1>4
<1>7. PipeEnds' /\ OneOwner'
  <2>1. type' = type /\ UNCHANGED <<pipe, writable, ends>>
    BY <1>0, Zenon
  <2>2. \A g \in FileIds : type'[g] = "FD_PIPE" <=> type[g] = "FD_PIPE"
    BY <2>1, Zenon
  <2>. QED BY <1>6, <2>1, <2>2, EndsKept, Zenon DEF FileInv, TypeOK
<1>8. irefs' \in Nat /\ InodeRefs'
  <2>. DEFINE S == {g \in FileIds : type[g] = "FD_INODE"}
  <2>1. Cardinality(Putters') = Cardinality(Putters) - 1 /\ Cardinality(Putters') \in Nat
    BY <1>5, InodesFinite, Minus, Size, Zenon
  <2>2. /\ irefs = Cardinality(S) + Cardinality(Putters) + Cardinality(opening)
        /\ Cardinality(S) \in Nat /\ Cardinality(Putters) \in Nat /\ Cardinality(opening) \in Nat
    BY InodesFinite, Zenon DEF FileInv, InodeRefs, Putters, TypeOK
  <2>3. irefs' \in Nat /\ irefs' = Cardinality(S) + Cardinality(Putters') + Cardinality(opening')
    BY <1>0, <2>1, <2>2
  <2>. QED BY <1>0, <2>3, Zenon DEF InodeRefs, Putters
<1>9. TypeOK'
  BY <1>0, <1>8, Zenon DEF FileInv, TypeOK
<1>. QED BY <1>3, <1>7, <1>8, <1>9, Zenon DEF FileInv

-----------------------------------------------------------------------------
(***************************************************************************)
(* fork and exit.                                                          *)
(***************************************************************************)
\* filedup does not panic for a descriptor of the caller.
LEMMA Duplicable ==
  ASSUME Counting, FileInv, NEW p \in Process, todo[p] = <<>>, NEW fd \in FD, ofile[p][fd] # NULL
  PROVE  ~(ref[ofile[p][fd]] < 1)
<1>1. PICK f \in FileIds : ofile[p][fd] = f
  BY DEF FileInv, TypeOK
<1>2. ~Replaced(p, fd)
  BY ListOfNone, Zenon DEF Pending, PendingOf, Replaced
<1>3. <<p, fd>> \in Descriptors(f)
  BY <1>1, <1>2, Zenon DEF Descriptors
<1>4. ref[f] >= 1 /\ ref[f] \in Nat
  BY <1>3, Referenced, Zenon DEF FileInv, TypeOK
<1>. QED BY <1>1, <1>4

LEMMA ForkKeeps ==
  ASSUME Counting, FileInv, NEW p \in Process, NEW q \in Process, Fork(p, q)
  PROVE  FileInv'
<1>. DEFINE Fds(f) == {fd \in FD : ofile[p][fd] = f}
<1>a. ~\E fd \in FD : ofile[p][fd] # NULL /\ ref[ofile[p][fd]] < 1
  BY Duplicable, Zenon DEF Fork, User
<1>0. /\ p # q /\ todo[p] = <<>> /\ todo[q] = <<>> /\ \A fd \in FD : ofile[q][fd] = NULL
      /\ UNCHANGED <<type, pipe, writable, ends, irefs, opening, todo, panic>>
      /\ alive' = alive \cup {q}
      /\ ref' = [f \in FileIds |-> ref[f] + Cardinality(Fds(f))]
  BY <1>a, Zenon DEF Fork, User, Unused, FreeFds
<1>1. /\ ofile' \in [Process -> [FD -> FileIds \cup {NULL}]]
      /\ \A fd \in FD : ofile'[q][fd] = ofile[p][fd]
      /\ \A r \in Process \ {q} : ofile'[r] = ofile[r]
  <2>1. ofile' = [ofile EXCEPT ![q] =
                    [fd \in FD |-> IF ofile[p][fd] # NULL THEN ofile[p][fd] ELSE @[fd]]]
    BY <1>a, Zenon DEF Fork
  <2>. QED BY <1>0, <2>1 DEF FileInv, TypeOK
<1>2. /\ Pending(p) = {} /\ Pending(q) = {} /\ \A r : Pending(r)' = Pending(r)
  BY <1>0, ListOfNone, Zenon DEF Pending, PendingOf
<1>3. /\ \A r \in Process, a \in FD : Replaced(r, a)' <=> Replaced(r, a)
      /\ \A a \in FD : ~Replaced(p, a) /\ ~Replaced(q, a)
  BY <1>2, Zenon DEF Replaced
<1>4. \A f : Held(f)' = Held(f)
  BY <1>2, Zenon DEF Held, Holds
<1>5. \A f : IsFiniteSet(Fds(f)) /\ Cardinality(Fds(f)) \in Nat
  <2>1. IsFiniteSet(FD)
    BY FileAssumption, Interval DEF FD
  <2>. QED BY <2>1, Subsets, Zenon
<1>6. ASSUME NEW f \in FileIds
      PROVE  /\ Cardinality(Descriptors(f)') = Cardinality(Descriptors(f)) + Cardinality(Fds(f))
             /\ Fds(f) # {} => Descriptors(f) # {}
  <2>. DEFINE New == {q} \X Fds(f)
  <2>1. Descriptors(f)' = Descriptors(f) \cup New
    <3>1. ASSUME NEW r \in Process, NEW a \in FD
          PROVE  <<r, a>> \in Descriptors(f)' <=> <<r, a>> \in Descriptors(f) \cup New
      <4>1. CASE r = q
        <5>1. <<q, a>> \notin Descriptors(f)
          BY <1>0 DEF Descriptors, FileIds, NULL
        <5>2. <<q, a>> \in Descriptors(f)' <=> ofile[p][a] = f
          BY <1>1, <1>3, Zenon DEF Descriptors
        <5>. QED BY <4>1, <5>1, <5>2, Zenon
      <4>2. CASE r # q
        <5>1. <<r, a>> \in Descriptors(f)' <=> <<r, a>> \in Descriptors(f)
          BY <1>1, <1>3, <4>2, Zenon DEF Descriptors
        <5>. QED BY <4>2, <5>1, Zenon
      <4>. QED BY <4>1, <4>2, Zenon
    <3>2. Descriptors(f)' \subseteq Process \X FD /\ Descriptors(f) \cup New \subseteq Process \X FD
      BY Zenon DEF Descriptors
    <3>. QED BY <3>1, <3>2, SamePairs
  <2>2. Descriptors(f) \cap New = {}
    <3>1. f # NULL
      BY DEF FileIds, NULL
    <3>2. \A a \in FD : <<q, a>> \notin Descriptors(f)
      BY <1>0, <3>1, Zenon DEF Descriptors
    <3>. QED BY <3>2
  <2>. HIDE DEF Fds
  <2>3. IsFiniteSet(New) /\ Cardinality(New) = Cardinality(Fds(f))
    <3>1. IsFiniteSet({q}) /\ Cardinality({q}) = 1
      BY One1, Zenon
    <3>2. IsFiniteSet(New) /\ Cardinality(New) = Cardinality({q}) * Cardinality(Fds(f))
      BY <1>5, <3>1, Pairs, Zenon
    <3>. QED BY <1>5, <3>1, <3>2
  <2>. HIDE DEF New
  <2>4. Cardinality(Descriptors(f) \cup New)
          = Cardinality(Descriptors(f)) + Cardinality(New) - Cardinality(Descriptors(f) \cap New)
    BY <2>3, RefsFinite, Pairs, Zenon
  <2>5. Cardinality(Descriptors(f)') = Cardinality(Descriptors(f)) + Cardinality(Fds(f))
    <3>1. Cardinality(Descriptors(f) \cap New) = 0
      BY <2>2, None0, Zenon
    <3>2. Cardinality(Descriptors(f)) \in Nat /\ Cardinality(Fds(f)) \in Nat
      BY <1>5, RefsFinite, Zenon
    <3>. QED BY <2>1, <2>3, <2>4, <3>1, <3>2
  <2>6. Fds(f) # {} => Descriptors(f) # {}
    <3>1. \A a \in Fds(f) : <<p, a>> \in Descriptors(f)
      BY <1>3, Zenon DEF Descriptors, Fds
    <3>. QED BY <3>1, Zenon
  <2>. QED BY <2>5, <2>6, Zenon
<1>7. ref' \in [FileIds -> Nat] /\ \A f \in FileIds : ref'[f] = ref[f] + Cardinality(Fds(f)) /\ ref[f] \in Nat
  <2>1. \A f \in FileIds : ref[f] \in Nat
    BY Zenon DEF FileInv, TypeOK
  <2>. HIDE DEF Fds
  <2>. QED BY <1>0, <1>5, <2>1
<1>8. ASSUME NEW f \in FileIds, Descriptors(f) = {}
      PROVE  ref'[f] = ref[f]
  <2>1. Cardinality(Fds(f)) = 0
    BY <1>6, <1>8, None0, Zenon
  <2>. HIDE DEF Fds
  <2>. QED BY <1>7, <2>1
<1>. HIDE DEF Fds
<1>9. TypeOK' /\ todo' \in [Process -> Todos]
  BY <1>0, <1>1, <1>7, Zenon DEF FileInv, TypeOK
<1>10. RefCount'
  <2>1. ASSUME NEW f \in FileIds
        PROVE  ref'[f] = Cardinality(Descriptors(f)') + Cardinality(Held(f)')
    <3>1. ref[f] = Cardinality(Descriptors(f)) + Cardinality(Held(f))
      BY Zenon DEF FileInv, RefCount
    <3>. QED BY <1>4, <1>5, <1>6, <1>7, <3>1, RefsFinite
  <2>. QED BY <2>1, Zenon DEF RefCount
<1>11. StepInv'
  <2>1. ASSUME NEW r \in Process, NEW x \in Pending(r)
        PROVE  Justified(r, x)'
    <3>1. \A f \in FileIds : Fresh(f) /\ r \in Held(f) => Fresh(f)'
      BY <1>0, <1>8, Referenced, Zenon DEF Fresh
    <3>2. Justified(r, x) /\ \A g \in FileIds : Holds(x, g) => r \in Held(g)
      BY Zenon DEF FileInv, StepInv, Held
    <3>3. /\ x.op \in {"openfd", "opentype", "pipefile", "close"} => x.f \in FileIds
          /\ x.op = "pipepage" => x.f \in FileIds /\ x.g \in FileIds
      BY StepFiles, Zenon DEF FileInv
    <3>4. ofile'[r] = ofile[r]
      BY <1>1, <1>2, Zenon
    <3>. QED BY <3>1, <3>2, <3>3, <3>4, Zenon DEF Justified, Holds
  <2>2. \A r \in Process : \A x, y \in Steps : todo'[r] = <<x, y>> => Apart(x, y)
    BY <1>0, Zenon DEF FileInv, StepInv
  <2>. QED BY <1>2, <2>1, <2>2, Zenon DEF StepInv, Apart
<1>12. FreeUnused'
  <2>1. \A f \in FileIds : ref'[f] = 0 => ref[f] = 0
    BY <1>5, <1>7
  <2>. QED BY <1>0, <2>1, Zenon DEF FileInv, FreeUnused
<1>13. FdValid'
  <2>. SUFFICES ASSUME NEW r \in Process, NEW a \in FD, ofile'[r][a] # NULL, ~Replaced(r, a)
                PROVE  type[ofile'[r][a]] # "FD_NONE"
    BY <1>0, <1>3, Zenon DEF FdValid
  <2>1. CASE r = q
    BY <1>1, <1>3, <2>1, ZenonT(30) DEF FileInv, FdValid
  <2>2. CASE r # q
    BY <1>1, <2>2 DEF FileInv, FdValid
  <2>. QED BY <2>1, <2>2, Zenon
<1>14. PipeEnds' /\ OneOwner' /\ InodeRefs'
  <2>1. (\A k \in Pipes, w \in BOOLEAN : Closers(k, w)' = Closers(k, w)) /\ Putters' = Putters
    BY <1>2, Zenon DEF Closers, Putters, PipeCloseStep, IputStep
  <2>. QED BY <1>0, <2>1, ObjectsKept, Zenon DEF FileInv, TypeOK
<1>. QED BY <1>0, <1>9, <1>10, <1>11, <1>12, <1>13, <1>14, Zenon DEF FileInv, NoPanic

\* Nothing that the invariant speaks of changes, except who exists and who has
\* an inode.
LEMMA Kept ==
  ASSUME Counting, FileInv, Booking, UNCHANGED <<ref, type, pipe, writable, ends, ofile, todo, panic>>,
         alive' \subseteq Process
  PROVE  FileInv'
<1>1. \A r : Pending(r)' = Pending(r)
  BY Zenon DEF Pending
<1>2. \A r, a : Replaced(r, a)' <=> Replaced(r, a)
  BY <1>1, Zenon DEF Replaced
<1>3. \A f : Descriptors(f)' = Descriptors(f) /\ Held(f)' = Held(f)
  BY <1>1, <1>2, Zenon DEF Descriptors, Held, Holds
<1>b. (\A k \in Pipes, w \in BOOLEAN : Closers(k, w)' = Closers(k, w)) /\ Putters' = Putters
  BY <1>1, Zenon DEF Closers, Putters, PipeCloseStep, IputStep
<1>c. irefs' \in Nat /\ opening' \subseteq Process /\ InodeRefs'
  BY <1>b, Booked, Zenon
<1>4. TypeOK' /\ RefCount' /\ FreeUnused' /\ NoPanic' /\ todo' \in [Process -> Todos]
  BY <1>c, <1>3, Zenon DEF FileInv, TypeOK, RefCount, FreeUnused, NoPanic
<1>5. StepInv'
  BY <1>1, Zenon DEF FileInv, StepInv, Justified, Apart, Fresh
<1>6. FdValid'
  BY <1>2, Zenon DEF FileInv, FdValid
<1>7. PipeEnds' /\ OneOwner'
  BY <1>b, EndsKept, Zenon DEF FileInv, TypeOK
<1>. QED BY <1>c, <1>4, <1>5, <1>6, <1>7, Zenon DEF FileInv

-----------------------------------------------------------------------------
(***************************************************************************)
(* Every step keeps the invariant.                                         *)
(***************************************************************************)
LEMMA InitHolds ==
  ASSUME Counting, Init
  PROVE  FileInv
<1>1. /\ ref = [f \in FileIds |-> 0] /\ type = [f \in FileIds |-> "FD_NONE"]
      /\ pipe = [f \in FileIds |-> NULL] /\ writable = [f \in FileIds |-> FALSE]
      /\ ends = [q \in Pipes |-> {}] /\ irefs = 0 /\ opening = {} /\ panic = FALSE
      /\ ofile = [p \in Process |-> [fd \in FD |-> NULL]]
      /\ todo = [p \in Process |-> <<>>] /\ alive \subseteq Process
  BY Zenon DEF Init
<1>2. \A p \in Process : Pending(p) = {} /\ todo[p] = <<>>
  BY <1>1, ListOfNone, Zenon DEF Pending, PendingOf
<1>3. TypeOK /\ todo \in [Process -> Todos] /\ NoPanic /\ FreeUnused /\ FdValid
  <2>1. FALSE \in BOOLEAN /\ 0 \in Nat /\ {} \in SUBSET {"read", "write"}
    BY Zenon
  <2>2. writable \in [FileIds -> BOOLEAN] /\ panic \in BOOLEAN /\ NoPanic
    BY <1>1, <2>1, Zenon DEF NoPanic
  <2>3. TypeOK
    BY <1>1, <2>2, Zenon DEF TypeOK
  <2>. QED BY <1>1, <2>2, <2>3 DEF Todos, FreeUnused, FdValid
<1>4. StepInv
  BY <1>2 DEF StepInv
<1>5. RefCount
  <2>1. ASSUME NEW f \in FileIds
        PROVE  Descriptors(f) = {} /\ Held(f) = {}
    BY <1>1, <1>2 DEF Descriptors, Held, FileIds, NULL
  <2>2. ASSUME NEW f \in FileIds
        PROVE  ref[f] = Cardinality(Descriptors(f)) + Cardinality(Held(f))
    <3>1. Cardinality(Descriptors(f)) = 0 /\ Cardinality(Held(f)) = 0
      BY <2>1, None0, Zenon
    <3>. QED BY <1>1, <3>1
  <2>. QED BY <2>2, Zenon DEF RefCount
<1>6. Putters = {} /\ \A q, w : Closers(q, w) = {}
  BY <1>2, Zenon DEF Putters, Closers
<1>7. OneOwner
  BY <1>1, <1>6, Zenon DEF OneOwner
<1>8. PipeEnds
  <2>1. ASSUME NEW q \in Pipes, NEW w \in BOOLEAN
        PROVE  ~((IF w THEN "write" ELSE "read") \in ends[q])
    BY <1>1, Zenon
  <2>2. \A f \in FileIds : type[f] # "FD_PIPE"
    BY <1>1, Zenon
  <2>3. ASSUME NEW q \in Pipes, NEW w \in BOOLEAN, NEW p \in Process
        PROVE  PipeCloseStep(q, w) \notin Pending(p)
    BY <1>2, Zenon
  <2>. QED BY <2>1, <2>2, <2>3, Zenon DEF PipeEnds
<1>9. InodeRefs
  <2>1. {f \in FileIds : type[f] = "FD_INODE"} = {}
    BY <1>1, Zenon
  <2>2. irefs = Cardinality({f \in FileIds : type[f] = "FD_INODE"}) + Cardinality(Putters)
                + Cardinality(opening)
    <3>1. /\ Cardinality({f \in FileIds : type[f] = "FD_INODE"}) = 0
          /\ Cardinality(Putters) = 0 /\ Cardinality(opening) = 0
      BY <1>1, <1>6, <2>1, None0, Zenon
    <3>. QED BY <1>1, <3>1
  <2>. QED BY <2>2, Zenon DEF InodeRefs, Putters
<1>. QED BY <1>3, <1>4, <1>5, <1>7, <1>8, <1>9, Zenon DEF FileInv

\* The calls that start in user space.
LEMMA CallKeeps ==
  ASSUME Counting, ~AnyDup2, FileInv, NEW p \in Process, Call(p)
  PROVE  FileInv'
<1>1. CASE Open(p)
  <2>1. /\ Booking /\ todo[p] = <<>> /\ alive' \subseteq Process
        /\ UNCHANGED <<type, pipe, writable, ends, ofile, alive, panic>>
    <3>1. /\ User(p) /\ irefs' = irefs + 1 /\ opening' = opening \cup {p}
          /\ UNCHANGED <<type, pipe, writable, ends, ofile, alive, panic>>
      BY <1>1, Zenon DEF Open
    <3>2. alive' \subseteq Process
      BY <3>1, Zenon DEF FileInv, TypeOK
    <3>. QED BY <3>1, <3>2, Zenon DEF User, Booking
  <2>2. CASE UNCHANGED <<ref, todo>>
    BY <2>1, <2>2, Kept, Zenon
  <2>3. ASSUME NEW f \in FileIds, First(FreeFiles, f), ref' = [ref EXCEPT ![f] = 1],
               todo' = [todo EXCEPT ![p] = <<OpenFdStep(f)>>]
        PROVE  FileInv'
    <3>1. OpenFdStep(f) \in Steps /\ OpenFdStep(f).op \in {"openfd", "pipefile"} /\ OpenFdStep(f).f = f
      BY Zenon DEF OpenFdStep, Steps
    <3>2. ref[f] = 0
      BY <2>3, Zenon DEF First, FreeFiles
    <3>. QED BY <2>1, <2>3, <3>1, <3>2, Taken, Zenon
  <2>. QED BY <1>1, <2>2, <2>3, Zenon DEF Open
<1>2. CASE Pipe(p)
  <2>1. PICK f \in FileIds : /\ First(FreeFiles, f)
                             /\ ref' = [ref EXCEPT ![f] = 1]
                             /\ todo' = [todo EXCEPT ![p] = <<PipeFileStep(f)>>]
    BY <1>2, Zenon DEF Pipe
  <2>2. PipeFileStep(f) \in Steps /\ PipeFileStep(f).op \in {"openfd", "pipefile"} /\ PipeFileStep(f).f = f
    BY Zenon DEF PipeFileStep, Steps
  <2>3. /\ ref[f] = 0 /\ todo[p] = <<>> /\ Booking
        /\ UNCHANGED <<type, pipe, writable, ends, ofile, alive, panic>>
    BY <1>2, <2>1, Zenon DEF Pipe, User, First, FreeFiles, Booking
  <2>. QED BY <2>1, <2>2, <2>3, Taken, Zenon
<1>3. CASE Exit(p)
  <2>1. /\ Booking /\ UNCHANGED <<ref, type, pipe, writable, ends, ofile, todo, panic>>
        /\ alive' \subseteq Process
    BY <1>3, Zenon DEF Exit, tableVars, FileInv, TypeOK, Booking
  <2>. QED BY <2>1, Kept, Zenon
<1>4. ASSUME NEW fd \in FD, Dup(p, fd)
      PROVE  FileInv'
  <2>1. PICK new \in FD : First(FreeFds(p), new) /\ ofile' = [ofile EXCEPT ![p][new] = ofile[p][fd]]
    BY <1>4, Zenon DEF Dup
  <2>2. /\ todo[p] = <<>> /\ ofile[p][fd] # NULL /\ ofile[p][new] = NULL
        /\ ref' = [ref EXCEPT ![ofile[p][fd]] = @ + 1]
        /\ UNCHANGED <<type, pipe, writable, ends, irefs, opening, alive, todo, panic>>
    BY <1>4, <2>1, Duplicable, Zenon DEF Dup, User, First, FreeFds
  <2>. QED BY <2>1, <2>2, Duped, Zenon
<1>5. ASSUME NEW fd \in FD, Close(p, fd)
      PROVE  FileInv'
  <2>1. /\ todo[p] = <<>> /\ ofile[p][fd] # NULL
        /\ ofile' = [ofile EXCEPT ![p][fd] = NULL]
        /\ todo' = [todo EXCEPT ![p] = <<CloseStep(ofile[p][fd])>>]
        /\ UNCHANGED <<ref, type, pipe, writable, ends, irefs, opening, alive, panic>>
    BY <1>5, Zenon DEF Close, User, tableVars
  <2>. QED BY <2>1, PutAside, Zenon
<1>6. ASSUME NEW oldfd \in FD, NEW newfd \in FD, Dup2(p, oldfd, newfd)
      PROVE  FileInv'
  <2>1. /\ todo[p] = <<>> /\ oldfd # newfd /\ ofile[p][oldfd] # NULL /\ ofile[p][newfd] # NULL
        /\ todo' = [todo EXCEPT ![p] = <<CloseStep(ofile[p][newfd]), DupStep(oldfd, newfd)>>]
        /\ UNCHANGED <<ref, type, pipe, writable, ends, irefs, opening, ofile, alive, panic>>
    BY <1>6, Zenon DEF Dup2, User, tableVars
  <2>. QED BY <2>1, Dup2Begun, Zenon
<1>7. ASSUME NEW q \in Process, Fork(p, q)
      PROVE  FileInv'
  BY <1>7, ForkKeeps, Zenon
<1>. QED BY <1>1, <1>2, <1>3, <1>4, <1>5, <1>6, <1>7, Zenon DEF Call

\* The steps that calls are made of.
LEMMA StepKeeps ==
  ASSUME Counting, FileInv, NEW p \in Process, Step(p)
  PROVE  FileInv'
<1>a. PICK s : s = Head(todo[p])
  BY Zenon
<1>0. ASSUME NEW op \in {"openfd", "opentype", "pipefile", "pipepage", "dup"}, Doing(p, op)
      PROVE  /\ s \in Steps /\ s.op = op /\ todo[p] = <<s>> /\ Tail(todo[p]) = <<>> /\ Pending(p) = {s}
             /\ \A x : Then(p, <<x>>) => todo' = [todo EXCEPT ![p] = <<x>>]
             /\ \A x, y : Then(p, <<x, y>>) => todo' = [todo EXCEPT ![p] = <<x, y>>]
             /\ Then(p, <<>>) => todo' = [todo EXCEPT ![p] = <<>>]
  <2>1. s \in Steps /\ s.op = op /\ todo[p] = <<s>> /\ Tail(todo[p]) = <<>> /\ Pending(p) = {s}
    BY <1>a, <1>0, Alone, Zenon
  <2>2. /\ <<>> \o <<>> = <<>> /\ \A x : <<x>> \o <<>> = <<x>>
        /\ \A x, y : <<x, y>> \o <<>> = <<x, y>>
    BY Joined, Zenon
  <2>. QED BY <2>1, <2>2, Zenon DEF Then
<1>1. CASE OpenFd(p)
  <2>1. /\ Doing(p, "openfd")
        /\ UNCHANGED <<ref, type, pipe, writable, ends, irefs, opening, alive, panic>>
        /\ \/ /\ Then(p, <<CloseStep(s.f)>>)
              /\ UNCHANGED ofile
           \/ \E fd \in FD :
                /\ First(FreeFds(p), fd)
                /\ ofile' = [ofile EXCEPT ![p][fd] = s.f]
                /\ Then(p, <<OpenTypeStep(s.f, fd)>>)
    BY <1>1, <1>a, Zenon DEF OpenFd, tableVars
  <2>2. s \in Steps /\ s.op = "openfd" /\ todo[p] = <<s>> /\ Pending(p) = {s}
    BY <1>0, <2>1, Zenon
  <2>3. CASE Then(p, <<CloseStep(s.f)>>) /\ UNCHANGED ofile
    <3>1. todo' = [todo EXCEPT ![p] = <<CloseStep(s.f)>>]
      BY <1>0, <2>1, <2>3, Zenon
    <3>. QED BY <2>1, <2>2, <2>3, <3>1, GivenUp, Zenon
  <2>4. ASSUME NEW fd \in FD, First(FreeFds(p), fd), ofile' = [ofile EXCEPT ![p][fd] = s.f],
               Then(p, <<OpenTypeStep(s.f, fd)>>)
        PROVE  FileInv'
    <3>1. todo' = [todo EXCEPT ![p] = <<OpenTypeStep(s.f, fd)>>] /\ ofile[p][fd] = NULL
      BY <1>0, <2>1, <2>4, Zenon DEF First, FreeFds
    <3>. QED BY <2>1, <2>2, <2>4, <3>1, Installed, Zenon
  <2>. QED BY <2>1, <2>3, <2>4, Zenon
<1>6. CASE OpenType(p)
  <2>1. /\ Doing(p, "opentype") /\ p \in opening /\ Then(p, <<>>)
        /\ type' = [type EXCEPT ![s.f] = "FD_INODE"] /\ opening' = opening \ {p}
        /\ UNCHANGED <<ref, pipe, writable, ends, irefs, ofile, alive, panic>>
    BY <1>6, <1>a, Zenon DEF OpenType
  <2>2. /\ s \in Steps /\ s.op = "opentype" /\ todo[p] = <<s>> /\ Pending(p) = {s}
        /\ todo' = [todo EXCEPT ![p] = <<>>]
    BY <1>0, <2>1, Zenon
  <2>. QED BY <2>1, <2>2, Opened, Zenon
<1>7. CASE OpenFail(p)
  <2>1. /\ Booking /\ UNCHANGED <<ref, type, pipe, writable, ends, ofile, todo, panic>>
        /\ alive' \subseteq Process
    BY <1>7, Zenon DEF OpenFail, tableVars, FileInv, TypeOK, Booking
  <2>. QED BY <2>1, Kept, Zenon
<1>2. CASE PipeFile(p)
  <2>1. /\ Doing(p, "pipefile") /\ UNCHANGED <<type, pipe, writable, ends, irefs, opening, ofile, alive, panic>>
        /\ \/ /\ Then(p, <<CloseStep(s.f)>>)
              /\ UNCHANGED ref
           \/ \E g \in FileIds :
                /\ First(FreeFiles, g)
                /\ ref' = [ref EXCEPT ![g] = 1]
                /\ Then(p, <<PipePageStep(s.f, g)>>)
    BY <1>2, <1>a, Zenon DEF PipeFile
  <2>2. s \in Steps /\ s.op = "pipefile" /\ todo[p] = <<s>> /\ Pending(p) = {s}
    BY <1>0, <2>1, Zenon
  <2>3. CASE Then(p, <<CloseStep(s.f)>>) /\ UNCHANGED ref
    <3>1. todo' = [todo EXCEPT ![p] = <<CloseStep(s.f)>>]
      BY <1>0, <2>1, <2>3, Zenon
    <3>. QED BY <2>1, <2>2, <2>3, <3>1, GivenUp, Zenon
  <2>4. ASSUME NEW g \in FileIds, First(FreeFiles, g), ref' = [ref EXCEPT ![g] = 1],
               Then(p, <<PipePageStep(s.f, g)>>)
        PROVE  FileInv'
    <3>1. todo' = [todo EXCEPT ![p] = <<PipePageStep(s.f, g)>>] /\ ref[g] = 0
      BY <1>0, <2>1, <2>4, Zenon DEF First, FreeFiles
    <3>. QED BY <2>1, <2>2, <2>4, <3>1, TakenSecond, Zenon
  <2>. QED BY <2>1, <2>3, <2>4, Zenon
<1>3. CASE PipePage(p)
  <2>1. /\ Doing(p, "pipepage") /\ UNCHANGED <<ref, irefs, opening, alive, panic>>
        /\ \/ /\ Then(p, <<CloseStep(s.f), CloseStep(s.g)>>)
              /\ UNCHANGED <<type, pipe, writable, ends, ofile>>
           \/ \E q \in Pipes :
                /\ Paged(s.f, s.g, q)
                /\ \/ /\ Then(p, <<CloseStep(s.f), CloseStep(s.g)>>)
                      /\ UNCHANGED ofile
                   \/ \E fd0, fd1 \in FD :
                        /\ First(FreeFds(p), fd0) /\ First(FreeFds(p) \ {fd0}, fd1)
                        /\ ofile' = [ofile EXCEPT ![p][fd0] = s.f, ![p][fd1] = s.g]
                        /\ Then(p, <<>>)
    BY <1>3, <1>a, Zenon DEF PipePage, Paged
  <2>2. s \in Steps /\ s.op = "pipepage" /\ todo[p] = <<s>> /\ Pending(p) = {s}
    BY <1>0, <2>1, Zenon
  <2>3. CASE /\ Then(p, <<CloseStep(s.f), CloseStep(s.g)>>) /\ UNCHANGED ofile
             /\ UNCHANGED <<type, pipe, writable, ends>> \/ \E q \in Pipes : Paged(s.f, s.g, q)
    <3>1. todo' = [todo EXCEPT ![p] = <<CloseStep(s.f), CloseStep(s.g)>>]
      BY <1>0, <2>1, <2>3, Zenon
    <3>. QED BY <2>1, <2>2, <2>3, <3>1, PipeGivenUp, Zenon
  <2>4. ASSUME NEW q \in Pipes, Paged(s.f, s.g, q), NEW fd0 \in FD, NEW fd1 \in FD,
               First(FreeFds(p), fd0), First(FreeFds(p) \ {fd0}, fd1),
               ofile' = [ofile EXCEPT ![p][fd0] = s.f, ![p][fd1] = s.g], Then(p, <<>>)
        PROVE  FileInv'
    <3>1. todo' = [todo EXCEPT ![p] = <<>>] /\ fd0 # fd1 /\ ofile[p][fd0] = NULL /\ ofile[p][fd1] = NULL
      BY <1>0, <2>1, <2>4, Zenon DEF First, FreeFds
    <3>. QED BY <2>1, <2>2, <2>4, <3>1, PipeMade, ZenonT(30)
  <2>. QED BY <2>1, <2>3, <2>4, Zenon
<1>4. CASE Dup2Assign(p)
  <2>a. PICK f : f = ofile[p][s.oldfd]
    BY Zenon
  <2>1. /\ Doing(p, "dup") /\ Then(p, <<>>) /\ UNCHANGED <<type, pipe, writable, ends, irefs, opening, alive>>
        /\ IF ref[f] < 1
           THEN panic' = TRUE /\ UNCHANGED <<ref, ofile>>
           ELSE /\ ref' = [ref EXCEPT ![f] = @ + 1]
                /\ ofile' = IF s.newfd \in FD THEN [ofile EXCEPT ![p][s.newfd] = f] ELSE ofile
                /\ UNCHANGED panic
    BY <1>4, <1>a, <2>a, Zenon DEF Dup2Assign
  <2>2. s \in Steps /\ s.op = "dup" /\ todo[p] = <<s>> /\ Pending(p) = {s} /\ todo' = [todo EXCEPT ![p] = <<>>]
    BY <1>0, <2>1, Zenon
  <2>3. s.newfd \in FD /\ s.oldfd \in FD
    BY <2>2, Zenon DEF Steps
  <2>4. ref[f] >= 1 /\ f \in FileIds
    BY <2>a, <2>2, Dup2Source, Zenon
  <2>5. ref[f] \in Nat
    BY <2>4, Zenon DEF FileInv, TypeOK
  <2>6. /\ ref' = [ref EXCEPT ![f] = @ + 1] /\ ofile' = [ofile EXCEPT ![p][s.newfd] = f]
        /\ UNCHANGED <<type, pipe, writable, ends, irefs, opening, alive, panic>>
    BY <2>1, <2>3, <2>4, <2>5
  <2>. QED BY <2>a, <2>2, <2>6, Dup2Ended, Zenon
<1>5. CASE ExitFile(p)
  <2>1. PICK fd \in FD : /\ First(FD \ FreeFds(p), fd)
                         /\ ofile' = [ofile EXCEPT ![p][fd] = NULL]
                         /\ todo' = [todo EXCEPT ![p] = <<CloseStep(ofile[p][fd])>>]
    BY <1>5, Zenon DEF ExitFile
  <2>2. /\ todo[p] = <<>> /\ ofile[p][fd] # NULL
        /\ UNCHANGED <<ref, type, pipe, writable, ends, irefs, opening, alive, panic>>
    BY <1>5, <2>1, Zenon DEF ExitFile, First, FreeFds, tableVars
  <2>. QED BY <2>1, <2>2, PutAside, Zenon
<1>. QED BY <1>1, <1>2, <1>3, <1>4, <1>5, <1>6, <1>7, FileCloseKeeps, PipeCloseKeeps, IputKeeps, Zenon DEF Step

-----------------------------------------------------------------------------
(***************************************************************************)
(* The theorems.                                                           *)
(***************************************************************************)
INSTANCE FiniteSetTheorems

LEMMA Counted == Counting
<1>1. Cardinality({}) = 0 /\ \A x : IsFiniteSet({x}) /\ Cardinality({x}) = 1
  BY FS_EmptySet, FS_Singleton, Zenon
<1>2. \A S : IsFiniteSet(S) => /\ Cardinality(S) \in Nat
                               /\ Cardinality(S) = 0 <=> S = {}
                               /\ Cardinality(S) = 1 <=> \E x : S = {x}
                               /\ \A T \in SUBSET S : IsFiniteSet(T)
  <2>. TAKE S
  <2>. HAVE IsFiniteSet(S)
  <2>1. Cardinality(S) \in Nat /\ \A T \in SUBSET S : IsFiniteSet(T)
    BY FS_CardinalityType, FS_Subset, Zenon
  <2>2. (Cardinality(S) = 0 <=> S = {}) /\ (Cardinality(S) = 1 <=> \E x : S = {x})
    BY FS_EmptySet, FS_Singleton, Zenon
  <2>. QED BY <2>1, <2>2, Zenon
<1>3. ASSUME NEW S, NEW x, IsFiniteSet(S)
      PROVE  /\ x \notin S => IsFiniteSet(S \cup {x}) /\ Cardinality(S \cup {x}) = Cardinality(S) + 1
             /\ x \in S => IsFiniteSet(S \ {x}) /\ Cardinality(S \ {x}) = Cardinality(S) - 1
  BY <1>3, FS_AddElement, FS_RemoveElement, Zenon
<1>4. \A S, x : IsFiniteSet(S) /\ x \notin S
        => IsFiniteSet(S \cup {x}) /\ Cardinality(S \cup {x}) = Cardinality(S) + 1
  BY <1>3, Zenon
<1>5. \A S, x : IsFiniteSet(S) /\ x \in S
        => IsFiniteSet(S \ {x}) /\ Cardinality(S \ {x}) = Cardinality(S) - 1
  BY <1>3, Zenon
<1>6. \A a, b \in Int : IsFiniteSet(a .. b)
  BY FS_Interval, Zenon
<1>7. \A S, T : IsFiniteSet(S) /\ IsFiniteSet(T)
        => /\ IsFiniteSet(S \X T) /\ Cardinality(S \X T) = Cardinality(S) * Cardinality(T)
           /\ Cardinality(S \cup T) = Cardinality(S) + Cardinality(T) - Cardinality(S \cap T)
  BY FS_Product, FS_Union, Zenon
<1>. QED BY <1>1, <1>2, <1>4, <1>5, <1>6, <1>7, ZenonT(30) DEF Counting

\* While programs call dup2 with two different open descriptors, the tables stay
\* consistent, in any number of processes.
THEOREM FileInvariance ==
  ASSUME ~AnyDup2
  PROVE  Spec => []FileInv
<1>1. Init => FileInv
  BY Counted, InitHolds, Zenon
<1>2. FileInv /\ [Next]_vars => FileInv'
  <2>. SUFFICES ASSUME FileInv, [Next]_vars PROVE FileInv'
    BY Zenon
  <2>1. CASE UNCHANGED vars
    <3>1. /\ Booking /\ UNCHANGED <<ref, type, pipe, writable, ends, ofile, todo, panic>>
          /\ alive' \subseteq Process
      BY <2>1, Zenon DEF vars, tableVars, FileInv, TypeOK, Booking
    <3>. QED BY <3>1, Counted, Kept, Zenon
  <2>2. CASE Next
    BY <2>2, Counted, CallKeeps, StepKeeps, Zenon DEF Next
  <2>. QED BY <2>1, <2>2, Zenon
<1>. QED BY <1>1, <1>2, PTL DEF Spec

\* The count of every entry of ftable is exact: filealloc, filedup and fileclose
\* count every reference once, whatever open, pipe, dup, dup2, close, fork and
\* exit do in between.
THEOREM RefCountSafe ==
  ASSUME ~AnyDup2
  PROVE  Spec => []RefCount
<1>1. FileInv => RefCount
  BY Zenon DEF FileInv
<1>. QED BY <1>1, FileInvariance, PTL

\* Behind every descriptor is an open file, and the pipe ends and inode
\* references are those of the open files: fileclose gives each back once.
THEOREM ObjectsSafe ==
  ASSUME ~AnyDup2
  PROVE  Spec => []ObjectsExact
<1>1. FileInv => ObjectsExact
  BY Zenon DEF FileInv, ObjectsExact
<1>. QED BY <1>1, FileInvariance, PTL

\* fileclose and filedup never find a file without references.
THEOREM NeverPanics ==
  ASSUME ~AnyDup2
  PROVE  Spec => []NoPanic
<1>1. FileInv => NoPanic
  BY Zenon DEF FileInv
<1>. QED BY <1>1, FileInvariance, PTL
=============================================================================
