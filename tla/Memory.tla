------------------------------- MODULE Memory -------------------------------
(***************************************************************************)
(* Physical pages and address spaces: kalloc.c, vm.c, exec.c and the parts *)
(* of proc.c that give memory to a process and take it back.  Every call   *)
(* of kalloc is a step of its own, so that processes compete for pages in  *)
(* the middle of fork, exec and sbrk, and each of them can fail anywhere.  *)
(* Which free page kalloc returns is immaterial: it takes the lowest.      *)
(***************************************************************************)
EXTENDS Integers, FiniteSets, FiniteSetsExt

CONSTANTS Slot,     \* process slots
          FirstSlot,    \* the slot of the first process
          Pages,    \* physical pages, positive numbers
          PGSIZE,   \* bytes of a page
          NPDE,     \* page tables of the user part
          NPTE,     \* entries of a page table
          VSPACE,     \* number of values of a uint
          Segments, \* bound: program headers <<vaddr, memsz, filesz>> that exec meets
          Amounts,  \* bound: arguments of sbrk
          MaxSegs,  \* bound: loadable segments of a program
          MaxMemOps \* bound: calls of sbrk, exec and fork

KERNBASE == NPDE * NPTE * PGSIZE

ASSUME MemoryAssumption ==
  /\ Pages \subseteq Nat \ {0} /\ PGSIZE > 0 /\ NPDE > 0 /\ NPTE > 0
  /\ FirstSlot \in Slot /\ KERNBASE <= VSPACE

VARIABLES
  freelist, \* kmem.freelist
  space,    \* p->pgdir and what hangs on it
  build,    \* the page directory that exec or fork is filling
  psz,      \* p->sz
  kstacks,  \* p->kstack, 0 for none
  pstate,   \* p->state
  mop,      \* the call each process is in
  lost,     \* pages that nothing refers to any more
  memops,   \* calls still to come
  mpanic    \* the panic that stopped the system, if any

memVars == <<freelist, space, build, psz, kstacks, pstate, mop, lost, memops, mpanic>>

\* A page directory: its page, the table of the kernel part, the user page
\* tables and their entries, and the entries without PTE_U.
NoSpace == [dir |-> 0, kpt |-> 0, pt |-> [d \in 0 .. NPDE - 1 |-> 0],
            pte |-> [v \in 0 .. NPDE * NPTE - 1 |-> 0], nouser |-> {}]

NoCall == [pc |-> "user", fn |-> "", a |-> 0, old |-> 0, new |-> 0, mem |-> 0,
           segs |-> 0, vaddr |-> 0, file |-> 0, child |-> FirstSlot]

PDX(a) == a \div (NPTE * PGSIZE)

PGROUNDUP(a) == ((a + PGSIZE - 1) \div PGSIZE) * PGSIZE

-----------------------------------------------------------------------------
\* The page numbers that deallocuvm's loop looks at: it jumps to the next
\* page table where there is none.
Visited(s, old, new) ==
  LET f[a \in 0 .. KERNBASE] ==
        IF a >= old THEN {}
        ELSE IF s.pt[PDX(a)] = 0 THEN f[(PDX(a) + 1) * NPTE * PGSIZE]
        ELSE {a \div PGSIZE} \cup f[a + PGSIZE]
  IN  f[PGROUNDUP(new)]

\* deallocuvm: the directory after it, and the pages it frees.
Deallocuvm(s, old, new) ==
  [s EXCEPT !.pte = [v \in DOMAIN @ |-> IF v \in Visited(s, old, new) THEN 0 ELSE @[v]],
            !.nouser = @ \ Visited(s, old, new)]

Dropped(s, old, new) == {s.pte[v] : v \in Visited(s, old, new)} \ {0}

\* Fault: the page tables are not freed.
FreevmTables(s) == (Dropped(s, KERNBASE, 0) \cup {s.dir}) \ {0}

\* The pages that freevm frees.
Freevm(s) ==
  (Dropped(s, KERNBASE, 0) \cup {s.pt[d] : d \in DOMAIN s.pt} \cup {s.kpt, s.dir}) \ {0}

\* kinit1, kinit2 and userinit: setupkvm, one page at address 0.
MemInit ==
  LET p == [i \in 1 .. 5 |-> CHOOSE q \in Pages : Cardinality({x \in Pages : x < q}) = i - 1]
  IN  /\ freelist = Pages \ {p[i] : i \in 1 .. 5}
      /\ space = [[q \in Slot |-> NoSpace] EXCEPT
                    ![FirstSlot] = [NoSpace EXCEPT !.dir = p[2], !.kpt = p[3],
                                               !.pt[0] = p[5], !.pte[0] = p[4]]]
      /\ build = [q \in Slot |-> NoSpace]
      /\ psz = [q \in Slot |-> IF q = FirstSlot THEN PGSIZE ELSE 0]
      /\ kstacks = [q \in Slot |-> IF q = FirstSlot THEN p[1] ELSE 0]
      /\ pstate = [q \in Slot |-> IF q = FirstSlot THEN "RUNNABLE" ELSE "UNUSED"]
      /\ mop = [q \in Slot |-> NoCall]
      /\ lost = {} /\ memops = MaxMemOps /\ mpanic = ""

-----------------------------------------------------------------------------
\* A process in user mode.
InUser(p) == pstate[p] = "RUNNABLE" /\ mop[p].pc = "user"

\* kalloc: the page, and what is left.
HavePage == freelist # {}
Kalloc == Min(freelist)

\* The directory that the loop of allocuvm or copyuvm fills.
Target(p) == IF mop[p].fn = "sbrk" THEN space[p] ELSE build[p]

SetTarget(p, s) ==
  IF mop[p].fn = "sbrk"
  THEN space' = [space EXCEPT ![p] = s] /\ UNCHANGED build
  ELSE build' = [build EXCEPT ![p] = s] /\ UNCHANGED space

\* Fault: allocuvm does not take back what it has mapped.
GrowFailKeeps(p, s, freed) ==
  /\ freelist' = freelist \cup (freed \ Dropped(space[p], mop[p].new, mop[p].old))
  /\ mop' = [mop EXCEPT ![p] = NoCall]
  /\ UNCHANGED <<space, build, psz, kstacks, pstate, lost, mpanic>>

\* growproc returns -1.
GrowFail(p, s, freed) ==
  /\ space' = [space EXCEPT ![p] = s]
  /\ freelist' = freelist \cup freed
  /\ mop' = [mop EXCEPT ![p] = NoCall]
  /\ UNCHANGED <<build, psz, kstacks, pstate, lost, mpanic>>

\* exec's bad: the new directory goes, with the pages in freed.
ExecBad(p, freed) ==
  /\ freelist' = freelist \cup freed \cup Freevm(build[p])
  /\ build' = [build EXCEPT ![p] = NoSpace]
  /\ mop' = [mop EXCEPT ![p] = NoCall]
  /\ UNCHANGED <<space, psz, kstacks, pstate, lost, mpanic>>

\* copyuvm's bad, and fork gives the slot back.  What copyuvm has allocated and
\* not yet mapped is leaked.
ForkBad(p, leaked) ==
  LET c == mop[p].child
  IN  /\ freelist' = freelist \cup Freevm(build[p]) \cup {kstacks[c]}
      /\ build' = [build EXCEPT ![p] = NoSpace]
      /\ kstacks' = [kstacks EXCEPT ![c] = 0]
      /\ pstate' = [pstate EXCEPT ![c] = "UNUSED"]
      /\ lost' = lost \cup leaked
      /\ mop' = [mop EXCEPT ![p] = NoCall]
      /\ UNCHANGED <<space, psz, mpanic>>

\* What follows a failure in the loop: allocuvm undoes what it has done,
\* copyuvm leaves that to freevm.
LoopFails(p, mem) ==
  LET m == mop[p]
  IN  CASE m.fn = "sbrk" -> GrowFail(p, Deallocuvm(space[p], m.new, m.old),
                                     Dropped(space[p], m.new, m.old) \cup mem)
        [] m.fn \in {"seg", "stack"} -> ExecBad(p, mem)
        [] m.fn = "fork" -> ForkBad(p, mem)

-----------------------------------------------------------------------------
\* setupkvm: the directory.
SetupDir(p) ==
  /\ mop[p].pc = "dir"
  /\ IF HavePage
     THEN /\ build' = [build EXCEPT ![p].dir = Kalloc]
          /\ freelist' = freelist \ {Kalloc}
          /\ mop' = [mop EXCEPT ![p].pc = "kpt"]
          /\ UNCHANGED <<space, psz, kstacks, pstate, lost, mpanic>>
     ELSE LoopFails(p, {})

\* setupkvm: the kernel part.
SetupKpt(p) ==
  /\ mop[p].pc = "kpt"
  /\ IF HavePage
     THEN /\ build' = [build EXCEPT ![p].kpt = Kalloc]
          /\ freelist' = freelist \ {Kalloc}
          /\ mop' = [mop EXCEPT ![p].pc = IF mop[p].fn = "fork" THEN "loop" ELSE "header"]
          /\ UNCHANGED <<space, psz, kstacks, pstate, lost, mpanic>>
     ELSE LoopFails(p, {})

\* One iteration of the loop of allocuvm or copyuvm: kalloc.
AllocMem(p) ==
  LET m == mop[p]
      v == m.a \div PGSIZE
  IN  /\ m.pc = "loop" /\ m.a < m.new
      /\ IF m.fn = "fork" /\ space[p].pt[PDX(m.a)] = 0
         THEN /\ mpanic' = "copyuvm: pte should exist"
              /\ UNCHANGED <<freelist, space, build, psz, kstacks, pstate, mop, lost>>
         ELSE IF m.fn = "fork" /\ space[p].pte[v] = 0
         THEN /\ mpanic' = "copyuvm: page not present"
              /\ UNCHANGED <<freelist, space, build, psz, kstacks, pstate, mop, lost>>
         ELSE IF HavePage
         THEN /\ mop' = [mop EXCEPT ![p].pc = "map", ![p].mem = Kalloc]
              /\ freelist' = freelist \ {Kalloc}
              /\ UNCHANGED <<space, build, psz, kstacks, pstate, lost, mpanic>>
         ELSE LoopFails(p, {})

\* mappages of that page, with a new page table where there is none.
AllocMap(p) ==
  LET m == mop[p]
      v == m.a \div PGSIZE
      s == Target(p)
      nou == IF m.fn = "fork" /\ v \in space[p].nouser THEN {v} ELSE {}
      filled == [s EXCEPT !.pte[v] = m.mem, !.nouser = @ \cup nou]
      go == [mop EXCEPT ![p].pc = "loop", ![p].a = @ + PGSIZE, ![p].mem = 0]
  IN  /\ m.pc = "map"
      /\ IF s.pt[PDX(m.a)] # 0 /\ s.pte[v] # 0
         THEN /\ mpanic' = "remap"
              /\ UNCHANGED <<freelist, space, build, psz, kstacks, pstate, mop, lost>>
         ELSE IF s.pt[PDX(m.a)] # 0
         THEN /\ SetTarget(p, filled)
              /\ mop' = go
              /\ UNCHANGED <<freelist, psz, kstacks, pstate, lost, mpanic>>
         ELSE IF HavePage
         THEN /\ SetTarget(p, [filled EXCEPT !.pt[PDX(m.a)] = Kalloc])
              /\ freelist' = freelist \ {Kalloc}
              /\ mop' = go
              /\ UNCHANGED <<psz, kstacks, pstate, lost, mpanic>>
         ELSE LoopFails(p, {m.mem})

Done(p) == mop[p].pc = "loop" /\ mop[p].a >= mop[p].new

-----------------------------------------------------------------------------
\* sbrk(n) for n > 0 enters allocuvm.
Sbrk(p, n) ==
  /\ InUser(p) /\ n > 0 /\ psz[p] + n < KERNBASE
  /\ mop' = [mop EXCEPT ![p] = [NoCall EXCEPT !.pc = "loop", !.fn = "sbrk", !.old = psz[p],
                                  !.a = PGROUNDUP(psz[p]), !.new = psz[p] + n]]
  /\ UNCHANGED <<freelist, space, build, psz, kstacks, pstate, lost, mpanic>>

SbrkDone(p) ==
  /\ Done(p) /\ mop[p].fn = "sbrk"
  /\ psz' = [psz EXCEPT ![p] = mop[p].new]
  /\ mop' = [mop EXCEPT ![p] = NoCall]
  /\ UNCHANGED <<freelist, space, build, kstacks, pstate, lost, mpanic>>

\* sbrk(n) for n < 0.  When deallocuvm's result is 0 growproc takes that for a
\* failure: the pages are gone and the size is not changed.  The process has no
\* code left, and the page fault at its next instruction kills it.
Shrink(p, n) ==
  LET new == (psz[p] + n) % VSPACE
  IN  /\ InUser(p) /\ n < 0 /\ new < psz[p]
      /\ space' = [space EXCEPT ![p] = Deallocuvm(@, psz[p], new)]
      /\ freelist' = freelist \cup Dropped(space[p], psz[p], new)
      /\ psz' = IF new = 0 THEN psz ELSE [psz EXCEPT ![p] = new]
      /\ mop' = IF new = 0 THEN [mop EXCEPT ![p].pc = "fault"] ELSE mop
      /\ UNCHANGED <<build, kstacks, pstate, lost, mpanic>>

-----------------------------------------------------------------------------
\* exec enters setupkvm.
Exec(p) ==
  /\ InUser(p)
  /\ mop' = [mop EXCEPT ![p] = [NoCall EXCEPT !.pc = "dir", !.fn = "seg"]]
  /\ UNCHANGED <<freelist, space, build, psz, kstacks, pstate, lost, mpanic>>

\* readi does not return what exec or loaduvm asked for.
ExecReadFails(p) == mop[p].pc \in {"header", "load"} /\ ExecBad(p, {})

\* exec's tests of a header before it allocates.
HeaderOk(vaddr, memsz, filesz) == memsz >= filesz /\ (vaddr + memsz) % VSPACE >= vaddr

\* The next loadable segment: allocuvm(pgdir, sz, ph.vaddr + ph.memsz), where
\* mop[p].new is the size so far.
ExecHeader(p) ==
  /\ mop[p].pc = "header" /\ mop[p].segs < MaxSegs
  /\ \E h \in Segments :
       LET sz  == mop[p].new
           end == (h[1] + h[2]) % VSPACE
       IN  IF ~HeaderOk(h[1], h[2], h[3]) \/ end >= KERNBASE \/ (end = 0 /\ sz = 0)
           THEN ExecBad(p, {})
           ELSE /\ mop' = [mop EXCEPT ![p] = [@ EXCEPT !.pc = "loop", !.old = sz, !.segs = @ + 1,
                              !.a = PGROUNDUP(sz), !.new = Max({sz, end}),
                              !.vaddr = h[1], !.file = h[3]]]
                /\ UNCHANGED <<freelist, space, build, psz, kstacks, pstate, lost, mpanic>>

SegDone(p) ==
  /\ Done(p) /\ mop[p].fn = "seg"
  /\ IF mop[p].vaddr % PGSIZE # 0 THEN ExecBad(p, {})
     ELSE /\ mop' = [mop EXCEPT ![p].pc = "load"]
          /\ UNCHANGED <<freelist, space, build, psz, kstacks, pstate, lost, mpanic>>

\* loaduvm reads the segment into pages that must be mapped.
ExecLoad(p) ==
  LET m == mop[p]
      pages == {(m.vaddr + i) \div PGSIZE : i \in 0 .. m.file - 1}
  IN  /\ m.pc = "load"
      /\ IF \E v \in pages : v \notin DOMAIN build[p].pte \/ build[p].pte[v] = 0
         THEN /\ mpanic' = "loaduvm: address should exist"
              /\ UNCHANGED mop
         ELSE /\ mop' = [mop EXCEPT ![p] = [@ EXCEPT !.pc = "header", !.vaddr = 0, !.file = 0]]
              /\ UNCHANGED mpanic
      /\ UNCHANGED <<freelist, space, build, psz, kstacks, pstate, lost>>

\* No more headers: two pages above the program.
ExecStack(p) ==
  LET sz == PGROUNDUP(mop[p].new)
  IN  /\ mop[p].pc = "header"
      /\ IF sz + 2 * PGSIZE >= KERNBASE THEN ExecBad(p, {})
         ELSE /\ mop' = [mop EXCEPT ![p] = [NoCall EXCEPT !.pc = "loop", !.fn = "stack", !.old = sz,
                                              !.a = sz, !.new = sz + 2 * PGSIZE]]
              /\ UNCHANGED <<freelist, space, build, psz, kstacks, pstate, lost, mpanic>>

\* clearpteu(pgdir, sz - 2 * PGSIZE).
Guarded(s, sz) == [s EXCEPT !.nouser = @ \cup {(sz \div PGSIZE) - 2}]

\* copyout to the bytes from sp to sz: every page is mapped and has PTE_U.
CopyoutOk(s, sp, sz) ==
  \A v \in {x \div PGSIZE : x \in sp .. sz - 1} : s.pte[v] # 0 /\ v \notin s.nouser

\* The guard page, n bytes of arguments on the stack, and the new directory
\* takes the place of the old one.
ExecCommit(p) ==
  LET sz == mop[p].new
      s  == Guarded(build[p], sz)
  IN  /\ Done(p) /\ mop[p].fn = "stack"
      /\ \E n \in 1 .. sz :
           IF CopyoutOk(s, sz - n, sz)
           THEN /\ space' = [space EXCEPT ![p] = s]
                /\ build' = [build EXCEPT ![p] = NoSpace]
                /\ psz' = [psz EXCEPT ![p] = sz]
                /\ freelist' = freelist \cup Freevm(space[p])
                /\ mop' = [mop EXCEPT ![p] = NoCall]
                /\ UNCHANGED <<kstacks, pstate, lost, mpanic>>
           ELSE ExecBad(p, {})

-----------------------------------------------------------------------------
\* fork: allocproc has the slot and its kernel stack; copyuvm begins.
Fork(p, c) ==
  /\ InUser(p) /\ pstate[c] = "UNUSED" /\ HavePage
  /\ pstate' = [pstate EXCEPT ![c] = "EMBRYO"]
  /\ kstacks' = [kstacks EXCEPT ![c] = Kalloc]
  /\ freelist' = freelist \ {Kalloc}
  /\ mop' = [mop EXCEPT ![p] = [NoCall EXCEPT !.pc = "dir", !.fn = "fork", !.new = psz[p],
                                              !.child = c]]
  /\ UNCHANGED <<space, build, psz, lost, mpanic>>

\* copyuvm is done, and the child may run.
ForkDone(p) ==
  LET c == mop[p].child
  IN  /\ Done(p) /\ mop[p].fn = "fork"
      /\ space' = [space EXCEPT ![c] = build[p]]
      /\ build' = [build EXCEPT ![p] = NoSpace]
      /\ psz' = [psz EXCEPT ![c] = psz[p]]
      /\ pstate' = [pstate EXCEPT ![c] = "RUNNABLE"]
      /\ mop' = [mop EXCEPT ![p] = NoCall]
      /\ UNCHANGED <<freelist, kstacks, lost, mpanic>>

\* exit(), by itself or after a fault.
MemExit(p) ==
  /\ p # FirstSlot /\ pstate[p] = "RUNNABLE" /\ mop[p].pc \in {"user", "fault"}
  /\ pstate' = [pstate EXCEPT ![p] = "ZOMBIE"]
  /\ mop' = [mop EXCEPT ![p] = NoCall]
  /\ UNCHANGED <<freelist, space, build, psz, kstacks, lost, mpanic>>

\* wait() frees the stack and the address space of a zombie.
ReapSpace(p) ==
  /\ pstate[p] = "ZOMBIE"
  /\ freelist' = freelist \cup {kstacks[p]} \cup Freevm(space[p])
  /\ kstacks' = [kstacks EXCEPT ![p] = 0]
  /\ space' = [space EXCEPT ![p] = NoSpace]
  /\ pstate' = [pstate EXCEPT ![p] = "UNUSED"]
  /\ UNCHANGED <<build, psz, mop, lost, mpanic>>

-----------------------------------------------------------------------------
MemStep(p) ==
  \/ SetupDir(p) \/ SetupKpt(p) \/ AllocMem(p) \/ AllocMap(p)
  \/ SbrkDone(p) \/ ForkDone(p)
  \/ ExecReadFails(p) \/ ExecHeader(p) \/ SegDone(p) \/ ExecLoad(p)
  \/ ExecStack(p) \/ ExecCommit(p)

MemCall(p) ==
  \/ \E n \in Amounts : Sbrk(p, n) \/ Shrink(p, n)
  \/ Exec(p) \/ \E c \in Slot : Fork(p, c)

MemNext ==
  /\ mpanic = ""
  /\ \E p \in Slot :
       \/ (MemStep(p) \/ MemExit(p) \/ ReapSpace(p)) /\ UNCHANGED memops
       \/ MemCall(p) /\ memops > 0 /\ memops' = memops - 1

MemSpec == MemInit /\ [][MemNext]_memVars

-----------------------------------------------------------------------------
(***************************************************************************)
(* Properties.                                                             *)
(***************************************************************************)

\* The places of a directory that hold a page: place and page.
Held(s) ==
  {h \in ({"dir"} \X {0} \X {s.dir}) \cup ({"kpt"} \X {0} \X {s.kpt})
         \cup {<<"pt", d, s.pt[d]>> : d \in DOMAIN s.pt}
         \cup {<<"pte", v, s.pte[v]>> : v \in DOMAIN s.pte} : h[3] # 0}

Uses ==
  UNION {{<<"space", p, h>> : h \in Held(space[p])} \cup {<<"build", p, h>> : h \in Held(build[p])}
         \cup {<<"proc", p, h>> : h \in {g \in {<<"kstacks", 0, kstacks[p]>>,
                                                <<"mem", 0, mop[p].mem>>} : g[3] # 0}}
         : p \in Slot}

\* Every page is in exactly one place: on the free list, in one entry of one
\* address space, or lost.  So no two processes share memory, nothing is freed
\* twice or used after it was freed, and the only leak is the page that
\* copyuvm has allocated and cannot map: whatever runs out of memory where,
\* allocuvm, setupkvm, exec and fork give everything else back.
PagesConserved ==
  /\ \A u, w \in Uses : u[3][3] = w[3][3] => u = w
  /\ LET used == {u[3][3] : u \in Uses}
     IN  /\ used \cup freelist \cup lost = Pages
         /\ used \cap freelist = {} /\ used \cap lost = {} /\ freelist \cap lost = {}

\* Below its size a process has memory everywhere, above it nowhere: what
\* copyuvm's panics and the argument checks of the system calls rely on.
SizeMapped ==
  \A p \in Slot : InUser(p) =>
    \A v \in DOMAIN space[p].pte : space[p].pte[v] # 0 <=> v * PGSIZE < psz[p]

\* fork, exec, sbrk and exit never panic: no page is mapped twice, loaduvm and
\* copyuvm find every page.
MemNoPanic == mpanic = ""

\* Whatever allocation fails in sbrk, fork or exec, every page stays accounted for,
\* a process has exactly the memory its size says, and nothing panics.
SpacesSound == PagesConserved /\ SizeMapped /\ MemNoPanic

\* A call that fails leaves the memory of its caller as it was, page by page.
\* (exec succeeds when it changes the directory, sbrk when its loop is done.)
FailureKeeps ==
  [][\A p \in Slot :
       /\ mop[p].pc \notin {"user", "fault"} /\ mop'[p] = NoCall
       /\ ~(mop[p].fn = "sbrk" /\ Done(p)) /\ space'[p].dir = space[p].dir
       => /\ psz'[p] = psz[p]
          /\ \A v \in DOMAIN space[p].pte :
               space'[p].pte[v] = IF v * PGSIZE < psz[p] THEN space[p].pte[v] ELSE 0]_memVars
=============================================================================
