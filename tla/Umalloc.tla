------------------------------ MODULE Umalloc -------------------------------
(***************************************************************************)
(* The user library's allocator (umalloc.c): a circular list of free       *)
(* blocks in address order.  Addresses count headers; &base is 0, below    *)
(* the heap.  One iteration of a loop is a step.  A header that is none    *)
(* any more is never read again, and is zero here.                         *)
(***************************************************************************)
EXTENDS Integers, FiniteSets

CONSTANTS HeapEnd,  \* bound: sbrk fails beyond this address
          MinCore,  \* least units that morecore asks for
          Requests  \* bound: units that malloc is asked for, without the header

ASSUME UmallocAssumption ==
  HeapEnd \in Nat /\ MinCore \in Nat \ {0} /\ Requests \subseteq Nat

VARIABLES
  ptr, hsize, \* s.ptr and s.size of the header at each address
  freep,      \* 0 is &base, -1 is the null pointer
  brk,        \* end of the data segment
  heap,       \* units that malloc has got from sbrk
  given,      \* blocks that the program has: address and size
  um          \* where malloc or free is, and its local variables

umVars == <<ptr, hsize, freep, brk, heap, given, um>>

Addr == 0 .. HeapEnd

NoWork == [pc |-> "idle", p |-> 0, prevp |-> 0, nu |-> 0, bp |-> 0, back |-> "idle"]

UmInit ==
  /\ ptr = [a \in Addr |-> 0] /\ hsize = [a \in Addr |-> 0]
  /\ freep = -1 /\ brk = 1 /\ heap = {} /\ given = {}
  /\ um = NoWork

-----------------------------------------------------------------------------
\* malloc up to its loop; the first call makes the list.
Malloc(n) ==
  /\ um = NoWork
  /\ LET first == IF freep = -1 THEN 0 ELSE freep
     IN  /\ ptr' = IF freep = -1 THEN [ptr EXCEPT ![0] = 0] ELSE ptr
         /\ freep' = first
         /\ um' = [NoWork EXCEPT !.pc = "scan", !.prevp = first, !.p = ptr'[first], !.nu = n + 1]
  /\ UNCHANGED <<hsize, brk, heap, given>>

\* The program gets the block at a.
Give(a, prevp) ==
  /\ given' = given \cup {<<a, um.nu>>}
  /\ freep' = prevp
  /\ um' = NoWork

\* Fault: the tail that is given away is not taken off the block.
ScanFitFault ==
  /\ um.pc = "scan" /\ hsize[um.p] >= um.nu
  /\ IF hsize[um.p] = um.nu
     THEN /\ ptr' = [ptr EXCEPT ![um.prevp] = ptr[um.p], ![um.p] = 0]
          /\ Give(um.p, um.prevp)
          /\ UNCHANGED hsize
     ELSE LET a == um.p + hsize[um.p] - um.nu
          IN  /\ hsize' = [hsize EXCEPT ![a] = um.nu]
              /\ Give(a, um.prevp)
              /\ UNCHANGED ptr
  /\ UNCHANGED <<brk, heap>>

\* malloc's loop finds a block: all of it, or its tail.
ScanFit ==
  /\ um.pc = "scan" /\ hsize[um.p] >= um.nu
  /\ IF hsize[um.p] = um.nu
     THEN /\ ptr' = [ptr EXCEPT ![um.prevp] = ptr[um.p], ![um.p] = 0]
          /\ Give(um.p, um.prevp)
          /\ UNCHANGED hsize
     ELSE LET a == um.p + hsize[um.p] - um.nu
          IN  /\ hsize' = [hsize EXCEPT ![um.p] = @ - um.nu, ![a] = um.nu]
              /\ Give(a, um.prevp)
              /\ UNCHANGED ptr
  /\ UNCHANGED <<brk, heap>>

\* It does not fit: the next block, or morecore after a whole round.
ScanNext ==
  /\ um.pc = "scan" /\ hsize[um.p] < um.nu
  /\ um' = IF um.p = freep THEN [um EXCEPT !.pc = "more"]
           ELSE [um EXCEPT !.prevp = um.p, !.p = ptr[um.p]]
  /\ UNCHANGED <<ptr, hsize, freep, brk, heap, given>>

\* morecore: sbrk, and free of what it returns; or malloc returns 0.
Morecore ==
  /\ um.pc = "more"
  /\ LET nu == IF um.nu < MinCore THEN MinCore ELSE um.nu
     IN  IF brk + nu > HeapEnd
         THEN um' = NoWork /\ UNCHANGED <<hsize, brk, heap>>
         ELSE /\ hsize' = [hsize EXCEPT ![brk] = nu]
              /\ heap' = heap \cup (brk .. brk + nu - 1)
              /\ brk' = brk + nu
              /\ um' = [um EXCEPT !.pc = "free", !.bp = brk, !.p = freep, !.back = "scan"]
  /\ UNCHANGED <<ptr, freep, given>>

-----------------------------------------------------------------------------
\* free(ap) of a block the program has.
Free(b) ==
  /\ um = NoWork /\ b \in given
  /\ given' = given \ {b}
  /\ um' = [NoWork EXCEPT !.pc = "free", !.bp = b[1], !.p = freep]
  /\ UNCHANGED <<ptr, hsize, freep, brk, heap>>

\* free's loop has found the place of bp: between p and its successor, or at
\* one of the ends.
Place(p, bp) ==
  \/ bp > p /\ bp < ptr[p]
  \/ p >= ptr[p] /\ (bp > p \/ bp < ptr[p])

FreeNext ==
  /\ um.pc = "free" /\ ~Place(um.p, um.bp)
  /\ um' = [um EXCEPT !.p = ptr[um.p]]
  /\ UNCHANGED <<ptr, hsize, freep, brk, heap, given>>

\* The block is joined to its upper and its lower neighbour.  After morecore,
\* malloc goes on with the block after freep.
FreePlace ==
  /\ um.pc = "free" /\ Place(um.p, um.bp)
  /\ LET p == um.p
         bp == um.bp
         nx == ptr[p]
         joins == bp + hsize[bp] = nx
         size == IF joins THEN hsize[bp] + hsize[nx] ELSE hsize[bp]
         next == IF joins THEN ptr[nx] ELSE nx
         below == p + hsize[p] = bp
         gone == (IF joins THEN {nx} ELSE {}) \cup (IF below THEN {bp} ELSE {})
     IN  /\ hsize' = [a \in Addr |-> IF a \in gone THEN 0 ELSE IF a = p /\ below THEN hsize[p] + size
                                     ELSE IF a = bp THEN size ELSE hsize[a]]
         /\ ptr' = [a \in Addr |-> IF a \in gone THEN 0 ELSE IF a = p THEN (IF below THEN next ELSE bp)
                                   ELSE IF a = bp THEN next ELSE ptr[a]]
         /\ freep' = p
         /\ um' = IF um.back = "idle" THEN NoWork
                  ELSE [um EXCEPT !.pc = "scan", !.prevp = p, !.p = ptr'[p], !.back = "idle",
                                  !.bp = 0]
  /\ UNCHANGED <<brk, heap, given>>

\* The program itself calls sbrk, and leaves a gap.
OtherSbrk ==
  /\ um = NoWork /\ brk < HeapEnd
  /\ brk' = brk + 1
  /\ UNCHANGED <<ptr, hsize, freep, heap, given, um>>

UmStep == ScanFit \/ ScanNext \/ Morecore \/ FreeNext \/ FreePlace

UmNext ==
  \/ \E n \in Requests : Malloc(n)
  \/ \E b \in given : Free(b)
  \/ UmStep \/ OtherSbrk

UmSpec == UmInit /\ [][UmNext]_umVars

UmFairness == WF_umVars(UmStep)

UmFairSpec == UmSpec /\ UmFairness

-----------------------------------------------------------------------------
(***************************************************************************)
(* Properties.                                                             *)
(***************************************************************************)

\* The blocks on the free list, from &base around to it.
ListFrom(a) ==
  LET f[n \in Nat] == IF n = 0 THEN {a} ELSE f[n - 1] \cup {ptr[x] : x \in f[n - 1]}
  IN  f[HeapEnd]

FreeBlocks == IF freep = -1 THEN {} ELSE ListFrom(0) \ {0}

Units(a, n) == a .. a + n - 1

\* What malloc has given out does not overlap and was got from sbrk, and every
\* unit got from sbrk is either given out or in exactly one block of the list:
\* malloc and free lose nothing and give nothing twice.
HeapTiled ==
  um = NoWork =>
    LET blocks == given \cup {<<a, hsize[a]>> : a \in FreeBlocks}
    IN  /\ \A b, c \in blocks : b # c => Units(b[1], b[2]) \cap Units(c[1], c[2]) = {}
        /\ UNION {Units(b[1], b[2]) : b \in blocks} = heap

\* The list is circular and in address order, and no two blocks in it touch:
\* free joins a block with both neighbours, at the ends of the list too.
ListOrdered ==
  um = NoWork /\ freep # -1 =>
    /\ freep \in FreeBlocks \cup {0}
    /\ Cardinality({a \in FreeBlocks \cup {0} : ptr[a] <= a}) = 1
    /\ \A a \in FreeBlocks : a + hsize[a] \notin FreeBlocks

\* malloc and free return: neither loop goes round for ever.
UmReturns == um # NoWork ~> um = NoWork

\* malloc and free keep the heap tiled and the list joined, and they return.
HeapSound == [](HeapTiled /\ ListOrdered) /\ UmReturns
=============================================================================
