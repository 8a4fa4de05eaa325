-------------------------------- MODULE Mkfs --------------------------------
(***************************************************************************)
(* mkfs.c builds the image that the kernel then works on.                  *)
(***************************************************************************)
EXTENDS Blocks

CONSTANTS Ordered, \* the inodes mkfs makes, in the order of its arguments, after ROOT
          Sizes    \* bound: sizes of the files given to mkfs

VARIABLES
  phase,     \* "mkfs" or "kernel"
  made,      \* how many files mkfs has made
  freeblock  \* the first block mkfs has not used

mkfsVars == <<blocksVars, phase, made, freeblock>>

\* An inode that mkfs is not appending to, before the kernel runs.
Offline == [Idle EXCEPT !.pc = "mkfs"]

\* What mkfs writes: a directory entry, a byte of a file.
Some(i) == CHOOSE v \in Bytes[i] : TRUE

\* main up to the first iappend: zeroes everywhere, ialloc of the root.
MkfsInit ==
  /\ bitmap = {}
  /\ blk = [b \in 0 .. FSSIZE - 1 |-> Zeroes]
  /\ dino = [i \in Ino |-> [addrs |-> [k \in 0 .. NDIRECT |-> 0], size |-> 0]]
  /\ addrs = [i \in Ino |-> [k \in 0 .. NDIRECT |-> 0]]
  /\ fsize = [i \in Ino |-> 0]
  /\ foff = [i \in Ino |-> 0]
  /\ fop = [[i \in Ino |-> Offline] EXCEPT ![ROOT] = [Idle EXCEPT !.pc = "append", !.left = 2,
                                                    !.v = Some(ROOT)]]
  /\ touched = [i \in Ino |-> {}]
  /\ want = [i \in Ino |-> <<>>]
  /\ fpanic = "" /\ ops = MaxOps
  /\ phase = "mkfs" /\ made = 0 /\ freeblock = NMETA

\* The next argument: its inode, its entry in the root directory, its contents.
NextFile ==
  /\ made < Len(Ordered) /\ \A i \in Ino : fop[i] = Offline
  /\ made' = made + 1
  /\ \E n \in Sizes :
       fop' = [fop EXCEPT ![ROOT] = [Idle EXCEPT !.pc = "append", !.left = 1,
                                                 !.off = dino[ROOT].size, !.v = Some(ROOT)],
                          ![Ordered[made + 1]] = [Idle EXCEPT !.pc = "append", !.left = n,
                                                               !.v = Some(Ordered[made + 1])]]
  /\ UNCHANGED <<bitmap, blk, inodeVars, foff, touched, want, fpanic, freeblock>>

\* One iteration of iappend; blocks come from freeblock.  The entry in the root
\* directory comes before the contents.  Bound: the files fit in FSSIZE blocks.
Iappend(i) ==
  /\ fop[i].pc = "append" /\ fop[i].left > 0
  /\ i # ROOT => fop[ROOT] = Offline
  /\ LET o   == fop[i].off
         fbn == o \div BSIZE
         a   == dino[i].addrs
         m   == Min({fop[i].left, (fbn + 1) * BSIZE - o})
         \* the indirect block, and the first block free after it
         ind == IF fbn >= NDIRECT /\ a[NDIRECT] = 0 THEN freeblock ELSE a[NDIRECT]
         nxt == IF fbn >= NDIRECT /\ a[NDIRECT] = 0 THEN freeblock + 1 ELSE freeblock
         old == IF fbn < NDIRECT THEN a[fbn] ELSE blk[ind][fbn - NDIRECT]
         x   == IF old = 0 THEN nxt ELSE old
         filled(s) == [c \in 0 .. BSIZE - 1 |->
                         IF c >= o - fbn * BSIZE /\ c < o - fbn * BSIZE + m THEN fop[i].v ELSE s[c]]
     IN  /\ x < FSSIZE /\ ind < FSSIZE
         /\ freeblock' = IF old = 0 THEN nxt + 1 ELSE nxt
         /\ dino' = [dino EXCEPT ![i].addrs =
                       IF fbn < NDIRECT THEN [a EXCEPT ![fbn] = x] ELSE [a EXCEPT ![NDIRECT] = ind]]
         /\ blk' = IF fbn < NDIRECT THEN [blk EXCEPT ![x] = filled(@)]
                   ELSE [blk EXCEPT ![ind][fbn - NDIRECT] = x, ![x] = filled(@)]
         /\ fop' = [fop EXCEPT ![i].off = o + m, ![i].left = @ - m]
  /\ UNCHANGED <<bitmap, addrs, fsize, foff, touched, want, fpanic, made>>

\* iappend's last lines: the size.
IappendEnd(i) ==
  /\ fop[i].pc = "append" /\ fop[i].left = 0
  /\ dino' = [dino EXCEPT ![i].size = fop[i].off]
  /\ want' = [want EXCEPT ![i] = Overwritten(@, Len(@), fop[i].off - Len(@), fop[i].v)]
  /\ fop' = [fop EXCEPT ![i] = Offline]
  /\ UNCHANGED <<bitmap, blk, addrs, fsize, foff, touched, fpanic, made, freeblock>>

\* main after its loop: the root's size is rounded up, and balloc marks every
\* block below freeblock.  The kernel boots.
Boot ==
  /\ made = Len(Ordered) /\ \A i \in Ino : fop[i] = Offline
  /\ freeblock <= FSSIZE
  /\ LET sz == ((dino[ROOT].size \div BSIZE) + 1) * BSIZE
     IN  /\ dino' = [dino EXCEPT ![ROOT].size = sz]
         /\ want' = [want EXCEPT ![ROOT] =
                       Overwritten(@, Len(@), sz - Len(@), 0)]
  /\ bitmap' = 0 .. freeblock - 1
  /\ addrs' = [i \in Ino |-> dino'[i].addrs]
  /\ fsize' = [i \in Ino |-> dino'[i].size]
  /\ fop' = [i \in Ino |-> Idle]
  /\ phase' = "kernel"
  /\ UNCHANGED <<blk, foff, touched, fpanic, made, freeblock>>

MkfsStep ==
  /\ phase = "mkfs"
  /\ \/ Boot
     \/ /\ \/ NextFile
           \/ \E i \in Ino : Iappend(i) \/ IappendEnd(i)
        /\ UNCHANGED phase
  /\ UNCHANGED ops

MkfsNext ==
  \/ MkfsStep
  \/ phase = "kernel" /\ BlocksNext /\ UNCHANGED <<phase, made, freeblock>>

MkfsSpec == MkfsInit /\ [][MkfsNext]_mkfsVars
=============================================================================
