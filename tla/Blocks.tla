------------------------------- MODULE Blocks -------------------------------
(***************************************************************************)
(* The blocks of a file: balloc, bfree, bmap, itrunc, readi and writei     *)
(* (fs.c) under fileread and filewrite (file.c).  A call on an inode runs  *)
(* under that inode's lock, so an inode has at most one call; calls on     *)
(* different inodes meet in the bitmap.  Each block that a call reads or   *)
(* writes is a step.  A cell of a block holds a byte of a file, a          *)
(* directory entry or, in an indirect block, a block number.               *)
(***************************************************************************)
EXTENDS Naturals, Sequences, FiniteSets, FiniteSetsExt

CONSTANTS Ino,         \* inodes
          BSIZE,       \* cells per block, and NINDIRECT
          NDIRECT,     \* direct blocks of an inode
          FSSIZE,      \* blocks of the disk
          BPB,         \* bitmap bits per block
          NMETA,       \* boot block, super block, log, inodes and bitmap
          MAXOPBLOCKS, \* blocks a transaction may write
          UINT,        \* number of values of a uint
          ROOT,        \* the root directory, which is never truncated
          Bytes,       \* bound: what each inode's writers write
          MaxOps       \* bound: calls on the file system

ASSUME BlocksAssumption ==
  /\ NMETA \in 1 .. FSSIZE /\ NDIRECT > 0 /\ BSIZE > 0
  /\ (NDIRECT + BSIZE) * BSIZE < UINT
  /\ \A i \in Ino : Bytes[i] \subseteq Nat \ {0}

VARIABLES
  bitmap, \* blocks marked in use
  blk,    \* contents of the blocks, as the buffer cache shows them
  addrs,  \* ip->addrs, 0 for none
  fsize,  \* ip->size
  dino,   \* the inodes on disk
  foff,   \* offset of the open file
  fop,    \* the call in progress on each inode
  touched,\* what that call has given to log_write
  want,   \* what each file should contain
  ops,    \* calls still to come
  fpanic  \* the panic that stopped the system, if any

inodeVars == <<addrs, fsize, dino>>
blocksVars == <<bitmap, blk, inodeVars, foff, fop, touched, want, ops, fpanic>>

MAXFILE == NDIRECT + BSIZE

Idle == [pc |-> "idle", off |-> 0, left |-> 0, v |-> 0, new |-> 0, got |-> <<>>]

BBLOCK(b) == b \div BPB

\* Where block bn of inode i is, 0 when there is none yet.
BlockOf(i, bn) ==
  IF bn < NDIRECT THEN addrs[i][bn]
  ELSE IF addrs[i][NDIRECT] = 0 THEN 0
  ELSE blk[addrs[i][NDIRECT]][bn - NDIRECT]

BlockNo(i) == fop[i].off \div BSIZE

-----------------------------------------------------------------------------
\* balloc up to bzero: the first free block is marked.
Balloc(i) ==
  LET free == {b \in 0 .. FSSIZE - 1 : b \notin bitmap}
  IN  IF free = {}
      THEN fpanic' = "balloc: out of blocks" /\ UNCHANGED <<bitmap, fop, touched>>
      ELSE /\ bitmap' = bitmap \cup {Min(free)}
           /\ fop' = [fop EXCEPT ![i].new = Min(free)]
           /\ touched' = [touched EXCEPT ![i] = @ \cup {<<"bitmap", BBLOCK(Min(free))>>}]
           /\ UNCHANGED fpanic

\* bmap where a block is missing, the data block or the indirect one.
BmapAlloc(i) ==
  /\ fop[i].pc \in {"read", "write"} /\ fop[i].left > 0 /\ fop[i].new = 0
  /\ IF BlockNo(i) >= MAXFILE
     THEN fpanic' = "bmap: out of range" /\ UNCHANGED <<bitmap, fop, touched>>
     ELSE BlockOf(i, BlockNo(i)) = 0 /\ Balloc(i)
  /\ UNCHANGED <<blk, inodeVars, foff, want>>

Zeroes == [c \in 0 .. BSIZE - 1 |-> 0]

\* bzero, and the new block is entered in the inode or in its indirect block.
BmapLink(i) ==
  LET b  == fop[i].new
      bn == BlockNo(i)
      ind == addrs[i][NDIRECT]
  IN  /\ b # 0
      /\ IF bn < NDIRECT \/ ind = 0
         THEN /\ addrs' = [addrs EXCEPT ![i][IF bn < NDIRECT THEN bn ELSE NDIRECT] = b]
              /\ blk' = [blk EXCEPT ![b] = Zeroes]
              /\ touched' = [touched EXCEPT ![i] = @ \cup {<<"data", b>>}]
         ELSE /\ blk' = [blk EXCEPT ![b] = Zeroes, ![ind][bn - NDIRECT] = b]
              /\ touched' = [touched EXCEPT ![i] = @ \cup {<<"data", b>>, <<"data", ind>>}]
              /\ UNCHANGED addrs
      /\ fop' = [fop EXCEPT ![i].new = 0]
      /\ UNCHANGED <<bitmap, fsize, dino, foff, want, fpanic>>

\* Cells of the block at fop[i].off that one iteration of readi or writei covers.
Span(i) == Min({fop[i].left, BSIZE - (fop[i].off % BSIZE)})

Mapped(i) ==
  /\ fop[i].left > 0 /\ fop[i].new = 0 /\ BlockNo(i) < MAXFILE
  /\ BlockOf(i, BlockNo(i)) # 0

\* iupdate(ip).
Iupdate(i) ==
  /\ dino' = [dino EXCEPT ![i] = [addrs |-> addrs'[i], size |-> fsize'[i]]]
  /\ touched' = [touched EXCEPT ![i] = @ \cup {<<"inode", i>>}]

-----------------------------------------------------------------------------
\* readi's test of its arguments.
Readable(i, off, n) == off <= fsize[i] /\ (off + n) % UINT >= off

\* readi of n bytes, shortened at the end of the file.
ReadiStart(i, off, n, how) ==
  /\ fop[i] = Idle /\ Readable(i, off, n)
  /\ fop' = [fop EXCEPT ![i] = [Idle EXCEPT !.pc = "read", !.off = off, !.v = how,
               !.left = IF (off + n) % UINT > fsize[i] THEN fsize[i] - off ELSE n]]
  /\ UNCHANGED <<bitmap, blk, inodeVars, foff, touched, want, fpanic>>

\* fileread: at the offset of the open file.
Fileread(i) == \E n \in 1 .. UINT - 1 : ReadiStart(i, foff[i], n, 1)

\* readi at a place of the caller's choice (exec, dirlookup).
Readi(i) == \E off, n \in 0 .. UINT - 1 : ReadiStart(i, off, n, 0)

\* One iteration of readi's loop.
ReadBlock(i) ==
  /\ fop[i].pc = "read" /\ Mapped(i)
  /\ LET o == fop[i].off
         m == Span(i)
         cells == [c \in 1 .. m |-> blk[BlockOf(i, BlockNo(i))][(o % BSIZE) + c - 1]]
     IN  fop' = [fop EXCEPT ![i].off = o + m, ![i].left = @ - m, ![i].got = @ \o cells]
  /\ UNCHANGED <<bitmap, blk, inodeVars, foff, touched, want, fpanic>>

\* readi returns, and fileread moves the offset.
ReadEnd(i) ==
  /\ fop[i].pc = "read" /\ fop[i].left = 0
  /\ foff' = IF fop[i].v = 1 THEN [foff EXCEPT ![i] = @ + Len(fop[i].got)] ELSE foff
  /\ fop' = [fop EXCEPT ![i] = Idle]
  /\ touched' = [touched EXCEPT ![i] = {}]
  /\ UNCHANGED <<bitmap, blk, inodeVars, want, fpanic>>

\* The file is opened again: a new struct file with offset 0.
Reopen(i) ==
  /\ fop[i] = Idle /\ foff[i] # 0
  /\ foff' = [foff EXCEPT ![i] = 0]
  /\ UNCHANGED <<bitmap, blk, inodeVars, fop, touched, want, fpanic>>

-----------------------------------------------------------------------------
\* Fault: no room is left for the inode, the indirect and the bitmap block.
ChunkMaxFault == MAXOPBLOCKS * BSIZE

\* filewrite's max: what it passes to writei at a time.
ChunkMax == ((MAXOPBLOCKS - 1 - 1 - 2) \div 2) * BSIZE

\* writei's test of its arguments.
Writable(i, off, n) ==
  /\ off <= fsize[i] /\ (off + n) % UINT >= off
  /\ (off + n) % UINT <= MAXFILE * BSIZE

\* The file with n bytes v at off.
Overwritten(s, off, n, v) ==
  [x \in 1 .. Max({Len(s), off + n}) |-> IF x > off /\ x <= off + n THEN v ELSE s[x]]

\* One transaction of filewrite up to writei's loop.  A longer write is
\* several of these; between them other calls have their turn.
Filewrite(i) ==
  /\ fop[i] = Idle
  /\ \E n \in 1 .. Min({ChunkMax, UINT - 1}), v \in Bytes[i] :
       /\ Writable(i, foff[i], n)
       /\ fop' = [fop EXCEPT ![i] =
                    [Idle EXCEPT !.pc = "write", !.off = foff[i], !.left = n, !.v = v]]
       /\ want' = [want EXCEPT ![i] = Overwritten(@, foff[i], n, v)]
  /\ UNCHANGED <<bitmap, blk, inodeVars, foff, touched, fpanic>>

\* One iteration of writei's loop.
WriteBlock(i) ==
  /\ fop[i].pc = "write" /\ Mapped(i)
  /\ LET o == fop[i].off
         m == Span(i)
         b == BlockOf(i, BlockNo(i))
     IN  /\ blk' = [blk EXCEPT ![b] = [c \in 0 .. BSIZE - 1 |->
              IF c >= o % BSIZE /\ c < (o % BSIZE) + m THEN fop[i].v ELSE @[c]]]
         /\ fop' = [fop EXCEPT ![i].off = o + m, ![i].left = @ - m]
         /\ touched' = [touched EXCEPT ![i] = @ \cup {<<"data", b>>}]
  /\ UNCHANGED <<bitmap, inodeVars, foff, want, fpanic>>

\* writei sets the size of a file that has grown; filewrite moves the offset.
WriteSize(i) ==
  /\ fop[i].pc = "write" /\ fop[i].left = 0
  /\ UNCHANGED addrs
  /\ IF fop[i].off > fsize[i]
     THEN fsize' = [fsize EXCEPT ![i] = fop[i].off] /\ Iupdate(i)
     ELSE UNCHANGED <<fsize, dino, touched>>
  /\ foff' = [foff EXCEPT ![i] = fop[i].off]
  /\ fop' = [fop EXCEPT ![i] = [Idle EXCEPT !.pc = "end"]]
  /\ UNCHANGED <<bitmap, blk, want, fpanic>>

\* end_op.
EndOp(i) ==
  /\ fop[i].pc = "end"
  /\ fop' = [fop EXCEPT ![i] = Idle]
  /\ touched' = [touched EXCEPT ![i] = {}]
  /\ UNCHANGED <<bitmap, blk, inodeVars, foff, want, fpanic>>

-----------------------------------------------------------------------------
\* bfree(b): the bit is cleared.
Bfree(i, b) ==
  IF b \notin bitmap THEN fpanic' = "freeing free block" /\ UNCHANGED <<bitmap, touched>>
  ELSE /\ bitmap' = bitmap \ {b}
       /\ touched' = [touched EXCEPT ![i] = @ \cup {<<"bitmap", BBLOCK(b)>>}]
       /\ UNCHANGED fpanic

\* iput of the last reference of an unlinked file: itrunc begins.
ItruncStart(i) ==
  /\ fop[i] = Idle /\ i # ROOT
  /\ fop' = [fop EXCEPT ![i] = [Idle EXCEPT !.pc = "direct"]]
  /\ want' = [want EXCEPT ![i] = <<>>]
  /\ foff' = [foff EXCEPT ![i] = 0]
  /\ UNCHANGED <<bitmap, blk, inodeVars, touched, fpanic>>

\* One iteration of itrunc's first loop; fop[i].off is its counter.
ItruncDirect(i) ==
  /\ fop[i].pc = "direct"
  /\ LET k == fop[i].off
     IN  /\ IF addrs[i][k] # 0 THEN Bfree(i, addrs[i][k])
            ELSE UNCHANGED <<bitmap, touched, fpanic>>
         /\ addrs' = [addrs EXCEPT ![i][k] = 0]
         /\ fop' = [fop EXCEPT ![i] = IF k + 1 < NDIRECT THEN [@ EXCEPT !.off = k + 1]
                      ELSE [@ EXCEPT !.pc = "indirect", !.off = 0]]
  /\ UNCHANGED <<blk, fsize, dino, foff, want>>

\* Fault: the last entry of the indirect block is forgotten.
ItruncIndirectShort(i) ==
  /\ fop[i].pc = "indirect" /\ addrs[i][NDIRECT] # 0 /\ fop[i].off < BSIZE
  /\ LET b == blk[addrs[i][NDIRECT]][fop[i].off]
     IN  IF b # 0 /\ fop[i].off < BSIZE - 1 THEN Bfree(i, b)
         ELSE UNCHANGED <<bitmap, touched, fpanic>>
  /\ fop' = [fop EXCEPT ![i].off = @ + 1]
  /\ UNCHANGED <<blk, inodeVars, foff, want>>

\* One iteration of its second loop.
ItruncIndirect(i) ==
  /\ fop[i].pc = "indirect" /\ addrs[i][NDIRECT] # 0 /\ fop[i].off < BSIZE
  /\ LET b == blk[addrs[i][NDIRECT]][fop[i].off]
     IN  IF b # 0 THEN Bfree(i, b) ELSE UNCHANGED <<bitmap, touched, fpanic>>
  /\ fop' = [fop EXCEPT ![i].off = @ + 1]
  /\ UNCHANGED <<blk, inodeVars, foff, want>>

\* The indirect block goes, the size is 0, and iupdate.
ItruncEnd(i) ==
  /\ fop[i].pc = "indirect" /\ (addrs[i][NDIRECT] = 0 \/ fop[i].off = BSIZE)
  /\ LET b == addrs[i][NDIRECT]
     IN  /\ IF b \notin bitmap /\ b # 0 THEN fpanic' = "freeing free block" /\ UNCHANGED bitmap
            ELSE bitmap' = bitmap \ ({b} \ {0}) /\ UNCHANGED fpanic
         /\ addrs' = [addrs EXCEPT ![i][NDIRECT] = 0]
         /\ fsize' = [fsize EXCEPT ![i] = 0]
         /\ dino' = [dino EXCEPT ![i] = [addrs |-> addrs'[i], size |-> 0]]
         /\ touched' = [touched EXCEPT ![i] = @ \cup {<<"inode", i>>}
                          \cup (IF b = 0 THEN {} ELSE {<<"bitmap", BBLOCK(b)>>})]
         /\ fop' = [fop EXCEPT ![i] = [Idle EXCEPT !.pc = "end"]]
  /\ UNCHANGED <<blk, foff, want>>

\* The inode leaves the cache and is loaded again by ilock.
Reload(i) ==
  /\ fop[i] = Idle
  /\ addrs' = [addrs EXCEPT ![i] = dino[i].addrs]
  /\ fsize' = [fsize EXCEPT ![i] = dino[i].size]
  /\ UNCHANGED <<bitmap, blk, dino, foff, fop, touched, want, fpanic>>

-----------------------------------------------------------------------------
\* What a call in progress does next.
BlocksStep(i) ==
  \/ BmapAlloc(i) \/ BmapLink(i)
  \/ ReadBlock(i) \/ ReadEnd(i)
  \/ WriteBlock(i) \/ WriteSize(i) \/ EndOp(i)
  \/ ItruncDirect(i) \/ ItruncIndirect(i) \/ ItruncEnd(i)

\* A call begins.
BlocksCall(i) ==
  \/ Fileread(i) \/ Readi(i) \/ Reopen(i) \/ Filewrite(i) \/ ItruncStart(i) \/ Reload(i)

BlocksNext ==
  /\ fpanic = ""
  /\ \E i \in Ino :
       \/ BlocksStep(i) /\ UNCHANGED ops
       \/ BlocksCall(i) /\ ops > 0 /\ ops' = ops - 1

-----------------------------------------------------------------------------
(***************************************************************************)
(* Properties.                                                             *)
(***************************************************************************)

\* The pointers to blocks: where they are and what they point to.  itrunc leaves
\* the pointers in the indirect block that it has dealt with.
Pointers(i) ==
  LET ind == addrs[i][NDIRECT]
      kept == IF ind = 0 THEN {}
              ELSE {c \in 0 .. BSIZE - 1 : /\ blk[ind][c] # 0
                                           /\ fop[i].pc = "indirect" => c >= fop[i].off}
  IN  {<<"inode", k, addrs[i][k]>> : k \in {n \in 0 .. NDIRECT : addrs[i][n] # 0}}
      \cup {<<"indirect", c, blk[ind][c]>> : c \in kept}

Allocated == UNION {{p[3] : p \in Pointers(i)} : i \in Ino} \cup {fop[i].new : i \in Ino}

\* No block belongs to two files or to two places of a file, none belongs to a
\* file and to the file system's own blocks, and a block marked in use when no
\* call is running belongs to a file: balloc, bmap and itrunc neither share
\* nor leak blocks, whatever calls on other inodes do in between.
BlocksOwned ==
  /\ \A i, j \in Ino : \A p \in Pointers(i), q \in Pointers(j) :
       p[3] = q[3] => i = j /\ p = q
  /\ \A b \in Allocated \ {0} : b >= NMETA /\ b \in bitmap
  /\ (\A i \in Ino : fop[i] = Idle) => bitmap \subseteq Allocated \cup 0 .. NMETA - 1

\* What inode i contains.
Content(i) ==
  [x \in 1 .. fsize[i] |-> blk[BlockOf(i, (x - 1) \div BSIZE)][(x - 1) % BSIZE]]

\* Between calls a file contains what was written to it last, at every offset,
\* also after it was truncated and its blocks went to another file: writei's
\* offsets, bzero, and the size set after the data.
ContentKept == \A i \in Ino : fop[i] = Idle => Content(i) = want[i]

\* readi returns the bytes at the offset it was given, as many as there are.
ReadsBack ==
  \A i \in Ino : fop[i].pc = "read" =>
    LET n == Len(fop[i].got)
    IN  fop[i].got = SubSeq(want[i], fop[i].off - n + 1, fop[i].off)

\* An inode that no call works on is on disk as it is in memory, so dropping it
\* from the cache loses nothing: every change of addrs is followed by iupdate.
InodeOnDisk ==
  \A i \in Ino : fop[i] = Idle => dino[i] = [addrs |-> addrs[i], size |-> fsize[i]]

\* The only panic is the one for a full disk.
OnlyFull == fpanic \in {"", "balloc: out of blocks"}

\* Files keep what was written to them, in blocks that are theirs alone, until
\* the disk is full.
FilesKept == BlocksOwned /\ ContentKept /\ ReadsBack /\ InodeOnDisk /\ OnlyFull

\* A transaction of filewrite, or the truncation of a file, writes fewer blocks
\* than MAXOPBLOCKS: the bound that begin_op reserves and filewrite's max is
\* made for, with one to spare for log_write's test against LOGSIZE - 1.
OpFits == \A i \in Ino : Cardinality(touched[i]) < MAXOPBLOCKS
=============================================================================
