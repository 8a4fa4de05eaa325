------------------------------- MODULE Names --------------------------------
(***************************************************************************)
(* Inodes and directories: the inode cache and its locks (fs.c), path      *)
(* lookup, and the calls that make, link and remove names (sysfile.c).     *)
(*                                                                         *)
(* The cache has at most one entry per inode, so its fields are indexed by *)
(* inode number.  A stretch under one inode's lock is a step; where a      *)
(* call keeps a lock while it asks for another, the lock is in ilocks.     *)
(* Inodes that a call is to give up by iput() stand in its list "puts",    *)
(* and it goes on when they are gone.  Transactions are Log's concern.     *)
(***************************************************************************)
EXTENDS Integers, Sequences, FiniteSets

CONSTANTS Caller,  \* processes making file system calls
          NINODES,  \* inodes of the disk, 1 is the root directory
          Name,     \* names other than the dots
          Paths,    \* bound: the paths that calls are given
          MaxCalls  \* bound: calls that are made

ASSUME NamesAssumption ==
  /\ NINODES \in Nat \ {0, 1, 2} /\ MaxCalls \in Nat
  /\ Name # {} /\ Paths \subseteq Seq(Name \cup {".", ".."})

ROOTINO == 1
Inum == 1 .. NINODES
None == 0

VARIABLES
  dinode,  \* inodes on disk: type and nlink
  dents,   \* contents of directories: the inode number under each name, or None
  iref,    \* references to the cache entry of each inode
  inode,   \* type and nlink in memory, or Invalid
  ilocks,  \* the process that holds the lock of an inode, or None
  loc,     \* the call of each process: where it is, and its local variables
  cwd,     \* p->cwd
  opened,  \* an open file, or None
  left,    \* calls that may still be made
  lost     \* names of each inode that went with a directory that was freed

dinodeVars == <<dinode, dents>>
procVars == <<cwd, opened, left>>
namesVars == <<dinodeVars, iref, inode, ilocks, loc, procVars, lost>>

Free == [type |-> "none", nlink |-> 0]
Invalid == [type |-> "invalid", nlink |-> 0]
NoEntries == [n \in Name \cup {".", ".."} |-> None]

\* A process outside the file system.  ip and dp are None when they hold no
\* reference; putpc is where the process is in iput() of the first of puts.
Outside == [pc |-> "user", call |-> "none", path |-> <<>>, ip |-> None, dp |-> None,
         puts |-> <<>>, putpc |-> "lock"]

\* The disk holds a directory, with a file in it that the root also names.
NamesInit ==
  /\ \E dir, file \in Name : dir # file /\
       dents = [i \in Inum |->
                  CASE i = 1 -> [NoEntries EXCEPT !["."] = 1, ![".."] = 1, ![dir] = 2, ![file] = 3]
                    [] i = 2 -> [NoEntries EXCEPT !["."] = 2, ![".."] = 1, ![file] = 3]
                    [] OTHER -> NoEntries]
  /\ dinode = [i \in Inum |-> CASE i = 1 -> [type |-> "T_DIR", nlink |-> 2]
                                [] i = 2 -> [type |-> "T_DIR", nlink |-> 1]
                                [] i = 3 -> [type |-> "T_FILE", nlink |-> 2]
                                [] OTHER -> Free]
  /\ iref = [i \in Inum |-> IF i = ROOTINO THEN Cardinality(Caller) ELSE 0]
  /\ inode = [i \in Inum |-> Invalid]
  /\ ilocks = [i \in Inum |-> None]
  /\ loc = [p \in Caller |-> Outside]
  /\ cwd = [p \in Caller |-> ROOTINO]
  /\ opened = [p \in Caller |-> None]
  /\ left = MaxCalls
  /\ lost = [i \in Inum |-> 0]

-----------------------------------------------------------------------------
(***************************************************************************)
(* The inode cache.                                                        *)
(***************************************************************************)

\* iget(i) and idup(i): one more reference.
iget(i) == iref' = [iref EXCEPT ![i] = @ + 1]

\* What ilock(i) leaves in memory: it reads the disk if the entry is not valid.
Loaded(i) == IF inode[i] = Invalid THEN dinode[i] ELSE inode[i]

\* acquiresleep(&ip->lock) does not block.
Unlocked(i) == ilocks[i] = None

\* ilock(i), to look at the inode only.
ilock(i) ==
  /\ Unlocked(i)
  /\ inode' = [inode EXCEPT ![i] = Loaded(i)]
  /\ UNCHANGED dinode

\* ilock(i), a change of the inode to r, iupdate(i).
Update(i, r) ==
  /\ Unlocked(i)
  /\ inode' = [inode EXCEPT ![i] = r]
  /\ dinode' = [dinode EXCEPT ![i] = r]

\* The process is at pc, in its call and not in an iput.
At(p, pc) == loc[p].pc = pc /\ loc[p].puts = <<>>

Goto(p, r) == loc' = [loc EXCEPT ![p] = r]

\* The call returns when it has put the inodes s.
Return(p, s) == Goto(p, [Outside EXCEPT !.puts = s])

\* The first inode p is about to put, in state pc of iput.
Putting(p, pc) == loc[p].puts # <<>> /\ loc[p].putpc = pc

\* Fault: iput frees an inode with other references.
IputLockAnyRef(p) ==
  LET i == Head(loc[p].puts)
  IN  /\ Putting(p, "lock") /\ Unlocked(i)
      /\ IF inode[i] # Invalid /\ inode[i].nlink = 0
         THEN ilocks' = [ilocks EXCEPT ![i] = p] /\ Goto(p, [loc[p] EXCEPT !.putpc = "free"])
         ELSE Goto(p, [loc[p] EXCEPT !.putpc = "unref"]) /\ UNCHANGED ilocks
      /\ UNCHANGED <<dinodeVars, iref, inode, procVars, lost>>

\* iput: lock the inode, and see whether this is the last reference to an inode
\* without links.
IputLock(p) ==
  LET i == Head(loc[p].puts)
  IN  /\ Putting(p, "lock") /\ Unlocked(i)
      /\ IF inode[i] # Invalid /\ inode[i].nlink = 0 /\ iref[i] = 1
         THEN ilocks' = [ilocks EXCEPT ![i] = p] /\ Goto(p, [loc[p] EXCEPT !.putpc = "free"])
         ELSE Goto(p, [loc[p] EXCEPT !.putpc = "unref"]) /\ UNCHANGED ilocks
      /\ UNCHANGED <<dinodeVars, iref, inode, procVars, lost>>

\* Names of inode i in directory d.
NamesIn(d, i) == {n \in Name : dents[d][n] = i}

\* What iput leaves in the entry of an inode it has freed.
FreedEntry == Invalid

\* iput: itrunc, free on disk, and unlock.
IputFree(p) ==
  LET i == Head(loc[p].puts)
  IN  /\ Putting(p, "free")
      /\ dinode' = [dinode EXCEPT ![i] = Free]
      /\ inode' = [inode EXCEPT ![i] = FreedEntry]
      /\ lost' = [j \in Inum |-> lost[j] + Cardinality(NamesIn(i, j))]
      /\ dents' = [dents EXCEPT ![i] = NoEntries]
      /\ ilocks' = [ilocks EXCEPT ![i] = None]
      /\ Goto(p, [loc[p] EXCEPT !.putpc = "unref"])
      /\ UNCHANGED <<iref, procVars>>

\* iput: the reference goes, under icache.lock.  An entry without references is
\* as good as invalid, as iget starts it anew.
IputUnref(p) ==
  LET i == Head(loc[p].puts)
  IN  /\ Putting(p, "unref")
      /\ iref' = [iref EXCEPT ![i] = @ - 1]
      /\ inode' = [inode EXCEPT ![i] = IF iref[i] = 1 THEN Invalid ELSE @]
      /\ Goto(p, [loc[p] EXCEPT !.puts = Tail(@), !.putpc = "lock"])
      /\ UNCHANGED <<dinodeVars, ilocks, procVars, lost>>

-----------------------------------------------------------------------------
(***************************************************************************)
(* Path lookup.                                                            *)
(***************************************************************************)

\* The calls that look up a parent directory.
Parent(c) == c \in {"linknew", "unlink", "create", "mkdir"}

\* The inode namex has reached, and where it goes on.
Here(r) == IF Parent(r.call) THEN r.dp ELSE r.ip
Reached(r, i) == IF Parent(r.call) THEN [r EXCEPT !.dp = i] ELSE [r EXCEPT !.ip = i]

\* Where each call goes on after namex with an inode.
Found(r) ==
  [r EXCEPT !.pc = CASE r.call = "linkold" -> "linkinc" [] r.call = "linknew" -> "linkdir"
                     [] r.call = "mkdir" -> "create" [] OTHER -> r.call]

\* Where it goes on without one.
NotFound(r) ==
  IF r.call = "linknew" THEN [r EXCEPT !.pc = "linkbad", !.dp = None, !.puts = <<r.dp>>]
  ELSE [Outside EXCEPT !.puts = <<Here(r)>>]

\* namex starts at the root or at the current directory.
Lookup(p, c, r) ==
  \E s \in Paths, i \in {ROOTINO, cwd[p]} :
    /\ Goto(p, Reached([r EXCEPT !.pc = "namex", !.call = c, !.path = s], i))
    /\ iget(i)

\* A system call.
Start(p) ==
  /\ At(p, "user") /\ left > 0
  /\ \E c \in {"open", "chdir", "linkold", "unlink", "create", "mkdir"} :
       (c \in {"open", "create"} => opened[p] = None) /\ Lookup(p, c, Outside)
  /\ left' = left - 1
  /\ UNCHANGED <<dinodeVars, inode, ilocks, cwd, opened, lost>>

\* namex when the path is used up.
NamexEnd(p) ==
  /\ At(p, "namex") /\ loc[p].path = <<>>
  /\ Goto(p, IF Parent(loc[p].call) THEN NotFound(loc[p]) ELSE Found(loc[p]))
  /\ UNCHANGED <<dinodeVars, iref, inode, ilocks, procVars, lost>>

\* One turn of namex's loop: lock the directory, look up the next name, unlock.
Namex(p) ==
  LET me == loc[p]
      d == Here(me)
      next == dents[d][Head(me.path)]
  IN  /\ At(p, "namex") /\ me.path # <<>> /\ ilock(d)
      /\ IF Loaded(d).type = "T_DIR" /\ Parent(me.call) /\ Len(me.path) = 1
         THEN Goto(p, Found(me)) /\ UNCHANGED iref
         ELSE IF Loaded(d).type # "T_DIR" \/ next = None
         THEN Goto(p, NotFound(me)) /\ UNCHANGED iref
         ELSE /\ iget(next)
              /\ Goto(p, [Reached(me, next) EXCEPT !.path = Tail(@), !.puts = <<d>>])
      /\ UNCHANGED <<dents, ilocks, procVars, lost>>

-----------------------------------------------------------------------------
(***************************************************************************)
(* open, close, chdir.                                                       *)
(***************************************************************************)

\* The end of sys_open: the file table may be full.
OpenEnds(p) ==
  \/ opened' = [opened EXCEPT ![p] = loc[p].ip] /\ Return(p, <<>>)
  \/ UNCHANGED opened /\ Return(p, <<loc[p].ip>>)

\* sys_open of a name that exists; a directory is not opened for writing.
SysOpen(p) ==
  /\ At(p, "open") /\ ilock(loc[p].ip)
  /\ OpenEnds(p)
  /\ UNCHANGED <<dents, iref, ilocks, cwd, left, lost>>

\* fileclose's last step.
SysClose(p) ==
  /\ At(p, "user") /\ opened[p] # None
  /\ opened' = [opened EXCEPT ![p] = None]
  /\ Return(p, <<opened[p]>>)
  /\ UNCHANGED <<dinodeVars, iref, inode, ilocks, cwd, left, lost>>

\* sys_chdir: the new directory, and iput of the old one.
SysChdir(p) ==
  LET i == loc[p].ip
  IN  /\ At(p, "chdir") /\ ilock(i)
      /\ IF Loaded(i).type = "T_DIR"
         THEN Return(p, <<cwd[p]>>) /\ cwd' = [cwd EXCEPT ![p] = i]
         ELSE Return(p, <<i>>) /\ UNCHANGED cwd
      /\ UNCHANGED <<dents, iref, ilocks, opened, left, lost>>

-----------------------------------------------------------------------------
(***************************************************************************)
(* link.                                                                   *)
(***************************************************************************)

\* sys_link counts the new link before it looks up where to put it.
LinkInc(p) ==
  LET i == loc[p].ip
  IN  /\ At(p, "linkinc")
      /\ IF Loaded(i).type = "T_DIR"
         THEN ilock(i) /\ Return(p, <<i>>) /\ UNCHANGED iref
         ELSE /\ Update(i, [Loaded(i) EXCEPT !.nlink = @ + 1])
              /\ Lookup(p, "linknew", loc[p])
      /\ UNCHANGED <<dents, ilocks, procVars, lost>>

\* dirlink: the name is new and is written, or it exists, and the inode found
\* is put while the directory stays locked.
LinkDir(p) ==
  LET me == loc[p]
      n == Head(me.path)
      e == dents[me.dp][n]
  IN  /\ At(p, "linkdir") /\ ilock(me.dp)
      /\ IF e = None
         THEN /\ dents' = [dents EXCEPT ![me.dp][n] = me.ip]
              /\ Return(p, <<me.dp, me.ip>>)
              /\ UNCHANGED <<iref, ilocks>>
         ELSE /\ iget(e)
              /\ ilocks' = [ilocks EXCEPT ![me.dp] = p]
              /\ Goto(p, [me EXCEPT !.pc = "linkexists", !.puts = <<e>>])
              /\ UNCHANGED dents
      /\ UNCHANGED <<procVars, lost>>

LinkExists(p) ==
  /\ At(p, "linkexists")
  /\ ilocks' = [ilocks EXCEPT ![loc[p].dp] = None]
  /\ Goto(p, NotFound(loc[p]))
  /\ UNCHANGED <<dinodeVars, iref, inode, procVars, lost>>

\* Fault: the link that failed stays counted.
LinkBadKeeps(p) ==
  /\ At(p, "linkbad") /\ ilock(loc[p].ip)
  /\ Return(p, <<loc[p].ip>>)
  /\ UNCHANGED <<dents, iref, ilocks, procVars, lost>>

\* sys_link's "bad" label.
LinkBad(p) ==
  /\ At(p, "linkbad")
  /\ Update(loc[p].ip, [Loaded(loc[p].ip) EXCEPT !.nlink = @ - 1])
  /\ Return(p, <<loc[p].ip>>)
  /\ UNCHANGED <<dents, iref, ilocks, procVars, lost>>

-----------------------------------------------------------------------------
(***************************************************************************)
(* unlink.                                                                 *)
(***************************************************************************)

\* Lock the parent and find the name in it.
Unlink(p) ==
  LET me == loc[p]
      e == dents[me.dp][Head(me.path)]
  IN  /\ At(p, "unlink") /\ ilock(me.dp)
      /\ IF Head(me.path) \in {".", ".."} \/ e = None
         THEN Return(p, <<me.dp>>) /\ UNCHANGED <<iref, ilocks>>
         ELSE /\ iget(e)
              /\ ilocks' = [ilocks EXCEPT ![me.dp] = p]
              /\ Goto(p, [me EXCEPT !.pc = "unlinkip", !.ip = e])
      /\ UNCHANGED <<dents, procVars, lost>>

isdirempty(d) == \A n \in Name : dents[d][n] = None

\* The parent after the name is erased: a directory's ".." was a link to it.
UnlinkParent(d, type) == [inode[d] EXCEPT !.nlink = IF type = "T_DIR" THEN @ - 1 ELSE @]

\* With both locked: refuse a directory that is not empty, or erase the name,
\* let the parent go, and keep the lock of the inode.
UnlinkIp(p) ==
  LET me == loc[p]
      i == me.ip
      d == me.dp
      r == Loaded(i)
      rd == UnlinkParent(d, r.type)
  IN  /\ At(p, "unlinkip") /\ Unlocked(i)
      /\ IF r.type = "T_DIR" /\ ~isdirempty(i)
         THEN /\ inode' = [inode EXCEPT ![i] = r]
              /\ Goto(p, [me EXCEPT !.pc = "unlinkbad", !.ip = None, !.puts = <<i>>])
              /\ UNCHANGED <<dinodeVars, ilocks>>
         ELSE /\ inode' = [inode EXCEPT ![i] = r, ![d] = rd]
              /\ dinode' = [dinode EXCEPT ![d] = rd]
              /\ dents' = [dents EXCEPT ![d][Head(me.path)] = None]
              /\ ilocks' = [ilocks EXCEPT ![d] = None, ![i] = p]
              /\ Goto(p, [me EXCEPT !.pc = "unlinkdec", !.dp = None, !.puts = <<d>>])
      /\ UNCHANGED <<iref, procVars, lost>>

\* The link is taken off the count last.
UnlinkDec(p) ==
  LET i == loc[p].ip
      r == [inode[i] EXCEPT !.nlink = @ - 1]
  IN  /\ At(p, "unlinkdec")
      /\ inode' = [inode EXCEPT ![i] = r]
      /\ dinode' = [dinode EXCEPT ![i] = r]
      /\ ilocks' = [ilocks EXCEPT ![i] = None]
      /\ Return(p, <<i>>)
      /\ UNCHANGED <<dents, iref, procVars, lost>>

\* sys_unlink's "bad" label.
UnlinkBad(p) ==
  /\ At(p, "unlinkbad")
  /\ ilocks' = [ilocks EXCEPT ![loc[p].dp] = None]
  /\ Return(p, <<loc[p].dp>>)
  /\ UNCHANGED <<dinodeVars, iref, inode, procVars, lost>>

-----------------------------------------------------------------------------
(***************************************************************************)
(* create, for open with O_CREATE and for mkdir.                           *)
(***************************************************************************)

\* ialloc: the first inode that is free on disk.
FirstFree(i) ==
  dinode[i].type = "none" /\ \A j \in Inum : j < i => dinode[j].type # "none"

\* Lock the parent; the name exists, or a new inode is allocated.
\* Bound: the disk has a free inode, else ialloc panics.
Create(p) ==
  LET me == loc[p]
      e == dents[me.dp][Head(me.path)]
      t == IF me.call = "mkdir" THEN "T_DIR" ELSE "T_FILE"
  IN  /\ At(p, "create") /\ Unlocked(me.dp)
      /\ inode' = [inode EXCEPT ![me.dp] = Loaded(me.dp)]
      /\ IF e # None
         THEN /\ iget(e)
              /\ Goto(p, [me EXCEPT !.pc = "createold", !.ip = e, !.dp = None,
                                    !.puts = <<me.dp>>])
              /\ UNCHANGED <<dinode, ilocks>>
         ELSE \E new \in Inum :
              /\ FirstFree(new)
              /\ dinode' = [dinode EXCEPT ![new] = [type |-> t, nlink |-> 0]]
              /\ iget(new)
              /\ ilocks' = [ilocks EXCEPT ![me.dp] = p]
              /\ Goto(p, [me EXCEPT !.pc = "createnew", !.ip = new])
      /\ UNCHANGED <<dents, procVars, lost>>

\* The name existed: open takes it if it is a file.
CreateOld(p) ==
  LET i == loc[p].ip
  IN  /\ At(p, "createold") /\ ilock(i)
      /\ IF loc[p].call = "create" /\ Loaded(i).type = "T_FILE"
         THEN OpenEnds(p)
         ELSE Return(p, <<i>>) /\ UNCHANGED opened
      /\ UNCHANGED <<dents, iref, ilocks, cwd, left, lost>>

\* The new inode gets its link count, its dots and its name; the parent is let
\* go while the new inode is locked.
CreateNew(p) ==
  LET me == loc[p]
      i == me.ip
      d == me.dp
      isdir == me.call = "mkdir"
      r == [Loaded(i) EXCEPT !.nlink = 1]
      rd == [inode[d] EXCEPT !.nlink = IF isdir THEN @ + 1 ELSE @]
      named == [dents EXCEPT ![d][Head(me.path)] = i]
  IN  /\ At(p, "createnew") /\ Unlocked(i)
      /\ inode' = [inode EXCEPT ![i] = r, ![d] = rd]
      /\ dinode' = [dinode EXCEPT ![i] = r, ![d] = rd]
      /\ dents' = IF isdir THEN [named EXCEPT ![i]["."] = i, ![i][".."] = d] ELSE named
      /\ ilocks' = [ilocks EXCEPT ![d] = None, ![i] = p]
      /\ Goto(p, [me EXCEPT !.pc = "created", !.dp = None, !.puts = <<d>>])
      /\ UNCHANGED <<iref, procVars, lost>>

\* create has returned the locked inode: open keeps it, mkdir puts it.
Created(p) ==
  /\ At(p, "created")
  /\ ilocks' = [ilocks EXCEPT ![loc[p].ip] = None]
  /\ IF loc[p].call = "create" THEN OpenEnds(p)
     ELSE Return(p, <<loc[p].ip>>) /\ UNCHANGED opened
  /\ UNCHANGED <<dinodeVars, iref, inode, cwd, left, lost>>

-----------------------------------------------------------------------------
\* What a process in the kernel does next.
NamesStep(p) ==
  \/ IputLock(p) \/ IputFree(p) \/ IputUnref(p)
  \/ NamexEnd(p) \/ Namex(p)
  \/ SysOpen(p) \/ SysChdir(p)
  \/ LinkInc(p) \/ LinkDir(p) \/ LinkExists(p) \/ LinkBad(p)
  \/ Unlink(p) \/ UnlinkIp(p) \/ UnlinkDec(p) \/ UnlinkBad(p)
  \/ Create(p) \/ CreateOld(p) \/ CreateNew(p) \/ Created(p)

NamesNext == \E p \in Caller : Start(p) \/ SysClose(p) \/ NamesStep(p)

NamesSpec == NamesInit /\ [][NamesNext]_namesVars

-----------------------------------------------------------------------------
(***************************************************************************)
(* Properties.                                                             *)
(***************************************************************************)

\* iref counts every pointer to a cache entry exactly once, through every error
\* path of every call: local variables, the current directory, the open file
\* and the inodes about to be put.
RefsCounted ==
  LET Pointers(i, p) == {k \in {"ip", "dp"} : loc[p][k] = i}
                        \cup {k \in {"cwd"} : cwd[p] = i} \cup {k \in {"open"} : opened[p] = i}
      Puts(i, p) == {k \in DOMAIN loc[p].puts : loc[p].puts[k] = i}
  IN  \A i \in Inum :
        iref[i] = Cardinality(UNION {{<<p, k>> : k \in Pointers(i, p)} : p \in Caller})
                 + Cardinality(UNION {{<<p, k>> : k \in Puts(i, p)} : p \in Caller})

\* iput decides to free an inode under icache.lock and frees it after letting
\* that lock go: in between nobody gets a reference to it, and no directory
\* names it.
FreedUnused ==
  \A p \in Caller : Putting(p, "free") =>
    LET i == Head(loc[p].puts)
    IN  /\ iref[i] = 1 /\ ilocks[i] = p /\ inode[i].nlink = 0
        /\ \A d \in Inum : NamesIn(d, i) = {}

\* A cache entry that is in use and valid is what the disk holds, also after
\* the inode was freed and allocated again while the entry was in use.
CacheCoherent == \A i \in Inum : inode[i] \in {dinode[i], Invalid}

\* The inode whose lock a process asks for next, or None.
Wants(p) ==
  LET me == loc[p]
  IN  IF me.puts # <<>> THEN IF me.putpc = "lock" THEN Head(me.puts) ELSE None
      ELSE CASE me.pc = "namex" /\ me.path # <<>> -> Here(me)
             [] me.pc \in {"open", "chdir", "linkinc", "linkbad", "unlinkip", "createold",
                           "createnew"} -> me.ip
             [] me.pc \in {"linkdir", "unlink", "create"} -> me.dp
             [] OTHER -> None

\* No call runs into "ilock: no type", "dirlookup not DIR" or "unlink: nlink < 1":
\* what a call found under a lock it has let go is still usable when it locks
\* the inode again.
NoStaleInode ==
  \A p \in Caller : loc[p].puts = <<>> /\ Wants(p) # None =>
    LET r == Loaded(Wants(p))
    IN  /\ r.type # "none"
        /\ loc[p].pc \in {"linkdir", "unlink", "create"} => r.type = "T_DIR"
        /\ loc[p].pc = "unlinkip" => r.nlink >= 1

\* No inode is freed, reused or locked while a pointer to its cache entry says
\* otherwise: the counts are exact, iput frees only what nobody can reach, and
\* what a call found is still there when it comes back to it.
ReferencesSafe == RefsCounted /\ FreedUnused /\ CacheCoherent /\ NoStaleInode

\* Directory entries that name i.
NamesOf(i) == UNION {{<<d, n>> : n \in NamesIn(d, i)} : d \in Inum}

\* Links of i counted but not yet made, or erased but still counted.
Unsettled(i) ==
  {p \in Caller : loc[p].ip = i /\ (loc[p].pc = "unlinkdec" \/ loc[p].call = "linknew")}

\* Subdirectories of d, whose ".." counts as a link.
Subdirs(d) == {n \in Name : dents[d][n] # None /\ dinode[dents[d][n]].type = "T_DIR"}

\* nlink is the number of names of an inode, and of ".." entries for a
\* directory, whichever calls fail half way and however they interleave; only
\* names in a directory that was removed while a call was making them are lost,
\* and with them the inode.  A name never leads to a free inode.
LinksExact ==
  \A i \in Inum :
    /\ NamesOf(i) # {} => dinode[i].type # "none"
    /\ dinode[i].type # "none" =>
         dinode[i].nlink = Cardinality(NamesOf(i)) + Cardinality(Unsettled(i)) + lost[i]
                           + (IF dinode[i].type = "T_DIR" THEN Cardinality(Subdirs(i)) ELSE 0)
                           + (IF i = ROOTINO THEN 1 ELSE 0)

\* An inode without links and without references is free on disk, as the comment
\* on iput() says.  This does not hold: iput() tests ref and drops its reference
\* under different locks, so that two callers can each count the other's.
Reclaimed ==
  \A i \in Inum : iref[i] = 0 /\ dinode[i].nlink = 0 => dinode[i].type = "none"

\* No two calls wait for each other's inode locks, and none for its own.  This does
\* not hold: dirlink() puts the entry it finds with the directory locked, and that
\* entry may be the directory itself.
NoLockCycle ==
  \A p, q \in Caller :
    ~ /\ Wants(p) # None /\ ilocks[Wants(p)] = q
      /\ Wants(q) # None /\ ilocks[Wants(q)] = p
=============================================================================
