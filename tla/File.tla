-------------------------------- MODULE File --------------------------------
(***************************************************************************)
(* Open files: the system-wide table (file.c), the descriptors of each     *)
(* process, the ends of pipes (pipealloc, pipeclose), and the calls that   *)
(* change them: open, pipe, dup, dup2, close, fork and exit.               *)
(*                                                                         *)
(* ftable.lock and p->lock are never held together, so a call is a list of *)
(* steps, todo[p], with the other processes in between.  A process's own   *)
(* descriptors are private to it and need no step of their own.            *)
(***************************************************************************)
EXTENDS Integers, Sequences, FiniteSets

CONSTANTS Process,      \* slots of the process table
          NFILE,        \* entries of ftable
          NOFILE,       \* descriptors of a process
          NPIPE,        \* bound: pages kalloc() has for pipes
          MaxRef,       \* bound: f->ref when dup2 is called so that it may lose count
          AnyDup2       \* programs call dup2 with any descriptors, not only
                        \* with two different open ones

ASSUME FileAssumption ==
  /\ {NFILE, NOFILE, NPIPE, MaxRef} \subseteq Nat \ {0}
  /\ AnyDup2 \in BOOLEAN
  /\ IsFiniteSet(Process)

NULL == 0
FileIds == 1 .. NFILE
FD == 0 .. NOFILE - 1
Pipes == 1 .. NPIPE
Wild == -1          \* a descriptor number outside ofile

VARIABLES
  ref,      \* f->ref
  type,     \* f->type
  pipe,     \* f->pipe
  writable, \* f->writable, of the files of pipes
  ends,     \* the open ends of each pipe, {} when its page is free
  irefs,    \* references to inodes that open files and open() own
  opening,  \* the processes in sys_open that have a reference to the inode
  ofile,    \* p->ofile
  alive,    \* the processes that exist
  todo,     \* what is left of each process's call
  panic     \* a process has panicked

tableVars == <<ref, type, pipe, writable>>
vars == <<tableVars, ends, irefs, opening, ofile, alive, todo, panic>>

\* Steps of a call.  f and g are files the step holds a reference to.
OpenFdStep(f) == [op |-> "openfd", f |-> f]
OpenTypeStep(f, fd) == [op |-> "opentype", f |-> f, fd |-> fd]
PipeFileStep(f) == [op |-> "pipefile", f |-> f]
PipePageStep(f, g) == [op |-> "pipepage", f |-> f, g |-> g]
CloseStep(f) == [op |-> "close", f |-> f]
PipeCloseStep(q, w) == [op |-> "pipeclose", pipe |-> q, writable |-> w]
IputStep == [op |-> "iput"]
\* dup2's last part: newfd is its local variable.
DupStep(oldfd, newfd) == [op |-> "dup", oldfd |-> oldfd, newfd |-> newfd]

First(S, x) == x \in S /\ \A y \in S : x <= y

Init ==
  /\ ref = [f \in FileIds |-> 0]
  /\ type = [f \in FileIds |-> "FD_NONE"]
  /\ pipe = [f \in FileIds |-> NULL]
  /\ writable = [f \in FileIds |-> FALSE]
  /\ ends = [q \in Pipes |-> {}]
  /\ irefs = 0
  /\ opening = {}
  /\ ofile = [p \in Process |-> [fd \in FD |-> NULL]]
  /\ \E p \in Process : alive = {p}
  /\ todo = [p \in Process |-> <<>>]
  /\ panic = FALSE

\* p is in user space.
User(p) == p \in alive /\ todo[p] = <<>> /\ p \notin opening

\* p's next step is of this kind.
Doing(p, op) == todo[p] # <<>> /\ Head(todo[p]).op = op

\* p goes on with steps s instead of the one it just took.
Then(p, s) == todo' = [todo EXCEPT ![p] = s \o Tail(@)]

FreeFiles == {f \in FileIds : ref[f] = 0}
FreeFds(p) == {fd \in FD : ofile[p][fd] = NULL}

-----------------------------------------------------------------------------
\* sys_open: namei() or create() found an inode.  It will not do, or there is no
\* file for it; or filealloc() has one.
Open(p) ==
  /\ User(p)
  /\ irefs' = irefs + 1
  /\ opening' = opening \cup {p}
  /\ \/ UNCHANGED <<ref, todo>>
     \/ \E f \in FileIds :
          /\ First(FreeFiles, f)
          /\ ref' = [ref EXCEPT ![f] = 1]
          /\ todo' = [todo EXCEPT ![p] = <<OpenFdStep(f)>>]
  /\ UNCHANGED <<type, pipe, writable, ends, ofile, alive, panic>>

\* sys_open: fdalloc(), or fileclose(f).
OpenFd(p) ==
  /\ Doing(p, "openfd")
  /\ LET f == Head(todo[p]).f
     IN  \/ /\ FreeFds(p) = {}
            /\ Then(p, <<CloseStep(f)>>)
            /\ UNCHANGED ofile
         \/ \E fd \in FD :
              /\ First(FreeFds(p), fd)
              /\ ofile' = [ofile EXCEPT ![p][fd] = f]
              /\ Then(p, <<OpenTypeStep(f, fd)>>)
  /\ UNCHANGED <<tableVars, ends, irefs, opening, alive, panic>>

\* sys_open, after end_op(): the fields of the file, which owns the inode now.
OpenType(p) ==
  /\ Doing(p, "opentype") /\ p \in opening
  /\ type' = [type EXCEPT ![Head(todo[p]).f] = "FD_INODE"]
  /\ opening' = opening \ {p}
  /\ Then(p, <<>>)
  /\ UNCHANGED <<ref, pipe, writable, ends, irefs, ofile, alive, panic>>

\* Fault: a call that fails keeps the inode.
OpenFailKeeps(p) ==
  /\ p \in opening /\ todo[p] = <<>>
  /\ opening' = opening \ {p}
  /\ UNCHANGED <<tableVars, ends, irefs, ofile, alive, todo, panic>>

\* sys_open fails: iunlockput(ip).
OpenFail(p) ==
  /\ p \in opening /\ todo[p] = <<>>
  /\ irefs' = irefs - 1
  /\ opening' = opening \ {p}
  /\ UNCHANGED <<tableVars, ends, ofile, alive, todo, panic>>

\* pipealloc: the first filealloc().
Pipe(p) ==
  /\ User(p)
  /\ \E f \in FileIds :
       /\ First(FreeFiles, f)
       /\ ref' = [ref EXCEPT ![f] = 1]
       /\ todo' = [todo EXCEPT ![p] = <<PipeFileStep(f)>>]
  /\ UNCHANGED <<type, pipe, writable, ends, irefs, opening, ofile, alive, panic>>

\* pipealloc: the second one.
PipeFile(p) ==
  /\ Doing(p, "pipefile")
  /\ LET f == Head(todo[p]).f
     IN  \/ /\ FreeFiles = {}
            /\ Then(p, <<CloseStep(f)>>)
            /\ UNCHANGED ref
         \/ \E g \in FileIds :
              /\ First(FreeFiles, g)
              /\ ref' = [ref EXCEPT ![g] = 1]
              /\ Then(p, <<PipePageStep(f, g)>>)
  /\ UNCHANGED <<type, pipe, writable, ends, irefs, opening, ofile, alive, panic>>

\* pipealloc: kalloc() and the fields of both files; sys_pipe: two fdalloc()s.
PipePage(p) ==
  /\ Doing(p, "pipepage")
  /\ LET rf == Head(todo[p]).f
         wf == Head(todo[p]).g
     IN  \/ /\ Then(p, <<CloseStep(rf), CloseStep(wf)>>)
            /\ UNCHANGED <<type, pipe, writable, ends, ofile>>
         \/ \E q \in Pipes :
              /\ ends[q] = {}
              /\ ends' = [ends EXCEPT ![q] = {"read", "write"}]
              /\ type' = [type EXCEPT ![rf] = "FD_PIPE", ![wf] = "FD_PIPE"]
              /\ pipe' = [pipe EXCEPT ![rf] = q, ![wf] = q]
              /\ writable' = [writable EXCEPT ![rf] = FALSE, ![wf] = TRUE]
              /\ \/ /\ Cardinality(FreeFds(p)) < 2
                    /\ Then(p, <<CloseStep(rf), CloseStep(wf)>>)
                    /\ UNCHANGED ofile
                 \/ \E fd0, fd1 \in FD :
                      /\ First(FreeFds(p), fd0) /\ First(FreeFds(p) \ {fd0}, fd1)
                      /\ ofile' = [ofile EXCEPT ![p][fd0] = rf, ![p][fd1] = wf]
                      /\ Then(p, <<>>)
  /\ UNCHANGED <<ref, irefs, opening, alive, panic>>

-----------------------------------------------------------------------------
\* sys_dup: fdalloc(), then filedup().
Dup(p, fd) ==
  /\ User(p) /\ ofile[p][fd] # NULL
  /\ \E new \in FD :
       /\ First(FreeFds(p), new)
       /\ ofile' = [ofile EXCEPT ![p][new] = ofile[p][fd]]
  /\ LET f == ofile[p][fd]
     IN  IF ref[f] < 1
         THEN panic' = TRUE /\ UNCHANGED ref
         ELSE ref' = [ref EXCEPT ![f] = @ + 1] /\ UNCHANGED panic
  /\ UNCHANGED <<type, pipe, writable, ends, irefs, opening, alive, todo>>

\* sys_dup2: a newfd that is open is closed.  argfd sets the local variable
\* newfd only if it is; otherwise it keeps whatever was on the stack.
Dup2(p, oldfd, newfd) ==
  /\ User(p) /\ ofile[p][oldfd] # NULL
  /\ IF AnyDup2 THEN ref[ofile[p][oldfd]] < MaxRef
                ELSE oldfd # newfd /\ ofile[p][newfd] # NULL
  /\ \E any \in FD \cup {Wild} :
       todo' = [todo EXCEPT ![p] =
                  IF ofile[p][newfd] # NULL
                  THEN <<CloseStep(ofile[p][newfd]), DupStep(oldfd, newfd)>>
                  ELSE <<DupStep(oldfd, any)>>]
  /\ UNCHANGED <<tableVars, ends, irefs, opening, ofile, alive, panic>>

\* sys_dup2: filedup(oldfile), and the descriptor.
Dup2Assign(p) ==
  /\ Doing(p, "dup")
  /\ LET d == Head(todo[p])
         f == ofile[p][d.oldfd]
     IN  IF ref[f] < 1
         THEN panic' = TRUE /\ UNCHANGED <<ref, ofile>>
         ELSE /\ ref' = [ref EXCEPT ![f] = @ + 1]
              /\ ofile' = IF d.newfd \in FD THEN [ofile EXCEPT ![p][d.newfd] = f] ELSE ofile
              /\ UNCHANGED panic
  /\ Then(p, <<>>)
  /\ UNCHANGED <<type, pipe, writable, ends, irefs, opening, alive>>

\* sys_close.
Close(p, fd) ==
  /\ User(p) /\ ofile[p][fd] # NULL
  /\ ofile' = [ofile EXCEPT ![p][fd] = NULL]
  /\ todo' = [todo EXCEPT ![p] = <<CloseStep(ofile[p][fd])>>]
  /\ UNCHANGED <<tableVars, ends, irefs, opening, alive, panic>>

\* What remains of fileclose(f) after it dropped the last reference.
Release(f) ==
  CASE type[f] = "FD_PIPE" -> <<PipeCloseStep(pipe[f], writable[f])>>
    [] type[f] = "FD_INODE" -> <<IputStep>>
    [] OTHER -> <<>>

\* fileclose under ftable.lock.
FileClose(p) ==
  /\ Doing(p, "close")
  /\ LET f == Head(todo[p]).f
     IN  IF ref[f] < 1
         THEN panic' = TRUE /\ Then(p, <<>>) /\ UNCHANGED <<ref, type>>
         ELSE /\ ref' = [ref EXCEPT ![f] = @ - 1]
              /\ type' = [type EXCEPT ![f] = IF ref[f] = 1 THEN "FD_NONE" ELSE @]
              /\ Then(p, IF ref[f] = 1 THEN Release(f) ELSE <<>>)
              /\ UNCHANGED panic
  /\ UNCHANGED <<pipe, writable, ends, irefs, opening, ofile, alive>>

PipeClose(p) ==
  /\ Doing(p, "pipeclose")
  /\ LET c == Head(todo[p])
     IN  ends' = [ends EXCEPT ![c.pipe] = @ \ {IF c.writable THEN "write" ELSE "read"}]
  /\ Then(p, <<>>)
  /\ UNCHANGED <<tableVars, irefs, opening, ofile, alive, panic>>

\* begin_op(); iput(ff.ip); end_op().
Iput(p) ==
  /\ Doing(p, "iput")
  /\ irefs' = irefs - 1
  /\ Then(p, <<>>)
  /\ UNCHANGED <<tableVars, ends, opening, ofile, alive, panic>>

-----------------------------------------------------------------------------
\* The slot of q is free: its last process has closed its files and is gone.
Unused(q) == q \notin alive /\ todo[q] = <<>> /\ FreeFds(q) = FD

\* Fault: a file open under two descriptors is counted once.
ForkOnce(p, q) ==
  /\ User(p) /\ Unused(q)
  /\ alive' = alive \cup {q}
  /\ ofile' = [ofile EXCEPT ![q] = [fd \in FD |-> IF ofile[p][fd] # NULL THEN ofile[p][fd]
                                                                        ELSE @[fd]]]
  /\ ref' = [f \in FileIds |-> ref[f] + IF \E fd \in FD : ofile[p][fd] = f THEN 1 ELSE 0]
  /\ UNCHANGED <<type, pipe, writable, ends, irefs, opening, todo, panic>>

\* fork: one filedup() for each descriptor of the parent, which keeps the files
\* open meanwhile, so that the filedup()s commute with what others do.
Fork(p, q) ==
  /\ User(p) /\ Unused(q)
  /\ IF \E fd \in FD : ofile[p][fd] # NULL /\ ref[ofile[p][fd]] < 1
     THEN panic' = TRUE /\ UNCHANGED <<ref, ofile, alive>>
     ELSE /\ alive' = alive \cup {q}
          /\ ofile' = [ofile EXCEPT ![q] =
                         [fd \in FD |-> IF ofile[p][fd] # NULL THEN ofile[p][fd] ELSE @[fd]]]
          /\ ref' = [f \in FileIds |-> ref[f] + Cardinality({fd \in FD : ofile[p][fd] = f})]
          /\ UNCHANGED panic
  /\ UNCHANGED <<type, pipe, writable, ends, irefs, opening, todo>>

\* exit, which never returns to user space.
Exit(p) ==
  /\ User(p) /\ Cardinality(alive) > 1
  /\ alive' = alive \ {p}
  /\ UNCHANGED <<tableVars, ends, irefs, opening, ofile, todo, panic>>

\* exit: the next descriptor of its loop is closed.  The code clears it after
\* fileclose(), but nobody else can see it.
ExitFile(p) ==
  /\ p \notin alive /\ todo[p] = <<>>
  /\ \E fd \in FD :
       /\ First(FD \ FreeFds(p), fd)
       /\ ofile' = [ofile EXCEPT ![p][fd] = NULL]
       /\ todo' = [todo EXCEPT ![p] = <<CloseStep(ofile[p][fd])>>]
  /\ UNCHANGED <<tableVars, ends, irefs, opening, alive, panic>>

-----------------------------------------------------------------------------
Step(p) ==
  \/ OpenFd(p) \/ OpenType(p) \/ OpenFail(p) \/ PipeFile(p) \/ PipePage(p) \/ Dup2Assign(p)
  \/ FileClose(p) \/ PipeClose(p) \/ Iput(p) \/ ExitFile(p)

Call(p) ==
  \/ Open(p) \/ Pipe(p) \/ Exit(p)
  \/ \E fd \in FD : Dup(p, fd) \/ Close(p, fd)
  \/ \E oldfd, newfd \in FD : Dup2(p, oldfd, newfd)
  \/ \E q \in Process : Fork(p, q)

\* panic() stops every CPU.
Next == ~panic /\ \E p \in Process : Step(p) \/ Call(p)

Spec == Init /\ [][Next]_vars

-----------------------------------------------------------------------------
(***************************************************************************)
(* Properties.                                                             *)
(***************************************************************************)

\* Every variable keeps to its range.
TypeOK ==
  /\ ref \in [FileIds -> Nat]
  /\ type \in [FileIds -> {"FD_NONE", "FD_PIPE", "FD_INODE"}]
  /\ pipe \in [FileIds -> Pipes \cup {NULL}]
  /\ writable \in [FileIds -> BOOLEAN]
  /\ ends \in [Pipes -> SUBSET {"read", "write"}]
  /\ irefs \in Nat
  /\ ofile \in [Process -> [FD -> FileIds \cup {NULL}]]
  /\ alive \subseteq Process /\ opening \subseteq Process
  /\ panic \in BOOLEAN

Pending(p) == {todo[p][i] : i \in DOMAIN todo[p]}

\* Descriptor fd of p is changing: dup2 has closed, or is about to close, what it
\* refers to, or open has not yet filled in the file.
Replaced(p, fd) ==
  \E s \in Pending(p) :
    \/ s.op = "dup" /\ s.newfd = fd
    \/ s.op = "opentype" /\ s.fd = fd

\* The references to f: descriptors, and processes with a step that still holds
\* one (no call holds two).
Descriptors(f) ==
  {x \in Process \X FD : ofile[x[1]][x[2]] = f /\ ~Replaced(x[1], x[2])}
Holds(s, f) ==
  \/ s.op \in {"openfd", "opentype", "pipefile", "close"} /\ s.f = f
  \/ s.op = "pipepage" /\ f \in {s.f, s.g}
Held(f) == {p \in Process : \E s \in Pending(p) : Holds(s, f)}

\* The count of every file is the number of references to it, so a file is
\* closed when its last descriptor goes, in whichever process, and not before.
RefCount == \A f \in FileIds : ref[f] = Cardinality(Descriptors(f)) + Cardinality(Held(f))

\* A descriptor refers to a file that is open, except to its process in a call.
FdValid ==
  \A p \in Process, fd \in FD :
    ofile[p][fd] # NULL /\ ~Replaced(p, fd) => type[ofile[p][fd]] # "FD_NONE"

\* An end of a pipe is open exactly while a file refers to it, or the closer of
\* that file has still to call pipeclose: no pipe is freed under a file, and
\* none is leaked, whichever step of pipe() fails.
PipeEnds ==
  \A q \in Pipes, w \in BOOLEAN :
    (IF w THEN "write" ELSE "read") \in ends[q] <=>
      \/ \E f \in FileIds : type[f] = "FD_PIPE" /\ pipe[f] = q /\ writable[f] = w
      \/ \E p \in Process : PipeCloseStep(q, w) \in Pending(p)

\* A reference to an inode is owned by a file, by an open() that may still fail,
\* or by the closer of a file, and is dropped once.
InodeRefs ==
  irefs = Cardinality({f \in FileIds : type[f] = "FD_INODE"})
          + Cardinality({p \in Process : IputStep \in Pending(p)})
          + Cardinality(opening)

\* Behind every descriptor is an open file, and behind the open files exactly the
\* pipe ends and inode references that are held: fileclose gives back each of
\* them once, though it does so after it let the table's lock go.
ObjectsExact == FdValid /\ PipeEnds /\ InodeRefs

\* fileclose and filedup do not panic.
NoPanic == ~panic
=============================================================================
